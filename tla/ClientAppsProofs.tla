-------------------------- MODULE ClientAppsProofs --------------------------
(***************************************************************************)
(* For any number of clients of any kind and any Publish calls: a client   *)
(* prints what its stream delivers, in order and without gaps, each event  *)
(* once, and only responses of calls that have a provider and did not      *)
(* fail; and a client that is registered when a broadcast begins is        *)
(* reached by it.  The proofs use of the bus what EventDelivery promises,  *)
(* which BusProofs shows of both buses.                                    *)
(***************************************************************************)
EXTENDS ClientApps, SequenceTheorems, TLAPS

Receivers == {"none", "dial", "recv", "hand", "ended"}

ClientTypes ==
    /\ mailbox \in [Streams -> Seq(Events)]
    /\ delivered \in [Streams -> Seq(Events)]
    /\ hand \in [Streams -> Events \cup {None}]
    /\ receiver \in [Streams -> Receivers]
    /\ taken \in [Streams -> Nat]
    /\ shown \in [Streams -> Seq(Events)]
    /\ DOMAIN main = Streams

(* The goroutine starts once, with the stream: a goroutine that has ended, *)
(* perhaps with an event left over, is never started again.  It has an     *)
(* event in its hands exactly while it offers one, so that Recv never      *)
(* overwrites one, and it has received no more than was delivered.         *)
GoroutineInv ==
    \A c \in Streams :
        /\ main[c] = "start" => receiver[c] = "none"
        /\ hand[c] # None <=> receiver[c] = "hand"
        /\ taken[c] <= Len(delivered[c])

CInv == ClientTypes /\ GoroutineInv /\ ShownIsDelivered

(* What the contract lets happen to the events delivered to a client.      *)
DeliveredGrows ==
    /\ mailbox' \in [Streams -> Seq(Events)]
    /\ delivered' \in [Streams -> Seq(Events)]
    /\ \A c \in Streams : \/ delivered'[c] = delivered[c]
                          \/ \E e \in Events : delivered'[c] = Append(delivered[c], e)

Left(c) == IF hand[c] = None THEN <<>> ELSE <<hand[c]>>

Received(c) == SubSeq(delivered[c], 1, taken[c])

ShownInv(c) ==
    IF receiver[c] # "ended" THEN Received(c) = shown[c] \o Left(c)
    ELSE Received(c) = shown[c] \/ \E e \in Events : Received(c) = Append(shown[c], e)

(* ShownIsDelivered, client by client.                                     *)
LEMMA ShownByClient == ShownIsDelivered <=> \A c \in Streams : ShownInv(c)
  BY DEF ShownIsDelivered, ShownInv, Left, Received

-----------------------------------------------------------------------------
(* Sequences.                                                              *)

(* A prefix is not changed by what is appended.                            *)
LEMMA PrefixOfAppend ==
    ASSUME NEW S, NEW q \in Seq(S), NEW e \in S, NEW n \in Nat, n <= Len(q)
    PROVE  SubSeq(Append(q, e), 1, n) = SubSeq(q, 1, n)
  OBVIOUS

(* The next prefix has the next element at its end.                        *)
LEMMA LongerPrefix ==
    ASSUME NEW S, NEW q \in Seq(S), NEW n \in Nat, n < Len(q)
    PROVE  SubSeq(q, 1, n + 1) = Append(SubSeq(q, 1, n), q[n + 1])
  OBVIOUS

(* A concatenation with one event, or with none.                           *)
LEMMA ConcatSingle ==
    ASSUME NEW S, NEW q \in Seq(S), NEW e \in S
    PROVE  q \o <<e>> = Append(q, e) /\ q \o <<>> = q
  OBVIOUS

-----------------------------------------------------------------------------
(* The bus is used as the contract says.                                   *)

(* What a step does to the bus: one of the steps of the server, or nothing. *)
BusStep ==
    \/ \E c \in Streams : Register(c) \/ Unregister(c) \/ SendEvent(c)
    \/ \E p \in Events : BroadcastBegins(p) \/ BroadcastEnds(p)
    \/ \E p \in Events, c \in Streams : BroadcastOffers(p, c)

(* Every step is one of these or leaves the bus alone.                     *)
LEMMA NextBus == [Next]_vars => BusStep \/ UNCHANGED <<dvars, refused>>
<1> SUFFICES ASSUME [Next]_vars PROVE BusStep \/ UNCHANGED <<dvars, refused>>
  OBVIOUS
<1>1. CASE UNCHANGED vars
  BY <1>1 DEF vars
<1>2. ASSUME NEW c \in Streams, Register(c) \/ Unregister(c) \/ SendEvent(c)
      PROVE  BusStep
  BY <1>2 DEF BusStep
<1>3. ASSUME NEW c \in Streams, StreamBreaks(c) \/ ReceiverStep(c) \/ SubscribeReturns(c)
      PROVE  UNCHANGED <<dvars, refused>>
  BY <1>3 DEF StreamBreaks, ReceiverStep, Recv, RecvFails, HandOver, GiveUpHanding,
     SubscribeReturns
<1>4. ASSUME NEW c \in Streams, EmitStep(c) PROVE UNCHANGED <<dvars, refused>>
  BY <1>4 DEF EmitStep, StartSubscriber, Proceed, EmitSucceeds, EmitReturns, EmitPublishes
<1>5. ASSUME NEW c \in Streams,
             \/ AppSubscribes(c) \/ AppSubscribeFails(c) \/ Interrupt(c) \/ AppReturns(c)
             \/ HeartbeatReturns(c) \/ \E p \in Events : Heartbeat(c, p)
      PROVE  UNCHANGED <<dvars, refused>>
  BY <1>5 DEF AppSubscribes, AppSubscribeFails, Interrupt, AppReturns, HeartbeatReturns,
     Heartbeat
<1>6. ASSUME NEW p \in Events, OthersPublish(p) \/ ServePublish(p)
      PROVE  BusStep \/ UNCHANGED <<dvars, refused>>
  BY <1>6 DEF OthersPublish, ServePublish, Acknowledge, PublishFails, BusStep
<1> QED
  BY <1>1, <1>2, <1>3, <1>4, <1>5, <1>6 DEF Next

(* A step of the clients is a step of the contract or leaves its state     *)
(* alone.                                                                  *)
LEMMA NextContract == [Next]_vars => [DNext]_dvars
  BY NextBus DEF BusStep, Register, Unregister, SendEvent, BroadcastBegins, BroadcastEnds,
     BroadcastOffers, DNext

(* The contract only appends to what was delivered.                        *)
LEMMA ContractGrows ==
    ASSUME ClientTypes, [DNext]_dvars PROVE DeliveredGrows
<1> USE DEF ClientTypes
<1>1. CASE UNCHANGED dvars
  BY <1>1 DEF dvars, DeliveredGrows
<1>2. ASSUME NEW s \in Streams, Join(s) \/ Leave(s) PROVE DeliveredGrows
  <2>1. <<>> \in Seq(Events)
    OBVIOUS
  <2>2. mailbox' \in [Streams -> Seq(Events)]
    BY <1>2, <2>1 DEF Join, Leave
  <2> QED
    BY <1>2, <2>2 DEF Join, Leave, DeliveredGrows
<1>3. ASSUME NEW s \in Streams, Deliver(s) PROVE DeliveredGrows
  <2>1. Head(mailbox[s]) \in Events /\ Tail(mailbox[s]) \in Seq(Events)
    BY <1>3 DEF Deliver
  <2> QED
    BY <1>3, <2>1 DEF Deliver, DeliveredGrows
<1>4. ASSUME NEW e \in Events, Start(e) \/ Finish(e) PROVE DeliveredGrows
  BY <1>4 DEF Start, Finish, DeliveredGrows
<1>5. ASSUME NEW e \in Events, NEW s \in Streams, Offer(e, s) PROVE DeliveredGrows
  <2>1. Append(mailbox[s], e) \in Seq(Events)
    OBVIOUS
  <2>2. mailbox' \in [Streams -> Seq(Events)]
    BY <1>5, <2>1 DEF Offer
  <2> QED
    BY <1>5, <2>2 DEF Offer, DeliveredGrows
<1> QED
  BY <1>1, <1>2, <1>3, <1>4, <1>5 DEF DNext

-----------------------------------------------------------------------------
(* One client at a time: what must hold of client c, and that a step that  *)
(* leaves its goroutines alone keeps it.                                   *)

GoroutineOf(c) ==
    /\ main[c] = "start" => receiver[c] = "none"
    /\ hand[c] # None <=> receiver[c] = "hand"
    /\ taken[c] <= Len(delivered[c])

ClientInv(c) == GoroutineOf(c) /\ ShownInv(c)

(* The invariant, client by client.                                        *)
LEMMA InvByClient == CInv <=> ClientTypes /\ \A c \in Streams : ClientInv(c)
  BY ShownByClient DEF CInv, GoroutineInv, GoroutineOf, ClientInv

Idle(c) ==
    /\ main'[c] = "start" => main[c] = "start"
    /\ receiver'[c] = receiver[c] /\ hand'[c] = hand[c]
    /\ taken'[c] = taken[c] /\ shown'[c] = shown[c]

(* What was received stays received while more is delivered.               *)
LEMMA IdleClient ==
    ASSUME NEW c \in Streams, ClientTypes, ClientInv(c), DeliveredGrows, Idle(c)
    PROVE  ClientInv(c)'
<1> USE DEF ClientTypes
<1>1. /\ taken[c] \in Nat /\ delivered[c] \in Seq(Events)
      /\ taken[c] <= Len(delivered[c])
  BY DEF ClientInv, GoroutineOf
<1>2. Received(c)' = Received(c) /\ taken[c] <= Len(delivered'[c])
  <2>1. CASE delivered'[c] = delivered[c]
    BY <1>1, <2>1 DEF Received, Idle
  <2>2. ASSUME NEW e \in Events, delivered'[c] = Append(delivered[c], e)
        PROVE  Received(c)' = Received(c) /\ taken[c] <= Len(delivered'[c])
    BY <1>1, <2>2, PrefixOfAppend DEF Received, Idle
  <2> QED
    BY <2>1, <2>2 DEF DeliveredGrows
<1>3. Left(c)' = Left(c)
  BY DEF Left, Idle
<1>4. ShownInv(c)'
  BY <1>2, <1>3 DEF ShownInv, ClientInv, Idle
<1>5. GoroutineOf(c)'
  BY <1>2 DEF GoroutineOf, ClientInv, Idle
<1> QED
  BY <1>4, <1>5 DEF ClientInv

-----------------------------------------------------------------------------
(* The steps of client c.                                                  *)

(* Another client is not touched: enough to look at c itself.              *)
LEMMA StepOfClient ==
    ASSUME CInv, NEW c \in Streams, UNCHANGED dvars, ClientTypes', ClientInv(c)',
           \A o \in Streams \ {c} : Idle(o)
    PROVE  CInv'
<1>1. DeliveredGrows
  BY ContractGrows DEF CInv
<1>2. \A o \in Streams \ {c} : ClientInv(o)'
  BY <1>1, IdleClient, InvByClient
<1>3. \A o \in Streams : ClientInv(o)'
  BY <1>2
<1>4. (ClientTypes /\ \A o \in Streams : ClientInv(o))'
  BY <1>3
<1> QED
  BY <1>4, InvByClient DEF CInv, GoroutineInv, GoroutineOf, ClientInv, ShownIsDelivered,
     ShownInv, Left, Received

(* Recv takes the next event into the goroutine's empty hands, or prints   *)
(* it.                                                                     *)
LEMMA RecvStep == ASSUME CInv, NEW c \in Streams, Recv(c) PROVE CInv'
<1> DEFINE e == delivered[c][taken[c] + 1]
<1>0. ClientTypes /\ ClientInv(c)
  BY InvByClient
<1>1. /\ taken[c] \in Nat /\ delivered[c] \in Seq(Events) /\ shown[c] \in Seq(Events)
      /\ taken[c] < Len(delivered[c]) /\ hand[c] = None /\ receiver[c] = "recv"
  BY <1>0 DEF Recv, ClientTypes, ClientInv, GoroutineOf
<1>2. e \in Events
  BY <1>1, ElementOfSeq
<1>3. /\ taken' = [taken EXCEPT ![c] = taken[c] + 1] /\ taken'[c] = taken[c] + 1
      /\ delivered' = delivered /\ mailbox' = mailbox /\ main' = main
  BY <1>0 DEF Recv, dvars, ClientTypes
<1>4. Received(c) = shown[c]
  BY <1>0, <1>1, ConcatSingle DEF ClientInv, ShownInv, Left
<1>5. Received(c)' = Append(shown[c], e)
  BY <1>1, <1>3, <1>4, LongerPrefix DEF Received
<1>6. e # None
  BY <1>2, ClientAssumption
<1>7. CASE IsApp(c)
  <2>1. /\ hand' = [hand EXCEPT ![c] = e]
        /\ receiver' = [receiver EXCEPT ![c] = "hand"] /\ shown' = shown
    BY <1>3, <1>7 DEF Recv
  <2>2. ClientTypes'
    BY <1>0, <1>2, <1>3, <2>1 DEF ClientTypes, Receivers
  <2>3. hand'[c] = e /\ receiver'[c] = "hand" /\ shown'[c] = shown[c]
    BY <1>0, <2>1 DEF ClientTypes
  <2>4. GoroutineOf(c)'
    BY <1>0, <1>1, <1>3, <1>6, <2>3 DEF GoroutineOf, ClientInv
  <2>5. Left(c)' = <<e>>
    BY <1>6, <2>3 DEF Left
  <2>6. ShownInv(c)'
    BY <1>1, <1>2, <1>5, <2>3, <2>5, ConcatSingle DEF ShownInv
  <2>7. \A o \in Streams \ {c} : Idle(o)
    BY <1>0, <1>3, <2>1 DEF Idle, ClientTypes
  <2> QED
    BY <2>2, <2>4, <2>6, <2>7, StepOfClient DEF ClientInv, Recv
<1>8. CASE ~IsApp(c)
  <2>1. shown' = [shown EXCEPT ![c] = Append(shown[c], e)] /\ receiver' = receiver /\ hand' = hand
    BY <1>3, <1>8 DEF Recv
  <2>2. Append(shown[c], e) \in Seq(Events)
    BY <1>1, <1>2
  <2>3. ClientTypes'
    BY <1>0, <1>3, <2>1, <2>2 DEF ClientTypes
  <2>4. GoroutineOf(c)'
    BY <1>0, <1>1, <1>3, <2>1 DEF GoroutineOf, ClientInv
  <2>5. shown'[c] = Append(shown[c], e) /\ Left(c)' = <<>> /\ receiver'[c] = "recv"
    BY <1>0, <1>1, <2>1 DEF Left, ClientTypes
  <2>6. ShownInv(c)'
    BY <1>2, <1>5, <2>2, <2>5, ConcatSingle DEF ShownInv
  <2>7. \A o \in Streams \ {c} : Idle(o)
    BY <1>0, <1>3, <2>1 DEF Idle, ClientTypes
  <2> QED
    BY <2>3, <2>4, <2>6, <2>7, StepOfClient DEF ClientInv, Recv
<1> QED
  BY <1>7, <1>8

(* The application prints the event that the goroutine held.               *)
LEMMA HandOverStep == ASSUME CInv, NEW c \in Streams, HandOver(c) PROVE CInv'
<1>0. ClientTypes /\ ClientInv(c)
  BY InvByClient
<1>1. hand[c] \in Events /\ shown[c] \in Seq(Events)
  BY <1>0 DEF HandOver, ClientTypes, ClientInv, GoroutineOf
<1>2. Append(shown[c], hand[c]) \in Seq(Events)
  BY <1>1
<1>3. /\ hand' = [hand EXCEPT ![c] = None] /\ receiver' = [receiver EXCEPT ![c] = "recv"]
      /\ shown' = [shown EXCEPT ![c] = Append(shown[c], hand[c])]
      /\ taken' = taken /\ main' = main /\ delivered' = delivered /\ mailbox' = mailbox
      /\ receiver[c] = "hand" /\ main[c] = "listen"
  BY DEF HandOver, dvars
<1>4. ClientTypes'
  BY <1>0, <1>2, <1>3 DEF ClientTypes, Receivers
<1>5. /\ hand'[c] = None /\ receiver'[c] = "recv"
      /\ shown'[c] = Append(shown[c], hand[c])
  BY <1>0, <1>3 DEF ClientTypes
<1>6. GoroutineOf(c)'
  BY <1>0, <1>3, <1>5 DEF ClientInv, GoroutineOf
<1>7. Received(c) = Append(shown[c], hand[c])
  BY <1>0, <1>1, <1>3, ClientAssumption, ConcatSingle DEF ClientInv, ShownInv, Left
<1>8. Received(c)' = Received(c) /\ Left(c)' = <<>>
  BY <1>3, <1>5 DEF Received, Left
<1>9. ShownInv(c)'
  BY <1>1, <1>2, <1>5, <1>7, <1>8, ConcatSingle DEF ShownInv
<1>10. \A o \in Streams \ {c} : Idle(o)
  BY <1>0, <1>3 DEF Idle, ClientTypes
<1> QED
  BY <1>4, <1>6, <1>9, <1>10, StepOfClient DEF ClientInv, HandOver

(* A goroutine ends, by itself or with its process: at most the event in   *)
(* its hands is left over.                                                 *)
GoroutineEnds(c) ==
    /\ receiver' = [receiver EXCEPT ![c] = "ended"]
    /\ hand' = [hand EXCEPT ![c] = None]
    /\ DOMAIN main' = Streams /\ main'[c] # "start"
    /\ \A o \in Streams \ {c} : main'[o] = main[o]
    /\ UNCHANGED <<dvars, taken, shown>>

(* A goroutine that ends keeps the invariant.                              *)
LEMMA GoroutineEndsStep == ASSUME CInv, NEW c \in Streams, GoroutineEnds(c) PROVE CInv'
<1>0. ClientTypes /\ ClientInv(c)
  BY InvByClient
<1>1. ClientTypes'
  BY <1>0 DEF GoroutineEnds, ClientTypes, Receivers, dvars
<1>2. /\ hand'[c] = None /\ receiver'[c] = "ended" /\ shown'[c] = shown[c]
      /\ taken'[c] = taken[c] /\ delivered'[c] = delivered[c]
  BY <1>0 DEF GoroutineEnds, ClientTypes, dvars
<1>3. GoroutineOf(c)'
  BY <1>0, <1>2 DEF ClientInv, GoroutineOf, GoroutineEnds
<1>4. Received(c)' = Received(c)
  BY <1>2 DEF Received
<1>5. Received(c) = shown[c] \/ \E e \in Events : Received(c) = Append(shown[c], e)
  <2>1. CASE receiver[c] = "ended"
    BY <1>0, <2>1 DEF ClientInv, ShownInv
  <2>2. CASE receiver[c] # "ended"
    <3>1. hand[c] \in Events \cup {None} /\ shown[c] \in Seq(Events)
      BY <1>0 DEF ClientTypes
    <3>2. Received(c) = shown[c] \o Left(c)
      BY <1>0, <2>2 DEF ClientInv, ShownInv
    <3>3. CASE hand[c] = None
      BY <3>1, <3>2, <3>3, ConcatSingle DEF Left
    <3>4. CASE hand[c] # None
      BY <3>1, <3>2, <3>4, ConcatSingle DEF Left
    <3> QED
      BY <3>3, <3>4
  <2> QED
    BY <2>1, <2>2
<1>6. ShownInv(c)'
  BY <1>2, <1>4, <1>5 DEF ShownInv
<1>7. \A o \in Streams \ {c} : Idle(o)
  BY <1>0 DEF Idle, ClientTypes, GoroutineEnds
<1> QED
  BY <1>1, <1>3, <1>6, <1>7, StepOfClient DEF ClientInv, GoroutineEnds

(* Before it receives, a goroutine has nothing in its hands.               *)
GoroutineStarts(c) ==
    /\ receiver[c] \in {"none", "dial"}
    /\ \E to \in {"dial", "recv"} : receiver' = [receiver EXCEPT ![c] = to]
    /\ DOMAIN main' = Streams /\ main'[c] # "start"
    /\ \A o \in Streams \ {c} : main'[o] = main[o]
    /\ UNCHANGED <<dvars, hand, taken, shown>>

(* A goroutine that starts keeps the invariant.                            *)
LEMMA GoroutineStartsStep == ASSUME CInv, NEW c \in Streams, GoroutineStarts(c) PROVE CInv'
<1>0. ClientTypes /\ ClientInv(c)
  BY InvByClient
<1>1. PICK to \in {"dial", "recv"} : receiver' = [receiver EXCEPT ![c] = to]
  BY DEF GoroutineStarts
<1>2. /\ receiver[c] \notin {"ended", "hand"} /\ receiver'[c] \notin {"ended", "hand"}
      /\ hand' = hand /\ taken' = taken /\ shown' = shown /\ delivered' = delivered
      /\ mailbox' = mailbox
  BY <1>0, <1>1 DEF GoroutineStarts, ClientTypes, dvars
<1>3. ClientTypes'
  BY <1>0, <1>1, <1>2 DEF ClientTypes, Receivers, GoroutineStarts
<1>4. GoroutineOf(c)'
  BY <1>0, <1>2 DEF ClientInv, GoroutineOf, GoroutineStarts
<1>5. ShownInv(c)'
  BY <1>0, <1>2 DEF ClientInv, ShownInv, Received, Left
<1>6. \A o \in Streams \ {c} : Idle(o)
  BY <1>0, <1>1, <1>2 DEF Idle, ClientTypes, GoroutineStarts
<1> QED
  BY <1>3, <1>4, <1>5, <1>6, StepOfClient DEF ClientInv, GoroutineStarts

(* A step that leaves every receiving goroutine alone; the main function   *)
(* never comes back to its start.                                          *)
LEMMA QuietStep ==
    ASSUME CInv, DeliveredGrows, DOMAIN main' = Streams,
           UNCHANGED <<receiver, hand, taken, shown>>,
           \A c \in Streams : main'[c] = "start" => main[c] = "start"
    PROVE  CInv'
<1>1. ClientTypes'
  BY DEF CInv, ClientTypes, DeliveredGrows
<1>2. \A c \in Streams : Idle(c)
  BY DEF Idle
<1>3. \A c \in Streams : ClientInv(c)'
  BY <1>2, IdleClient, InvByClient
<1> QED
  BY <1>1, <1>3 DEF CInv, GoroutineInv, GoroutineOf, ClientInv, ShownIsDelivered,
     ShownInv, Left, Received

(* Every step of every client and of its server keeps the invariant.       *)
LEMMA NextCInv == CInv /\ [Next]_vars => CInv'
<1> SUFFICES ASSUME CInv, [Next]_vars PROVE CInv'
  OBVIOUS
<1>0. ClientTypes /\ DeliveredGrows /\ DOMAIN main = Streams
  BY NextContract, ContractGrows DEF CInv, ClientTypes
<1>1. CASE UNCHANGED vars
  BY <1>0, <1>1, QuietStep DEF vars, processes
<1>2. ASSUME NEW c \in Streams,
             Register(c) \/ Unregister(c) \/ SendEvent(c) \/ StreamBreaks(c)
      PROVE  CInv'
  BY <1>0, <1>2, QuietStep DEF Register, Unregister, SendEvent, StreamBreaks, processes
<1>3. ASSUME NEW c \in Streams, RecvFails(c) \/ GiveUpHanding(c) PROVE CInv'
  <2>1. main[c] # "start" /\ main' = main
    BY <1>3 DEF RecvFails, GiveUpHanding, CInv, GoroutineInv
  <2>2. hand' = [hand EXCEPT ![c] = None]
    BY <1>0, <1>3 DEF RecvFails, GiveUpHanding, CInv, GoroutineInv, ClientTypes
  <2>3. GoroutineEnds(c)
    BY <1>0, <1>3, <2>1, <2>2 DEF RecvFails, GiveUpHanding, GoroutineEnds
  <2> QED
    BY <2>3, GoroutineEndsStep
<1>4. ASSUME NEW c \in Streams, Exit(c), UNCHANGED dvars PROVE CInv'
  <2>1. GoroutineEnds(c)
    BY <1>0, <1>4 DEF Exit, GoroutineEnds
  <2> QED
    BY <2>1, GoroutineEndsStep
<1>5. ASSUME NEW c \in Streams, AppSubscribes(c) \/ StartSubscriber(c) PROVE CInv'
  <2>1. receiver[c] = "none"
    BY <1>5 DEF AppSubscribes, StartSubscriber, At, CInv, GoroutineInv
  <2>2. GoroutineStarts(c)
    BY <1>0, <1>5, <2>1 DEF AppSubscribes, StartSubscriber, At, GoroutineStarts
  <2> QED
    BY <2>2, GoroutineStartsStep
<1>6. ASSUME NEW c \in Streams, SubscribeReturns(c) PROVE CInv'
  <2>1. main[c] # "start" /\ main' = main /\ receiver[c] = "dial"
    BY <1>6 DEF SubscribeReturns, CInv, GoroutineInv
  <2>2. CASE receiver' = [receiver EXCEPT ![c] = "recv"]
    <3>1. GoroutineStarts(c)
      BY <1>0, <1>6, <2>1, <2>2 DEF SubscribeReturns, GoroutineStarts
    <3> QED
      BY <3>1, GoroutineStartsStep
  <2>3. CASE receiver' = [receiver EXCEPT ![c] = "ended"]
    <3>1. hand' = [hand EXCEPT ![c] = None]
      BY <1>0, <1>6, <2>1 DEF SubscribeReturns, CInv, GoroutineInv, ClientTypes
    <3>2. GoroutineEnds(c)
      BY <1>0, <1>6, <2>1, <2>3, <3>1 DEF SubscribeReturns, GoroutineEnds
    <3> QED
      BY <3>2, GoroutineEndsStep
  <2> QED
    BY <1>6, <2>2, <2>3 DEF SubscribeReturns
<1>7. ASSUME NEW c \in Streams,
             Proceed(c) \/ EmitSucceeds(c) \/ \E p \in Events : EmitPublishes(c, p)
      PROVE  CInv'
  <2>1. DOMAIN main' = Streams /\ \A o \in Streams : main'[o] = "start" => main[o] = "start"
    BY <1>0, <1>7 DEF Proceed, EmitSucceeds, EmitPublishes, At
  <2> QED
    BY <1>0, <1>7, <2>1, QuietStep DEF Proceed, EmitSucceeds, EmitPublishes
<1>8. ASSUME NEW c \in Streams,
             Interrupt(c) \/ HeartbeatReturns(c) \/ \E p \in Events : Heartbeat(c, p)
      PROVE  CInv'
  BY <1>0, <1>8, QuietStep DEF Interrupt, HeartbeatReturns, Heartbeat
<1>9. ASSUME NEW p \in Events, OthersPublish(p) \/ ServePublish(p) PROVE CInv'
  BY <1>0, <1>9, QuietStep DEF OthersPublish, ServePublish, Acknowledge, PublishFails,
     BroadcastBegins, BroadcastOffers, BroadcastEnds, processes
<1>10. ASSUME NEW c \in Streams, ReceiverStep(c) PROVE CInv'
  BY <1>3, <1>10, RecvStep, HandOverStep DEF ReceiverStep
<1>11. ASSUME NEW c \in Streams, EmitStep(c) PROVE CInv'
  BY <1>4, <1>5, <1>7, <1>11 DEF EmitStep, EmitReturns
<1>12. ASSUME NEW c \in Streams, AppSubscribeFails(c) \/ AppReturns(c) PROVE CInv'
  BY <1>4, <1>12 DEF AppSubscribeFails, AppReturns
<1> QED
  BY <1>1, <1>2, <1>5, <1>6, <1>8, <1>9, <1>10, <1>11, <1>12 DEF Next

(* At first nothing is delivered, received or shown.                       *)
LEMMA InitCInv == Init => CInv
<1> SUFFICES ASSUME Init PROVE CInv
  OBVIOUS
<1>1. <<>> \in Seq(Events) /\ Len(<<>>) = 0
  OBVIOUS
<1>2. ClientTypes
  BY <1>1 DEF Init, DInit, ClientTypes, Receivers
<1>3. ASSUME NEW c \in Streams PROVE GoroutineOf(c)
  <2>1. taken[c] = 0 /\ Len(delivered[c]) = 0
    BY <1>1 DEF Init, DInit
  <2>2. receiver[c] = "none" /\ hand[c] = None
    BY DEF Init
  <2> QED
    BY <2>1, <2>2 DEF GoroutineOf
<1>4. ASSUME NEW c \in Streams PROVE ShownInv(c)
  <2>1. delivered[c] = <<>> /\ taken[c] = 0 /\ shown[c] = <<>> /\ Left(c) = <<>>
    BY DEF Init, DInit, Left
  <2>2. Received(c) = <<>>
    BY <2>1 DEF Received
  <2> QED
    BY <1>1, <2>1, <2>2, ConcatSingle DEF ShownInv, Init
<1> QED
  BY <1>2, <1>3, <1>4, InvByClient DEF ClientInv

(* The inductive invariant holds of every behaviour of the clients.        *)
THEOREM SpecCInv == ClientSpec => []CInv
  BY InitCInv, NextCInv, PTL DEF ClientSpec

(* A client prints what its stream delivers, in that order and without     *)
(* gaps, whatever ends the stream, the client or the server; only a        *)
(* goroutine that has ended can have received one event more.              *)
THEOREM ClientsShowWhatIsDelivered == ClientSpec => []ShownIsDelivered
<1>1. CInv => ShownIsDelivered
  BY DEF CInv
<1> QED
  BY <1>1, SpecCInv, PTL

-----------------------------------------------------------------------------
(* What a client is shown, and how often.  This part rests on the contract *)
(* of the bus and on what Publish broadcasts.                              *)

Distinct(q) == \A i, j \in 1..Len(q) : q[i] = q[j] => i = j

Accepted(c) == delivered[c] \o mailbox[c]

(* What makes the contract deliver an event once to a stream: what a      *)
(* stream has accepted is not to be offered to it again.                   *)
ContractInv ==
    /\ mailbox \in [Streams -> Seq(Events)]
    /\ delivered \in [Streams -> Seq(Events)]
    /\ DOMAIN phase = Events /\ DOMAIN audience = Events
    /\ \A c \in Streams : Distinct(Accepted(c))
    /\ \A e \in Events, c \in Streams :
          phase[e] = "new" \/ c \in audience[e] =>
              \A i \in 1..Len(Accepted(c)) : Accepted(c)[i] # e
    /\ \A e \in Events : phase[e] = "new" => audience[e] = {}

(* Only a response, of a call with a provider that does not fail, is       *)
(* broadcast.                                                              *)
ResponsesOnly ==
    /\ DOMAIN pub = Events
    /\ \A e \in Events : phase[e] # "new" => e \in Answered /\ pub[e] \in {"sent", "ok"}

(* A stream is given no event twice.                                       *)
DeliveredOnce ==
    \A c \in Streams :
        \A i, j \in 1..Len(delivered[c]) : delivered[c][i] = delivered[c][j] => i = j

(* No client prints an event twice, and every event it prints is the       *)
(* response of a Publish call that has a provider and did not fail.        *)
ShownOnce ==
    \A c \in Streams :
        /\ \A i, j \in 1..Len(shown[c]) : shown[c][i] = shown[c][j] => i = j
        /\ \A i \in 1..Len(shown[c]) :
              shown[c][i] \in Answered /\ pub[shown[c][i]] \in {"sent", "ok"}

(* Delivering the head of a mailbox leaves the accepted events as they are. *)
LEMMA DeliverKeepsAccepted ==
    ASSUME NEW S, NEW d \in Seq(S), NEW m \in Seq(S), m # <<>>
    PROVE  Append(d, Head(m)) \o Tail(m) = d \o m
<1>1. /\ Append(d, Head(m)) \in Seq(S) /\ Tail(m) \in Seq(S)
      /\ Len(Append(d, Head(m))) = Len(d) + 1 /\ Len(Tail(m)) = Len(m) - 1
  OBVIOUS
<1>2. \A i \in 1..Len(d) : Append(d, Head(m))[i] = d[i]
  OBVIOUS
<1>3. Append(d, Head(m))[Len(d) + 1] = m[1]
  OBVIOUS
<1>4. \A i \in 1..Len(Tail(m)) : Tail(m)[i] = m[i + 1]
  OBVIOUS
<1> QED
  BY <1>1, <1>2, <1>3, <1>4

(* An accepted offer comes last.                                           *)
LEMMA AcceptOne ==
    ASSUME NEW S, NEW d \in Seq(S), NEW m \in Seq(S), NEW e \in S
    PROVE  d \o Append(m, e) = Append(d \o m, e)
  OBVIOUS

(* Accepting an event that was not accepted before makes no duplicate.     *)
LEMMA AppendDistinct ==
    ASSUME NEW S, NEW q \in Seq(S), NEW e \in S, Distinct(q), \A i \in 1..Len(q) : q[i] # e
    PROVE  Distinct(Append(q, e))
  BY DEF Distinct

(* A prefix of what was accepted.                                          *)
LEMMA DeliveredAccepted ==
    ASSUME NEW S, NEW d \in Seq(S), NEW m \in Seq(S)
    PROVE  /\ Len(d) <= Len(d \o m) /\ d \o <<>> = d
           /\ \A i \in 1..Len(d) : i \in 1..Len(d \o m) /\ (d \o m)[i] = d[i]
  OBVIOUS

(* A step that neither accepts nor starts an event, and offers no more.    *)
LEMMA NothingAccepted ==
    ASSUME ContractInv, DOMAIN phase' = Events, DOMAIN audience' = Events,
           mailbox' \in [Streams -> Seq(Events)], delivered' \in [Streams -> Seq(Events)],
           \A c \in Streams : Accepted(c)' = Accepted(c) \/ Accepted(c)' = delivered[c],
           \A e \in Events : phase'[e] = "new" => phase[e] = "new",
           \A e \in Events : audience'[e] \subseteq audience[e]
    PROVE  ContractInv'
<1>1. ASSUME NEW c \in Streams
      PROVE  /\ Distinct(Accepted(c))'
             /\ \A i \in 1..Len(Accepted(c)') : \E k \in 1..Len(Accepted(c)) :
                   Accepted(c)'[i] = Accepted(c)[k]
  <2>1. /\ Len(delivered[c]) <= Len(Accepted(c)) /\ delivered[c] \in Seq(Events)
        /\ \A i \in 1..Len(delivered[c]) : /\ i \in 1..Len(Accepted(c))
                                           /\ Accepted(c)[i] = delivered[c][i]
    BY DeliveredAccepted DEF ContractInv, Accepted
  <2>2. Distinct(Accepted(c))
    BY DEF ContractInv
  <2>3. CASE Accepted(c)' = Accepted(c)
    BY <2>2, <2>3 DEF Distinct
  <2>4. CASE Accepted(c)' = delivered[c]
    BY <2>1, <2>2, <2>4 DEF Distinct
  <2> QED
    BY <2>3, <2>4
<1>2. ASSUME NEW e \in Events, NEW c \in Streams, phase'[e] = "new" \/ c \in audience'[e]
      PROVE  \A i \in 1..Len(Accepted(c)') : Accepted(c)'[i] # e
  <2>1. phase[e] = "new" \/ c \in audience[e]
    BY <1>2
  <2>2. \A i \in 1..Len(Accepted(c)) : Accepted(c)[i] # e
    BY <2>1 DEF ContractInv
  <2> QED
    BY <1>1, <2>2
<1>3. \A e \in Events : phase'[e] = "new" => audience'[e] = {}
  BY DEF ContractInv
<1> QED
  BY <1>1, <1>2, <1>3 DEF ContractInv, Accepted

(* Every step of the contract keeps its invariant: the one that accepts an *)
(* event takes the stream out of the audience, and the one that begins a   *)
(* broadcast is for an event no stream has.                                *)
LEMMA NextContractInv == ContractInv /\ [DNext]_dvars => ContractInv'
<1> SUFFICES ASSUME ContractInv, [DNext]_dvars PROVE ContractInv'
  OBVIOUS
<1>0. /\ mailbox \in [Streams -> Seq(Events)] /\ delivered \in [Streams -> Seq(Events)]
      /\ DOMAIN phase = Events /\ DOMAIN audience = Events
      /\ <<>> \in Seq(Events)
  BY DEF ContractInv
<1>1. CASE UNCHANGED dvars
  BY <1>0, <1>1, NothingAccepted DEF dvars, Accepted
<1>2. ASSUME NEW s \in Streams, Join(s) PROVE ContractInv'
  BY <1>0, <1>2, NothingAccepted DEF Join, Accepted
<1>3. ASSUME NEW s \in Streams, Leave(s) PROVE ContractInv'
  <2>1. mailbox' \in [Streams -> Seq(Events)] /\ delivered' = delivered /\ phase' = phase
    BY <1>0, <1>3 DEF Leave
  <2>2. ASSUME NEW c \in Streams
        PROVE  Accepted(c)' = Accepted(c) \/ Accepted(c)' = delivered[c]
    BY <1>0, <1>3, DeliveredAccepted DEF Leave, Accepted
  <2>3. DOMAIN audience' = Events /\ \A e \in Events : audience'[e] \subseteq audience[e]
    BY <1>3 DEF Leave
  <2> QED
    BY <1>0, <2>1, <2>2, <2>3, NothingAccepted
<1>4. ASSUME NEW s \in Streams, Deliver(s) PROVE ContractInv'
  <2>1. /\ mailbox[s] \in Seq(Events) /\ delivered[s] \in Seq(Events) /\ mailbox[s] # <<>>
        /\ Tail(mailbox[s]) \in Seq(Events)
        /\ Append(delivered[s], Head(mailbox[s])) \in Seq(Events)
    BY <1>0, <1>4 DEF Deliver
  <2>2. /\ mailbox' \in [Streams -> Seq(Events)] /\ delivered' \in [Streams -> Seq(Events)]
        /\ phase' = phase /\ audience' = audience
    BY <1>0, <1>4, <2>1 DEF Deliver
  <2>3. ASSUME NEW c \in Streams PROVE Accepted(c)' = Accepted(c)
    <3>1. CASE c # s
      BY <1>0, <1>4, <3>1 DEF Deliver, Accepted
    <3>2. Append(delivered[s], Head(mailbox[s])) \o Tail(mailbox[s]) = Accepted(s)
      BY <2>1, DeliverKeepsAccepted DEF Accepted
    <3>3. /\ delivered'[s] = Append(delivered[s], Head(mailbox[s]))
          /\ mailbox'[s] = Tail(mailbox[s])
      BY <1>0, <1>4 DEF Deliver
    <3> QED
      BY <3>1, <3>2, <3>3 DEF Accepted
  <2> QED
    BY <1>0, <2>2, <2>3, NothingAccepted
<1>5. ASSUME NEW e \in Events, Finish(e) PROVE ContractInv'
  BY <1>0, <1>5, NothingAccepted DEF Finish, Accepted
<1>6. ASSUME NEW e \in Events, Start(e) PROVE ContractInv'
  <2>1. /\ \A c \in Streams : Accepted(c)' = Accepted(c)
        /\ mailbox' = mailbox /\ delivered' = delivered
        /\ DOMAIN phase' = Events /\ DOMAIN audience' = Events
        /\ phase[e] = "new" /\ phase'[e] = "active"
        /\ \A f \in Events \ {e} : phase'[f] = phase[f] /\ audience'[f] = audience[f]
    BY <1>0, <1>6 DEF Start, Accepted
  <2>2. \A f \in Events, c \in Streams :
            phase'[f] = "new" \/ c \in audience'[f] => phase[f] = "new" \/ c \in audience[f]
    BY <2>1
  <2>3. \A f \in Events : phase'[f] = "new" => audience'[f] = {}
    BY <2>1 DEF ContractInv
  <2> QED
    BY <2>1, <2>2, <2>3 DEF ContractInv, Distinct
<1>7. ASSUME NEW e \in Events, NEW s \in Streams, Offer(e, s) PROVE ContractInv'
  <2>1. /\ delivered' = delivered /\ phase' = phase /\ DOMAIN audience' = Events
        /\ phase[e] = "active" /\ s \in audience[e] /\ s \notin audience'[e]
        /\ \A f \in Events : audience'[f] \subseteq audience[f]
    BY <1>0, <1>7 DEF Offer
  <2>2. CASE mailbox' = mailbox
    BY <1>0, <2>1, <2>2, NothingAccepted DEF Accepted
  <2>3. CASE mailbox' = [mailbox EXCEPT ![s] = Append(mailbox[s], e)]
    <3>1. Append(mailbox[s], e) \in Seq(Events) /\ Accepted(s) \in Seq(Events)
      BY <1>0 DEF Accepted
    <3>2. mailbox' \in [Streams -> Seq(Events)]
      BY <1>0, <2>3, <3>1
    <3>3. /\ Accepted(s)' = Append(Accepted(s), e)
          /\ \A c \in Streams \ {s} : Accepted(c)' = Accepted(c)
      BY <1>0, <2>1, <2>3, AcceptOne DEF Accepted
    <3>4. \A i \in 1..Len(Accepted(s)) : Accepted(s)[i] # e
      BY <2>1 DEF ContractInv
    <3>5. Distinct(Append(Accepted(s), e))
      BY <3>1, <3>4, AppendDistinct DEF ContractInv
    <3>6. ASSUME NEW c \in Streams PROVE Distinct(Accepted(c))'
      <4>1. CASE c = s
        BY <3>3, <3>5, <4>1 DEF Distinct
      <4>2. CASE c # s
        BY <3>3, <4>2 DEF ContractInv, Distinct
      <4> QED
        BY <4>1, <4>2
    <3>7. ASSUME NEW f \in Events, NEW c \in Streams, phase'[f] = "new" \/ c \in audience'[f],
                 NEW i \in 1..Len(Accepted(c)')
          PROVE  Accepted(c)'[i] # f
      <4>1. \A k \in 1..Len(Accepted(c)) : Accepted(c)[k] # f
        BY <2>1, <3>7 DEF ContractInv
      <4>2. CASE c # s
        BY <3>3, <3>7, <4>1, <4>2
      <4>3. CASE c = s
        <5>1. f # e
          BY <2>1, <3>7, <4>3
        <5> QED
          BY <3>1, <3>3, <3>7, <4>1, <4>3, <5>1
      <4> QED
        BY <4>2, <4>3
    <3>8. \A f \in Events : phase'[f] = "new" => audience'[f] = {}
      BY <2>1 DEF ContractInv
    <3> QED
      BY <1>0, <2>1, <3>2, <3>6, <3>7, <3>8 DEF ContractInv
  <2> QED
    BY <1>7, <2>2, <2>3 DEF Offer
<1> QED
  BY <1>1, <1>2, <1>3, <1>4, <1>5, <1>6, <1>7 DEF DNext

(* At first no stream has accepted anything.                               *)
LEMMA InitContractInv == DInit => ContractInv
<1> SUFFICES ASSUME DInit PROVE ContractInv
  OBVIOUS
<1>1. <<>> \in Seq(Events)
  OBVIOUS
<1>2. ASSUME NEW c \in Streams PROVE Len(Accepted(c)) = 0
  BY <1>1 DEF DInit, Accepted
<1> QED
  BY <1>1, <1>2 DEF DInit, ContractInv, Distinct

(* The delivery contract gives no stream an event twice, however           *)
(* broadcasts, deliveries and the end of streams interleave: for the two   *)
(* buses this follows from their implementing it.                          *)
THEOREM ContractDeliversOnce == DSpec => []DeliveredOnce
<1>1. ContractInv => DeliveredOnce
  <2> SUFFICES ASSUME ContractInv, NEW c \in Streams
               PROVE  \A i, j \in 1..Len(delivered[c]) :
                          delivered[c][i] = delivered[c][j] => i = j
    BY DEF DeliveredOnce
  <2>1. \A i \in 1..Len(delivered[c]) : /\ i \in 1..Len(Accepted(c))
                                        /\ Accepted(c)[i] = delivered[c][i]
    BY DeliveredAccepted DEF ContractInv, Accepted
  <2>2. Distinct(Accepted(c))
    BY DEF ContractInv
  <2> QED
    BY <2>1, <2>2 DEF Distinct
<1> QED
  BY <1>1, InitContractInv, NextContractInv, PTL DEF DSpec

(* A call that has been broadcast does not fail afterwards, and only a     *)
(* call with a provider is broadcast.                                      *)
LEMMA NextResponses == ContractInv /\ ResponsesOnly /\ [Next]_vars => ResponsesOnly'
<1> SUFFICES ASSUME ContractInv, ResponsesOnly, [Next]_vars PROVE ResponsesOnly'
  OBVIOUS
<1>0. DOMAIN phase = Events /\ DOMAIN pub = Events
  BY DEF ContractInv, ResponsesOnly
<1>1. CASE phase' = phase /\ pub' = pub
  BY <1>1 DEF ResponsesOnly
<1>2. ASSUME NEW p \in Events, phase' = phase, pub[p] = "new",
             pub' = [pub EXCEPT ![p] = "sent"]
      PROVE  ResponsesOnly'
  BY <1>0, <1>2 DEF ResponsesOnly
<1>3. ASSUME NEW p \in Events, ServePublish(p) PROVE ResponsesOnly'
  <2>1. CASE Acknowledge(p)
    BY <1>0, <2>1 DEF Acknowledge, ResponsesOnly, dvars
  <2>2. CASE PublishFails(p)
    BY <1>0, <2>2 DEF PublishFails, ResponsesOnly, dvars
  <2>3. CASE BroadcastBegins(p)
    BY <1>0, <2>3 DEF BroadcastBegins, Start, ResponsesOnly
  <2>4. CASE BroadcastEnds(p)
    BY <1>0, <2>4 DEF BroadcastEnds, Finish, ResponsesOnly
  <2>5. ASSUME NEW c \in Streams, BroadcastOffers(p, c) PROVE ResponsesOnly'
    BY <1>1, <2>5 DEF BroadcastOffers, Offer
  <2> QED
    BY <1>3, <2>1, <2>2, <2>3, <2>4, <2>5 DEF ServePublish
<1>4. ASSUME NEW p \in Events, OthersPublish(p) PROVE ResponsesOnly'
  BY <1>2, <1>4 DEF OthersPublish, dvars
<1>5. ASSUME NEW c \in Streams, NEW p \in Events, Heartbeat(c, p) \/ EmitPublishes(c, p)
      PROVE  ResponsesOnly'
  BY <1>2, <1>5 DEF Heartbeat, EmitPublishes, dvars
<1>6. ASSUME NEW c \in Streams, Register(c) \/ Unregister(c) \/ SendEvent(c) \/ StreamBreaks(c)
      PROVE  ResponsesOnly'
  BY <1>1, <1>6 DEF Register, Unregister, SendEvent, StreamBreaks, Join, Leave, Deliver, dvars
<1>7. ASSUME NEW c \in Streams, ReceiverStep(c) \/ SubscribeReturns(c) PROVE ResponsesOnly'
  BY <1>1, <1>7 DEF ReceiverStep, Recv, RecvFails, HandOver, GiveUpHanding, SubscribeReturns,
     dvars
<1>8. ASSUME NEW c \in Streams,
             \/ StartSubscriber(c) \/ Proceed(c) \/ EmitSucceeds(c) \/ EmitReturns(c)
             \/ AppSubscribes(c) \/ AppSubscribeFails(c) \/ Interrupt(c) \/ AppReturns(c)
             \/ HeartbeatReturns(c)
      PROVE  ResponsesOnly'
  BY <1>1, <1>8 DEF StartSubscriber, Proceed, EmitSucceeds, EmitReturns, AppSubscribes,
     AppSubscribeFails, Interrupt, AppReturns, HeartbeatReturns, dvars
<1>9. CASE UNCHANGED vars
  BY <1>1, <1>9 DEF vars, dvars
<1>10. ASSUME NEW c \in Streams, EmitStep(c) PROVE ResponsesOnly'
  BY <1>5, <1>8, <1>10 DEF EmitStep
<1> QED
  BY <1>3, <1>4, <1>5, <1>6, <1>7, <1>8, <1>9, <1>10 DEF Next

(* What is shown was received, in the same places.                         *)
LEMMA ShownIsPrefix ==
    ASSUME CInv, NEW c \in Streams
    PROVE  \A i \in 1..Len(shown[c]) : /\ i \in 1..Len(delivered[c])
                                       /\ delivered[c][i] = shown[c][i]
<1>0. /\ ClientTypes /\ ClientInv(c)
      /\ shown[c] \in Seq(Events) /\ delivered[c] \in Seq(Events) /\ taken[c] \in Nat
      /\ taken[c] <= Len(delivered[c])
  BY InvByClient DEF ClientTypes, ClientInv, GoroutineOf
<1>1. /\ Len(Received(c)) = taken[c]
      /\ \A i \in 1..taken[c] : Received(c)[i] = delivered[c][i]
  BY <1>0 DEF Received
<1>2. Left(c) \in Seq(Events)
  BY <1>0 DEF Left, ClientTypes
<1>3. /\ Len(shown[c]) <= Len(Received(c))
      /\ \A i \in 1..Len(shown[c]) : Received(c)[i] = shown[c][i]
  <2>1. CASE Received(c) = shown[c] \o Left(c)
    BY <1>0, <1>2, <2>1, DeliveredAccepted
  <2>2. CASE Received(c) = shown[c]
    BY <1>0, <2>2
  <2>3. ASSUME NEW e \in Events, Received(c) = Append(shown[c], e)
        PROVE  /\ Len(shown[c]) <= Len(Received(c))
               /\ \A i \in 1..Len(shown[c]) : Received(c)[i] = shown[c][i]
    BY <1>0, <2>3
  <2> QED
    BY <1>0, <2>1, <2>2, <2>3 DEF ClientInv, ShownInv
<1> QED
  BY <1>0, <1>1, <1>3

(* No client prints an event twice, and every event that a client prints   *)
(* is the response of a Publish call that has a provider and did not fail, *)
(* for any number of clients and calls.                                    *)
THEOREM ClientsShowOnce == ClientSpec => []ShownOnce
<1>1. Init => ContractInv /\ ResponsesOnly
  BY InitContractInv DEF Init, DInit, ResponsesOnly
<1>2. ContractInv /\ ResponsesOnly /\ [Next]_vars => (ContractInv /\ ResponsesOnly)'
  BY NextContract, NextContractInv, NextResponses
<1>3. CInv /\ ContractInv /\ ResponsesOnly => ShownOnce
  <2> SUFFICES ASSUME CInv, ContractInv, ResponsesOnly, NEW c \in Streams
               PROVE  /\ \A i, j \in 1..Len(shown[c]) : shown[c][i] = shown[c][j] => i = j
                      /\ \A i \in 1..Len(shown[c]) : /\ shown[c][i] \in Answered
                                                     /\ pub[shown[c][i]] \in {"sent", "ok"}
    BY DEF ShownOnce
  <2>1. \A i \in 1..Len(delivered[c]) : /\ i \in 1..Len(Accepted(c))
                                        /\ Accepted(c)[i] = delivered[c][i]
    BY DeliveredAccepted DEF ContractInv, Accepted
  <2>2. \A i \in 1..Len(shown[c]) : /\ i \in 1..Len(Accepted(c))
                                    /\ Accepted(c)[i] = shown[c][i]
    BY <2>1, ShownIsPrefix
  <2>3. Distinct(Accepted(c))
    BY DEF ContractInv
  <2>4. ASSUME NEW i \in 1..Len(shown[c])
        PROVE  shown[c][i] \in Answered /\ pub[shown[c][i]] \in {"sent", "ok"}
    <3>1. shown[c][i] \in Events
      BY ElementOfSeq DEF CInv, ClientTypes
    <3>2. phase[shown[c][i]] # "new"
      BY <2>2, <3>1 DEF ContractInv
    <3> QED
      BY <3>1, <3>2 DEF ResponsesOnly
  <2> QED
    BY <2>2, <2>3, <2>4 DEF Distinct
<1> QED
  BY <1>1, <1>2, <1>3, SpecCInv, PTL DEF ClientSpec

-----------------------------------------------------------------------------
(* Who hears a response.                                                   *)

(* Event p is on its way to client c, has reached its stream, or found its *)
(* channel full.                                                           *)
Reached(p, c) ==
    \/ c \in audience[p]
    \/ <<p, c>> \in refused
    \/ \E i \in 1..Len(Accepted(c)) : Accepted(c)[i] = p

(* A stream that the server has registered when the broadcast of p begins  *)
(* is reached by p, and an event that reaches a stream is not lost again,  *)
(* until the stream ends.                                                  *)
RegisteredIsReached ==
    [][\A p \in Events, c \in Streams :
          \/ Reached(p, c)
          \/ state[c] = "open" /\ phase[p] = "new" /\ phase'[p] # "new"
          => Reached(p, c)' \/ state'[c] = "ended"]_vars

(* A step elsewhere leaves an event where it is.                           *)
LEMMA ReachedKept ==
    ASSUME NEW p \in Events, NEW c \in Streams, Reached(p, c),
           audience'[p] = audience[p], refused \subseteq refused',
           Accepted(c)' = Accepted(c)
    PROVE  Reached(p, c)'
  BY DEF Reached

(* Each step of the server, and what it does to the events on their way.   *)
LEMMA ReachedStep ==
    ASSUME ContractInv, DOMAIN state = Streams, [Next]_vars,
           NEW p \in Events, NEW c \in Streams,
           \/ Reached(p, c)
           \/ state[c] = "open" /\ phase[p] = "new" /\ phase'[p] # "new"
    PROVE  Reached(p, c)' \/ state'[c] = "ended"
<1>0. /\ mailbox \in [Streams -> Seq(Events)] /\ delivered \in [Streams -> Seq(Events)]
      /\ DOMAIN phase = Events /\ DOMAIN audience = Events
  BY DEF ContractInv
<1>1. CASE UNCHANGED <<dvars, refused>>
  BY <1>1, ReachedKept DEF dvars, Accepted
<1>2. ASSUME NEW s \in Streams, Register(s) PROVE Reached(p, c)'
  BY <1>2, ReachedKept DEF Register, Join, Accepted
<1>3. ASSUME NEW s \in Streams, Unregister(s) PROVE Reached(p, c)' \/ state'[c] = "ended"
  <2>1. CASE s = c
    BY <1>3, <2>1 DEF Unregister, Leave
  <2>2. CASE s # c
    <3>1. Reached(p, c) /\ Accepted(c)' = Accepted(c) /\ refused' = refused
      BY <1>0, <1>3, <2>2 DEF Unregister, Leave, Accepted
    <3>2. c \in audience[p] => c \in audience'[p]
      BY <1>3, <2>2 DEF Unregister, Leave
    <3> QED
      BY <3>1, <3>2 DEF Reached
  <2> QED
    BY <2>1, <2>2
<1>4. ASSUME NEW s \in Streams, SendEvent(s) PROVE Reached(p, c)'
  <2>1. /\ delivered'[s] = Append(delivered[s], Head(mailbox[s]))
        /\ mailbox'[s] = Tail(mailbox[s]) /\ mailbox[s] # <<>>
        /\ mailbox[s] \in Seq(Events) /\ delivered[s] \in Seq(Events)
        /\ \A o \in Streams \ {s} : delivered'[o] = delivered[o] /\ mailbox'[o] = mailbox[o]
    BY <1>0, <1>4 DEF SendEvent, Deliver
  <2>2. Append(delivered[s], Head(mailbox[s])) \o Tail(mailbox[s]) = delivered[s] \o mailbox[s]
    BY <2>1, DeliverKeepsAccepted
  <2>3. Accepted(c)' = Accepted(c)
    BY <2>1, <2>2 DEF Accepted
  <2> QED
    BY <1>4, <2>3, ReachedKept DEF SendEvent, Deliver
<1>5. ASSUME NEW e \in Events, BroadcastBegins(e) PROVE Reached(p, c)'
  <2>1. CASE e = p
    <3>1. /\ phase[p] = "new" /\ audience'[p] = Open
          /\ refused' = refused /\ Accepted(c)' = Accepted(c)
      BY <1>0, <1>5, <2>1 DEF BroadcastBegins, Start, Accepted
    <3>2. c \notin audience[p] /\ \A i \in 1..Len(Accepted(c)) : Accepted(c)[i] # p
      BY <3>1 DEF ContractInv
    <3> QED
      BY <3>1, <3>2 DEF Reached, Open
  <2>2. CASE e # p
    BY <1>0, <1>5, <2>2, ReachedKept DEF BroadcastBegins, Start, Accepted
  <2> QED
    BY <2>1, <2>2
<1>6. ASSUME NEW e \in Events, BroadcastEnds(e) PROVE Reached(p, c)'
  <2>1. Reached(p, c)
    BY <1>0, <1>6 DEF BroadcastEnds, Finish
  <2> QED
    BY <1>6, <2>1, ReachedKept DEF BroadcastEnds, Finish, Accepted
<1>7. ASSUME NEW e \in Events, NEW s \in Streams, BroadcastOffers(e, s) PROVE Reached(p, c)'
  <2>1. /\ Reached(p, c) /\ delivered' = delivered /\ refused \subseteq refused'
        /\ audience' = [audience EXCEPT ![e] = audience[e] \ {s}]
    BY <1>7 DEF BroadcastOffers, Offer
  <2>2. mailbox' = mailbox \/ mailbox' = [mailbox EXCEPT ![s] = Append(mailbox[s], e)]
    BY <1>7 DEF BroadcastOffers, Offer
  <2>3. CASE e = p /\ s = c
    <3>1. CASE mailbox' = mailbox
      BY <1>7, <2>3, <3>1 DEF BroadcastOffers, Reached
    <3>2. CASE mailbox' = [mailbox EXCEPT ![s] = Append(mailbox[s], e)]
      <4>1. Accepted(c)' = Append(Accepted(c), p) /\ Accepted(c) \in Seq(Events)
        BY <1>0, <2>1, <2>3, <3>2, AcceptOne DEF Accepted
      <4>2. /\ Len(Accepted(c)) + 1 \in 1..Len(Accepted(c)')
            /\ Accepted(c)'[Len(Accepted(c)) + 1] = p
        BY <4>1
      <4> QED
        BY <4>2 DEF Reached
    <3> QED
      BY <2>2, <3>1, <3>2
  <2>4. CASE ~(e = p /\ s = c)
    <3>1. c \in audience[p] => c \in audience'[p]
      BY <1>0, <2>1, <2>4
    <3>2. Accepted(c)' = Accepted(c) \/ Accepted(c)' = Append(Accepted(c), e)
      <4>1. mailbox'[c] = mailbox[c] \/ mailbox'[c] = Append(mailbox[c], e)
        BY <1>0, <2>2
      <4>2. delivered[c] \o Append(mailbox[c], e) = Append(delivered[c] \o mailbox[c], e)
        BY <1>0, AcceptOne
      <4>3. delivered'[c] = delivered[c]
        BY <2>1
      <4> QED
        BY <4>1, <4>2, <4>3 DEF Accepted
    <3>3. Accepted(c) \in Seq(Events)
      BY <1>0 DEF Accepted
    <3>4. (\E i \in 1..Len(Accepted(c)) : Accepted(c)[i] = p) =>
              \E i \in 1..Len(Accepted(c)') : Accepted(c)'[i] = p
      BY <3>2, <3>3
    <3> QED
      BY <2>1, <3>1, <3>4 DEF Reached
  <2> QED
    BY <2>3, <2>4
<1> QED
  BY <1>1, <1>2, <1>3, <1>4, <1>5, <1>6, <1>7, NextBus DEF BusStep

(* A client whose handler the server has registered before the broadcast   *)
(* of a response begins is offered that response, finds it in its stream   *)
(* or has had its channel full, and this stays so until its stream ends:   *)
(* only the gap between the client's call and its registration loses a     *)
(* response without a trace.                                               *)
THEOREM RegisteredClientsAreReached == ClientSpec => RegisteredIsReached
<1>1. Init => ContractInv /\ DOMAIN state = Streams
  BY InitContractInv DEF Init, DInit
<1>2. ContractInv /\ DOMAIN state = Streams /\ [Next]_vars =>
          (ContractInv /\ DOMAIN state = Streams)'
  <2>1. DOMAIN state = Streams /\ [DNext]_dvars => DOMAIN state' = Streams
    BY DEF DNext, dvars, Join, Leave, Deliver, Start, Finish, Offer
  <2> QED
    BY <2>1, NextContract, NextContractInv
<1>3. ContractInv /\ DOMAIN state = Streams /\ [Next]_vars =>
        [\A p \in Events, c \in Streams :
            \/ Reached(p, c)
            \/ state[c] = "open" /\ phase[p] = "new" /\ phase'[p] # "new"
            => Reached(p, c)' \/ state'[c] = "ended"]_vars
  BY ReachedStep
<1> QED
  BY <1>1, <1>2, <1>3, PTL DEF ClientSpec, RegisteredIsReached
=============================================================================
