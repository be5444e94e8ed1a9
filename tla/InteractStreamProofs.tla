------------------------ MODULE InteractStreamProofs ------------------------
(***************************************************************************)
(* For any capacity of the data channels and any number of chunks: the     *)
(* client gets the provider's chunks in order and, when the call succeeds, *)
(* all of them, and a goroutine that has an error to report finds room in  *)
(* errChan.                                                                *)
(***************************************************************************)
EXTENDS InteractStream, SequenceTheorems, TLAPS

-----------------------------------------------------------------------------
(* The inductive invariant.  The chunks travel through clientStream, the   *)
(* provider and serverStream in the order of their numbers: each channel   *)
(* holds the numbers that follow those that have left it.                  *)

(* Chunks the provider has taken, and chunks the handler has forwarded.    *)
Taken == IF prov = "emit" THEN emitted + 1 ELSE emitted
Forwarded == Len(out) - 1

(* What waits in clientStream, while there is a provider to take it.       *)
InputOrder ==
    prov \in {"off", "run", "emit"} =>
       /\ \A k \in DOMAIN clientStream : clientStream[k] = Taken + k
       /\ prov = "emit" => answer = Taken
       /\ Taken + Len(clientStream) <= received
       /\ recv \in {"off", "recv"} => received = Taken + Len(clientStream)
       /\ recv = "put" => received = Taken + Len(clientStream) + 1

(* What waits in serverStream, while the handler forwards.                 *)
OutputOrder ==
    main = "loop" =>
       /\ Len(out) >= 1
       /\ \A k \in 2 .. Len(out) : out[k].kind = "data"
       /\ \A k \in DOMAIN serverStream : serverStream[k] = Forwarded + k
       /\ emitted = Forwarded + Len(serverStream)

(* Before the ready message nothing has happened; success is reported only *)
(* when the provider has ended.                                            *)
Phases ==
    /\ main \in {"handshake", "ready"} =>
          recv = "off" /\ prov = "off" /\ out = <<>> /\ serverStream = <<>> /\ emitted = 0
    /\ main # "done" => result = "none"
    /\ serverClosed => prov = "done"
    /\ result = "OK" => serverClosed

Counts ==
    /\ received \in 0..Chunks /\ emitted \in 0..received
    /\ item \in 0..Chunks /\ answer \in 0..Chunks
    /\ recv = "put" => item = received /\ received > 0
    /\ prov = "emit" => answer > 0

(* The two other parts of TypeOK.                                          *)
ControlTypes ==
    /\ main \in {"handshake", "ready", "loop", "done"}
    /\ result \in {"none", "OK", "InvalidArgument", "NotFound", "Internal",
                   "FailedPrecondition", "Canceled"}
    /\ recv \in {"off", "recv", "put", "done"}
    /\ prov \in {"off", "run", "emit", "close", "done"}
    /\ clientClosed \in BOOLEAN /\ serverClosed \in BOOLEAN /\ ctxDone \in BOOLEAN

ChannelTypes ==
    /\ clientStream \in Seq(1..Chunks) /\ Len(clientStream) <= Cap
    /\ serverStream \in Seq(1..Chunks) /\ Len(serverStream) <= Cap
    /\ errChan \in Seq({"receiver", "provider"}) /\ Len(errChan) <= ErrCap
    /\ out \in Seq(Message)

(* Each of the two goroutines that report errors reports at most one, and  *)
(* ends with it.                                                           *)
OneErrorEach ==
    /\ recv # "done" => \A k \in DOMAIN errChan : errChan[k] # "receiver"
    /\ prov \notin {"close", "done"} => \A k \in DOMAIN errChan : errChan[k] # "provider"
    /\ \A j, k \in DOMAIN errChan : errChan[j] = errChan[k] => j = k

StreamInv ==
    /\ ControlTypes /\ ChannelTypes /\ Counts /\ Phases
    /\ InputOrder /\ OutputOrder /\ SuccessIsComplete /\ OneErrorEach

(* A goroutine that reports an error never waits for room in errChan, so   *)
(* none is kept from its deferred close by a handler that has returned.    *)
ErrorsNeverBlock ==
    recv = "recv" \/ prov \in {"run", "emit"} => Len(errChan) < ErrCap

-----------------------------------------------------------------------------
(* The messages to the client are messages.                                *)
LEMMA MsgType ==
    /\ Msg("ready", 0) \in Message /\ Msg("server_end", 0) \in Message
    /\ Msg("error", 0) \in Message
    /\ \A n \in 1..Chunks : Msg("data", n) \in Message
  BY InteractAssumption DEF Msg, Message

(* What a channel holds after a send, and after a receive.                 *)
LEMMA Put ==
    ASSUME NEW S, NEW s \in Seq(S), NEW x \in S
    PROVE  /\ Append(s, x) \in Seq(S)
           /\ Len(Append(s, x)) = Len(s) + 1 /\ Len(s) \in Nat
           /\ DOMAIN Append(s, x) = 1 .. Len(s) + 1 /\ DOMAIN s = 1 .. Len(s)
           /\ \A k \in 1 .. Len(s) : Append(s, x)[k] = s[k]
           /\ Append(s, x)[Len(s) + 1] = x
  BY AppendProperties

LEMMA Take ==
    ASSUME NEW S, NEW s \in Seq(S), s # <<>>
    PROVE  /\ Tail(s) \in Seq(S) /\ Head(s) \in S /\ Head(s) = s[1]
           /\ Len(s) \in Nat \ {0} /\ Len(Tail(s)) = Len(s) - 1
           /\ DOMAIN s = 1 .. Len(s) /\ DOMAIN Tail(s) = 1 .. Len(s) - 1
           /\ \A k \in 1 .. Len(s) - 1 : Tail(s)[k] = s[k + 1]
  BY HeadTailProperties

(* The parts make up the type invariant.                                   *)
LEMMA TypesAreParts == ControlTypes /\ ChannelTypes /\ Counts => TypeOK
<1> SUFFICES ASSUME ControlTypes, ChannelTypes, Counts PROVE TypeOK
  OBVIOUS
<1>1. {item, answer, received, emitted} \subseteq 0..Chunks
  BY InteractAssumption DEF Counts
<1>2. {clientClosed, serverClosed, ctxDone} \subseteq BOOLEAN
  BY DEF ControlTypes
<1> QED
  BY <1>1, <1>2 DEF TypeOK, ControlTypes, ChannelTypes

(* The initial state satisfies the invariant.                              *)
LEMMA StreamInvInit == Init => StreamInv
<1> SUFFICES ASSUME Init PROVE StreamInv
  OBVIOUS
<1> USE InteractAssumption DEF Init
<1>1. ControlTypes /\ ChannelTypes /\ Counts
  <2>1. ControlTypes
    BY DEF ControlTypes
  <2>2. ChannelTypes
    BY DEF ChannelTypes
  <2>3. Counts
    BY DEF Counts
  <2> QED
    BY <2>1, <2>2, <2>3
<1>2. Phases /\ InputOrder /\ OutputOrder /\ SuccessIsComplete /\ OneErrorEach
  BY DEF Phases, InputOrder, OutputOrder, SuccessIsComplete, OneErrorEach, Taken, Forwarded
<1> QED
  BY <1>1, <1>2, TypesAreParts DEF StreamInv

(* Each step leaves the goroutines and the flags in one of their states.   *)
LEMMA ControlTypesStep ==
    ASSUME ControlTypes, [Next]_vars PROVE ControlTypes'
<1> USE DEF ControlTypes, inputVars, outputVars, mainVars, Finish
<1>1. ASSUME NEW code \in {"InvalidArgument", "NotFound", "Internal", "FailedPrecondition"},
             Reject(code)
      PROVE  ControlTypes'
  BY <1>1 DEF Reject
<1>2. CASE MainStep \/ SendFails \/ ClientGone
  BY <1>2 DEF MainStep, AcceptConfig, SendReady, ForwardData, SendServerEnd, SendError,
     Cancelled, SendFails, ClientGone
<1>3. CASE ReceiveData \/ PutClientStream \/ ReceiverEnds \/ ReceiverFails
  BY <1>3 DEF ReceiveData, PutClientStream, ReceiverEnds, ReceiverFails
<1>4. CASE ProviderStep \/ ProviderFails
  BY <1>4 DEF ProviderStep, TakeClientStream, Emit, ProviderEnds, CloseServerStream, ProviderFails
<1>5. CASE UNCHANGED vars
  BY <1>5 DEF vars
<1> QED
  BY <1>1, <1>2, <1>3, <1>4, <1>5 DEF Next

(* Each step keeps the channels typed and within their capacity.           *)
LEMMA ChannelTypesStep ==
    ASSUME ControlTypes, ChannelTypes, Counts, [Next]_vars PROVE ChannelTypes'
<1> USE InteractAssumption, MsgType DEF ChannelTypes, inputVars, outputVars, mainVars
<1>0. \A m \in Message : Append(out, m) \in Seq(Message)
  BY Put
<1>1. CASE SendReady \/ SendServerEnd
  BY <1>0, <1>1 DEF SendReady, SendServerEnd
<1>2. CASE ForwardData
  <2>1. Tail(serverStream) \in Seq(1..Chunks) /\ Head(serverStream) \in 1..Chunks
        /\ Len(Tail(serverStream)) <= Cap
    BY <1>2, Take DEF ForwardData
  <2>2. Append(out, Msg("data", Head(serverStream))) \in Seq(Message)
    BY <1>0, <2>1
  <2> QED
    BY <1>2, <2>1, <2>2 DEF ForwardData
<1>3. CASE SendError
  <2>1. Tail(errChan) \in Seq({"receiver", "provider"}) /\ Len(Tail(errChan)) <= ErrCap
    BY <1>3, Take DEF SendError
  <2>2. out' \in Seq(Message)
    BY <1>0, <1>3 DEF SendError
  <2> QED
    BY <1>3, <2>1, <2>2 DEF SendError
<1>4. CASE SendFails
  <2>1. serverStream' \in Seq(1..Chunks) /\ Len(serverStream') <= Cap
    <3>1. CASE serverStream = <<>>
      BY <1>4, <3>1 DEF SendFails
    <3>2. CASE serverStream # <<>>
      <4>1. Tail(serverStream) \in Seq(1..Chunks) /\ Len(Tail(serverStream)) <= Cap
        BY <3>2, Take
      <4> QED
        BY <1>4, <3>2, <4>1 DEF SendFails
    <3> QED
      BY <3>1, <3>2
  <2> QED
    BY <1>4, <2>1 DEF SendFails
<1>5. CASE PutClientStream
  <2>1. item \in 1..Chunks
    BY <1>5 DEF PutClientStream, Counts
  <2>2. Append(clientStream, item) \in Seq(1..Chunks) /\ Len(Append(clientStream, item)) <= Cap
    BY <1>5, <2>1, Put DEF PutClientStream
  <2> QED
    BY <1>5, <2>2 DEF PutClientStream
<1>6. CASE ReceiverFails \/ ProviderFails
  <2>1. errChan' \in Seq({"receiver", "provider"}) /\ Len(errChan') <= ErrCap
    <3>1. \A w \in {"receiver", "provider"} : /\ Append(errChan, w) \in Seq({"receiver", "provider"})
                                               /\ Len(Append(errChan, w)) = Len(errChan) + 1
                                               /\ Len(errChan) \in Nat
      BY Put
    <3>2. \E w \in {"receiver", "provider"} : errChan' = Append(errChan, w) /\ Len(errChan) < ErrCap
      BY <1>6 DEF ReceiverFails, ProviderFails
    <3> QED
      BY <3>1, <3>2
  <2> QED
    BY <1>6, <2>1 DEF ReceiverFails, ProviderFails
<1>7. CASE TakeClientStream
  <2>1. Tail(clientStream) \in Seq(1..Chunks) /\ Len(Tail(clientStream)) <= Cap
    BY <1>7, Take DEF TakeClientStream
  <2> QED
    BY <1>7, <2>1 DEF TakeClientStream
<1>8. CASE Emit
  <2>1. answer \in 1..Chunks
    BY <1>8 DEF Emit, Counts
  <2>2. Append(serverStream, answer) \in Seq(1..Chunks) /\ Len(Append(serverStream, answer)) <= Cap
    BY <1>8, <2>1, Put DEF Emit
  <2> QED
    BY <1>8, <2>2 DEF Emit
<1>9. CASE UNCHANGED <<clientStream, serverStream, errChan, out>>
  BY <1>9
<1> QED
  BY <1>1, <1>2, <1>3, <1>4, <1>5, <1>6, <1>7, <1>8, <1>9
  DEF Next, MainStep, ProviderStep, Reject, AcceptConfig, Cancelled, ClientGone, ReceiveData,
     ReceiverEnds, ProviderEnds, CloseServerStream, vars

(* Each step keeps the counters in order: the provider puts out no more    *)
(* than the client has sent.                                               *)
LEMMA CountsStep ==
    ASSUME StreamInv, [Next]_vars PROVE Counts'
<1> USE InteractAssumption DEF Counts, inputVars, outputVars, mainVars
<1>1. CASE SendReady
  BY <1>1 DEF SendReady, StreamInv
<1>2. CASE ReceiveData \/ PutClientStream \/ ReceiverEnds \/ ReceiverFails
  BY <1>2 DEF StreamInv, ReceiveData, PutClientStream, ReceiverEnds, ReceiverFails
<1>3. CASE TakeClientStream
  <2>1. Head(clientStream) \in 1..Chunks
    BY <1>3, Take DEF StreamInv, ChannelTypes, TakeClientStream
  <2> QED
    BY <1>3, <2>1 DEF StreamInv, TakeClientStream
<1>4. CASE Emit
  <2>1. emitted + 1 <= received
    BY <1>4 DEF Emit, StreamInv, ChannelTypes, InputOrder, Taken
  <2> QED
    BY <1>4, <2>1 DEF Emit, StreamInv
<1>5. CASE ProviderEnds \/ CloseServerStream \/ ProviderFails
  BY <1>5 DEF StreamInv, ProviderEnds, CloseServerStream, ProviderFails
<1>6. CASE UNCHANGED <<received, emitted, item, answer, recv, prov>>
  BY <1>6 DEF StreamInv
<1> QED
  BY <1>1, <1>2, <1>3, <1>4, <1>5, <1>6
  DEF Next, MainStep, ProviderStep, Reject, AcceptConfig, ForwardData, SendServerEnd, SendError,
     Cancelled, SendFails, ClientGone, vars

(* Each step keeps the order in which the goroutines start and end.        *)
LEMMA PhasesStep ==
    ASSUME StreamInv, [Next]_vars PROVE Phases'
<1> USE DEF StreamInv, ControlTypes, Phases, inputVars, outputVars, mainVars
<1>1. ASSUME NEW code \in {"InvalidArgument", "NotFound", "Internal", "FailedPrecondition"},
             Reject(code)
      PROVE  Phases'
  BY <1>1 DEF Reject, Finish
<1>2. CASE MainStep \/ SendFails \/ ClientGone
  BY <1>2 DEF MainStep, AcceptConfig, SendReady, ForwardData, SendServerEnd, SendError,
     Cancelled, SendFails, ClientGone, Finish
<1>3. CASE ReceiveData \/ PutClientStream \/ ReceiverEnds \/ ReceiverFails
  BY <1>3 DEF ReceiveData, PutClientStream, ReceiverEnds, ReceiverFails
<1>4. CASE ProviderStep \/ ProviderFails
  BY <1>4 DEF ProviderStep, TakeClientStream, Emit, ProviderEnds, CloseServerStream, ProviderFails
<1>5. CASE UNCHANGED vars
  BY <1>5 DEF vars
<1> QED
  BY <1>1, <1>2, <1>3, <1>4, <1>5 DEF Next

(* Each step keeps the chunks on their way to the provider in order.       *)
LEMMA InputOrderStep ==
    ASSUME StreamInv, [Next]_vars PROVE InputOrder'
<1>1. /\ Len(clientStream) \in Nat /\ received \in Nat /\ emitted \in Nat
      /\ DOMAIN clientStream = 1 .. Len(clientStream)
  BY InteractAssumption DEF StreamInv, ChannelTypes, Counts
<1>2. InputOrder
  BY DEF StreamInv
<1> USE DEF InputOrder, Taken, inputVars, outputVars, mainVars
<1>3. CASE SendReady
  BY <1>2, <1>3 DEF SendReady, StreamInv, Phases
<1>4. CASE ReceiveData
  BY <1>1, <1>2, <1>4 DEF ReceiveData
<1>5. CASE PutClientStream
  <2> DEFINE c == Append(clientStream, item)
  <2>1. clientStream \in Seq(1..Chunks) /\ item \in 1..Chunks /\ item = received
    BY <1>5, InteractAssumption DEF PutClientStream, StreamInv, ChannelTypes, Counts
  <2>2. /\ Len(c) = Len(clientStream) + 1 /\ DOMAIN c = 1 .. Len(clientStream) + 1
        /\ \A k \in 1 .. Len(clientStream) : c[k] = clientStream[k]
        /\ c[Len(clientStream) + 1] = item
    BY <2>1, Put
  <2>3. /\ clientStream' = c /\ recv = "put" /\ recv' = "recv"
        /\ UNCHANGED <<prov, answer, received, emitted>>
    BY <1>5 DEF PutClientStream
  <2> HIDE DEF c
  <2> QED
    BY <1>1, <1>2, <2>1, <2>2, <2>3
<1>6. CASE ReceiverEnds \/ ReceiverFails
  BY <1>1, <1>2, <1>6 DEF ReceiverEnds, ReceiverFails
<1>7. CASE TakeClientStream
  <2> DEFINE c == Tail(clientStream)
  <2>1. clientStream \in Seq(1..Chunks) /\ clientStream # <<>>
    BY <1>7 DEF TakeClientStream, StreamInv, ChannelTypes
  <2>2. /\ Len(c) = Len(clientStream) - 1 /\ Len(clientStream) # 0
        /\ DOMAIN c = 1 .. Len(clientStream) - 1
        /\ Head(clientStream) = clientStream[1]
        /\ \A k \in 1 .. Len(clientStream) - 1 : c[k] = clientStream[k + 1]
    BY <2>1, Take
  <2>3. /\ clientStream' = c /\ answer' = Head(clientStream)
        /\ prov = "run" /\ prov' = "emit" /\ UNCHANGED <<recv, received, emitted>>
    BY <1>7 DEF TakeClientStream
  <2> HIDE DEF c
  <2>4. Taken = emitted /\ Taken' = emitted + 1 /\ answer' = emitted + 1
    BY <1>1, <1>2, <2>2, <2>3
  <2>5. ASSUME NEW k \in DOMAIN clientStream' PROVE clientStream'[k] = Taken' + k
    <3>1. k \in 1 .. Len(clientStream) - 1 /\ k + 1 \in DOMAIN clientStream
      BY <1>1, <2>2, <2>3
    <3>2. clientStream'[k] = emitted + (k + 1)
      BY <1>2, <2>2, <2>3, <2>4, <3>1
    <3> QED
      BY <1>1, <2>4, <3>1, <3>2
  <2>6. /\ Taken' + Len(clientStream') <= received'
        /\ recv' \in {"off", "recv"} => received' = Taken' + Len(clientStream')
        /\ recv' = "put" => received' = Taken' + Len(clientStream') + 1
    <3>1. /\ Taken + Len(clientStream) <= received
          /\ recv \in {"off", "recv"} => received = Taken + Len(clientStream)
          /\ recv = "put" => received = Taken + Len(clientStream) + 1
      BY <1>2, <2>3
    <3> HIDE DEF Taken
    <3>2. Len(clientStream') = Len(clientStream) - 1
      BY <2>2, <2>3
    <3>3. Taken' + Len(clientStream') = Taken + Len(clientStream)
      BY <1>1, <2>4, <3>2
    <3> QED
      BY <2>3, <3>1, <3>3
  <2> HIDE DEF Taken
  <2> QED
    BY <2>3, <2>4, <2>5, <2>6
<1>8. CASE Emit
  BY <1>1, <1>2, <1>8 DEF Emit
<1>9. CASE ProviderEnds \/ CloseServerStream \/ ProviderFails
  BY <1>1, <1>2, <1>9 DEF ProviderEnds, CloseServerStream, ProviderFails
<1>10. CASE UNCHANGED <<inputVars, prov, answer, emitted>>
  BY <1>2, <1>10
<1> QED
  BY <1>3, <1>4, <1>5, <1>6, <1>7, <1>8, <1>9, <1>10
  DEF Next, MainStep, ProviderStep, Reject, AcceptConfig, ForwardData, SendServerEnd, SendError,
     Cancelled, SendFails, ClientGone, vars

(* Each step keeps the chunks on their way to the client in order, and a   *)
(* success complete: server_end is sent when serverStream is empty.        *)
LEMMA OutputOrderStep ==
    ASSUME StreamInv, [Next]_vars PROVE OutputOrder' /\ SuccessIsComplete'
<1>1. Len(serverStream) \in Nat /\ Len(out) \in Nat /\ emitted \in Nat
  BY InteractAssumption DEF StreamInv, ChannelTypes, Counts
<1>2. serverStream \in Seq(1..Chunks) /\ out \in Seq(Message)
  BY DEF StreamInv, ChannelTypes
<1>3. DOMAIN serverStream = 1 .. Len(serverStream) /\ DOMAIN out = 1 .. Len(out)
  BY <1>2
<1>4. OutputOrder /\ SuccessIsComplete /\ Phases
  BY DEF StreamInv
<1>5. main = "loop" =>
         Len(out) >= 1 /\ emitted = Forwarded + Len(serverStream) /\ result = "none"
  BY <1>4 DEF OutputOrder, Phases
<1>6. ASSUME main = "loop" PROVE \A k \in 1 .. Len(out) : k > 1 => out[k].kind = "data"
  BY <1>1, <1>4, <1>6 DEF OutputOrder
<1>7. ASSUME main = "loop" PROVE \A k \in 1 .. Len(serverStream) : serverStream[k] = Forwarded + k
  BY <1>3, <1>4, <1>7 DEF OutputOrder
<1>8. \A k \in 1 .. Len(out) : out[k].kind = "data" => out[k].chunk = k - 1
  BY <1>3, <1>4 DEF SuccessIsComplete
<1>9. ASSUME NEW m \in Message
      PROVE  /\ Len(Append(out, m)) = Len(out) + 1 /\ DOMAIN Append(out, m) = 1 .. Len(out) + 1
             /\ \A k \in 1 .. Len(out) : Append(out, m)[k] = out[k]
             /\ Append(out, m)[Len(out) + 1] = m
  BY <1>2, Put
<1> USE DEF Forwarded, inputVars, outputVars, mainVars
<1>10. ASSUME NEW code \in {"InvalidArgument", "NotFound", "Internal", "FailedPrecondition"},
              Reject(code)
       PROVE  OutputOrder' /\ SuccessIsComplete'
  BY <1>4, <1>10 DEF Reject, Finish, OutputOrder, SuccessIsComplete
<1>11. CASE AcceptConfig \/ Cancelled \/ ClientGone \/ SendFails
  BY <1>4, <1>11 DEF AcceptConfig, Cancelled, ClientGone, SendFails, Finish, Phases,
     OutputOrder, SuccessIsComplete
<1>12. CASE SendReady
  <2>1. out' = <<Msg("ready", 0)>> /\ serverStream' = <<>> /\ emitted' = 0 /\ result' = "none"
    BY <1>4, <1>12 DEF SendReady, Phases
  <2> QED
    BY <2>1 DEF Msg, OutputOrder, SuccessIsComplete
<1>13. CASE ForwardData
  <2> DEFINE m == Msg("data", Head(serverStream))
             o == Append(out, m)
             s == Tail(serverStream)
  <2>1. /\ Len(s) = Len(serverStream) - 1 /\ Len(serverStream) # 0
        /\ DOMAIN s = 1 .. Len(serverStream) - 1
        /\ Head(serverStream) = serverStream[1] /\ Head(serverStream) \in 1..Chunks
        /\ \A k \in 1 .. Len(serverStream) - 1 : s[k] = serverStream[k + 1]
    BY <1>2, <1>13, Take DEF ForwardData
  <2>2. m \in Message /\ m.kind = "data" /\ m.chunk = Head(serverStream)
    BY <2>1, MsgType DEF Msg
  <2>3. main = "loop" /\ result' = result /\ out' = o /\ serverStream' = s /\ emitted' = emitted
    BY <1>13 DEF ForwardData
  <2> HIDE DEF m
  <2>4. /\ Len(o) = Len(out) + 1 /\ DOMAIN o = 1 .. Len(out) + 1
        /\ \A k \in 1 .. Len(out) : o[k] = out[k]
        /\ o[Len(out) + 1] = m
    BY <1>9, <2>2
  <2> HIDE DEF o, s
  <2>5. Len(out) >= 1 /\ m.chunk = Len(out)
    BY <1>1, <1>5, <1>7, <2>1, <2>2, <2>3
  <2>6. ASSUME NEW k \in 1 .. Len(out) + 1
        PROVE  (k > 1 => o[k].kind = "data") /\ (o[k].kind = "data" => o[k].chunk = k - 1)
    <3>1. CASE k = Len(out) + 1
      BY <1>1, <2>2, <2>4, <2>5, <3>1
    <3>2. CASE k # Len(out) + 1
      <4>1. k \in 1 .. Len(out) /\ o[k] = out[k]
        BY <1>1, <2>4, <3>2
      <4> QED
        BY <1>6, <1>8, <2>3, <4>1
    <3> QED
      BY <3>1, <3>2
  <2>7. ASSUME NEW k \in 1 .. Len(serverStream) - 1 PROVE s[k] = Len(o) - 1 + k
    <3>1. k + 1 \in 1 .. Len(serverStream)
      BY <1>1
    <3>2. serverStream[k + 1] = Len(out) - 1 + (k + 1)
      BY <1>7, <2>3, <3>1
    <3> QED
      BY <1>1, <2>1, <2>4, <3>2
  <2>8. Len(o) >= 1 /\ emitted' = Len(o) - 1 + Len(s)
    BY <1>1, <1>5, <2>1, <2>3, <2>4
  <2>9. OutputOrder'
    <3>1. \A k \in 2 .. Len(o) : o[k].kind = "data"
      BY <1>1, <2>4, <2>6
    <3>2. \A k \in DOMAIN s : s[k] = Len(o) - 1 + k
      BY <2>1, <2>7
    <3> QED
      BY <2>3, <2>8, <3>1, <3>2 DEF OutputOrder
  <2>10. SuccessIsComplete'
    BY <1>5, <2>3, <2>4, <2>6 DEF SuccessIsComplete
  <2> QED
    BY <2>9, <2>10
<1>14. CASE SendServerEnd
  <2> DEFINE m == Msg("server_end", 0)
             o == Append(out, m)
  <2>1. m \in Message /\ m.kind = "server_end"
    BY MsgType DEF Msg
  <2>2. main = "loop" /\ main' = "done" /\ out' = o /\ serverStream = <<>> /\ emitted' = emitted
    BY <1>14 DEF SendServerEnd, Finish
  <2> HIDE DEF m
  <2>3. /\ Len(o) = Len(out) + 1 /\ DOMAIN o = 1 .. Len(out) + 1
        /\ \A k \in 1 .. Len(out) : o[k] = out[k]
        /\ o[Len(out) + 1] = m
    BY <1>9, <2>1
  <2> HIDE DEF o
  <2>4. Len(out) >= 1 /\ emitted = Len(out) - 1
    BY <1>1, <1>5, <2>2
  <2>5. ASSUME NEW k \in 1 .. Len(out) + 1, o[k].kind = "data" PROVE o[k].chunk = k - 1
    <3>1. k \in 1 .. Len(out) /\ o[k] = out[k]
      BY <1>1, <2>1, <2>3, <2>5
    <3> QED
      BY <1>8, <2>5, <3>1
  <2>6. ASSUME NEW k \in 2 .. emitted + 1 PROVE o[k].kind = "data"
    <3>1. k \in 1 .. Len(out) /\ k > 1 /\ o[k] = out[k]
      BY <1>1, <2>3, <2>4
    <3> QED
      BY <1>6, <2>2, <3>1
  <2> QED
    BY <1>1, <2>2, <2>3, <2>4, <2>5, <2>6 DEF OutputOrder, SuccessIsComplete
<1>15. CASE SendError
  <2> DEFINE m == Msg("error", 0)
             o == Append(out, m)
  <2>1. m \in Message /\ m.kind = "error"
    BY MsgType DEF Msg
  <2>2. main' = "done" /\ result' = "Internal" /\ out' \in {out, o}
    BY <1>15 DEF SendError, Finish
  <2> HIDE DEF m
  <2>3. /\ DOMAIN o = 1 .. Len(out) + 1 /\ o[Len(out) + 1] = m
        /\ \A k \in 1 .. Len(out) : o[k] = out[k]
    BY <1>9, <2>1
  <2> HIDE DEF o
  <2>4. ASSUME NEW k \in 1 .. Len(out) + 1, o[k].kind = "data" PROVE o[k].chunk = k - 1
    <3>1. k \in 1 .. Len(out) /\ o[k] = out[k]
      BY <1>1, <2>1, <2>3, <2>4
    <3> QED
      BY <1>8, <2>4, <3>1
  <2> QED
    BY <1>3, <1>8, <2>2, <2>3, <2>4 DEF OutputOrder, SuccessIsComplete
<1>16. CASE Emit
  <2> DEFINE s == Append(serverStream, answer)
  <2>1. result # "OK"
    BY <1>4, <1>16 DEF Emit, Phases
  <2>2. answer \in 1..Chunks /\ answer = emitted + 1
    BY <1>16, InteractAssumption DEF Emit, StreamInv, Counts, InputOrder, Taken
  <2>3. /\ Len(s) = Len(serverStream) + 1 /\ DOMAIN s = 1 .. Len(serverStream) + 1
        /\ \A k \in 1 .. Len(serverStream) : s[k] = serverStream[k]
        /\ s[Len(serverStream) + 1] = answer
    BY <1>2, <2>2, Put
  <2>4. /\ serverStream' = s /\ emitted' = emitted + 1
        /\ main' = main /\ result' = result /\ out' = out
    BY <1>16 DEF Emit
  <2> HIDE DEF s
  <2>5. ASSUME main = "loop", NEW k \in 1 .. Len(serverStream) + 1 PROVE s[k] = Forwarded + k
    <3>1. CASE k = Len(serverStream) + 1
      BY <1>1, <1>5, <2>2, <2>3, <2>5, <3>1
    <3>2. CASE k # Len(serverStream) + 1
      <4>1. k \in 1 .. Len(serverStream)
        BY <1>1, <3>2
      <4> QED
        BY <1>7, <2>3, <2>5, <4>1
    <3> QED
      BY <3>1, <3>2
  <2>6. main = "loop" => emitted' = Forwarded + Len(s)
    BY <1>1, <1>5, <2>3, <2>4
  <2>7. OutputOrder'
    BY <1>5, <1>6, <2>3, <2>4, <2>5, <2>6 DEF OutputOrder
  <2>8. SuccessIsComplete'
    BY <1>4, <2>1, <2>4 DEF SuccessIsComplete
  <2> QED
    BY <2>7, <2>8
<1>17. CASE UNCHANGED <<main, result, out, serverStream, emitted>>
  BY <1>4, <1>17 DEF OutputOrder, SuccessIsComplete
<1> QED
  BY <1>10, <1>11, <1>12, <1>13, <1>14, <1>15, <1>16, <1>17
  DEF Next, MainStep, ProviderStep, ReceiveData, PutClientStream, ReceiverEnds, ReceiverFails,
     TakeClientStream, ProviderEnds, CloseServerStream, ProviderFails, vars

(* Each step leaves at most one error of each goroutine in errChan.        *)
LEMMA OneErrorEachStep ==
    ASSUME StreamInv, [Next]_vars PROVE OneErrorEach'
<1> USE InteractAssumption DEF StreamInv, ControlTypes, ChannelTypes, OneErrorEach, inputVars, outputVars, mainVars
<1>1. CASE SendError
  BY <1>1 DEF SendError
<1>2. CASE ReceiverFails
  BY <1>2 DEF ReceiverFails
<1>3. CASE ProviderFails
  BY <1>3 DEF ProviderFails
<1>4. CASE SendReady
  BY <1>4 DEF SendReady, Phases
<1>5. CASE UNCHANGED errChan /\ ~SendReady
  <2>1. (recv' # "done" => recv # "done") /\ (prov' \notin {"close", "done"} => prov \notin {"close", "done"})
    BY <1>5 DEF Next, Reject, MainStep, AcceptConfig, ForwardData, SendServerEnd, SendError,
       Cancelled, SendFails, ClientGone, ReceiveData, PutClientStream, ReceiverEnds,
       ReceiverFails, ProviderStep, TakeClientStream, Emit, ProviderEnds, CloseServerStream,
       ProviderFails, vars
  <2> QED
    BY <1>5, <2>1
<1> QED
  BY <1>1, <1>2, <1>3, <1>4, <1>5
  DEF Next, Reject, MainStep, AcceptConfig, ForwardData, SendServerEnd, Cancelled, SendFails,
     ClientGone, ReceiveData, PutClientStream, ReceiverEnds, ProviderStep, TakeClientStream,
     Emit, ProviderEnds, CloseServerStream, vars

-----------------------------------------------------------------------------
(* StreamInv holds in every reachable state.                               *)
THEOREM StreamInvariant == Spec => []StreamInv
<1>1. StreamInv /\ [Next]_vars => StreamInv'
  BY ControlTypesStep, ChannelTypesStep, CountsStep, PhasesStep, InputOrderStep, OutputOrderStep, OneErrorEachStep
  DEF StreamInv
<1> QED
  BY <1>1, StreamInvInit, PTL DEF Spec

(* Every variable of the call keeps its type, and no channel holds more    *)
(* than its capacity.                                                      *)
THEOREM StreamTypes == Spec => []TypeOK
<1>1. StreamInv => TypeOK
  BY TypesAreParts DEF StreamInv
<1> QED
  BY <1>1, StreamInvariant, PTL

(* The client of an InteractStream call gets the provider's chunks in      *)
(* order, and all of them when the call reports success.                   *)
THEOREM StreamSuccessIsComplete == Spec => []SuccessIsComplete
<1>1. StreamInv => SuccessIsComplete
  BY DEF StreamInv
<1> QED
  BY <1>1, StreamInvariant, PTL

(* errChan has room whenever one of the goroutines may report an error.    *)
THEOREM StreamErrorsNeverBlock == Spec => []ErrorsNeverBlock
<1>1. StreamInv => ErrorsNeverBlock
  BY InteractAssumption DEF StreamInv, ControlTypes, ChannelTypes, OneErrorEach, ErrorsNeverBlock
<1> QED
  BY <1>1, StreamInvariant, PTL
=============================================================================
