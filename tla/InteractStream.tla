--------------------------- MODULE InteractStream ---------------------------
(***************************************************************************)
(* One InteractStream call of the bus server                               *)
(* (internal/bus/server_interactstream.go): the handshake, then three      *)
(* goroutines - one that receives from the client, one that runs the       *)
(* provider's ExecuteStream, and the handler itself, which forwards the    *)
(* provider's output - joined by two data channels, an error channel and   *)
(* the stream's context.                                                   *)
(*                                                                         *)
(* No provider in the repository streams; the one assumed here answers     *)
(* each chunk with one chunk, honours its context, returns nil when its    *)
(* input is closed and drained, and may fail at any time.                  *)
(***************************************************************************)
EXTENDS Naturals, Sequences

CONSTANTS
    Cap,      \* capacity of clientStream and serverStream (10 in the code)
    ErrCap,   \* capacity of errChan (2 in the code)
    Chunks    \* bound: how many data messages the client sends

ASSUME InteractAssumption == Cap \in Nat \ {0} /\ ErrCap = 2 /\ Chunks \in Nat

VARIABLES
    main,          \* the handler: "handshake", "ready", "loop", "done"
    result,        \* its gRPC status: "none" while running
    recv, item,    \* the receiving goroutine, and the chunk it forwards
    prov, answer,  \* the provider goroutine, and the chunk it emits
    clientStream, clientClosed,
    serverStream, serverClosed,
    errChan,       \* who put the errors that wait in it
    ctxDone,       \* stream.Context() is done
    received,      \* number of data chunks taken from the client
    emitted,       \* history: number of chunks the provider has put out
    out            \* what has been sent to the client, in order

inputVars  == <<recv, item, clientStream, clientClosed, received>>
outputVars == <<prov, answer, serverStream, serverClosed, emitted>>
mainVars   == <<main, result, out>>
vars == <<inputVars, outputVars, mainVars, errChan, ctxDone>>

Init ==
    /\ main = "handshake" /\ result = "none"
    /\ recv = "off" /\ item = 0
    /\ prov = "off" /\ answer = 0
    /\ clientStream = <<>> /\ clientClosed = FALSE
    /\ serverStream = <<>> /\ serverClosed = FALSE
    /\ errChan = <<>>
    /\ ctxDone = FALSE
    /\ received = 0 /\ emitted = 0
    /\ out = <<>>

(* A message to the client: ready, a data chunk, server_end or error.      *)
Msg(kind, n) == [kind |-> kind, chunk |-> n]
Message == [kind : {"ready", "data", "server_end", "error"}, chunk : 0..Chunks]

(* gRPC cancels the context of a call whose handler has returned.          *)
Finish(code) ==
    /\ main' = "done"
    /\ result' = code
    /\ ctxDone' = TRUE

-----------------------------------------------------------------------------
(* The handshake: a first message that is no config or has no event type,  *)
(* no policy rule, no such provider, or one that cannot stream.            *)

Reject(code) ==
    /\ main = "handshake"
    /\ Finish(code)
    /\ UNCHANGED <<inputVars, outputVars, out, errChan>>

AcceptConfig ==
    /\ main = "handshake"
    /\ main' = "ready"
    /\ UNCHANGED <<inputVars, outputVars, result, out, errChan, ctxDone>>

SendReady ==
    /\ main = "ready"
    /\ main' = "loop"
    /\ out' = Append(out, Msg("ready", 0))
    /\ recv' = "recv"
    /\ prov' = "run"
    /\ UNCHANGED <<result, item, clientStream, clientClosed, received, answer,
                   serverStream, serverClosed, emitted, errChan, ctxDone>>

-----------------------------------------------------------------------------
(* The receiving goroutine.  A data message without content is dropped.    *)

ReceiveData ==
    /\ recv = "recv"
    /\ received < Chunks
    /\ received' = received + 1
    /\ item' = received + 1
    /\ recv' = "put"
    /\ UNCHANGED <<clientStream, clientClosed, outputVars, mainVars, errChan, ctxDone>>

(* Mutant: a full channel is not waited for.                               *)
PutClientStreamUnbounded ==
    /\ recv = "put"
    /\ clientStream' = Append(clientStream, item)
    /\ recv' = "recv"
    /\ UNCHANGED <<item, clientClosed, received, outputVars, mainVars, errChan, ctxDone>>

PutClientStream ==
    /\ recv = "put"
    /\ Len(clientStream) < Cap
    /\ clientStream' = Append(clientStream, item)
    /\ recv' = "recv"
    /\ UNCHANGED <<item, clientClosed, received, outputVars, mainVars, errChan, ctxDone>>

(* Mutant: the channel is left open when the client has ended.             *)
ReceiverLeavesOpen ==
    /\ recv = "recv" \/ (recv = "put" /\ ctxDone)
    /\ recv' = "done"
    /\ UNCHANGED <<item, clientStream, clientClosed, received, outputVars, mainVars,
                   errChan, ctxDone>>

(* EOF or client_end, or a done context while the provider's input is      *)
(* full: the deferred close runs.                                          *)
ReceiverEnds ==
    /\ recv = "recv" \/ (recv = "put" /\ ctxDone)
    /\ recv' = "done"
    /\ clientClosed' = TRUE
    /\ UNCHANGED <<item, clientStream, received, outputVars, mainVars, errChan, ctxDone>>

(* Recv fails (always, once the context is done) or yields a message of    *)
(* the wrong kind.                                                         *)
ReceiverFails ==
    /\ recv = "recv"
    /\ Len(errChan) < ErrCap
    /\ errChan' = Append(errChan, "receiver")
    /\ recv' = "done"
    /\ clientClosed' = TRUE
    /\ UNCHANGED <<item, clientStream, received, outputVars, mainVars, ctxDone>>

-----------------------------------------------------------------------------
(* The provider goroutine.                                                 *)

TakeClientStream ==
    /\ prov = "run"
    /\ clientStream # <<>>
    /\ answer' = Head(clientStream)
    /\ clientStream' = Tail(clientStream)
    /\ prov' = "emit"
    /\ UNCHANGED <<recv, item, clientClosed, received, serverStream, serverClosed,
                   emitted, mainVars, errChan, ctxDone>>

Emit ==
    /\ prov = "emit"
    /\ Len(serverStream) < Cap
    /\ serverStream' = Append(serverStream, answer)
    /\ emitted' = emitted + 1
    /\ prov' = "run"
    /\ UNCHANGED <<inputVars, answer, serverClosed, mainVars, errChan, ctxDone>>

(* ExecuteStream returns nil.                                              *)
ProviderEnds ==
    /\ prov = "run"
    /\ clientStream = <<>> /\ clientClosed
    /\ prov' = "close"
    /\ UNCHANGED <<inputVars, answer, serverStream, serverClosed, emitted, mainVars,
                   errChan, ctxDone>>

(* Mutant: room for one error only.                                        *)
ProviderFailsOneSlot ==
    /\ prov \in {"run", "emit"}
    /\ errChan = <<>>
    /\ errChan' = Append(errChan, "provider")
    /\ prov' = "close"
    /\ UNCHANGED <<inputVars, answer, serverStream, serverClosed, emitted, mainVars, ctxDone>>

(* ExecuteStream returns an error: its own, or that of its context.        *)
ProviderFails ==
    /\ prov \in {"run", "emit"}
    /\ Len(errChan) < ErrCap
    /\ errChan' = Append(errChan, "provider")
    /\ prov' = "close"
    /\ UNCHANGED <<inputVars, answer, serverStream, serverClosed, emitted, mainVars, ctxDone>>

(* The deferred close, after the error has been put in errChan.            *)
CloseServerStream ==
    /\ prov = "close"
    /\ serverClosed' = TRUE
    /\ prov' = "done"
    /\ UNCHANGED <<inputVars, answer, serverStream, emitted, mainVars, errChan, ctxDone>>

-----------------------------------------------------------------------------
(* The handler's select.  Of the cases that are ready any may be taken.  A *)
(* closed channel is ready, but hands out what is buffered first.          *)

ForwardData ==
    /\ main = "loop"
    /\ serverStream # <<>>
    /\ serverStream' = Tail(serverStream)
    /\ out' = Append(out, Msg("data", Head(serverStream)))
    /\ UNCHANGED <<inputVars, prov, answer, serverClosed, emitted, main, result,
                   errChan, ctxDone>>

(* Mutant: a closed channel is noticed before its buffer is drained.       *)
SendServerEndUndrained ==
    /\ main = "loop"
    /\ serverClosed
    /\ Finish("OK")
    /\ out' = Append(out, Msg("server_end", 0))
    /\ UNCHANGED <<inputVars, outputVars, errChan>>

SendServerEnd ==
    /\ main = "loop"
    /\ serverStream = <<>> /\ serverClosed
    /\ Finish("OK")
    /\ out' = Append(out, Msg("server_end", 0))
    /\ UNCHANGED <<inputVars, outputVars, errChan>>

SendError ==
    /\ main = "loop"
    /\ errChan # <<>>
    /\ errChan' = Tail(errChan)
    /\ Finish("Internal")
    /\ out' \in {out, Append(out, Msg("error", 0))}   \* the Send may fail: only logged
    /\ UNCHANGED <<inputVars, outputVars>>

Cancelled ==
    /\ main = "loop"
    /\ ctxDone
    /\ Finish("Canceled")
    /\ UNCHANGED <<inputVars, outputVars, out, errChan>>

(* stream.Send of a chunk, of server_end or of ready fails.                *)
SendFails ==
    /\ \/ main = "ready"
       \/ main = "loop" /\ (serverStream # <<>> \/ serverClosed)
    /\ serverStream' = IF serverStream = <<>> THEN <<>> ELSE Tail(serverStream)
    /\ Finish("Internal")
    /\ UNCHANGED <<inputVars, prov, answer, serverClosed, emitted, out, errChan>>

(* The client cancels or its connection breaks: an input.                  *)
ClientGone ==
    /\ main # "done" /\ ~ctxDone
    /\ ctxDone' = TRUE
    /\ UNCHANGED <<inputVars, outputVars, mainVars, errChan>>

ProviderStep == TakeClientStream \/ Emit \/ ProviderEnds \/ CloseServerStream
MainStep == AcceptConfig \/ SendReady \/ ForwardData \/ SendServerEnd \/ SendError \/ Cancelled

Next ==
    \/ \E code \in {"InvalidArgument", "NotFound", "Internal", "FailedPrecondition"} :
          Reject(code)
    \/ MainStep \/ SendFails \/ ClientGone
    \/ ReceiveData \/ PutClientStream \/ ReceiverEnds \/ ReceiverFails
    \/ ProviderStep \/ ProviderFails

Spec == Init /\ [][Next]_vars

(* Goroutines that can run do run.  Recv waits for the client and gets     *)
(* fairness only when the context is done; the provider is assumed to heed *)
(* its context.  The client is assumed to read what it is sent, or to go   *)
(* away.                                                                   *)
Fairness ==
    /\ WF_vars(MainStep)
    /\ WF_vars(PutClientStream) /\ WF_vars(ctxDone /\ (ReceiverFails \/ ReceiverEnds))
    /\ WF_vars(ProviderStep) /\ WF_vars(ctxDone /\ ProviderFails)

FairSpec == Spec /\ Fairness

-----------------------------------------------------------------------------
(* Every variable has its type; no channel is over its capacity.           *)
TypeOK ==
    /\ main \in {"handshake", "ready", "loop", "done"}
    /\ result \in {"none", "OK", "InvalidArgument", "NotFound", "Internal",
                   "FailedPrecondition", "Canceled"}
    /\ recv \in {"off", "recv", "put", "done"}
    /\ prov \in {"off", "run", "emit", "close", "done"}
    /\ {item, answer, received, emitted} \subseteq 0..Chunks
    /\ clientStream \in Seq(1..Chunks) /\ Len(clientStream) <= Cap
    /\ serverStream \in Seq(1..Chunks) /\ Len(serverStream) <= Cap
    /\ errChan \in Seq({"receiver", "provider"}) /\ Len(errChan) <= ErrCap
    /\ {clientClosed, serverClosed, ctxDone} \subseteq BOOLEAN
    /\ out \in Seq(Message)

(* The client gets the provider's chunks in order and without gaps, after  *)
(* the ready message, and once the call has succeeded it has got all the   *)
(* provider put out: a provider that ends quickly must not have its last   *)
(* chunks cut off by the server_end signal.                                *)
SuccessIsComplete ==
    /\ \A k \in DOMAIN out : out[k].kind = "data" => out[k].chunk = k - 1
    /\ result = "OK" =>
          /\ Len(out) = emitted + 2
          /\ \A k \in 2 .. emitted + 1 : out[k].kind = "data"

(* Nothing the call started outlives it: however it ends, both goroutines  *)
(* terminate.  They never get stuck on errChan, as it has room for one     *)
(* error of each, nor on the data channels.                                *)
GoroutinesTerminate ==
    (main = "done") ~> (recv \in {"off", "done"} /\ prov \in {"off", "done"})

(* Once the receiving goroutine has ended (EOF, client_end or an error)    *)
(* the call ends as well.                                                  *)
ClientEndEndsCall == (recv = "done") ~> (main = "done")

(* A call whose provider failed never reports success to its client ("An   *)
(* error message if something goes wrong during the stream").              *)
ErrorIsReported == result = "OK" => \A k \in DOMAIN errChan : errChan[k] # "provider"
=============================================================================
