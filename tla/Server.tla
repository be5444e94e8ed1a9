------------------------------- MODULE Server -------------------------------
(***************************************************************************)
(* The life of a `pcas serve` process: the Publish handlers of the bus     *)
(* server, the background vectorization they start, the open Subscribe     *)
(* streams, and the shutdown sequence of cmd/pcas/cmd/serve.go, on top of  *)
(* Storage.  The details of the subscriber channels are in ServerSubscribe; *)
(* here a broadcast reaches some of the streams that are open.             *)
(*                                                                         *)
(* One element of Reqs is one Publish call with the event it carries.  It  *)
(* also names the vectorization goroutine that call may start, which is a  *)
(* writer of Storage; the other writers stand for the handlers themselves. *)
(***************************************************************************)
EXTENDS Storage

CONSTANTS
    Reqs,         \* Publish calls; each may start one of the Writers of Storage
    Streams,      \* Subscribe calls
    EventOf,      \* request -> the event it publishes
    ResponseId,   \* request -> the fresh uuid of its response event
    IsFact,       \* request -> IsFactEvent of its type
    Provider,     \* request -> "none", "missing" or "ok": what the policy
                  \* selects and whether that provider was initialised
    HasEmbedding, \* is an embedding provider set (OPENAI_API_KEY given)?
    MayFail,      \* may storage, embedding and provider calls fail?
    ServeMayFail  \* may accepting connections fail?

ASSUME ServerAssumption ==
    /\ Reqs \subseteq Writers /\ Reqs # Writers
    /\ EventOf \in [Reqs -> Event]
    /\ ResponseId \in [Reqs -> EventIds]
    /\ \A r, q \in Reqs : /\ ResponseId[r] # EventOf[q].id
                          /\ ResponseId[r] = ResponseId[q] => r = q
    /\ IsFact \in [Reqs -> BOOLEAN]
    /\ Provider \in [Reqs -> {"none", "missing", "ok"}]
    /\ {HasEmbedding, MayFail, ServeMayFail} \subseteq BOOLEAN

VARIABLES
    hpc,      \* request -> where its Publish handler is
    vpc,      \* request -> where its vectorization goroutine is
    wg,       \* counter of vectorizeWG
    stream,   \* Subscribe call -> "new", "open" or "ended"
    got,      \* Subscribe call -> response ids broadcast to it
    main,     \* runServer: "down", "serving", "await" (Serve has returned)
    shutdown, \* the signal goroutine: "idle", "stopping", "waiting",
              \* "closing", "complete"
    failed,   \* history: the requests one of whose calls failed by itself
    unsaved   \* history: has a process ended without saving its index?

handlers == <<hpc, vpc, wg>>
streams  == <<stream, got>>
control  == <<main, shutdown>>
faults   == <<failed, unsaved>>
vars == <<storageVars, handlers, streams, control, faults>>

Running     == {"store", "vectorize", "dispatch", "execute", "respond", "broadcast"}
Vectorizing == {"embed", "add", "writing"}

Init ==
    /\ StorageInit
    /\ hpc = [r \in Reqs |-> "new"]
    /\ vpc = [r \in Reqs |-> "none"]
    /\ wg = 0
    /\ stream = [s \in Streams |-> "new"]
    /\ got = [s \in Streams |-> {}]
    /\ main = "down"
    /\ shutdown = "idle"
    /\ failed = {}
    /\ unsaved = FALSE

(* A call made for request r may fail without any reason in this model:    *)
(* SQLITE_BUSY, an expired context, an API error.                          *)
Fails(r) == MayFail /\ failed' = failed \cup {r} /\ UNCHANGED unsaved

(* GracefulStop closes the listener and refuses new calls on the           *)
(* connections there are; a Serve that failed accepts no new connection,   *)
(* but connected clients go on calling.                                    *)
Accepting == main # "down" /\ shutdown = "idle"

-----------------------------------------------------------------------------
(* Publish.                                                                *)

Go(r, from, to) == hpc[r] = from /\ hpc' = [hpc EXCEPT ![r] = to]

AcceptPublish(r) ==
    /\ Accepting
    /\ Go(r, "new", "store")
    /\ UNCHANGED <<storageVars, vpc, wg, streams, control, faults>>

(* Storing is attempted once; an error is logged and the call goes on.  A  *)
(* duplicate id always fails.                                              *)
StoreOrLog(r, e) ==
    \/ /\ InsertEvent(e)
       /\ UNCHANGED <<vectors, edges, indexVars, writers, readers, process, faults>>
    \/ /\ events[e.id] # None \/ db # "open"
       /\ UNCHANGED <<storageVars, faults>>
    \/ /\ db = "open" /\ events[e.id] = None
       /\ Fails(r)
       /\ UNCHANGED storageVars

StoreIncoming(r) ==
    /\ Go(r, "store", "vectorize")
    /\ StoreOrLog(r, EventOf[r])
    /\ UNCHANGED <<vpc, wg, streams, control>>

(* vectorizeWG.Add(1) comes before the go statement.                       *)
StartVectorization(r) ==
    /\ Go(r, "vectorize", "dispatch")
    /\ IF HasEmbedding /\ IsFact[r]
         THEN wg' = wg + 1 /\ vpc' = [vpc EXCEPT ![r] = "embed"]
         ELSE UNCHANGED <<vpc, wg>>
    /\ UNCHANGED <<storageVars, streams, control, faults>>

(* No rule for the event type: done.  A provider that was never            *)
(* initialised: an error, although the event is stored.                    *)
Dispatch(r) ==
    /\ Go(r, "dispatch", CASE Provider[r] = "none" -> "ok"
                           [] Provider[r] = "missing" -> "error"
                           [] OTHER -> "execute")
    /\ UNCHANGED <<storageVars, vpc, wg, streams, control, faults>>

Execute(r) ==
    /\ \/ Go(r, "execute", "respond") /\ UNCHANGED faults
       \/ Go(r, "execute", "error") /\ Fails(r)
    /\ UNCHANGED <<storageVars, vpc, wg, streams, control>>

Response(r) == [id |-> ResponseId[r], user |-> None]

(* Mutant: the response is broadcast without having been stored.           *)
StoreResponseSkipped(r) ==
    /\ Go(r, "respond", "broadcast")
    /\ UNCHANGED <<storageVars, vpc, wg, streams, control, faults>>

StoreResponse(r) ==
    /\ Go(r, "respond", "broadcast")
    /\ StoreOrLog(r, Response(r))
    /\ UNCHANGED <<vpc, wg, streams, control>>

(* Mutant: the broadcast waits until somebody takes the response.          *)
BroadcastNeedsSubscriber(r) ==
    /\ Go(r, "broadcast", "ok")
    /\ \E s \in Streams : /\ stream[s] = "open"
                          /\ got' = [got EXCEPT ![s] = @ \cup {ResponseId[r]}]
    /\ UNCHANGED <<storageVars, vpc, wg, stream, control, faults>>

Broadcast(r) ==
    /\ Go(r, "broadcast", "ok")
    /\ \E to \in SUBSET {s \in Streams : stream[s] = "open"} :
          got' = [s \in Streams |-> IF s \in to THEN got[s] \cup {ResponseId[r]}
                                                ELSE got[s]]
    /\ UNCHANGED <<storageVars, vpc, wg, stream, control, faults>>

PublishStep(r) ==
    \/ StoreIncoming(r) \/ StartVectorization(r) \/ Dispatch(r)
    \/ Execute(r) \/ StoreResponse(r) \/ Broadcast(r)

-----------------------------------------------------------------------------
(* vectorizeEvent.  Every return runs the deferred vectorizeWG.Done.       *)

(* Mutant: Done is called by the defer and by the return path as well.     *)
ReturnDoneTwice(r) == vpc' = [vpc EXCEPT ![r] = "done"] /\ wg' = wg - 2

Return(r) == vpc' = [vpc EXCEPT ![r] = "done"] /\ wg' = wg - 1

(* Mutant: an early return without Done.                                   *)
CreateEmbeddingLeaks(r) ==
    /\ vpc[r] = "embed"
    /\ \/ vpc' = [vpc EXCEPT ![r] = "add"] /\ UNCHANGED faults
       \/ vpc' = [vpc EXCEPT ![r] = "done"] /\ Fails(r)
    /\ UNCHANGED <<storageVars, hpc, wg, streams, control>>

(* Text and embedding: no text, an API error or the 30 second timeout end  *)
(* the goroutine.                                                          *)
CreateEmbedding(r) ==
    /\ vpc[r] = "embed"
    /\ \/ vpc' = [vpc EXCEPT ![r] = "add"] /\ UNCHANGED <<wg, faults>>
       \/ Fails(r) /\ Return(r)
    /\ UNCHANGED <<storageVars, hpc, streams, control>>

(* Mutant: "the event has already been stored, so we just need to add the  *)
(* embedding": no look-up.                                                 *)
CallAddEmbeddingUnchecked(r) ==
    /\ vpc[r] = "add"
    /\ vpc' = [vpc EXCEPT ![r] = "writing"]
    /\ wpc' = [wpc EXCEPT ![r] = "vector"]
    /\ wid' = [wid EXCEPT ![r] = EventOf[r].id]
    /\ UNCHANGED <<rows, indexVars, wvec, readers, process, hpc, wg, streams, control, faults>>

CallAddEmbedding(r) ==
    /\ vpc[r] = "add"
    /\ \/ /\ AddEmbeddingToEvent(r, EventOf[r].id)
          /\ vpc' = [vpc EXCEPT ![r] = "writing"]
          /\ UNCHANGED <<wg, faults>>
       \/ /\ \/ (events[EventOf[r].id] = None \/ db # "open") /\ UNCHANGED faults
             \/ Fails(r)
          /\ Return(r)
          /\ UNCHANGED storageVars
    /\ UNCHANGED <<hpc, streams, control>>

WriteEmbedding(r) ==
    /\ vpc[r] = "writing"
    /\ \/ \E v \in VectorIds : InsertVector(r, v) /\ UNCHANGED faults
       \/ AddToIndex(r) /\ UNCHANGED faults
       \/ CreateEdge(r) /\ UNCHANGED faults
       \/ WriteFails(r) /\ (Fails(r) \/ (db # "open" /\ UNCHANGED faults))
    /\ UNCHANGED <<handlers, streams, control>>

FinishVectorization(r) ==
    /\ vpc[r] = "writing"
    /\ wpc[r] = "idle"
    /\ Return(r)
    /\ UNCHANGED <<storageVars, hpc, streams, control, faults>>

VectorizeStep(r) ==
    CreateEmbedding(r) \/ CallAddEmbedding(r) \/ WriteEmbedding(r) \/ FinishVectorization(r)

-----------------------------------------------------------------------------
(* Subscribe streams, as far as the shutdown sees them: a handler returns  *)
(* when its client goes away and for no other reason.                      *)

OpenStream(s) ==
    /\ Accepting
    /\ stream[s] = "new"
    /\ stream' = [stream EXCEPT ![s] = "open"]
    /\ UNCHANGED <<storageVars, handlers, got, control, faults>>

ClientLeaves(s) ==
    /\ stream[s] = "open"
    /\ stream' = [stream EXCEPT ![s] = "ended"]
    /\ UNCHANGED <<storageVars, handlers, got, control, faults>>

-----------------------------------------------------------------------------
(* runServer and its signal goroutine.                                     *)

Start ==
    /\ main = "down"
    /\ NewProvider
    /\ main' = "serving"
    /\ shutdown' = "idle"
    /\ UNCHANGED <<handlers, streams, faults>>

Signal ==
    /\ main # "down"
    /\ shutdown = "idle"
    /\ shutdown' = "stopping"
    /\ UNCHANGED <<storageVars, handlers, streams, main, faults>>

(* Mutant: Stop instead of GracefulStop: running calls are not waited for. *)
GracefulStopAtOnce ==
    /\ shutdown = "stopping"
    /\ shutdown' = "waiting"
    /\ UNCHANGED <<storageVars, handlers, streams, main, faults>>

(* GracefulStop returns when every call has returned, streams included.    *)
GracefulStop ==
    /\ shutdown = "stopping"
    /\ \A r \in Reqs : hpc[r] \notin Running
    /\ \A s \in Streams : stream[s] # "open"
    /\ shutdown' = "waiting"
    /\ UNCHANGED <<storageVars, handlers, streams, main, faults>>

(* Mutant: the counter is not waited for.                                  *)
WaitForVectorizationSkipped ==
    /\ shutdown = "waiting"
    /\ shutdown' = "closing"
    /\ UNCHANGED <<storageVars, handlers, streams, main, faults>>

WaitForVectorization ==
    /\ shutdown = "waiting"
    /\ wg = 0
    /\ shutdown' = "closing"
    /\ UNCHANGED <<storageVars, handlers, streams, main, faults>>

CloseStorage ==
    /\ shutdown = "closing"
    /\ Close
    /\ shutdown' = "complete"
    /\ unsaved' = (unsaved \/ indexFile' # hnswIndex)
    /\ UNCHANGED <<handlers, streams, main, failed>>

(* Serve returns once GracefulStop was called, or because Accept failed.   *)
(* Either way runServer then waits on shutdownComplete.                    *)
ServeReturns ==
    /\ main = "serving"
    /\ shutdown # "idle" \/ ServeMayFail
    /\ main' = "await"
    /\ UNCHANGED <<storageVars, handlers, streams, shutdown, faults>>

(* The process is gone; the calls it was serving are lost.                 *)
Gone ==
    /\ ProcessEnds
    /\ main' = "down"
    /\ shutdown' = "idle"
    /\ hpc' = [r \in Reqs |-> IF hpc[r] \in Running THEN "lost" ELSE hpc[r]]
    /\ vpc' = [r \in Reqs |-> IF vpc[r] \in Vectorizing THEN "lost" ELSE vpc[r]]
    /\ wg' = 0
    /\ stream' = [s \in Streams |-> IF stream[s] = "open" THEN "ended" ELSE stream[s]]
    /\ unsaved' = (unsaved \/ db = "open")
    /\ UNCHANGED <<got, failed>>

Exit == main = "await" /\ shutdown = "complete" /\ Gone

Crash == main # "down" /\ AllowCrash /\ Gone

ShutdownStep ==
    GracefulStop \/ WaitForVectorization \/ CloseStorage \/ ServeReturns \/ Exit

Next ==
    \/ \E r \in Reqs : AcceptPublish(r) \/ PublishStep(r) \/ VectorizeStep(r)
    \/ \E s \in Streams : OpenStream(s) \/ ClientLeaves(s)
    \/ Start \/ Signal \/ ShutdownStep \/ Crash

Spec == Init /\ [][Next]_vars

(* The scheduler runs every goroutine that can run; the embedding call has *)
(* a timeout, and a provider is assumed to answer or fail in the end.      *)
(* Nothing is assumed of clients, signals and failures: WF is on the       *)
(* server's own steps.                                                     *)
Fairness ==
    /\ \A r \in Reqs : WF_vars(PublishStep(r)) /\ WF_vars(VectorizeStep(r))
    /\ WF_vars(GracefulStop) /\ WF_vars(WaitForVectorization)
    /\ WF_vars(CloseStorage) /\ WF_vars(ServeReturns /\ shutdown # "idle")
    /\ WF_vars(Exit)

FairSpec == Spec /\ Fairness

-----------------------------------------------------------------------------
(* Every variable has its type.                                            *)
TypeOK ==
    /\ StorageTypeOK
    /\ hpc \in [Reqs -> Running \cup {"new", "ok", "error", "lost"}]
    /\ vpc \in [Reqs -> Vectorizing \cup {"none", "done", "lost"}]
    /\ wg \in Nat
    /\ stream \in [Streams -> {"new", "open", "ended"}]
    /\ got \in [Streams -> SUBSET EventIds]
    /\ main \in {"down", "serving", "await"}
    /\ shutdown \in {"idle", "stopping", "waiting", "closing", "complete"}
    /\ failed \subseteq Reqs
    /\ unsaved \in BOOLEAN

(* The server uses storage as Storage describes its callers, so all that   *)
(* is proved of Storage holds of the running server.                       *)
ImplementsStorage == StorageSpec

(* Once storage is closed nothing in the process can use it any more: no   *)
(* Publish handler, no vectorization, no stream is left ("NOW, it's safe   *)
(* to close storage").                                                     *)
StorageClosedLast ==
    db = "closed" =>
        /\ \A r \in Reqs : hpc[r] \notin Running /\ vpc[r] \notin Vectorizing
        /\ \A s \in Streams : stream[s] # "open"

(* A fact whose Publish succeeded has been embedded when the process shuts *)
(* down gracefully, even if the signal came right after the call returned  *)
(* ("Event was properly vectorized and persisted despite immediate         *)
(* shutdown!"); it is stored and linked to a vector, and a process that    *)
(* starts later finds that vector in its index.  This holds unless a call  *)
(* made for that fact failed; the index also needs every earlier process   *)
(* to have saved it.                                                       *)
AcknowledgedFactsSurvive ==
    \A r \in Reqs : hpc[r] = "ok" /\ IsFact[r] /\ HasEmbedding /\ r \notin failed =>
        /\ db # "open" /\ ~unsaved => vpc[r] = "done"
        /\ vpc[r] = "done" =>
             /\ events[EventOf[r].id] # None
             /\ \E v \in VectorIds :
                   /\ <<v, EventOf[r].id>> \in edges
                   /\ ~unsaved =>
                        IF db = "open" THEN v \in hnswIndex
                                       ELSE indexFile # None /\ v \in indexFile

(* A response is stored before any subscriber is told of it, so a client   *)
(* can look up what it was sent, unless storing that response failed.      *)
BroadcastResponsesStored ==
    \A s \in Streams, r \in Reqs \ failed :
        ResponseId[r] \in got[s] => events[ResponseId[r]] # None

(* A Publish call that was accepted always returns.                        *)
PublishReturns == \A r \in Reqs : hpc[r] \in Running ~> hpc[r] \notin Running

(* A signal that comes when no stream is open, or whose last stream closes, *)
(* ends the process: the handlers, the vectorizations and the two          *)
(* goroutines of serve.go never wait for each other, whichever calls fail  *)
(* and even when Serve had failed before.                                  *)
SignalEndsOnceClientsLeave ==
    (shutdown = "stopping" /\ \A s \in Streams : stream[s] # "open") ~> (main = "down")

(* A signal ends the process ("initiating graceful shutdown ... Graceful   *)
(* shutdown complete").                                                    *)
SignalLeadsToExit == (shutdown = "stopping") ~> (main = "down")
=============================================================================
