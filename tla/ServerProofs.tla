---------------------------- MODULE ServerProofs ----------------------------
(***************************************************************************)
(* For any number of Publish calls, streams and restarts, with every call  *)
(* allowed to fail and the process to die at any point: the server uses    *)
(* storage as Storage describes it, closes it when nothing can use it any  *)
(* more, stores a response before it is broadcast, and does not lose a     *)
(* fact it has acknowledged.                                               *)
(***************************************************************************)
EXTENDS Server, StorageProofs, FiniteSetTheorems

(* Only vectorization goroutines use a multi-statement call of storage,    *)
(* each for the event of its own request; the writers that stand for the   *)
(* handlers never leave a call half done.  A goroutine starts when its     *)
(* handler says so, once.                                                  *)
WriterUse ==
    /\ \A t \in Writers \ Reqs : wpc[t] = "idle" /\ wid[t] = None
    /\ \A r \in Reqs : wpc[r] # "idle" =>
          vpc[r] = "writing" /\ wid[r] = EventOf[r].id
    /\ \A r \in Reqs : hpc[r] \in {"new", "store", "vectorize"} => vpc[r] = "none"

ServerTypes ==
    /\ hpc \in [Reqs -> Running \cup {"new", "ok", "error", "lost"}]
    /\ vpc \in [Reqs -> Vectorizing \cup {"none", "done", "lost"}]
    /\ stream \in [Streams -> {"new", "open", "ended"}]
    /\ got \in [Streams -> SUBSET EventIds]
    /\ main \in {"down", "serving", "await"}
    /\ shutdown \in {"idle", "stopping", "waiting", "closing", "complete"}
    /\ failed \subseteq Reqs
    /\ unsaved \in BOOLEAN

(* What the assumption on the constants says of an event of the server.    *)
LEMMA ServerEvents ==
    ASSUME NEW r \in Reqs
    PROVE  /\ r \in Writers
           /\ EventOf[r] \in Event /\ EventOf[r].id \in EventIds
           /\ Response(r) \in Event /\ Response(r).id = ResponseId[r]
           /\ ResponseId[r] \in EventIds
  BY ServerAssumption DEF Event, Response

(* An INSERT made by a Publish handler is a StoreEvent without embedding   *)
(* by a writer that is none of the vectorization goroutines.               *)
LEMMA InsertIsStore ==
    ASSUME StorageTypeOK, WriterUse, NEW e \in Event, InsertEvent(e),
           UNCHANGED <<vectors, edges, indexVars, writers, readers, process>>
    PROVE  StorageNext
<1>1. PICK t \in Writers : t \notin Reqs
  BY ServerAssumption
<1>2. wpc[t] = "idle" /\ wid[t] = None
  BY <1>1 DEF WriterUse
<1>3. wpc' = [wpc EXCEPT ![t] = "idle"] /\ wid' = [wid EXCEPT ![t] = None] /\ wvec' = wvec
  BY <1>2 DEF writers, StorageTypeOK
<1>4. StoreEvent(t, e, FALSE)
  BY <1>2, <1>3 DEF StoreEvent
<1> QED
  BY <1>4 DEF StorageNext, WriterStep

(* Every step of the server is a step of storage or leaves it alone.       *)
LEMMA StorageUse == StorageTypeOK /\ WriterUse /\ [Next]_vars => [StorageNext]_storageVars
<1> SUFFICES ASSUME StorageTypeOK, WriterUse, [Next]_vars
             PROVE  StorageNext \/ UNCHANGED storageVars
  OBVIOUS
<1>1. ASSUME NEW r \in Reqs, NEW e \in Event, StoreOrLog(r, e)
      PROVE  StorageNext \/ UNCHANGED storageVars
  BY <1>1, InsertIsStore DEF StoreOrLog
<1>2. ASSUME NEW r \in Reqs, AcceptPublish(r) \/ PublishStep(r)
      PROVE  StorageNext \/ UNCHANGED storageVars
  BY <1>1, <1>2, ServerEvents DEF AcceptPublish, PublishStep, StoreIncoming,
     StartVectorization, Dispatch, Execute, StoreResponse, Broadcast
<1>3. ASSUME NEW r \in Reqs, VectorizeStep(r)
      PROVE  StorageNext \/ UNCHANGED storageVars
  <2>1. CASE AddEmbeddingToEvent(r, EventOf[r].id)
    BY <2>1, ServerEvents DEF StorageNext, WriterStep
  <2>2. CASE WriteStep(r)
    BY <2>2, ServerEvents DEF StorageNext, WriterStep
  <2> QED
    BY <1>3, <2>1, <2>2 DEF VectorizeStep, CreateEmbedding, CallAddEmbedding,
       WriteEmbedding, FinishVectorization, WriteStep
<1>4. ASSUME NEW s \in Streams, OpenStream(s) \/ ClientLeaves(s) PROVE UNCHANGED storageVars
  BY <1>4 DEF OpenStream, ClientLeaves
<1>5. CASE Start \/ Signal \/ ShutdownStep \/ Crash
  BY <1>5 DEF Start, Signal, ShutdownStep, Crash, GracefulStop, WaitForVectorization,
     CloseStorage, ServeReturns, Exit, Gone, StorageNext
<1>6. CASE UNCHANGED vars
  BY <1>6 DEF vars
<1> QED
  BY <1>2, <1>3, <1>4, <1>5, <1>6 DEF Next

(* The server keeps to that use.                                           *)
LEMMA WriterUseStep ==
    ASSUME StorageTypeOK, ServerTypes, WriterUse, [Next]_vars
    PROVE  WriterUse'
<1> USE ServerEvents DEF StorageTypeOK, ServerTypes, WriterUse, writers, handlers, Return, Go
<1>1. ASSUME NEW r \in Reqs, AcceptPublish(r) \/ PublishStep(r) PROVE WriterUse'
  <2>1. UNCHANGED writers
    BY <1>1 DEF AcceptPublish, PublishStep, StoreIncoming, StartVectorization, Dispatch,
       Execute, StoreResponse, Broadcast, StoreOrLog, storageVars
  <2>2. \/ vpc' = vpc
        \/ hpc[r] = "vectorize" /\ vpc' = [vpc EXCEPT ![r] = "embed"]
    BY <1>1 DEF AcceptPublish, PublishStep, StoreIncoming, StartVectorization, Dispatch,
       Execute, StoreResponse, Broadcast
  <2>3. \A q \in Reqs : hpc'[q] \in {"new", "store", "vectorize"} =>
            hpc[q] \in {"new", "store", "vectorize"} /\ vpc'[q] = vpc[q]
    BY <1>1 DEF AcceptPublish, PublishStep, StoreIncoming, StartVectorization, Dispatch,
       Execute, StoreResponse, Broadcast
  <2> QED
    BY <2>1, <2>2, <2>3
<1>2. ASSUME NEW r \in Reqs, CreateEmbedding(r) PROVE WriterUse'
  BY <1>2 DEF CreateEmbedding, storageVars
<1>3. ASSUME NEW r \in Reqs, CallAddEmbedding(r) PROVE WriterUse'
  BY <1>3 DEF CallAddEmbedding, AddEmbeddingToEvent, storageVars
<1>4. ASSUME NEW r \in Reqs, WriteEmbedding(r) PROVE WriterUse'
  BY <1>4 DEF WriteEmbedding, InsertVector, AddToIndex, CreateEdge, WriteFails
<1>5. ASSUME NEW r \in Reqs, FinishVectorization(r) PROVE WriterUse'
  BY <1>5 DEF FinishVectorization, storageVars
<1>6. ASSUME UNCHANGED <<writers, hpc, vpc>> PROVE WriterUse'
  BY <1>6
<1>7. CASE Start \/ Signal \/ GracefulStop \/ WaitForVectorization \/ CloseStorage \/ ServeReturns
  BY <1>6, <1>7 DEF Start, NewProvider, Signal, GracefulStop, WaitForVectorization,
     CloseStorage, Close, ServeReturns, storageVars
<1>8. CASE Gone
  BY <1>8 DEF Gone, ProcessEnds, Running, Vectorizing
<1>9. CASE UNCHANGED vars
  BY <1>6, <1>9 DEF vars, storageVars
<1>10. ASSUME NEW s \in Streams, OpenStream(s) \/ ClientLeaves(s) PROVE WriterUse'
  BY <1>6, <1>10 DEF OpenStream, ClientLeaves, storageVars
<1> QED
  BY <1>1, <1>2, <1>3, <1>4, <1>5, <1>7, <1>8, <1>9, <1>10
  DEF Next, VectorizeStep, ShutdownStep, Exit, Crash

-----------------------------------------------------------------------------
(* The order of the shutdown.  Storage is open from the start of a process *)
(* to the end of CloseStorage; from "waiting" on no call is running and no *)
(* stream is open, and from "closing" on no vectorization is left.         *)
NoCalls ==
    /\ \A r \in Reqs : hpc[r] \notin Running
    /\ \A s \in Streams : stream[s] # "open"
Busy == {r \in Reqs : vpc[r] \in Vectorizing}

ControlInv ==
    /\ main = "down" <=> db = "down"
    /\ db = "closed" <=> shutdown = "complete"
    /\ main = "down" => shutdown = "idle"
    /\ shutdown \in {"waiting", "closing", "complete"} => NoCalls
    /\ shutdown \in {"closing", "complete"} => Busy = {}
    /\ main = "down" => NoCalls /\ Busy = {}

(* vectorizeWG counts the vectorizations under way.                        *)
CountInv == IsFiniteSet(Busy) /\ wg = Cardinality(Busy)

(* A response is stored, or its storing failed, before it is broadcast.    *)
ResponseInv ==
    \A r \in Reqs \ failed :
        hpc[r] = "broadcast" \/ (\E s \in Streams : ResponseId[r] \in got[s]) =>
            events[ResponseId[r]] # None

(* The way of a fact no call for which fails: its event is stored before   *)
(* its goroutine starts, the goroutine keeps its vector in the index until *)
(* it has linked it, and only a process that dies without saving its index *)
(* loses a goroutine.  An index that was saved holds what it held in       *)
(* memory.                                                                 *)
Indexed(v) ==
    ~unsaved => IF db = "open" THEN v \in hnswIndex
                               ELSE indexFile # None /\ v \in indexFile

Linked(r) == \E v \in VectorIds : <<v, EventOf[r].id>> \in edges /\ Indexed(v)

FactInv ==
    /\ \A r \in Reqs : vpc[r] = "lost" => unsaved
    /\ \A r \in Reqs :
          HasEmbedding /\ IsFact[r] /\ hpc[r] \notin {"new", "store", "vectorize", "lost"} =>
             vpc[r] # "none"
    /\ \A r \in Reqs \ failed :
          /\ hpc[r] = "vectorize" \/ vpc[r] # "none" => events[EventOf[r].id] # None
          /\ wpc[r] = "edge" => wvec[r] \in hnswIndex
          /\ vpc[r] = "done" \/ (vpc[r] = "writing" /\ wpc[r] = "idle") => Linked(r)

ServerInv ==
    /\ StorageInv /\ ServerTypes /\ WriterUse /\ ControlInv /\ CountInv
    /\ ResponseInv /\ FactInv

(* Every action keeps the server's own variables in their types.           *)
LEMMA ServerTypesStep == ASSUME ServerTypes, [Next]_vars PROVE ServerTypes'
<1> USE ServerEvents
    DEF ServerTypes, handlers, streams, control, faults, Go, Fails, Return, Running, Vectorizing
<1>1. ASSUME NEW r \in Reqs, AcceptPublish(r) PROVE ServerTypes'
  BY <1>1 DEF AcceptPublish
<1>2. ASSUME NEW r \in Reqs, StoreIncoming(r) \/ StoreResponse(r) PROVE ServerTypes'
  BY <1>2 DEF StoreIncoming, StoreResponse, StoreOrLog
<1>3. ASSUME NEW r \in Reqs, StartVectorization(r) PROVE ServerTypes'
  BY <1>3 DEF StartVectorization
<1>4. ASSUME NEW r \in Reqs, Dispatch(r) PROVE ServerTypes'
  <2>1. (CASE Provider[r] = "none" -> "ok" [] Provider[r] = "missing" -> "error"
           [] OTHER -> "execute") \in {"ok", "error", "execute"}
    OBVIOUS
  <2> QED
    BY <1>4, <2>1 DEF Dispatch
<1>5. ASSUME NEW r \in Reqs, Execute(r) PROVE ServerTypes'
  BY <1>5 DEF Execute
<1>6. ASSUME NEW r \in Reqs, Broadcast(r) PROVE ServerTypes'
  BY <1>6 DEF Broadcast
<1>7. ASSUME NEW r \in Reqs, VectorizeStep(r) PROVE ServerTypes'
  BY <1>7 DEF VectorizeStep, CreateEmbedding, CallAddEmbedding, WriteEmbedding,
     FinishVectorization
<1>8. ASSUME NEW s \in Streams, OpenStream(s) \/ ClientLeaves(s) PROVE ServerTypes'
  BY <1>8 DEF OpenStream, ClientLeaves
<1>9. CASE Start \/ Signal \/ GracefulStop \/ WaitForVectorization \/ ServeReturns
  BY <1>9 DEF Start, Signal, GracefulStop, WaitForVectorization, ServeReturns
<1>10. CASE CloseStorage
  BY <1>10 DEF CloseStorage
<1>11. CASE Gone
  BY <1>11 DEF Gone
<1>12. CASE UNCHANGED vars
  BY <1>12 DEF vars
<1> QED
  BY <1>1, <1>2, <1>3, <1>4, <1>5, <1>6, <1>7, <1>8, <1>9, <1>10, <1>11, <1>12
  DEF Next, PublishStep, ShutdownStep, Exit, Crash

(* The writes of one goroutine leave the state of the process alone.       *)
LEMMA WritesKeepProcess ==
    ASSUME NEW r, NEW e, \/ StoreOrLog(r, e) \/ WriteEmbedding(r) \/ CallAddEmbedding(r)
                         \/ UNCHANGED storageVars
    PROVE  db' = db
  BY DEF StoreOrLog, WriteEmbedding, CallAddEmbedding, InsertVector, AddToIndex, CreateEdge,
     WriteFails, AddEmbeddingToEvent, storageVars, process

(* The shutdown keeps its order: whatever runs or starts to run does so    *)
(* before the step of the shutdown that waits for it.                      *)
LEMMA ControlStep ==
    ASSUME ServerTypes, ControlInv, CountInv, WriterUse, [Next]_vars PROVE ControlInv'
<1> USE DEF ServerTypes, ControlInv, NoCalls, handlers, streams, control
<1>1. ASSUME NEW r \in Reqs, AcceptPublish(r) PROVE ControlInv'
  BY <1>1, WritesKeepProcess DEF AcceptPublish, Accepting, Go, Busy
<1>2. ASSUME NEW r \in Reqs, PublishStep(r) PROVE ControlInv'
  <2>1. hpc[r] \in Running
    BY <1>2 DEF PublishStep, StoreIncoming, StartVectorization, Dispatch, Execute,
       StoreResponse, Broadcast, Go, Running
  <2>2. shutdown \notin {"waiting", "closing", "complete"} /\ main # "down"
    BY <2>1
  <2>3. db' = db /\ main' = main /\ shutdown' = shutdown
    BY <1>2, WritesKeepProcess DEF PublishStep, StoreIncoming, StartVectorization, Dispatch,
       Execute, StoreResponse, Broadcast
  <2> QED
    BY <2>2, <2>3
<1>3. ASSUME NEW r \in Reqs, VectorizeStep(r) PROVE ControlInv'
  <2>1. r \in Busy
    BY <1>3 DEF VectorizeStep, CreateEmbedding, CallAddEmbedding, WriteEmbedding,
       FinishVectorization, Busy, Vectorizing
  <2>2. shutdown \notin {"closing", "complete"} /\ main # "down"
    BY <2>1
  <2>3. db' = db /\ main' = main /\ shutdown' = shutdown /\ stream' = stream /\ hpc' = hpc
    BY <1>3, WritesKeepProcess DEF VectorizeStep, CreateEmbedding, CallAddEmbedding,
       WriteEmbedding, FinishVectorization
  <2> QED
    BY <2>2, <2>3
<1>4. ASSUME NEW s \in Streams, OpenStream(s) PROVE ControlInv'
  BY <1>4, WritesKeepProcess DEF OpenStream, Accepting, Busy
<1>5. ASSUME NEW s \in Streams, ClientLeaves(s) PROVE ControlInv'
  BY <1>5, WritesKeepProcess DEF ClientLeaves, Busy
<1>6. CASE Start
  BY <1>6 DEF Start, NewProvider, Busy
<1>7. CASE Signal \/ GracefulStop \/ ServeReturns
  BY <1>7, WritesKeepProcess DEF Signal, GracefulStop, ServeReturns, Busy
<1>8. CASE WaitForVectorization
  <2>1. Busy = {}
    BY <1>8, FS_EmptySet DEF WaitForVectorization, CountInv
  <2> QED
    BY <1>8, <2>1, WritesKeepProcess DEF WaitForVectorization, Busy
<1>9. CASE CloseStorage
  BY <1>9 DEF CloseStorage, Close, Busy
<1>10. CASE Gone
  BY <1>10 DEF Gone, ProcessEnds, Busy, Running, Vectorizing
<1>11. CASE UNCHANGED vars
  BY <1>11, WritesKeepProcess DEF vars, Busy
<1> QED
  BY <1>1, <1>2, <1>3, <1>4, <1>5, <1>6, <1>7, <1>8, <1>9, <1>10, <1>11
  DEF Next, ShutdownStep, Exit, Crash

(* Add before go, one Done per goroutine: the counter is exact.            *)
LEMMA CountStep ==
    ASSUME ServerTypes, WriterUse, CountInv, [Next]_vars PROVE CountInv'
<1> USE DEF CountInv
<1>1. ASSUME Busy' = Busy, wg' = wg PROVE CountInv'
  BY <1>1
<1>2. ASSUME UNCHANGED <<vpc, wg>> PROVE CountInv'
  BY <1>1, <1>2 DEF Busy
<1>3. ASSUME NEW r \in Reqs, StartVectorization(r) PROVE CountInv'
  <2>1. CASE UNCHANGED <<vpc, wg>>
    BY <1>2, <2>1
  <2>2. CASE wg' = wg + 1 /\ vpc' = [vpc EXCEPT ![r] = "embed"]
    <3>1. vpc[r] = "none"
      BY <1>3 DEF StartVectorization, Go, WriterUse
    <3>2. r \notin Busy /\ Busy' = Busy \cup {r}
      BY <2>2, <3>1 DEF ServerTypes, Busy, Vectorizing
    <3> QED
      BY <2>2, <3>2, FS_AddElement
  <2> QED
    BY <1>3, <2>1, <2>2 DEF StartVectorization
<1>4. ASSUME NEW r \in Reqs, r \in Busy, Return(r) PROVE CountInv'
  <2>1. Busy' = Busy \ {r}
    BY <1>4 DEF Return, ServerTypes, Busy, Vectorizing
  <2> QED
    BY <1>4, <2>1, FS_RemoveElement DEF Return
<1>5. ASSUME NEW r \in Reqs, r \in Busy, NEW p \in Vectorizing, vpc' = [vpc EXCEPT ![r] = p],
             wg' = wg
      PROVE  CountInv'
  <2>1. Busy' = Busy
    BY <1>5 DEF ServerTypes, Busy
  <2> QED
    BY <1>1, <1>5, <2>1
<1>6. ASSUME NEW r \in Reqs, VectorizeStep(r) PROVE CountInv'
  <2>1. r \in Busy
    BY <1>6 DEF VectorizeStep, CreateEmbedding, CallAddEmbedding, WriteEmbedding,
       FinishVectorization, Busy, Vectorizing
  <2>2. \/ UNCHANGED <<vpc, wg>> \/ Return(r)
        \/ \E p \in Vectorizing : vpc' = [vpc EXCEPT ![r] = p] /\ wg' = wg
    BY <1>6 DEF VectorizeStep, CreateEmbedding, CallAddEmbedding, WriteEmbedding,
       FinishVectorization, Vectorizing, handlers
  <2> QED
    BY <1>2, <1>4, <1>5, <2>1, <2>2
<1>7. CASE Gone
  <2>1. Busy' = {} /\ wg' = 0
    BY <1>7 DEF Gone, Busy, Vectorizing
  <2> QED
    BY <2>1, FS_EmptySet
<1>8. ASSUME NEW r \in Reqs, AcceptPublish(r) \/ (PublishStep(r) /\ ~StartVectorization(r))
      PROVE  CountInv'
  BY <1>2, <1>8 DEF AcceptPublish, PublishStep, StoreIncoming, Dispatch, Execute,
     StoreResponse, Broadcast
<1>9. ASSUME NEW s \in Streams, OpenStream(s) \/ ClientLeaves(s) PROVE CountInv'
  BY <1>2, <1>9 DEF OpenStream, ClientLeaves, handlers
<1>10. CASE \/ Start \/ Signal \/ GracefulStop \/ WaitForVectorization \/ CloseStorage
            \/ ServeReturns \/ UNCHANGED vars
  BY <1>2, <1>10 DEF Start, Signal, GracefulStop, WaitForVectorization, CloseStorage,
     ServeReturns, handlers, vars
<1> QED
  BY <1>3, <1>6, <1>7, <1>8, <1>9, <1>10 DEF Next, ShutdownStep, Exit, Crash

-----------------------------------------------------------------------------
(* While a call or a vectorization runs, storage is open.                  *)
LEMMA OpenWhileUsed ==
    ASSUME StorageTypeOK, ServerTypes, ControlInv, NEW r \in Reqs,
           hpc[r] \in Running \/ vpc[r] \in Vectorizing
    PROVE  db = "open" /\ shutdown # "complete" /\ main # "down"
  BY DEF StorageTypeOK, ServerTypes, ControlInv, NoCalls, Busy

(* What is stored stays, and the histories only grow.                      *)
LEMMA HistoryStep ==
    ASSUME StorageInv, WriterUse, [Next]_vars
    PROVE  /\ \A i \in EventIds : events[i] # None => events'[i] # None
           /\ edges \subseteq edges' /\ failed \subseteq failed' /\ (unsaved => unsaved')
<1>1. [StorageNext]_storageVars
  BY StorageUse DEF StorageInv
<1>2. \A i \in EventIds : events[i] # None => events'[i] = events[i]
  BY <1>1, RowsOnlyGrow DEF StorageInv, GraphInv
<1>3. edges \subseteq edges'
  BY <1>1, RowsOnlyGrow DEF StorageInv, GraphInv
<1>4. failed \subseteq failed' /\ (unsaved => unsaved')
  <2>1. ASSUME NEW r \in Reqs, AcceptPublish(r) \/ PublishStep(r)
        PROVE  failed \subseteq failed' /\ unsaved' = unsaved
    BY <2>1 DEF AcceptPublish, PublishStep, StoreIncoming, StoreOrLog, StartVectorization,
       Dispatch, Execute, StoreResponse, Broadcast, Fails, faults
  <2>2. ASSUME NEW r \in Reqs, VectorizeStep(r)
        PROVE  failed \subseteq failed' /\ unsaved' = unsaved
    BY <2>2 DEF VectorizeStep, CreateEmbedding, CallAddEmbedding, WriteEmbedding,
       FinishVectorization, Fails, faults
  <2>3. ASSUME NEW s \in Streams, OpenStream(s) \/ ClientLeaves(s) PROVE UNCHANGED faults
    BY <2>3 DEF OpenStream, ClientLeaves
  <2>4. CASE CloseStorage \/ Gone
    BY <2>4 DEF CloseStorage, Gone
  <2>5. CASE \/ Start \/ Signal \/ GracefulStop \/ WaitForVectorization \/ ServeReturns
             \/ UNCHANGED vars
    BY <2>5 DEF Start, Signal, GracefulStop, WaitForVectorization, ServeReturns, faults, vars
  <2> QED
    BY <2>1, <2>2, <2>3, <2>4, <2>5 DEF Next, ShutdownStep, Exit, Crash, faults
<1> QED
  BY <1>2, <1>3, <1>4

(* Storing an event while storage is open leaves it stored, or the failure *)
(* is on record.                                                           *)
LEMMA StoredOrFailed ==
    ASSUME StorageTypeOK, db = "open", NEW r \in Reqs, NEW e \in Event, StoreOrLog(r, e)
    PROVE  events'[e.id] # None \/ r \in failed'
<1>1. e.id \in EventIds
  BY DEF Event
<1> QED
  BY <1>1, RowType DEF StoreOrLog, InsertEvent, StorageTypeOK, Fails, storageVars, rows

(* No subscriber is told of a response before it is stored.                *)
LEMMA ResponseStep ==
    ASSUME StorageInv, ServerTypes, WriterUse, ControlInv, ResponseInv, [Next]_vars
    PROVE  ResponseInv'
<1>1. /\ \A i \in EventIds : events[i] # None => events'[i] # None
      /\ failed \subseteq failed'
  BY HistoryStep
<1>2. ASSUME NEW r \in Reqs, StoreResponse(r) PROVE ResponseInv'
  <2>1. events'[ResponseId[r]] # None \/ r \in failed'
    <3>1. db = "open"
      BY <1>2, OpenWhileUsed DEF StoreResponse, Go, Running, StorageInv
    <3> QED
      BY <1>2, <3>1, StoredOrFailed, ServerEvents DEF StoreResponse, StorageInv
  <2>2. got' = got /\ \A q \in Reqs \ {r} : hpc'[q] = hpc[q]
    BY <1>2 DEF StoreResponse, Go, streams, ServerTypes
  <2> QED
    BY <1>1, <2>1, <2>2, ServerEvents DEF ResponseInv
<1>3. ASSUME NEW r \in Reqs, Broadcast(r) PROVE ResponseInv'
  <2>1. /\ hpc[r] = "broadcast"
        /\ \A q \in Reqs : hpc'[q] = "broadcast" => hpc[q] = "broadcast"
        /\ \A s \in Streams : got'[s] \subseteq got[s] \cup {ResponseId[r]}
    BY <1>3 DEF Broadcast, Go, ServerTypes
  <2>2. \A q \in Reqs : ResponseId[q] = ResponseId[r] => q = r
    BY ServerAssumption
  <2> QED
    BY <1>1, <2>1, <2>2, ServerEvents DEF ResponseInv
<1>4. ASSUME got' = got, \A q \in Reqs : hpc'[q] = "broadcast" => hpc[q] = "broadcast"
      PROVE  ResponseInv'
  BY <1>1, <1>4, ServerEvents DEF ResponseInv
<1>5. ASSUME NEW r \in Reqs, \/ AcceptPublish(r) \/ StoreIncoming(r) \/ StartVectorization(r)
                             \/ Dispatch(r) \/ Execute(r)
      PROVE  ResponseInv'
  <2>1. got' = got
    BY <1>5 DEF AcceptPublish, StoreIncoming, StartVectorization, Dispatch, Execute, streams
  <2>2. \A q \in Reqs : hpc'[q] = "broadcast" => hpc[q] = "broadcast"
    BY <1>5 DEF AcceptPublish, StoreIncoming, StartVectorization, Dispatch, Execute, Go,
       ServerTypes
  <2> QED
    BY <1>4, <2>1, <2>2
<1>6. ASSUME NEW r \in Reqs, VectorizeStep(r) PROVE ResponseInv'
  BY <1>4, <1>6 DEF VectorizeStep, CreateEmbedding, CallAddEmbedding, WriteEmbedding,
     FinishVectorization, streams, handlers
<1>7. ASSUME NEW s \in Streams, OpenStream(s) \/ ClientLeaves(s) PROVE ResponseInv'
  BY <1>4, <1>7 DEF OpenStream, ClientLeaves, handlers
<1>8. CASE \/ Start \/ Signal \/ GracefulStop \/ WaitForVectorization \/ CloseStorage
           \/ ServeReturns \/ UNCHANGED vars
  BY <1>4, <1>8 DEF Start, Signal, GracefulStop, WaitForVectorization, CloseStorage,
     ServeReturns, handlers, streams, vars
<1>9. CASE Gone
  BY <1>4, <1>9 DEF Gone
<1> QED
  BY <1>2, <1>3, <1>5, <1>6, <1>7, <1>8, <1>9
  DEF Next, PublishStep, ShutdownStep, Exit, Crash

(* Only a start, a Close and the end of a process touch the index other    *)
(* than by adding to it.                                                   *)
LEMMA IndexSteps ==
    ASSUME [Next]_vars
    PROVE  \/ Start \/ CloseStorage \/ Gone
           \/ /\ db' = db /\ unsaved' = unsaved /\ indexFile' = indexFile
              /\ hnswIndex \subseteq hnswIndex'
<1> DEFINE Kept == /\ db' = db /\ unsaved' = unsaved /\ indexFile' = indexFile
                   /\ hnswIndex \subseteq hnswIndex'
<1> USE DEF storageVars, process, indexVars, faults
<1>1. ASSUME NEW r \in Reqs, AcceptPublish(r) \/ PublishStep(r) PROVE Kept
  BY <1>1 DEF AcceptPublish, PublishStep, StoreIncoming, StoreOrLog, StartVectorization,
     Dispatch, Execute, StoreResponse, Broadcast, Fails
<1>2. ASSUME NEW r \in Reqs, VectorizeStep(r) PROVE Kept
  BY <1>2 DEF VectorizeStep, CreateEmbedding, CallAddEmbedding, AddEmbeddingToEvent,
     WriteEmbedding, InsertVector, AddToIndex, CreateEdge, WriteFails, FinishVectorization, Fails
<1>3. ASSUME NEW s \in Streams, OpenStream(s) \/ ClientLeaves(s) PROVE Kept
  BY <1>3 DEF OpenStream, ClientLeaves
<1>4. CASE Signal \/ GracefulStop \/ WaitForVectorization \/ ServeReturns \/ UNCHANGED vars
  BY <1>4 DEF Signal, GracefulStop, WaitForVectorization, ServeReturns, vars
<1> QED
  BY <1>1, <1>2, <1>3, <1>4 DEF Next, ShutdownStep, Exit, Crash

(* A vector that is linked to an event stays in the index, or in the file  *)
(* the next process loads, for as long as every process saves its index.   *)
LEMMA IndexedStep ==
    ASSUME StorageInv, [Next]_vars, NEW v \in VectorIds, NEW i, <<v, i>> \in edges, Indexed(v),
           unsaved => unsaved'
    PROVE  Indexed(v)'
<1> SUFFICES ASSUME ~unsaved'
             PROVE  IF db' = "open" THEN v \in hnswIndex'
                                    ELSE indexFile' # None /\ v \in indexFile'
  BY DEF Indexed
<1>0. IF db = "open" THEN v \in hnswIndex ELSE indexFile # None /\ v \in indexFile
  BY DEF Indexed
<1>1. CASE Start
  <2>1. db = "down" /\ db' = "open" /\ (LoadIndex \/ RebuildIndex)
    BY <1>1 DEF Start, NewProvider
  <2>2. v \in vectors
    BY DEF StorageInv, GraphInv, EdgesResolve
  <2> QED
    BY <1>0, <2>1, <2>2 DEF LoadIndex, RebuildIndex
<1>2. CASE CloseStorage
  <2>1. db = "open" /\ db' = "closed" /\ indexFile' = hnswIndex
    BY <1>2 DEF CloseStorage, Close
  <2>2. hnswIndex # None
    BY NoneAssumption DEF StorageInv, StorageTypeOK
  <2> QED
    BY <1>0, <2>1, <2>2
<1>3. CASE Gone
  <2>1. db # "open" /\ db' = "down" /\ indexFile' = indexFile
    BY <1>3 DEF Gone, ProcessEnds
  <2> QED
    BY <1>0, <2>1
<1>4. CASE /\ db' = db /\ unsaved' = unsaved /\ indexFile' = indexFile
           /\ hnswIndex \subseteq hnswIndex'
  BY <1>0, <1>4
<1> QED
  BY <1>1, <1>2, <1>3, <1>4, IndexSteps

(* A fact stays linked.                                                    *)
LEMMA LinkedStep ==
    ASSUME StorageInv, WriterUse, [Next]_vars, NEW r \in Reqs, Linked(r)
    PROVE  Linked(r)'
<1>1. PICK v \in VectorIds : <<v, EventOf[r].id>> \in edges /\ Indexed(v)
  BY DEF Linked
<1>2. edges \subseteq edges' /\ (unsaved => unsaved')
  BY HistoryStep
<1>3. Indexed(v)'
  BY <1>1, <1>2, IndexedStep
<1> QED
  BY <1>1, <1>2, <1>3 DEF Linked

(* The way of a fact, action by action.                                    *)
LEMMA FactStep ==
    ASSUME StorageInv, ServerTypes, WriterUse, ControlInv, FactInv, [Next]_vars
    PROVE  FactInv'
<1> USE DEF ServerTypes
<1>0. /\ \A i \in EventIds : events[i] # None => events'[i] # None
      /\ failed \subseteq failed' /\ (unsaved => unsaved')
  BY HistoryStep
<1>1. \A r \in Reqs : Linked(r) => Linked(r)'
  BY LinkedStep
<1> DEFINE Fact(r) ==
      /\ vpc[r] = "lost" => unsaved
      /\ HasEmbedding /\ IsFact[r] /\ hpc[r] \notin {"new", "store", "vectorize", "lost"} =>
            vpc[r] # "none"
      /\ r \notin failed =>
           /\ hpc[r] = "vectorize" \/ vpc[r] # "none" => events[EventOf[r].id] # None
           /\ wpc[r] = "edge" => wvec[r] \in hnswIndex
           /\ vpc[r] = "done" \/ (vpc[r] = "writing" /\ wpc[r] = "idle") => Linked(r)
<1>2. \A r \in Reqs : Fact(r)
  BY DEF FactInv
<1>3. SUFFICES \A r \in Reqs : Fact(r)'
  BY DEF FactInv
(* A request whose handler and goroutine stay where they are.              *)
<1>4. ASSUME NEW r \in Reqs, hpc'[r] = hpc[r], vpc'[r] = vpc[r], wpc'[r] = wpc[r],
             wvec'[r] = wvec[r], hnswIndex \subseteq hnswIndex' \/ wpc[r] = "idle"
      PROVE  Fact(r)'
  BY <1>0, <1>1, <1>2, <1>4, ServerEvents
(* A request whose handler moves on past the start of its goroutine, or    *)
(* has not come to storing its event.                                      *)
<1>5. ASSUME NEW r \in Reqs, vpc'[r] = vpc[r], wpc'[r] = wpc[r], wvec'[r] = wvec[r],
             hnswIndex \subseteq hnswIndex', hpc'[r] # "vectorize",
             hpc[r] \in {"new", "store", "vectorize", "lost"} =>
                hpc'[r] \in {"new", "store", "vectorize", "lost"}
      PROVE  Fact(r)'
  BY <1>0, <1>1, <1>2, <1>5, ServerEvents
<1>6. ASSUME UNCHANGED <<writers, vpc>>, hnswIndex \subseteq hnswIndex',
             NEW r \in Reqs, NEW q \in Reqs, \E p : hpc' = [hpc EXCEPT ![q] = p], r # q
      PROVE  Fact(r)'
  BY <1>4, <1>6 DEF writers
<1>7. ASSUME NEW q \in Reqs, StoreIncoming(q), NEW r \in Reqs PROVE Fact(r)'
  <2>1. UNCHANGED <<writers, vpc>> /\ hnswIndex' = hnswIndex
    BY <1>7 DEF StoreIncoming, StoreOrLog, storageVars, indexVars
  <2>2. hpc[q] = "store" /\ hpc' = [hpc EXCEPT ![q] = "vectorize"]
    BY <1>7 DEF StoreIncoming, Go
  <2>3. events'[EventOf[q].id] # None \/ q \in failed'
    <3>1. db = "open"
      BY <2>2, OpenWhileUsed DEF Running, StorageInv
    <3> QED
      BY <1>7, <3>1, StoredOrFailed, ServerEvents DEF StoreIncoming, StorageInv
  <2>4. CASE r = q
    <3>1. vpc[r] = "none" /\ wpc[r] = "idle"
      BY <2>2, <2>4 DEF WriterUse
    <3> QED
      BY <2>1, <2>2, <2>3, <2>4, <3>1 DEF writers
  <2>5. CASE r # q
    BY <1>6, <2>1, <2>2, <2>5
  <2> QED
    BY <2>4, <2>5
<1>8. ASSUME NEW q \in Reqs, StartVectorization(q), NEW r \in Reqs PROVE Fact(r)'
  <2>1. /\ UNCHANGED <<writers, hnswIndex, failed, unsaved, events>>
        /\ hpc[q] = "vectorize" /\ hpc' = [hpc EXCEPT ![q] = "dispatch"]
        /\ \/ vpc' = [vpc EXCEPT ![q] = "embed"]
           \/ vpc' = vpc /\ ~(HasEmbedding /\ IsFact[q])
    BY <1>8 DEF StartVectorization, Go, storageVars, indexVars, faults, rows
  <2>2. CASE r = q
    <3>1. vpc[r] = "none" /\ wpc[r] = "idle"
      BY <2>1, <2>2 DEF WriterUse
    <3> QED
      BY <1>2, <2>1, <2>2, <3>1 DEF writers
  <2>3. CASE r # q
    BY <1>4, <2>1, <2>3 DEF writers
  <2> QED
    BY <2>2, <2>3
<1>9. ASSUME NEW q \in Reqs, NEW r \in Reqs,
             AcceptPublish(q) \/ Dispatch(q) \/ Execute(q) \/ StoreResponse(q) \/ Broadcast(q)
      PROVE  Fact(r)'
  <2>1. UNCHANGED <<writers, vpc, hnswIndex>>
    BY <1>9 DEF AcceptPublish, Dispatch, Execute, StoreResponse, Broadcast, StoreOrLog,
       storageVars, indexVars
  <2>2. /\ \E p : hpc' = [hpc EXCEPT ![q] = p]
        /\ hpc'[q] # "vectorize"
        /\ hpc[q] \in {"new", "store", "vectorize", "lost"} => hpc'[q] = "store"
    BY <1>9 DEF AcceptPublish, Dispatch, Execute, StoreResponse, Broadcast, Go
  <2>3. CASE r = q
    BY <1>5, <2>1, <2>2, <2>3 DEF writers
  <2>4. CASE r # q
    BY <1>6, <2>1, <2>2, <2>4
  <2> QED
    BY <2>3, <2>4
<1>10. ASSUME NEW q \in Reqs, CreateEmbedding(q), NEW r \in Reqs PROVE Fact(r)'
  <2>1. /\ UNCHANGED <<writers, hpc, hnswIndex, events, unsaved>> /\ vpc[q] = "embed"
        /\ \/ vpc' = [vpc EXCEPT ![q] = "add"]
           \/ vpc' = [vpc EXCEPT ![q] = "done"] /\ q \in failed'
    BY <1>10 DEF CreateEmbedding, Return, Fails, storageVars, indexVars, rows, faults
  <2>2. CASE r = q
    <3>1. wpc[r] = "idle"
      BY <2>1, <2>2 DEF WriterUse
    <3> QED
      BY <1>0, <1>2, <2>1, <2>2, <3>1 DEF writers
  <2>3. CASE r # q
    BY <1>4, <2>1, <2>3 DEF writers
  <2> QED
    BY <2>2, <2>3
<1>11. ASSUME NEW q \in Reqs, CallAddEmbedding(q), NEW r \in Reqs PROVE Fact(r)'
  <2>1. /\ UNCHANGED <<hpc, hnswIndex, events, wvec>> /\ vpc[q] = "add"
        /\ \A o \in Reqs \ {q} : vpc'[o] = vpc[o] /\ wpc'[o] = wpc[o]
    BY <1>11, ServerEvents DEF CallAddEmbedding, AddEmbeddingToEvent, Return, storageVars,
       indexVars, rows, writers, StorageInv, StorageTypeOK
  <2>2. \/ vpc'[q] = "writing" /\ wpc'[q] = "vector"
        \/ vpc'[q] = "done" /\ wpc' = wpc /\ q \in failed'
        \/ events[EventOf[q].id] = None /\ vpc'[q] = "done" /\ failed' = failed
    <3>1. db = "open"
      BY <2>1, OpenWhileUsed DEF Vectorizing, StorageInv
    <3>2. CASE AddEmbeddingToEvent(q, EventOf[q].id) /\ vpc' = [vpc EXCEPT ![q] = "writing"]
      BY <3>2, ServerEvents DEF AddEmbeddingToEvent, StorageInv, StorageTypeOK
    <3>3. CASE Return(q) /\ UNCHANGED storageVars /\ Fails(q)
      BY <3>3 DEF Return, Fails, storageVars, writers
    <3>4. CASE Return(q) /\ events[EventOf[q].id] = None /\ UNCHANGED faults
      BY <3>4 DEF Return, faults
    <3> QED
      BY <1>11, <3>1, <3>2, <3>3, <3>4 DEF CallAddEmbedding
  <2>3. CASE r = q
    <3>1. wpc[r] = "idle"
      BY <2>1, <2>3 DEF WriterUse
    <3> QED
      BY <1>0, <1>2, <2>1, <2>2, <2>3, <3>1
  <2>4. CASE r # q
    BY <1>4, <2>1, <2>4
  <2> QED
    BY <2>3, <2>4
<1>12. ASSUME NEW q \in Reqs, WriteEmbedding(q), NEW r \in Reqs PROVE Fact(r)'
  <2>1. UNCHANGED <<hpc, vpc>> /\ vpc[q] = "writing" /\ hnswIndex \subseteq hnswIndex'
    BY <1>12 DEF WriteEmbedding, handlers, InsertVector, AddToIndex, CreateEdge, WriteFails,
       indexVars
  <2>2. \A o \in Reqs \ {q} : wpc'[o] = wpc[o] /\ wvec'[o] = wvec[o]
    BY <1>12, ServerEvents DEF WriteEmbedding, InsertVector, AddToIndex, CreateEdge, WriteFails,
       StorageInv, StorageTypeOK
  <2>3. db = "open"
    BY <2>1, OpenWhileUsed DEF Vectorizing, StorageInv
  <2>4. ASSUME NEW v \in VectorIds, InsertVector(q, v) PROVE wpc'[q] = "index"
    BY <2>4, ServerEvents DEF InsertVector, StorageInv, StorageTypeOK
  <2>5. ASSUME AddToIndex(q) PROVE wpc'[q] = "edge" /\ wvec'[q] \in hnswIndex'
    BY <2>5, ServerEvents DEF AddToIndex, StorageInv, StorageTypeOK
  <2>6. ASSUME CreateEdge(q), UNCHANGED faults
        PROVE  wpc'[q] = "idle" /\ (q \notin failed' => Linked(q)')
    <3>1. wpc[q] = "edge" /\ wpc'[q] = "idle" /\ edges' = edges \cup {<<wvec[q], wid[q]>>}
      BY <2>6, ServerEvents DEF CreateEdge, StorageInv, StorageTypeOK
    <3>2. wid[q] = EventOf[q].id
      BY <3>1 DEF WriterUse
    <3>3. q \notin failed => wvec[q] \in hnswIndex /\ wvec[q] \in VectorIds
      BY <1>2, <3>1 DEF StorageInv, StorageTypeOK
    <3>4. db' = "open" /\ hnswIndex' = hnswIndex /\ failed' = failed
      BY <2>6, <2>3 DEF CreateEdge, process, indexVars, faults
    <3> QED
      BY <3>1, <3>2, <3>3, <3>4 DEF Linked, Indexed
  <2>7. ASSUME WriteFails(q), Fails(q) \/ (db # "open" /\ UNCHANGED faults)
        PROVE  wpc'[q] = "idle" /\ q \in failed'
    BY <2>3, <2>7, ServerEvents DEF WriteFails, Fails, StorageInv, StorageTypeOK
  <2>8. CASE r = q
    BY <1>0, <1>2, <1>12, <2>1, <2>4, <2>5, <2>6, <2>7, <2>8, ServerEvents DEF WriteEmbedding
  <2>9. CASE r # q
    BY <1>4, <2>1, <2>2, <2>9
  <2> QED
    BY <2>8, <2>9
<1>13. ASSUME NEW q \in Reqs, FinishVectorization(q), NEW r \in Reqs PROVE Fact(r)'
  <2>1. /\ UNCHANGED <<writers, hpc, hnswIndex, failed>> /\ vpc[q] = "writing" /\ wpc[q] = "idle"
        /\ vpc' = [vpc EXCEPT ![q] = "done"]
    BY <1>13 DEF FinishVectorization, Return, storageVars, indexVars, faults
  <2>2. CASE r = q
    BY <1>0, <1>1, <1>2, <2>1, <2>2, ServerEvents DEF writers
  <2>3. CASE r # q
    BY <1>4, <2>1, <2>3 DEF writers
  <2> QED
    BY <2>2, <2>3
<1>14. ASSUME Start, NEW r \in Reqs PROVE Fact(r)'
  <2>1. wpc[r] = "idle"
    BY <1>14 DEF Start, ControlInv, Busy, Vectorizing, WriterUse
  <2>2. UNCHANGED <<hpc, vpc, wpc, wvec>>
    BY <1>14 DEF Start, NewProvider, handlers, writers
  <2> QED
    BY <1>4, <2>1, <2>2
<1>15. ASSUME Gone, NEW r \in Reqs PROVE Fact(r)'
  <2>1. /\ wpc'[r] = "idle"
        /\ hpc'[r] = IF hpc[r] \in Running THEN "lost" ELSE hpc[r]
        /\ vpc'[r] = IF vpc[r] \in Vectorizing THEN "lost" ELSE vpc[r]
        /\ unsaved' = (unsaved \/ db = "open") /\ failed' = failed
    BY <1>15, ServerEvents DEF Gone, ProcessEnds
  <2>2. vpc[r] \in Vectorizing => unsaved'
    BY <2>1, OpenWhileUsed DEF StorageInv
  <2> QED
    BY <1>0, <1>1, <1>2, <2>1, <2>2, ServerEvents DEF Running, Vectorizing
<1>16. ASSUME \/ Signal \/ GracefulStop \/ WaitForVectorization \/ CloseStorage \/ ServeReturns
              \/ UNCHANGED vars \/ \E s \in Streams : OpenStream(s) \/ ClientLeaves(s),
              NEW r \in Reqs
       PROVE  Fact(r)'
  <2>1. UNCHANGED <<hpc, vpc, wpc, wvec, hnswIndex>>
    BY <1>16 DEF Signal, GracefulStop, WaitForVectorization, CloseStorage, Close, ServeReturns,
       OpenStream, ClientLeaves, vars, handlers, storageVars, writers, indexVars
  <2> QED
    BY <1>4, <2>1
<1> QED
  BY <1>7, <1>8, <1>9, <1>10, <1>11, <1>12, <1>13, <1>14, <1>15, <1>16
  DEF Next, PublishStep, VectorizeStep, ShutdownStep, Exit, Crash

-----------------------------------------------------------------------------
(* Before the first start nothing runs and nothing is stored.              *)
LEMMA ServerInit == Init => ServerInv
<1> SUFFICES ASSUME Init PROVE ServerInv
  OBVIOUS
<1>1. StorageInv
  BY StorageInvInit DEF Init
<1>2. Busy = {}
  BY DEF Init, Busy, Vectorizing
<1>3. CountInv
  BY <1>2, FS_EmptySet DEF Init, CountInv
<1>4. ServerTypes /\ WriterUse
  BY ServerEvents DEF Init, StorageInit, ServerTypes, WriterUse
<1>5. ControlInv
  BY <1>2 DEF Init, StorageInit, ControlInv, NoCalls, Running
<1>6. ResponseInv
  BY DEF Init, ResponseInv
<1>7. FactInv
  BY ServerEvents DEF Init, StorageInit, FactInv
<1> QED
  BY <1>1, <1>3, <1>4, <1>5, <1>6, <1>7 DEF ServerInv

(* Every step of the server preserves the invariant.                       *)
LEMMA ServerStep == ServerInv /\ [Next]_vars => ServerInv'
<1> SUFFICES ASSUME ServerInv, [Next]_vars PROVE ServerInv'
  OBVIOUS
<1> USE DEF ServerInv
<1>1. StorageInv'
  BY StorageUse, StorageInvStep DEF StorageInv
<1>2. ServerTypes' /\ WriterUse'
  BY ServerTypesStep, WriterUseStep DEF StorageInv
<1>3. ControlInv' /\ CountInv'
  BY ControlStep, CountStep
<1>4. ResponseInv' /\ FactInv'
  BY ResponseStep, FactStep
<1> QED
  BY <1>1, <1>2, <1>3, <1>4

(* The invariant holds of every behaviour of the server.                   *)
THEOREM ServerInvariant == Spec => []ServerInv
  BY ServerInit, ServerStep, PTL DEF Spec

(* Type correctness of the server, its counter of goroutines included.     *)
THEOREM ServerTypesHold == Spec => []TypeOK
<1>1. ServerInv => TypeOK
  <2> SUFFICES ASSUME ServerInv PROVE TypeOK
    OBVIOUS
  <2>1. wg \in Nat
    BY FS_CardinalityType DEF ServerInv, CountInv
  <2> QED
    BY <2>1 DEF ServerInv, StorageInv, ServerTypes, TypeOK
<1> QED
  BY <1>1, ServerInvariant, PTL

(* The server uses storage as Storage describes its callers: every theorem *)
(* about StorageSpec holds of the running server.                          *)
THEOREM ServerImplementsStorage == Spec => ImplementsStorage
<1>1. Init => StorageInit
  BY DEF Init
<1>2. ServerInv /\ [Next]_vars => [StorageNext]_storageVars
  BY StorageUse DEF ServerInv, StorageInv
<1> QED
  BY <1>1, <1>2, ServerInvariant, PTL DEF Spec, ImplementsStorage, StorageSpec

(* Storage is closed when no handler, vectorization or stream is left that *)
(* could use it.                                                           *)
THEOREM ServerClosesStorageLast == Spec => []StorageClosedLast
<1>1. ServerInv => StorageClosedLast
  BY DEF ServerInv, ControlInv, NoCalls, Busy, StorageClosedLast
<1> QED
  BY <1>1, ServerInvariant, PTL

(* A response that was broadcast is stored unless storing it failed.       *)
THEOREM ServerStoresBeforeBroadcast == Spec => []BroadcastResponsesStored
<1>1. ServerInv => BroadcastResponsesStored
  BY DEF ServerInv, ResponseInv, BroadcastResponsesStored
<1> QED
  BY <1>1, ServerInvariant, PTL

(* A fact whose Publish returned OK, and no call for which failed, is      *)
(* vectorized before a graceful shutdown ends, and stays stored, linked    *)
(* and indexed over restarts for as long as every process saves its index. *)
THEOREM ServerKeepsAcknowledgedFacts == Spec => []AcknowledgedFactsSurvive
<1>1. ASSUME ServerInv, NEW r \in Reqs, hpc[r] = "ok", IsFact[r], HasEmbedding, r \notin failed
      PROVE  /\ db # "open" /\ ~unsaved => vpc[r] = "done"
             /\ vpc[r] = "done" => events[EventOf[r].id] # None /\ Linked(r)
  <2>1. vpc[r] # "none" /\ (vpc[r] = "lost" => unsaved)
    BY <1>1 DEF ServerInv, FactInv
  <2>2. db # "open" => vpc[r] \notin Vectorizing
    BY <1>1, OpenWhileUsed DEF ServerInv, StorageInv
  <2>3. vpc[r] \in Vectorizing \cup {"none", "done", "lost"}
    BY <1>1 DEF ServerInv, ServerTypes
  <2> QED
    BY <1>1, <2>1, <2>2, <2>3 DEF ServerInv, FactInv
<1>2. ServerInv => AcknowledgedFactsSurvive
  BY <1>1 DEF AcknowledgedFactsSurvive, Linked, Indexed
<1> QED
  BY <1>2, ServerInvariant, PTL

-----------------------------------------------------------------------------
(* What storage guarantees, for the running server.                        *)

(* Publish handlers, vectorizations, shutdowns and crashes leave the       *)
(* stored graph well formed: both ends of every link are stored, a vector  *)
(* embeds one event, and the index and its file hold stored vectors only.  *)
THEOREM ServerKeepsGraph ==
    Spec => [](EdgesResolve /\ OneEventPerVector /\ IndexIsStored)
<1>1. Spec => StorageSpec
  BY ServerImplementsStorage DEF ImplementsStorage
<1> QED
  BY <1>1, StorageEdgesResolve, StorageOneEventPerVector, StorageIndexIsStored, PTL

(* No step of the server rewrites a stored event or drops a vector or a    *)
(* link, a Publish of an id that is stored and a crash included.           *)
THEOREM ServerRowsAreImmutable == Spec => RowsAreImmutable
<1>1. Spec => StorageSpec
  BY ServerImplementsStorage DEF ImplementsStorage
<1> QED
  BY <1>1, StorageRowsAreImmutable

(* A server that is only ever shut down gracefully, and whose saves work,  *)
(* finds every embedded event after a restart ("Events are still           *)
(* searchable after restart!"): the order of the shutdown is enough.       *)
THEOREM OrderlyServerStaysSearchable ==
    ASSUME ~AllowCrash, ~SaveMayFail
    PROVE  Spec => []EmbeddedEventsSearchable
<1>1. Spec => StorageSpec
  BY ServerImplementsStorage DEF ImplementsStorage
<1> QED
  BY <1>1, OrderlyRestartsKeepSearchable
=============================================================================
