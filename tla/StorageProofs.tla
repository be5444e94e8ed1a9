--------------------------- MODULE StorageProofs ---------------------------
(***************************************************************************)
(* For any number of concurrent writers and queries, events, users and     *)
(* restarts, with statements failing and the process dying at any point:   *)
(* the stored graph stays well formed, stored rows never change, and a     *)
(* query for a user returns that user's events only.  As long as every     *)
(* process saves its index, embedded events stay searchable.               *)
(***************************************************************************)
EXTENDS Storage, TLAPS

-----------------------------------------------------------------------------
(* The inductive invariant.  A writer that has inserted its vector owns    *)
(* it: the vector is stored, nothing links it yet, and no other writer has *)
(* it.  A writer works for a stored event.                                 *)
Owning(t) == wpc[t] \in {"index", "edge"}

WritersOwnVectors ==
    \A t \in Writers : Owning(t) =>
        /\ wvec[t] \in vectors
        /\ \A x \in edges : x[1] # wvec[t]
        /\ \A u \in Writers \ {t} : Owning(u) => wvec[u] # wvec[t]

WritersHaveEvents ==
    \A t \in Writers : wpc[t] # "idle" => wid[t] \in EventIds /\ events[wid[t]] # None

(* A row is what StoreEvent makes of the event that was published.         *)
RowsAreGiven ==
    \A i \in EventIds :
        /\ events[i] = None <=> given[i] = None
        /\ events[i] # None => events[i] = Row(given[i])

GraphInv ==
    /\ EdgesResolve /\ OneEventPerVector /\ IndexIsStored
    /\ WritersOwnVectors /\ WritersHaveEvents /\ RowsAreGiven

(* A query restricted to a user holds, at each of its steps, only events   *)
(* of that user, or vectors linked to one of them.                         *)
OfUser(u) == {i \in EventIds : given[i] # None /\ given[i].user = u}

RestrictedTo(t, u) == rfilter[t] # None /\ rfilter[t].user = u

QueriesStayWithUser ==
    \A t \in Readers : \A u \in Users : RestrictedTo(t, u) =>
        /\ rpc[t] \in {"locate", "search"} => relig[t] \subseteq OfUser(u)
        /\ rpc[t] \in {"search", "collect"} =>
              \A v \in rvecs[t] : \E i \in OfUser(u) : <<v, i>> \in edges
        /\ \A x \in rres[t] : x[2] \in OfUser(u)

StorageInv == StorageTypeOK /\ GraphInv /\ QueriesStayWithUser

-----------------------------------------------------------------------------
(* The row of an event is a row, and keeps its user.                       *)
LEMMA RowType == \A e \in Event : Row(e) \in Rows /\ Row(e) # None /\ Row(e).user = e.user
  BY NoneAssumption DEF Row, Rows, Event

(* The initial state satisfies the invariant.                              *)
LEMMA StorageInvInit == StorageInit => StorageInv
<1> SUFFICES ASSUME StorageInit PROVE StorageInv
  OBVIOUS
<1>1. StorageTypeOK
  BY StorageAssumption DEF StorageInit, StorageTypeOK
<1>2. GraphInv
  BY DEF StorageInit, GraphInv, EdgesResolve, OneEventPerVector, IndexIsStored,
         WritersOwnVectors, WritersHaveEvents, RowsAreGiven, Owning
<1>3. QueriesStayWithUser
  BY DEF StorageInit, QueriesStayWithUser, RestrictedTo
<1> QED
  BY <1>1, <1>2, <1>3 DEF StorageInv

(* Each step keeps every variable in its type.                             *)
LEMMA StorageTypeStep == StorageInv /\ [StorageNext]_storageVars => StorageTypeOK'
<1> SUFFICES ASSUME StorageTypeOK, GraphInv, [StorageNext]_storageVars PROVE StorageTypeOK'
  BY DEF StorageInv
<1> USE StorageAssumption DEF StorageTypeOK, rows, indexVars, writers, readers, process
<1>1. ASSUME NEW t \in Writers, NEW e \in Event, NEW b \in BOOLEAN, StoreEvent(t, e, b)
      PROVE  StorageTypeOK'
  <2>1. e.id \in EventIds
    BY DEF Event
  <2> QED
    BY <1>1, <2>1, RowType DEF StoreEvent, InsertEvent
<1>2. ASSUME NEW t \in Writers, NEW i \in EventIds, AddEmbeddingToEvent(t, i)
      PROVE  StorageTypeOK'
  BY <1>2 DEF AddEmbeddingToEvent
<1>3. ASSUME NEW t \in Writers, NEW v \in VectorIds, InsertVector(t, v) PROVE StorageTypeOK'
  BY <1>3 DEF InsertVector
<1>4. ASSUME NEW t \in Writers, AddToIndex(t) PROVE StorageTypeOK'
  BY <1>4 DEF AddToIndex, GraphInv, WritersOwnVectors, Owning
<1>5. ASSUME NEW t \in Writers, CreateEdge(t) PROVE StorageTypeOK'
  BY <1>5 DEF CreateEdge, GraphInv, WritersOwnVectors, WritersHaveEvents, Owning
<1>6. ASSUME NEW t \in Writers, WriteFails(t) PROVE StorageTypeOK'
  BY <1>6 DEF WriteFails
<1>7. ASSUME NEW t \in Readers, NEW f \in Filter \cup {None}, QuerySimilar(t, f)
      PROVE  StorageTypeOK'
  <2>1. PICK elig \in IF f = None THEN {{}} ELSE RowsRead(findFilteredEventIDs(f)) :
           relig' = [relig EXCEPT ![t] = elig]
    BY <1>7 DEF QuerySimilar
  <2>2. elig \subseteq EventIds
    BY <2>1 DEF RowsRead, findFilteredEventIDs, Stored
  <2>3. relig' \in [Readers -> SUBSET EventIds]
    BY <2>1, <2>2
  <2> QED
    BY <1>7, <2>3 DEF QuerySimilar
<1>8. ASSUME NEW t \in Readers, LocateVectors(t) PROVE StorageTypeOK'
  BY <1>8 DEF LocateVectors, RowsRead, VectorsOf
<1>9. ASSUME NEW t \in Readers, SearchIndex(t) PROVE StorageTypeOK'
  BY <1>9 DEF SearchIndex, HnswSearch
<1>10. ASSUME NEW t \in Readers, CollectResults(t) PROVE StorageTypeOK'
  BY <1>10 DEF CollectResults, RowsRead, LinksOf
<1>11. ASSUME NEW t \in Readers, QueryFails(t) PROVE StorageTypeOK'
  BY <1>11 DEF QueryFails
<1>12. CASE NewProvider
  BY <1>12 DEF NewProvider, LoadIndex, RebuildIndex, SaveIndex
<1>13. CASE Close
  BY <1>13 DEF Close, SaveIndex
<1>14. CASE ProcessEnds
  BY <1>14 DEF ProcessEnds
<1>15. CASE UNCHANGED storageVars
  BY <1>15 DEF storageVars
<1> QED
  BY <1>1, <1>2, <1>3, <1>4, <1>5, <1>6, <1>7, <1>8, <1>9, <1>10, <1>11, <1>12, <1>13,
     <1>14, <1>15 DEF StorageNext, WriterStep, WriteStep, ReaderStep

(* Each step keeps the stored graph well formed.  The parts that an action *)
(* can disturb are those of the rows, the edges, the index and the writers *)
(* it changes; steps of queries change none of them.                       *)
LEMMA GraphStep == StorageInv /\ [StorageNext]_storageVars => GraphInv'
<1> SUFFICES ASSUME StorageTypeOK, GraphInv, [StorageNext]_storageVars PROVE GraphInv'
  BY DEF StorageInv
<1> USE DEF StorageTypeOK, GraphInv, rows, indexVars, writers, readers, process
<1>1. ASSUME NEW t \in Writers, NEW e \in Event, NEW b \in BOOLEAN, StoreEvent(t, e, b)
      PROVE  GraphInv'
  <2>1. e.id \in EventIds /\ e # None
    BY NoneAssumption DEF Event
  <2>2. \A i \in EventIds : events[i] # None => i # e.id /\ events'[i] = events[i]
    BY <1>1, <2>1 DEF StoreEvent, InsertEvent
  <2>3. EdgesResolve' /\ OneEventPerVector' /\ IndexIsStored'
    BY <1>1, <2>2 DEF StoreEvent, EdgesResolve, OneEventPerVector, IndexIsStored
  <2>4. \A u \in Writers : Owning(u)' => Owning(u)
    BY <1>1 DEF StoreEvent, Owning
  <2>5. WritersOwnVectors'
    BY <1>1, <2>4 DEF StoreEvent, WritersOwnVectors
  <2>6. events'[e.id] = Row(e) /\ Row(e) # None
    BY <1>1, <2>1, RowType DEF StoreEvent, InsertEvent
  <2>7. WritersHaveEvents'
    BY <1>1, <2>1, <2>2, <2>6 DEF StoreEvent, WritersHaveEvents
  <2>8. RowsAreGiven'
    BY <1>1, <2>1, <2>2, <2>6 DEF StoreEvent, InsertEvent, RowsAreGiven
  <2> QED
    BY <2>3, <2>5, <2>7, <2>8
<1>2. ASSUME NEW t \in Writers, NEW i \in EventIds, AddEmbeddingToEvent(t, i)
      PROVE  GraphInv'
  BY <1>2 DEF AddEmbeddingToEvent, EdgesResolve, OneEventPerVector, IndexIsStored,
              WritersOwnVectors, WritersHaveEvents, RowsAreGiven, Owning
<1>3. ASSUME NEW t \in Writers, NEW v \in VectorIds, InsertVector(t, v) PROVE GraphInv'
  <2>1. EdgesResolve' /\ OneEventPerVector' /\ IndexIsStored' /\ RowsAreGiven'
    BY <1>3 DEF InsertVector, EdgesResolve, OneEventPerVector, IndexIsStored, RowsAreGiven
  <2>2. WritersHaveEvents'
    BY <1>3 DEF InsertVector, WritersHaveEvents
  <2>3. \A u \in Writers \ {t} : (Owning(u)' <=> Owning(u)) /\ wvec'[u] = wvec[u]
    BY <1>3 DEF InsertVector, Owning
  <2>4. wvec'[t] = v /\ v \in vectors' /\ \A x \in edges' : x[1] # v
    BY <1>3 DEF InsertVector, EdgesResolve
  <2>5. \A u \in Writers \ {t} : Owning(u) => wvec[u] # v
    BY <1>3 DEF InsertVector, WritersOwnVectors
  <2>6. vectors \subseteq vectors' /\ edges' = edges
    BY <1>3 DEF InsertVector
  <2>7. WritersOwnVectors'
    BY <2>3, <2>4, <2>5, <2>6 DEF WritersOwnVectors
  <2> QED
    BY <2>1, <2>2, <2>7
<1>4. ASSUME NEW t \in Writers, AddToIndex(t) PROVE GraphInv'
  <2>1. Owning(t) /\ \A u \in Writers : Owning(u)' <=> Owning(u)
    BY <1>4 DEF AddToIndex, Owning
  <2>2. WritersOwnVectors'
    BY <1>4, <2>1 DEF AddToIndex, WritersOwnVectors
  <2>3. WritersHaveEvents' /\ IndexIsStored'
    BY <1>4, <2>1 DEF AddToIndex, WritersHaveEvents, WritersOwnVectors, IndexIsStored
  <2> QED
    BY <1>4, <2>2, <2>3 DEF AddToIndex, EdgesResolve, OneEventPerVector, RowsAreGiven
<1>5. ASSUME NEW t \in Writers, CreateEdge(t) PROVE GraphInv'
  <2> DEFINE new == <<wvec[t], wid[t]>>
  <2>1. /\ Owning(t) /\ wpc[t] # "idle"
        /\ edges' = edges \cup {new} /\ UNCHANGED <<events, vectors, given, indexVars>>
        /\ ~Owning(t)'
        /\ \A u \in Writers \ {t} : wpc'[u] = wpc[u] /\ wid'[u] = wid[u] /\ wvec'[u] = wvec[u]
        /\ wpc'[t] = "idle"
    BY <1>5 DEF CreateEdge, Owning
  <2>2. /\ wvec[t] \in vectors /\ \A x \in edges : x[1] # wvec[t]
        /\ events[wid[t]] # None
    BY <2>1 DEF WritersOwnVectors, WritersHaveEvents
  <2>3. EdgesResolve' /\ OneEventPerVector'
    BY <2>1, <2>2 DEF EdgesResolve, OneEventPerVector
  <2>4. IndexIsStored' /\ RowsAreGiven' /\ WritersHaveEvents'
    BY <2>1 DEF IndexIsStored, RowsAreGiven, WritersHaveEvents
  <2>5. \A u \in Writers : Owning(u)' => u # t /\ Owning(u) /\ wvec[u] # wvec[t]
    BY <2>1 DEF Owning, WritersOwnVectors
  <2>6. WritersOwnVectors'
    BY <2>1, <2>5 DEF WritersOwnVectors
  <2> QED
    BY <2>3, <2>4, <2>6
<1>6. ASSUME NEW t \in Writers, WriteFails(t) PROVE GraphInv'
  BY <1>6 DEF WriteFails, EdgesResolve, OneEventPerVector, IndexIsStored,
              WritersOwnVectors, WritersHaveEvents, RowsAreGiven, Owning
<1>7. ASSUME UNCHANGED <<rows, indexVars, writers>> PROVE GraphInv'
  BY <1>7 DEF EdgesResolve, OneEventPerVector, IndexIsStored,
              WritersOwnVectors, WritersHaveEvents, RowsAreGiven, Owning
<1>8. ASSUME NEW t \in Readers, ReaderStep(t) PROVE UNCHANGED <<rows, indexVars, writers>>
  BY <1>8 DEF ReaderStep, QuerySimilar, LocateVectors, SearchIndex, CollectResults, QueryFails
<1>9. CASE NewProvider
  <2>1. IndexIsStored'
    BY <1>9 DEF NewProvider, LoadIndex, RebuildIndex, SaveIndex, IndexIsStored
  <2> QED
    BY <1>9, <2>1 DEF NewProvider, EdgesResolve, OneEventPerVector, WritersOwnVectors,
                      WritersHaveEvents, RowsAreGiven, Owning
<1>10. CASE Close
  <2>1. IndexIsStored'
    BY <1>10 DEF Close, SaveIndex, IndexIsStored
  <2> QED
    BY <1>10, <2>1 DEF Close, EdgesResolve, OneEventPerVector, WritersOwnVectors,
                       WritersHaveEvents, RowsAreGiven, Owning
<1>11. CASE ProcessEnds
  BY <1>11 DEF ProcessEnds, EdgesResolve, OneEventPerVector, IndexIsStored,
               WritersOwnVectors, WritersHaveEvents, RowsAreGiven, Owning
<1> QED
  BY <1>1, <1>2, <1>3, <1>4, <1>5, <1>6, <1>7, <1>8, <1>9, <1>10, <1>11
  DEF StorageNext, WriterStep, WriteStep, storageVars

(* No step takes an event or a link away, or changes one.                  *)
LEMMA RowsOnlyGrow ==
  ASSUME StorageTypeOK, RowsAreGiven, [StorageNext]_storageVars
  PROVE  /\ \A i \in EventIds : events[i] # None => events'[i] = events[i]
         /\ \A i \in EventIds : given[i] # None => given'[i] = given[i]
         /\ edges \subseteq edges' /\ vectors \subseteq vectors'
<1> DEFINE Grow == /\ \A i \in EventIds : events[i] # None => events'[i] = events[i]
                   /\ \A i \in EventIds : given[i] # None => given'[i] = given[i]
                   /\ edges \subseteq edges' /\ vectors \subseteq vectors'
<1> USE DEF rows
<1>1. ASSUME NEW t \in Writers, NEW e \in Event, NEW b \in BOOLEAN, StoreEvent(t, e, b)
      PROVE  Grow
  <2>1. e.id \in EventIds
    BY DEF Event
  <2>2. given[e.id] = None
    BY <1>1, <2>1 DEF StoreEvent, InsertEvent, RowsAreGiven
  <2> QED
    BY <1>1, <2>1, <2>2 DEF StoreEvent, InsertEvent, StorageTypeOK
<1>2. ASSUME NEW t \in Writers, NEW i \in EventIds, AddEmbeddingToEvent(t, i) PROVE Grow
  BY <1>2 DEF AddEmbeddingToEvent
<1>3. ASSUME NEW t \in Writers, WriteStep(t) PROVE Grow
  BY <1>3 DEF WriteStep, InsertVector, AddToIndex, CreateEdge, WriteFails
<1>4. ASSUME NEW t \in Readers, ReaderStep(t) PROVE Grow
  BY <1>4 DEF ReaderStep, QuerySimilar, LocateVectors, SearchIndex, CollectResults, QueryFails
<1>5. CASE NewProvider \/ Close \/ ProcessEnds
  BY <1>5 DEF NewProvider, Close, ProcessEnds
<1>6. CASE UNCHANGED storageVars
  BY <1>6 DEF storageVars
<1>7. Grow
  BY <1>1, <1>2, <1>3, <1>4, <1>5, <1>6 DEF StorageNext, WriterStep
<1> QED
  BY <1>7

(* Each step leaves every restricted query with what belongs to its user.  *)
(* The step that matters is CollectResults: a hit is linked to an event of *)
(* the user, and as it embeds one event only, no other event comes out.    *)
LEMMA QueriesStep == StorageInv /\ [StorageNext]_storageVars => QueriesStayWithUser'
<1> SUFFICES ASSUME StorageTypeOK, GraphInv, QueriesStayWithUser, [StorageNext]_storageVars
             PROVE  QueriesStayWithUser'
  BY DEF StorageInv
<1> USE DEF StorageTypeOK
<1>1. \A u \in Users : OfUser(u) \subseteq OfUser(u)'
  BY RowsOnlyGrow DEF GraphInv, OfUser
<1>2. edges \subseteq edges'
  BY RowsOnlyGrow DEF GraphInv
<1> DEFINE Stays(t) == \A u \in Users : RestrictedTo(t, u) =>
        /\ rpc[t] \in {"locate", "search"} => relig[t] \subseteq OfUser(u)
        /\ rpc[t] \in {"search", "collect"} =>
              \A v \in rvecs[t] : \E i \in OfUser(u) : <<v, i>> \in edges
        /\ \A x \in rres[t] : x[2] \in OfUser(u)
<1>3. \A t \in Readers : Stays(t)
  BY DEF QueriesStayWithUser
<1>4. ASSUME NEW t \in Readers, rpc'[t] = rpc[t], rfilter'[t] = rfilter[t],
             relig'[t] = relig[t], rvecs'[t] = rvecs[t], rres'[t] = rres[t]
      PROVE  Stays(t)'
  BY <1>1, <1>2, <1>3, <1>4 DEF RestrictedTo
<1>5. ASSUME UNCHANGED readers PROVE QueriesStayWithUser'
  BY <1>4, <1>5 DEF readers, QueriesStayWithUser
<1>6. ASSUME NEW t \in Readers, NEW f \in Filter \cup {None}, QuerySimilar(t, f)
      PROVE  Stays(t)'
  <2>1. /\ rfilter'[t] = f /\ rvecs'[t] = {} /\ rres'[t] = {}
        /\ f # None => relig'[t] \subseteq findFilteredEventIDs(f)
    BY <1>6 DEF QuerySimilar, RowsRead
  <2>2. ASSUME NEW u \in Users, f # None, f.user = u PROVE relig'[t] \subseteq OfUser(u)
    <3>1. u # None
      BY NoneAssumption
    <3>2. ASSUME NEW i \in findFilteredEventIDs(f) PROVE i \in OfUser(u)
      <4>1. i \in EventIds /\ events[i] # None /\ events[i].user = u
        BY <2>2, <3>1, <3>2 DEF findFilteredEventIDs, Stored
      <4>2. given[i] # None /\ events[i] = Row(given[i])
        BY <4>1 DEF GraphInv, RowsAreGiven
      <4>3. given[i] \in Event
        BY <4>1, <4>2
      <4>4. given[i].user = u
        BY <4>1, <4>2, <4>3, RowType
      <4> QED
        BY <4>1, <4>2, <4>4 DEF OfUser
    <3> QED
      BY <2>1, <2>2, <3>2
  <2>3. rpc'[t] \in {"locate", "done"}
    BY <1>6 DEF QuerySimilar
  <2> QED
    BY <1>1, <2>1, <2>2, <2>3 DEF RestrictedTo
<1>7. ASSUME NEW t \in Readers, LocateVectors(t) PROVE Stays(t)'
  <2>1. /\ rpc[t] = "locate" /\ rpc'[t] = "search"
        /\ rfilter'[t] = rfilter[t] /\ relig'[t] = relig[t] /\ rres'[t] = rres[t]
    BY <1>7 DEF LocateVectors
  <2>2. \A v \in rvecs'[t] : \E i \in relig[t] : <<v, i>> \in edges
    BY <1>7 DEF LocateVectors, RowsRead, VectorsOf
  <2>3. \A u \in Users : RestrictedTo(t, u) => relig[t] \subseteq OfUser(u)
    BY <1>3, <2>1
  <2> QED
    BY <1>1, <1>2, <1>3, <2>1, <2>2, <2>3 DEF RestrictedTo
<1>8. ASSUME NEW t \in Readers, SearchIndex(t) PROVE Stays(t)'
  <2>1. PICK hits \in HnswSearch(IF rfilter[t] = None THEN TopK ELSE TopK * OverFetch) :
         \E nodes \in SUBSET (IF rfilter[t] = None THEN hits ELSE hits \cap rvecs[t]) :
            /\ rvecs' = [rvecs EXCEPT ![t] = nodes]
            /\ rpc' = [rpc EXCEPT ![t] = IF nodes = {} THEN "done" ELSE "collect"]
    BY <1>8 DEF SearchIndex
  <2>2. rpc'[t] \in {"done", "collect"} /\ (rfilter[t] # None => rvecs'[t] \subseteq rvecs[t])
    BY <2>1
  <2>3. rpc[t] = "search" /\ rfilter'[t] = rfilter[t] /\ rres'[t] = rres[t]
    BY <1>8 DEF SearchIndex
  <2> QED
    BY <1>1, <1>2, <1>3, <2>2, <2>3 DEF RestrictedTo
<1>9. ASSUME NEW t \in Readers, CollectResults(t) PROVE Stays(t)'
  <2>1. rpc[t] = "collect" /\ rpc'[t] = "done" /\ rfilter'[t] = rfilter[t]
        /\ rres'[t] \subseteq {x \in edges : x[1] \in rvecs[t]}
    BY <1>9 DEF CollectResults, RowsRead, LinksOf
  <2>2. ASSUME NEW u \in Users, RestrictedTo(t, u), NEW x \in edges, x[1] \in rvecs[t]
        PROVE  x[2] \in OfUser(u)
    <3>1. PICK i \in OfUser(u) : <<x[1], i>> \in edges
      BY <1>3, <2>1, <2>2
    <3>2. x = <<x[1], i>>
      BY <3>1 DEF GraphInv, OneEventPerVector
    <3> QED
      BY <3>1, <3>2
  <2> QED
    BY <1>1, <2>1, <2>2 DEF RestrictedTo
<1>10. ASSUME NEW t \in Readers, QueryFails(t) PROVE Stays(t)'
  BY <1>10 DEF QueryFails, RestrictedTo
<1>11. ASSUME NEW t \in Readers, ReaderStep(t), NEW s \in Readers PROVE Stays(s)'
  <2>1. CASE s = t
    BY <1>6, <1>7, <1>8, <1>9, <1>10, <1>11, <2>1 DEF ReaderStep
  <2>2. CASE s # t
    <3>1. /\ rpc'[s] = rpc[s] /\ rfilter'[s] = rfilter[s] /\ relig'[s] = relig[s]
          /\ rvecs'[s] = rvecs[s] /\ rres'[s] = rres[s]
      BY <1>11, <2>2 DEF ReaderStep, QuerySimilar, LocateVectors, SearchIndex,
                         CollectResults, QueryFails
    <3> QED
      BY <1>4, <3>1
  <2> QED
    BY <2>1, <2>2
<1>12. ASSUME NEW t \in Writers, WriterStep(t) PROVE UNCHANGED readers
  BY <1>12 DEF WriterStep, WriteStep, StoreEvent, AddEmbeddingToEvent, InsertVector,
               AddToIndex, CreateEdge, WriteFails
<1>13. CASE NewProvider \/ Close
  BY <1>5, <1>13 DEF NewProvider, Close
<1>14. CASE ProcessEnds
  BY <1>14 DEF ProcessEnds, QueriesStayWithUser, RestrictedTo
<1>15. CASE UNCHANGED storageVars
  BY <1>5, <1>15 DEF storageVars
<1>16. CASE \E t \in Readers : ReaderStep(t)
  BY <1>11, <1>16 DEF QueriesStayWithUser
<1> QED
  BY <1>5, <1>12, <1>13, <1>14, <1>15, <1>16 DEF StorageNext

-----------------------------------------------------------------------------
(* Every step preserves the invariant.                                     *)
LEMMA StorageInvStep == StorageInv /\ [StorageNext]_storageVars => StorageInv'
  BY StorageTypeStep, GraphStep, QueriesStep DEF StorageInv

(* The invariant holds in every reachable state of the provider.           *)
THEOREM StorageInvariant == StorageSpec => []StorageInv
  BY StorageInvInit, StorageInvStep, PTL DEF StorageSpec

(* Every variable of the provider keeps its type.                          *)
THEOREM StorageTypes == StorageSpec => []StorageTypeOK
<1>1. StorageInv => StorageTypeOK
  BY DEF StorageInv
<1> QED
  BY <1>1, StorageInvariant, PTL

(* Both ends of every embedding_of edge are stored, whatever statements    *)
(* fail and wherever the process dies.                                     *)
THEOREM StorageEdgesResolve == StorageSpec => []EdgesResolve
<1>1. StorageInv => EdgesResolve
  BY DEF StorageInv, GraphInv
<1> QED
  BY <1>1, StorageInvariant, PTL

(* Writers that draw the same vector id never link it to two events.       *)
THEOREM StorageOneEventPerVector == StorageSpec => []OneEventPerVector
<1>1. StorageInv => OneEventPerVector
  BY DEF StorageInv, GraphInv
<1> QED
  BY <1>1, StorageInvariant, PTL

(* The index, and the file a restart loads, hold stored vectors only.      *)
THEOREM StorageIndexIsStored == StorageSpec => []IndexIsStored
<1>1. StorageInv => IndexIsStored
  BY DEF StorageInv, GraphInv
<1> QED
  BY <1>1, StorageInvariant, PTL

(* A query restricted to a user never returns an event of another user.    *)
THEOREM StorageUserIsolation == StorageSpec => []UserIsolation
<1>1. ASSUME StorageInv, NEW t \in Readers, rfilter[t] # None, rfilter[t].user # None,
             NEW x \in rres[t]
      PROVE  given[x[2]] # None /\ given[x[2]].user = rfilter[t].user
  <2>1. rfilter[t] \in Filter
    BY <1>1 DEF StorageInv, StorageTypeOK
  <2>2. rfilter[t].user \in Users
    BY <1>1, <2>1 DEF Filter
  <2> QED
    BY <1>1, <2>2 DEF StorageInv, QueriesStayWithUser, RestrictedTo, OfUser
<1>2. StorageInv => UserIsolation
  BY <1>1 DEF UserIsolation
<1> QED
  BY <1>2, StorageInvariant, PTL

(* No step of the provider, a crash included, changes a stored event or    *)
(* removes a vector or a link.                                             *)
THEOREM StorageRowsAreImmutable == StorageSpec => RowsAreImmutable
<1>1. StorageInv /\ [StorageNext]_storageVars =>
        [/\ \A i \in Stored : events'[i] = events[i]
         /\ edges \subseteq edges' /\ vectors \subseteq vectors']_storageVars
  BY RowsOnlyGrow DEF StorageInv, GraphInv, Stored
<1> QED
  BY <1>1, StorageInvariant, PTL DEF StorageSpec, RowsAreImmutable

-----------------------------------------------------------------------------
(* The index over restarts.  Loading takes the saved file as it is, so an  *)
(* embedded event stays searchable only as long as each process saves its  *)
(* index when it ends: then the file holds what the edges need whenever    *)
(* the provider is not open, and a writer links a vector it has indexed.   *)
IndexFollowsEdges ==
    /\ db = "open" => \A x \in edges : x[1] \in hnswIndex
    /\ db # "open" => \A x \in edges : indexFile # None /\ x[1] \in indexFile
    /\ db = "open" => \A t \in Writers : wpc[t] = "edge" => wvec[t] \in hnswIndex
    /\ db = "down" => \A t \in Writers : wpc[t] = "idle"

LEMMA IndexFollowsStep ==
    ASSUME ~AllowCrash, ~SaveMayFail, StorageInv, IndexFollowsEdges,
           [StorageNext]_storageVars
    PROVE  IndexFollowsEdges'
<1>0. StorageTypeOK /\ EdgesResolve
  BY DEF StorageInv, GraphInv
<1> USE DEF IndexFollowsEdges
<1>1. CASE UNCHANGED storageVars
  BY <1>1 DEF storageVars, rows, indexVars, writers, process
<1>2. ASSUME NEW t \in Writers, WriterStep(t) PROVE IndexFollowsEdges'
  <2> USE <1>0 DEF StorageTypeOK
  <2>1. ASSUME NEW e \in Event, NEW b \in BOOLEAN, StoreEvent(t, e, b)
        PROVE  IndexFollowsEdges'
    BY <2>1 DEF StoreEvent, InsertEvent, indexVars, process
  <2>2. ASSUME NEW i \in EventIds, AddEmbeddingToEvent(t, i) PROVE IndexFollowsEdges'
    BY <2>2 DEF AddEmbeddingToEvent, rows, indexVars, process
  <2>3. ASSUME NEW v \in VectorIds, InsertVector(t, v) PROVE IndexFollowsEdges'
    BY <2>3 DEF InsertVector, indexVars, process
  <2>4. CASE AddToIndex(t)
    BY <2>4 DEF AddToIndex, rows, process
  <2>5. CASE CreateEdge(t)
    BY <2>5 DEF CreateEdge, indexVars, process
  <2>6. CASE WriteFails(t)
    BY <2>6 DEF WriteFails, rows, indexVars, process
  <2> QED
    BY <1>2, <2>1, <2>2, <2>3, <2>4, <2>5, <2>6 DEF WriterStep, WriteStep
<1>3. ASSUME NEW t \in Readers, ReaderStep(t) PROVE IndexFollowsEdges'
  BY <1>3 DEF ReaderStep, QuerySimilar, LocateVectors, SearchIndex, CollectResults,
     QueryFails, rows, indexVars, writers, process
<1>4. CASE NewProvider
  <2>1. \A x \in edges : x[1] \in hnswIndex'
    BY <1>0, <1>4 DEF NewProvider, LoadIndex, RebuildIndex, EdgesResolve
  <2> QED
    BY <1>4, <2>1 DEF NewProvider, rows, writers
<1>5. CASE Close
  <2>1. indexFile' = hnswIndex /\ hnswIndex \in SUBSET VectorIds
    BY <1>0, <1>5 DEF Close, SaveIndex, StorageTypeOK
  <2>2. indexFile' # None
    BY <2>1, NoneAssumption
  <2> QED
    BY <1>5, <2>1, <2>2 DEF Close, rows, writers
<1>6. CASE ProcessEnds
  BY <1>6 DEF ProcessEnds, rows
<1> QED
  BY <1>1, <1>2, <1>3, <1>4, <1>5, <1>6 DEF StorageNext

(* Without crashes and failing saves, while the provider is open every     *)
(* event that has an embedding can be found through the index, over any    *)
(* number of restarts and whichever way the index is loaded: a process     *)
(* that ends without saving its index is the only way to lose one.         *)
THEOREM OrderlyRestartsKeepSearchable ==
    ASSUME ~AllowCrash, ~SaveMayFail
    PROVE  StorageSpec => []EmbeddedEventsSearchable
<1>1. StorageInit => IndexFollowsEdges
  BY DEF StorageInit, IndexFollowsEdges
<1>2. StorageInv /\ IndexFollowsEdges /\ [StorageNext]_storageVars => IndexFollowsEdges'
  BY IndexFollowsStep
<1>3. IndexFollowsEdges => EmbeddedEventsSearchable
  BY DEF IndexFollowsEdges, EmbeddedEventsSearchable
<1> QED
  BY <1>1, <1>2, <1>3, StorageInvariant, PTL DEF StorageSpec
=============================================================================
