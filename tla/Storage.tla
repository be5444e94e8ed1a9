------------------------------ MODULE Storage ------------------------------
(***************************************************************************)
(* The SQLite storage provider (internal/storage/sqlite/provider_pure.go): *)
(* event rows and vector rows of table nodes, embedding_of edges of table  *)
(* edges, the in-memory HNSW index over the vectors, and the file the      *)
(* index is saved to.  Every SQL statement commits by itself: the code     *)
(* uses no transaction, so a call that needs several statements can be     *)
(* interleaved with other calls and cut off by an error, by Close or by a  *)
(* crash after each of them.                                               *)
(***************************************************************************)
EXTENDS Naturals, FiniteSets

CONSTANTS
    EventIds,     \* event ids, chosen by clients
    VectorIds,    \* what vec_<nanoseconds>_<dimension> can come out as
    Users,        \* non-empty user ids
    Writers,      \* goroutines that call StoreEvent or AddEmbeddingToEvent
    Readers,      \* goroutines that call QuerySimilar
    TopK,         \* the topK of every query
    OverFetch,    \* how many times topK a filtered query asks of the index
    AllowCrash,   \* may the process be killed?
    SaveMayFail,  \* may writing the index file fail?
    MissingFileIsError, \* does loading a missing index file return an error?
    MaxStarts,    \* bound: how often the process is started
    None          \* an absent row, field, file or vector

ASSUME StorageAssumption ==
    /\ TopK \in Nat \ {0}
    /\ OverFetch \in Nat \ {0}
    /\ MaxStarts \in Nat
    /\ {AllowCrash, SaveMayFail, MissingFileIsError} \subseteq BOOLEAN

VARIABLES
    events,     \* id -> the stored row, or None: nodes of type 'event'
    vectors,    \* ids of the nodes of type 'vector'
    edges,      \* embedding_of edges, <<vector id, event id>>
    hnswIndex,  \* the vectors in the in-memory index
    indexFile,  \* the vectors in the saved index, or None when there is none
    db,         \* "down" (no process), "open", "closed" (Close has returned)
    starts,     \* number of times the process was started
    wpc, wid, wvec,            \* per writer: position, event id, vector id
    rpc, rfilter, relig, rvecs, rres,  \* per reader: see QuerySimilar
    given       \* history: id -> the event whose insertion succeeded, or None

rows      == <<events, vectors, edges, given>>
indexVars == <<hnswIndex, indexFile>>
writers   == <<wpc, wid, wvec>>
readers   == <<rpc, rfilter, relig, rvecs, rres>>
process   == <<db, starts>>
storageVars == <<rows, indexVars, writers, readers, process>>

(* An event as a client publishes it, and a query filter.  user_id may be  *)
(* absent from either.                                                     *)
Event  == [id : EventIds, user : Users \cup {None}]
Filter == [user : Users \cup {None}]

(* The JSON document StoreEvent writes, as far as filters look at it.      *)
Row(e) == [user |-> e.user]
Rows == [user : Users \cup {None}]

(* None is not a value of any other kind.                                  *)
ASSUME NoneAssumption ==
    /\ None \notin EventIds \cup VectorIds \cup Users
    /\ None \notin Event \cup Rows
    /\ \A S \in SUBSET VectorIds : S # None

Stored == {i \in EventIds : events[i] # None}

StorageInit ==
    /\ events = [i \in EventIds |-> None]
    /\ vectors = {}
    /\ edges = {}
    /\ hnswIndex = {}
    /\ indexFile = None
    /\ db = "down"
    /\ starts = 0
    /\ wpc = [t \in Writers |-> "idle"]
    /\ wid = [t \in Writers |-> None]
    /\ wvec = [t \in Writers |-> None]
    /\ rpc = [t \in Readers |-> "idle"]
    /\ rfilter = [t \in Readers |-> None]
    /\ relig = [t \in Readers |-> {}]
    /\ rvecs = [t \in Readers |-> {}]
    /\ rres = [t \in Readers |-> {}]
    /\ given = [i \in EventIds |-> None]

(* indexMu: QuerySimilar holds it for reading from its first look at the   *)
(* edges until it returns; adding to the index and Close take it for       *)
(* writing.                                                                *)
IndexLockFree == \A t \in Readers : rpc[t] \notin {"search", "collect"}

-----------------------------------------------------------------------------
(* Writing.  A statement that fails (duplicate key, SQLITE_BUSY, expired   *)
(* context, closed database) changes no row, and the call returns.         *)

(* Mutant: INSERT OR REPLACE.                                              *)
ReplaceEvent(e) ==
    /\ db = "open"
    /\ events' = [events EXCEPT ![e.id] = Row(e)]
    /\ given' = [given EXCEPT ![e.id] = e]

(* The INSERT of StoreEvent.  A duplicate id is refused by the primary key *)
(* and leaves everything as it is.                                         *)
InsertEvent(e) ==
    /\ db = "open"
    /\ events[e.id] = None
    /\ events' = [events EXCEPT ![e.id] = Row(e)]
    /\ given' = [given EXCEPT ![e.id] = e]

(* StoreEvent; with an embedding it goes on to StoreVector and CreateEdge. *)
StoreEvent(t, e, withEmbedding) ==
    /\ wpc[t] = "idle"
    /\ InsertEvent(e)
    /\ wpc' = [wpc EXCEPT ![t] = IF withEmbedding THEN "vector" ELSE "idle"]
    /\ wid' = [wid EXCEPT ![t] = IF withEmbedding THEN e.id ELSE None]
    /\ UNCHANGED <<vectors, edges, indexVars, wvec, readers, process>>

(* Mutant: the event is not looked up first.                               *)
AddEmbeddingUnchecked(t, i) ==
    /\ db = "open"
    /\ wpc[t] = "idle"
    /\ wpc' = [wpc EXCEPT ![t] = "vector"]
    /\ wid' = [wid EXCEPT ![t] = i]
    /\ UNCHANGED <<rows, indexVars, wvec, readers, process>>

(* AddEmbeddingToEvent up to its SELECT EXISTS; for an id that is not      *)
(* stored the call returns an error.                                       *)
AddEmbeddingToEvent(t, i) ==
    /\ db = "open"
    /\ wpc[t] = "idle"
    /\ events[i] # None
    /\ wpc' = [wpc EXCEPT ![t] = "vector"]
    /\ wid' = [wid EXCEPT ![t] = i]
    /\ UNCHANGED <<rows, indexVars, wvec, readers, process>>

(* Mutant: INSERT OR IGNORE.                                               *)
InsertVectorOrIgnore(t, v) ==
    /\ db = "open"
    /\ wpc[t] = "vector"
    /\ vectors' = vectors \cup {v}
    /\ wvec' = [wvec EXCEPT ![t] = v]
    /\ wpc' = [wpc EXCEPT ![t] = "index"]
    /\ UNCHANGED <<events, edges, given, indexVars, wid, readers, process>>

(* Mutant: the error of the INSERT is not looked at.                       *)
InsertVectorErrorIgnored(t, v) ==
    /\ wpc[t] = "vector"
    /\ v \notin vectors
    /\ vectors' \in {vectors, vectors \cup {v}}
    /\ wvec' = [wvec EXCEPT ![t] = v]
    /\ wpc' = [wpc EXCEPT ![t] = "index"]
    /\ UNCHANGED <<events, edges, given, indexVars, wid, readers, process>>

(* The INSERT of StoreVector under the id the clock gives.                 *)
InsertVector(t, v) ==
    /\ db = "open"
    /\ wpc[t] = "vector"
    /\ v \notin vectors
    /\ vectors' = vectors \cup {v}
    /\ wvec' = [wvec EXCEPT ![t] = v]
    /\ wpc' = [wpc EXCEPT ![t] = "index"]
    /\ UNCHANGED <<events, edges, given, indexVars, wid, readers, process>>

(* The rest of StoreVector.  The index is in memory: this works after      *)
(* Close as well.                                                          *)
AddToIndex(t) ==
    /\ wpc[t] = "index"
    /\ IndexLockFree
    /\ hnswIndex' = hnswIndex \cup {wvec[t]}
    /\ wpc' = [wpc EXCEPT ![t] = "edge"]
    /\ UNCHANGED <<rows, indexFile, wid, wvec, readers, process>>

(* Mutant: source and target are passed in the wrong order.                *)
CreateEdgeSwapped(t) ==
    /\ db = "open"
    /\ wpc[t] = "edge"
    /\ edges' = edges \cup {<<wid[t], wvec[t]>>}
    /\ wpc' = [wpc EXCEPT ![t] = "idle"]
    /\ wid' = [wid EXCEPT ![t] = None]
    /\ wvec' = [wvec EXCEPT ![t] = None]
    /\ UNCHANGED <<events, vectors, given, indexVars, readers, process>>

CreateEdge(t) ==
    /\ db = "open"
    /\ wpc[t] = "edge"
    /\ edges' = edges \cup {<<wvec[t], wid[t]>>}
    /\ wpc' = [wpc EXCEPT ![t] = "idle"]
    /\ wid' = [wid EXCEPT ![t] = None]
    /\ wvec' = [wvec EXCEPT ![t] = None]
    /\ UNCHANGED <<events, vectors, given, indexVars, readers, process>>

(* One of the statements above fails and the call returns its error: an    *)
(* id collision, a busy, interrupted or closed database.                   *)
WriteFails(t) ==
    /\ wpc[t] \in {"vector", "edge"}
    /\ wpc' = [wpc EXCEPT ![t] = "idle"]
    /\ wid' = [wid EXCEPT ![t] = None]
    /\ wvec' = [wvec EXCEPT ![t] = None]
    /\ UNCHANGED <<rows, indexVars, readers, process>>

-----------------------------------------------------------------------------
(* QuerySimilar.                                                           *)

(* Mutant: the user condition is not among the WHERE conditions.           *)
findStoredEventIDs(f) == Stored

(* The user condition, on the stored document; an absent field is NULL and *)
(* equals nothing.  Session, time and attribute conditions are left out.   *)
findFilteredEventIDs(f) ==
    {i \in Stored : f.user # None => events[i].user = f.user}

(* The rows of a SELECT as a query reads them.  It never asks for rows.Err, *)
(* so an iteration that breaks off counts as complete.                     *)
RowsRead(S) == SUBSET S

(* The first SELECT; no eligible event means an empty result.  Without a   *)
(* filter (None) the query goes straight to the index.                     *)
QuerySimilar(t, f) ==
    /\ db = "open"
    /\ rpc[t] \in {"idle", "done"}
    /\ \E elig \in IF f = None THEN {{}} ELSE RowsRead(findFilteredEventIDs(f)) :
         /\ relig' = [relig EXCEPT ![t] = elig]
         /\ rpc' = [rpc EXCEPT ![t] = IF f # None /\ elig = {} THEN "done" ELSE "locate"]
    /\ rfilter' = [rfilter EXCEPT ![t] = f]
    /\ rvecs' = [rvecs EXCEPT ![t] = {}]
    /\ rres' = [rres EXCEPT ![t] = {}]
    /\ UNCHANGED <<rows, indexVars, writers, process>>

VectorsOf(ids) == {v \in VectorIds : \E i \in ids : <<v, i>> \in edges}

(* RLock, and for a filtered query the vectors of the eligible events.     *)
LocateVectors(t) ==
    /\ rpc[t] = "locate"
    /\ rfilter[t] # None => db = "open"
    /\ \E vecs \in RowsRead(VectorsOf(relig[t])) :
          rvecs' = [rvecs EXCEPT ![t] = vecs]
    /\ rpc' = [rpc EXCEPT ![t] = "search"]
    /\ UNCHANGED <<rows, indexVars, writers, rfilter, relig, rres, process>>

(* hnsw.Graph.Search: some of the indexed vectors, at most k.  The search  *)
(* is approximate and says nothing about which.                            *)
HnswSearch(k) == {S \in SUBSET hnswIndex : Cardinality(S) <= k}

(* The search, and for a filtered query the first topK hits that belong to *)
(* an eligible event.                                                      *)
SearchIndex(t) ==
    /\ rpc[t] = "search"
    /\ \E hits \in HnswSearch(IF rfilter[t] = None THEN TopK ELSE TopK * OverFetch) :
         LET usable == IF rfilter[t] = None THEN hits ELSE hits \cap rvecs[t] IN
         \E nodes \in SUBSET usable :
            /\ IF Cardinality(usable) <= TopK THEN nodes = usable
                                              ELSE Cardinality(nodes) = TopK
            /\ rvecs' = [rvecs EXCEPT ![t] = nodes]
            /\ rpc' = [rpc EXCEPT ![t] = IF nodes = {} THEN "done" ELSE "collect"]
    /\ UNCHANGED <<rows, indexVars, writers, rfilter, relig, rres, process>>

LinksOf(vecs) == {x \in edges : x[1] \in vecs}

(* The last SELECT: the edges of the hits become the results.              *)
CollectResults(t) ==
    /\ db = "open"
    /\ rpc[t] = "collect"
    /\ \E links \in RowsRead(LinksOf(rvecs[t])) : rres' = [rres EXCEPT ![t] = links]
    /\ rpc' = [rpc EXCEPT ![t] = "done"]
    /\ UNCHANGED <<rows, indexVars, writers, rfilter, relig, rvecs, process>>

(* A SELECT that is refused makes the query return an error and no results. *)
QueryFails(t) ==
    /\ rpc[t] \in {"locate", "collect"}
    /\ rpc' = [rpc EXCEPT ![t] = "idle"]
    /\ rfilter' = [rfilter EXCEPT ![t] = None]
    /\ UNCHANGED <<rows, indexVars, writers, relig, rvecs, rres, process>>

-----------------------------------------------------------------------------
(* Opening, closing and dying.                                             *)

SaveIndex(graph) == {graph} \cup (IF SaveMayFail THEN {indexFile} ELSE {})

(* initHNSWIndex when LoadSavedGraph succeeds: the file is taken as it is. *)
LoadIndex ==
    /\ indexFile # None \/ ~MissingFileIsError
    /\ hnswIndex' = IF indexFile = None THEN {} ELSE indexFile
    /\ UNCHANGED indexFile

(* initHNSWIndex when it fails: rebuild from the vector rows and save.     *)
RebuildIndex ==
    /\ indexFile # None \/ MissingFileIsError
    /\ hnswIndex' = vectors
    /\ indexFile' \in IF vectors = {} THEN {indexFile} ELSE SaveIndex(vectors)

(* NewProvider: schema (a no-op on an existing database) and index.        *)
NewProvider ==
    /\ db = "down"
    /\ starts < MaxStarts
    /\ db' = "open"
    /\ starts' = starts + 1
    /\ LoadIndex \/ RebuildIndex
    /\ UNCHANGED <<rows, writers, readers>>

(* Close saves the index under the write lock and closes the database.     *)
Close ==
    /\ db = "open"
    /\ IndexLockFree
    /\ indexFile' \in SaveIndex(hnswIndex)
    /\ db' = "closed"
    /\ UNCHANGED <<rows, hnswIndex, writers, readers, starts>>

(* The process ends, after Close or (a crash, a kill) without it: memory   *)
(* is gone, the tables and the index file stay.                            *)
ProcessEnds ==
    /\ db = "closed" \/ (AllowCrash /\ db = "open")
    /\ db' = "down"
    /\ hnswIndex' = {}
    /\ wpc' = [t \in Writers |-> "idle"]
    /\ wid' = [t \in Writers |-> None]
    /\ wvec' = [t \in Writers |-> None]
    /\ rpc' = [t \in Readers |-> "idle"]
    /\ rfilter' = [t \in Readers |-> None]
    /\ relig' = [t \in Readers |-> {}]
    /\ rvecs' = [t \in Readers |-> {}]
    /\ rres' = [t \in Readers |-> {}]
    /\ UNCHANGED <<rows, indexFile, starts>>

WriteStep(t) ==
    \/ \E v \in VectorIds : InsertVector(t, v)
    \/ AddToIndex(t) \/ CreateEdge(t) \/ WriteFails(t)

WriterStep(t) ==
    \/ \E e \in Event, b \in BOOLEAN : StoreEvent(t, e, b)
    \/ \E i \in EventIds : AddEmbeddingToEvent(t, i)
    \/ WriteStep(t)

ReaderStep(t) ==
    \/ \E f \in Filter \cup {None} : QuerySimilar(t, f)
    \/ LocateVectors(t) \/ SearchIndex(t) \/ CollectResults(t) \/ QueryFails(t)

StorageNext ==
    \/ \E t \in Writers : WriterStep(t)
    \/ \E t \in Readers : ReaderStep(t)
    \/ NewProvider \/ Close \/ ProcessEnds

StorageSpec == StorageInit /\ [][StorageNext]_storageVars

-----------------------------------------------------------------------------
(* Every variable has its type.                                            *)
StorageTypeOK ==
    /\ events \in [EventIds -> Rows \cup {None}]
    /\ vectors \subseteq VectorIds
    /\ edges \subseteq VectorIds \X EventIds
    /\ hnswIndex \subseteq VectorIds
    /\ indexFile \in (SUBSET VectorIds) \cup {None}
    /\ db \in {"down", "open", "closed"}
    /\ starts \in 0..MaxStarts
    /\ wpc \in [Writers -> {"idle", "vector", "index", "edge"}]
    /\ wid \in [Writers -> EventIds \cup {None}]
    /\ wvec \in [Writers -> VectorIds \cup {None}]
    /\ rpc \in [Readers -> {"idle", "locate", "search", "collect", "done"}]
    /\ rfilter \in [Readers -> Filter \cup {None}]
    /\ relig \in [Readers -> SUBSET EventIds]
    /\ rvecs \in [Readers -> SUBSET VectorIds]
    /\ rres \in [Readers -> SUBSET (VectorIds \X EventIds)]
    /\ given \in [EventIds -> Event \cup {None}]

(* No edge dangles: the foreign keys of table edges are declared but not   *)
(* enforced by SQLite unless asked, so it is the order of the statements   *)
(* that keeps both ends of every edge stored, through errors and crashes.  *)
EdgesResolve ==
    \A x \in edges : x[1] \in vectors /\ events[x[2]] # None

(* A vector embeds one event only, though concurrent calls draw vector ids *)
(* from a clock that may give them the same one.                           *)
OneEventPerVector ==
    \A x, y \in edges : x[1] = y[1] => x = y

(* What is in the index, or in the file a restart may load, is a stored    *)
(* vector.                                                                 *)
IndexIsStored ==
    /\ hnswIndex \subseteq vectors
    /\ indexFile # None => indexFile \subseteq vectors

(* A query restricted to a user returns only events that were published    *)
(* with that user id, although the rows, edges and index are read in three *)
(* steps between which other calls write ("user A cannot see user B's      *)
(* data").                                                                 *)
UserIsolation ==
    \A t \in Readers : rpc[t] = "done" /\ rfilter[t] # None =>
        \A x \in rres[t] : rfilter[t].user # None =>
            given[x[2]] # None /\ given[x[2]].user = rfilter[t].user

(* A stored event, and the link from a vector to its event, never changes: *)
(* publishing an id again, a failing call or a restart rewrites nothing.   *)
RowsAreImmutable ==
    [][/\ \A i \in Stored : events'[i] = events[i]
       /\ edges \subseteq edges' /\ vectors \subseteq vectors']_storageVars

(* While the provider is open every event that has an embedding can be     *)
(* found through the index ("Events are still searchable after restart!"). *)
EmbeddedEventsSearchable ==
    db = "open" => \A x \in edges : x[1] \in hnswIndex
=============================================================================
