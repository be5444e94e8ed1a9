---------------------------- MODULE SearchProofs ----------------------------
(***************************************************************************)
(* For any number of Search calls, writers, failures and restarts: a       *)
(* Search call uses storage as Storage describes it, its two lists belong  *)
(* together, it answers a request for a user with that user's events only, *)
(* and it misses an event only for one of the reasons NearestOrCrowdedOut  *)
(* names.                                                                  *)
(***************************************************************************)
EXTENDS Search, StorageProofs, FiniteSetTheorems

SearchTypes ==
    /\ spc \in [Readers -> {"new", "embed", "query", "fetch", "ok", "error", "gone"}]
    /\ pending \in [Readers -> SUBSET (VectorIds \X EventIds)]
    /\ results \in [Readers -> Seq(EventIds)]
    /\ scores \in [Readers -> Seq(Nat)]
    /\ known \in [Readers -> SUBSET (VectorIds \X EventIds)]
    /\ missed \in [Readers -> SUBSET EventIds]
    /\ cut \subseteq Readers

(* A call is under way, or its answer is there.                            *)
Serving(t) == spc[t] \in {"query", "fetch", "ok"}

(* A call lives in a process; it has no answer before it fetches, and what *)
(* it has still to fetch are links.                                        *)
CallOK(t) ==
    /\ db = "down" => spc[t] \in {"new", "gone"}
    /\ spc[t] \in {"new", "embed", "query"} =>
          pending[t] = {} /\ results[t] = <<>> /\ scores[t] = <<>>
    /\ spc[t] = "ok" => pending[t] = {}
    /\ rres[t] \subseteq edges /\ pending[t] \subseteq edges

CallInv == \A t \in Readers : CallOK(t)

(* An answer to a request for a user holds only events that were published *)
(* with that user id.                                                      *)
AnswersStayWithUser ==
    \A t \in Readers : \A u \in Users : Serving(t) /\ RestrictedTo(t, u) =>
        /\ \A x \in pending[t] : x[2] \in OfUser(u)
        /\ \A n \in DOMAIN results[t] : results[t][n] \in OfUser(u)

(* The index is finite, in memory and on disk.                             *)
FiniteIndex ==
    /\ IsFiniteSet(vectors) /\ IsFiniteSet(hnswIndex)
    /\ indexFile # None => IsFiniteSet(indexFile)

(* Where a link that could be found when the query began is now: among the *)
(* eligible events, the vectors to look for, the hits, the results, what   *)
(* is to be fetched or the answer; or something more similar pushed it out. *)
CrowdedOut(t, v) ==
    \/ Cardinality(AsSimilar(rvecs[t], v)) >= TopK
    \/ Cardinality(AsSimilar(hnswIndex, v)) >= FetchCount(rfilter[t])

Tracked(t, x) ==
    /\ x \in edges /\ x[1] \in hnswIndex
    /\ spc[t] = "query" /\ rpc[t] = "locate" /\ rfilter[t] # None => x[2] \in relig[t]
    /\ spc[t] = "query" /\ rpc[t] = "search" /\ rfilter[t] # None => x[1] \in rvecs[t]
    /\ spc[t] = "query" /\ rpc[t] = "collect" => x[1] \in rvecs[t] \/ CrowdedOut(t, x[1])
    /\ spc[t] = "query" /\ rpc[t] = "done" => x \in rres[t] \/ CrowdedOut(t, x[1])
    /\ spc[t] \in {"fetch", "ok"} =>
          \/ x \in pending[t]
          \/ \E n \in DOMAIN results[t] : results[t][n] = x[2]
          \/ x[2] \in missed[t]
          \/ CrowdedOut(t, x[1])

KnownTracked ==
    \A t \in Readers \ cut : Serving(t) => \A x \in known[t] : Tracked(t, x)

SearchInv ==
    /\ StorageInv /\ SearchTypes /\ CallInv /\ ScoresMatchEvents /\ AnswersStayWithUser
    /\ FiniteIndex /\ KnownTracked

-----------------------------------------------------------------------------
(* Every step of a Search call is a step of a query, or leaves storage     *)
(* alone.                                                                  *)
LEMMA SearchUse == [Next]_vars => [StorageNext]_storageVars
<1> SUFFICES ASSUME [Next]_vars PROVE StorageNext \/ UNCHANGED storageVars
  OBVIOUS
<1>1. ASSUME NEW t \in Readers, SearchStep(t) PROVE ReaderStep(t) \/ UNCHANGED storageVars
  <2>1. ASSUME NEW f \in SearchFilters, Query(t, f) PROVE ReaderStep(t)
    <3>1. f \in Filter \cup {None}
      BY DEF SearchFilters, Filter
    <3> QED
      BY <2>1, <3>1 DEF Query, ReaderStep
  <2>2. CASE QueryStep(t) \/ QueryError(t)
    BY <2>2 DEF QueryStep, QueryError, ExactSearch, ReaderStep
  <2>3. CASE Search(t) \/ EmbeddingFails(t) \/ QueryReturns(t) \/ Respond(t)
    BY <2>3 DEF Search, EmbeddingFails, QueryReturns, Respond
  <2>4. ASSUME NEW x \in pending[t], GetEvent(t, x) \/ GetEventFails(t, x)
        PROVE  UNCHANGED storageVars
    BY <2>4 DEF GetEvent, GetEventFails
  <2> QED
    BY <1>1, <2>1, <2>2, <2>3, <2>4 DEF SearchStep
<1> QED
  BY <1>1 DEF Next, StorageNext, ServerEnds, vars

(* A Search call changes neither the rows nor the index nor the process,   *)
(* and no other call.                                                      *)
LEMMA CallsKeepStorage ==
    ASSUME NEW t \in Readers, SearchStep(t)
    PROVE  UNCHANGED <<rows, indexVars, process>>
  BY DEF SearchStep, Search, EmbeddingFails, Query, QuerySimilar, QueryStep, LocateVectors,
     ExactSearch, SearchIndex, CollectResults, QueryError, QueryFails, QueryReturns, GetEvent,
     GetEventFails, Respond, storageVars

Still(s) ==
    /\ spc'[s] = spc[s] /\ pending'[s] = pending[s] /\ results'[s] = results[s]
    /\ scores'[s] = scores[s] /\ known'[s] = known[s] /\ missed'[s] = missed[s]
    /\ s \in cut' <=> s \in cut
    /\ rpc'[s] = rpc[s] /\ rfilter'[s] = rfilter[s] /\ relig'[s] = relig[s]
    /\ rvecs'[s] = rvecs[s] /\ rres'[s] = rres[s]

LEMMA CallsAreSeparate ==
    ASSUME StorageTypeOK, SearchTypes, NEW t \in Readers, SearchStep(t),
           NEW s \in Readers, s # t
    PROVE  Still(s)
<1> USE DEF StorageTypeOK, SearchTypes, Still, Goto, Cut, storageVars, readers, answerVars
<1>1. CASE Search(t) \/ EmbeddingFails(t) \/ QueryReturns(t) \/ Respond(t)
  BY <1>1 DEF Search, EmbeddingFails, QueryReturns, Respond
<1>2. ASSUME NEW f \in SearchFilters, Query(t, f) PROVE Still(s)
  BY <1>2 DEF Query, QuerySimilar
<1>3. CASE QueryStep(t)
  <2>1. UNCHANGED <<spc, answerVars, known>> /\ (s \in cut' <=> s \in cut)
    BY <1>3 DEF QueryStep
  <2>2. CASE LocateVectors(t)
    BY <2>1, <2>2 DEF LocateVectors
  <2>3. CASE SearchIndex(t)
    BY <2>1, <2>3 DEF SearchIndex
  <2>4. CASE CollectResults(t)
    BY <2>1, <2>4 DEF CollectResults
  <2> QED
    BY <1>3, <2>2, <2>3, <2>4 DEF QueryStep, ExactSearch
<1>4. CASE QueryError(t)
  BY <1>4 DEF QueryError, QueryFails
<1>5. ASSUME NEW x \in pending[t], GetEvent(t, x) \/ GetEventFails(t, x) PROVE Still(s)
  BY <1>5 DEF GetEvent, GetEventFails
<1> QED
  BY <1>1, <1>2, <1>3, <1>4, <1>5 DEF SearchStep

(* Steps of writers, starts and Close leave every call alone.              *)
LEMMA WritersKeepCalls ==
    ASSUME [Next]_vars, NEW s \in Readers
    PROVE  Still(s) \/ (\E t \in Readers : SearchStep(t)) \/ ServerEnds
<1> USE DEF Still, storageVars, readers, answerVars, searchVars, vars
<1>1. ASSUME NEW t \in Writers, WriterStep(t) PROVE UNCHANGED readers
  BY <1>1 DEF WriterStep, WriteStep, StoreEvent, AddEmbeddingToEvent, InsertVector,
     AddToIndex, CreateEdge, WriteFails
<1>2. ASSUME NewProvider \/ Close PROVE UNCHANGED readers
  BY <1>2 DEF NewProvider, Close
<1> QED
  BY <1>1, <1>2 DEF Next

(* Every step keeps the variables of the calls in their types.             *)
LEMMA SearchTypesStep ==
    ASSUME StorageTypeOK, SearchTypes, [Next]_vars PROVE SearchTypes'
<1> USE SearchAssumption DEF SearchTypes, Goto, Cut, answerVars
<1>1. ASSUME NEW t \in Readers, Search(t) \/ EmbeddingFails(t) \/ Respond(t)
      PROVE  SearchTypes'
  BY <1>1 DEF Search, EmbeddingFails, Respond
<1>2. ASSUME NEW t \in Readers, NEW f \in SearchFilters, Query(t, f) PROVE SearchTypes'
  <2>1. {x \in edges : x[1] \in hnswIndex /\ (f # None => events[x[2]].user = f.user)}
            \in SUBSET (VectorIds \X EventIds)
    BY DEF StorageTypeOK
  <2> QED
    BY <1>2, <2>1 DEF Query
<1>3. ASSUME NEW t \in Readers, QueryStep(t) PROVE SearchTypes'
  BY <1>3 DEF QueryStep
<1>4. ASSUME NEW t \in Readers, QueryError(t) \/ QueryReturns(t) PROVE SearchTypes'
  BY <1>4 DEF QueryError, QueryReturns, StorageTypeOK
<1>5. ASSUME NEW t \in Readers, NEW x \in pending[t], GetEvent(t, x) \/ GetEventFails(t, x)
      PROVE  SearchTypes'
  <2>1. x[1] \in VectorIds /\ x[2] \in EventIds
    OBVIOUS
  <2>2. CASE GetEvent(t, x)
    <3> DEFINE answer == results[t]
               list == scores[t]
               score == Similarity[x[1]]
    <3>1. answer \in Seq(EventIds) /\ list \in Seq(Nat) /\ score \in Nat
      BY <2>1
    <3> HIDE DEF answer, list, score
    <3>2. Append(answer, x[2]) \in Seq(EventIds) /\ Append(list, score) \in Seq(Nat)
      BY <2>1, <3>1
    <3>3. /\ results' = [results EXCEPT ![t] = Append(answer, x[2])]
          /\ scores' = [scores EXCEPT ![t] = Append(list, score)]
      BY <2>2 DEF GetEvent, answer, list, score
    <3>4. /\ pending' = [pending EXCEPT ![t] = @ \ {x}]
          /\ UNCHANGED <<spc, missed, known, cut>>
      BY <2>2 DEF GetEvent
    <3> QED
      BY <3>2, <3>3, <3>4
  <2>3. CASE GetEventFails(t, x)
    BY <2>1, <2>3 DEF GetEventFails
  <2> QED
    BY <1>5, <2>2, <2>3
<1>6. CASE ServerEnds
  BY <1>6 DEF ServerEnds
<1>7. CASE UNCHANGED searchVars
  BY <1>7 DEF searchVars
<1> QED
  BY <1>1, <1>2, <1>3, <1>4, <1>5, <1>6, <1>7 DEF Next, SearchStep, vars

(* The rows only grow here too.                                            *)
LEMMA SearchRowsGrow ==
    ASSUME StorageInv, [Next]_vars
    PROVE  /\ \A i \in EventIds : given[i] # None => given'[i] = given[i]
           /\ edges \subseteq edges'
  BY SearchUse, RowsOnlyGrow DEF StorageInv, GraphInv

(* Each step keeps what CallInv says of every call.                        *)
LEMMA CallInvStep ==
    ASSUME StorageInv, SearchTypes, CallInv, [Next]_vars PROVE CallInv'
<1> SUFFICES ASSUME NEW s \in Readers PROVE CallOK(s)'
  BY DEF CallInv
<1> USE DEF CallInv, CallOK
<1>1. edges \subseteq edges'
  BY SearchRowsGrow
<1>2. CASE ServerEnds
  BY <1>1, <1>2 DEF ServerEnds, ProcessEnds, answerVars
<1>3. CASE Still(s) /\ ~ServerEnds
  <2>1. db' = "down" => db = "down"
    <3>1. ASSUME NEW t \in Readers, SearchStep(t) PROVE db' = db
      BY <3>1, CallsKeepStorage DEF process
    <3>2. ASSUME NEW t \in Writers, WriterStep(t) PROVE db' = db
      BY <3>2 DEF WriterStep, WriteStep, StoreEvent, AddEmbeddingToEvent, InsertVector,
         AddToIndex, CreateEdge, WriteFails, process
    <3> QED
      BY <1>3, <3>1, <3>2 DEF Next, NewProvider, Close, vars, storageVars, process
  <2> QED
    BY <1>1, <1>3, <2>1 DEF Still
<1>4. CASE SearchStep(s)
  <2> USE DEF SearchTypes, Goto, answerVars
  <2>1. UNCHANGED db
    BY <1>4, CallsKeepStorage DEF process
  <2>2. CASE Search(s) \/ EmbeddingFails(s) \/ Respond(s)
    BY <2>1, <2>2, <1>1 DEF Search, EmbeddingFails, Respond, storageVars, readers
  <2>3. ASSUME NEW f \in SearchFilters, Query(s, f) PROVE CallOK(s)'
    BY <2>1, <2>3, <1>1 DEF Query, QuerySimilar, StorageInv, StorageTypeOK
  <2>4. CASE QueryStep(s) /\ ~CollectResults(s)
    BY <2>1, <2>4, <1>1 DEF QueryStep, LocateVectors, ExactSearch, SearchIndex
  <2>5. CASE QueryStep(s) /\ CollectResults(s)
    <3>1. rres'[s] \subseteq edges
      BY <2>5 DEF CollectResults, RowsRead, LinksOf, StorageInv, StorageTypeOK
    <3> QED
      BY <2>1, <2>5, <3>1, <1>1 DEF QueryStep
  <2>6. CASE QueryError(s)
    BY <2>1, <2>6, <1>1 DEF QueryError, QueryFails
  <2>7. CASE QueryReturns(s)
    BY <2>1, <2>7, <1>1 DEF QueryReturns, storageVars, readers
  <2>8. ASSUME NEW x \in pending[s], GetEvent(s, x) \/ GetEventFails(s, x) PROVE CallOK(s)'
    BY <2>1, <2>8, <1>1 DEF GetEvent, GetEventFails, storageVars, readers
  <2> QED
    BY <1>4, <2>2, <2>3, <2>4, <2>5, <2>6, <2>7, <2>8 DEF SearchStep
<1>5. CASE \E t \in Readers : SearchStep(t) /\ s # t
  <2>1. Still(s)
    BY <1>5, CallsAreSeparate DEF StorageInv
  <2> QED
    BY <1>2, <1>3, <2>1
<1> QED
  BY <1>2, <1>3, <1>4, <1>5, WritersKeepCalls

(* Each step keeps the two lists of every answer together.                 *)
LEMMA ScoresStep ==
    ASSUME StorageInv, SearchTypes, CallInv, ScoresMatchEvents, [Next]_vars
    PROVE  ScoresMatchEvents'
<1>1. edges \subseteq edges'
  BY SearchRowsGrow
<1>2. CASE UNCHANGED <<results, scores>>
  BY <1>1, <1>2 DEF ScoresMatchEvents
<1>3. ASSUME NEW t \in Readers, NEW x \in pending[t], GetEvent(t, x)
      PROVE  ScoresMatchEvents'
  <2> DEFINE answer == results[t]
             list == scores[t]
             score == Similarity[x[1]]
  <2>1. x \in edges /\ x[1] \in VectorIds /\ x[2] \in EventIds /\ x = <<x[1], x[2]>>
    BY DEF CallInv, CallOK, StorageInv, StorageTypeOK
  <2>2. answer \in Seq(EventIds) /\ list \in Seq(Nat) /\ score \in Nat
    BY <2>1, SearchAssumption DEF SearchTypes
  <2>3. /\ Len(answer) = Len(list)
        /\ \A n \in DOMAIN answer : \E v \in VectorIds :
              <<v, answer[n]>> \in edges /\ list[n] = Similarity[v]
    BY DEF ScoresMatchEvents
  <2>4. /\ results' = [results EXCEPT ![t] = Append(answer, x[2])]
        /\ scores' = [scores EXCEPT ![t] = Append(list, score)]
    BY <1>3 DEF GetEvent
  <2>5. score = Similarity[x[1]]
    OBVIOUS
  <2> HIDE DEF answer, list, score
  <2>6. ASSUME NEW n \in DOMAIN Append(answer, x[2])
        PROVE  \E v \in VectorIds : /\ <<v, Append(answer, x[2])[n]>> \in edges
                                     /\ Append(list, score)[n] = Similarity[v]
    <3>1. CASE n = Len(answer) + 1
      <4>1. Append(answer, x[2])[n] = x[2] /\ Append(list, score)[n] = score
        BY <2>2, <2>3, <3>1
      <4> QED
        BY <2>1, <2>5, <4>1
    <3>2. CASE n # Len(answer) + 1
      <4>1. n \in DOMAIN answer /\ n \in DOMAIN list
        BY <2>2, <2>3, <3>2
      <4>2. Append(answer, x[2])[n] = answer[n] /\ Append(list, score)[n] = list[n]
        BY <2>2, <4>1
      <4> QED
        BY <2>3, <4>1, <4>2
    <3> QED
      BY <3>1, <3>2
  <2>7. Len(Append(answer, x[2])) = Len(Append(list, score))
    BY <2>2, <2>3
  <2>8. ASSUME NEW s \in Readers
        PROVE  /\ Len(results'[s]) = Len(scores'[s])
               /\ \A n \in DOMAIN results'[s] : \E v \in VectorIds :
                     <<v, results'[s][n]>> \in edges' /\ scores'[s][n] = Similarity[v]
    <3>1. CASE s = t
      <4>1. results'[t] = Append(answer, x[2]) /\ scores'[t] = Append(list, score)
        BY <2>4 DEF SearchTypes
      <4> QED
        BY <1>1, <2>6, <2>7, <3>1, <4>1
    <3>2. CASE s # t
      <4>1. results'[s] = results[s] /\ scores'[s] = scores[s]
        BY <2>4, <3>2 DEF SearchTypes
      <4> QED
        BY <1>1, <4>1 DEF ScoresMatchEvents
    <3> QED
      BY <3>1, <3>2
  <2> QED
    BY <2>8 DEF ScoresMatchEvents
<1>4. UNCHANGED <<results, scores>> \/ \E t \in Readers : \E x \in pending[t] : GetEvent(t, x)
  BY DEF Next, SearchStep, Search, EmbeddingFails, Query, QueryStep, QueryError,
     QueryReturns, GetEventFails, Respond, ServerEnds, vars, searchVars, answerVars
<1> QED
  BY <1>2, <1>3, <1>4

(* Each step keeps the answers to a user's requests with that user: what   *)
(* is to be fetched are results of a query restricted to the user.         *)
LEMMA AnswersStep ==
    ASSUME StorageInv, SearchTypes, CallInv, AnswersStayWithUser, [Next]_vars
    PROVE  AnswersStayWithUser'
<1>1. \A u \in Users : OfUser(u) \subseteq OfUser(u)'
  BY SearchRowsGrow DEF OfUser
<1> SUFFICES ASSUME NEW s \in Readers, NEW u \in Users, (Serving(s) /\ RestrictedTo(s, u))'
             PROVE  /\ \A x \in pending'[s] : x[2] \in OfUser(u)
                    /\ \A n \in DOMAIN results'[s] : results'[s][n] \in OfUser(u)
  BY <1>1 DEF AnswersStayWithUser
<1> DEFINE Mine == /\ \A x \in pending'[s] : x[2] \in OfUser(u)
                   /\ \A n \in DOMAIN results'[s] : results'[s][n] \in OfUser(u)
<1> USE DEF Serving, RestrictedTo
<1>2. CASE Still(s)
  BY <1>2 DEF Still, AnswersStayWithUser
<1>3. CASE SearchStep(s)
  <2> USE DEF SearchTypes, Goto, answerVars
  <2>1. CASE Search(s) \/ EmbeddingFails(s) \/ QueryError(s)
    BY <2>1 DEF Search, EmbeddingFails, QueryError
  <2>2. ASSUME NEW f \in SearchFilters, Query(s, f) PROVE Mine
    BY <2>2 DEF Query, CallInv, CallOK
  <2>3. CASE QueryStep(s)
    BY <2>3 DEF QueryStep, CallInv, CallOK
  <2>4. CASE QueryReturns(s)
    <3>1. rfilter'[s] = rfilter[s] /\ pending'[s] = rres[s] /\ results'[s] = <<>>
      BY <2>4 DEF QueryReturns, CallInv, CallOK, storageVars, readers
    <3>2. RestrictedTo(s, u)
      BY <3>1
    <3>3. \A x \in rres[s] : x[2] \in OfUser(u)
      BY <3>2 DEF StorageInv, QueriesStayWithUser
    <3>4. DOMAIN results'[s] = {}
      BY <3>1
    <3> QED
      BY <3>1, <3>3, <3>4
  <2>5. CASE Respond(s)
    BY <2>5 DEF Respond, AnswersStayWithUser, storageVars, readers
  <2>6. ASSUME NEW x \in pending[s], GetEventFails(s, x) PROVE Mine
    BY <2>6 DEF GetEventFails, AnswersStayWithUser, storageVars, readers
  <2>7. ASSUME NEW x \in pending[s], GetEvent(s, x) PROVE Mine
    <3> DEFINE answer == results[s]
    <3>1. answer \in Seq(EventIds) /\ x[2] \in EventIds
      OBVIOUS
    <3>2. /\ x[2] \in OfUser(u)
          /\ \A n \in DOMAIN answer : answer[n] \in OfUser(u)
          /\ \A y \in pending[s] : y[2] \in OfUser(u)
      BY <2>7 DEF GetEvent, AnswersStayWithUser, storageVars, readers
    <3>3. results'[s] = Append(answer, x[2]) /\ pending'[s] \subseteq pending[s]
      BY <2>7 DEF GetEvent
    <3> HIDE DEF answer
    <3>4. \A n \in DOMAIN Append(answer, x[2]) : Append(answer, x[2])[n] \in OfUser(u)
      BY <3>1, <3>2
    <3> QED
      BY <3>2, <3>3, <3>4
  <2> QED
    BY <1>3, <2>1, <2>2, <2>3, <2>4, <2>5, <2>6, <2>7 DEF SearchStep
<1>4. CASE \E t \in Readers : SearchStep(t) /\ s # t
  BY <1>2, <1>4, CallsAreSeparate DEF StorageInv
<1>5. CASE ServerEnds
  BY <1>5 DEF ServerEnds
<1> QED
  BY <1>2, <1>3, <1>4, <1>5, WritersKeepCalls

(* Each step adds at most one vector to the index.                         *)
LEMMA FiniteStep ==
    ASSUME StorageInv, FiniteIndex, [StorageNext]_storageVars PROVE FiniteIndex'
<1> USE DEF FiniteIndex
<1>1. ASSUME NEW t \in Writers, WriterStep(t) PROVE FiniteIndex'
  <2>1. ASSUME NEW v \in VectorIds, InsertVector(t, v) PROVE FiniteIndex'
    BY <2>1, FS_AddElement DEF InsertVector, indexVars
  <2>2. CASE AddToIndex(t)
    BY <2>2, FS_AddElement DEF AddToIndex, rows
  <2> QED
    BY <1>1, <2>1, <2>2 DEF WriterStep, WriteStep, StoreEvent, AddEmbeddingToEvent,
       CreateEdge, WriteFails, rows, indexVars
<1>2. ASSUME NEW t \in Readers, ReaderStep(t) PROVE FiniteIndex'
  BY <1>2 DEF ReaderStep, QuerySimilar, LocateVectors, SearchIndex, CollectResults,
     QueryFails, rows, indexVars
<1>3. CASE NewProvider
  BY <1>3, FS_EmptySet DEF NewProvider, LoadIndex, RebuildIndex, SaveIndex, rows
<1>4. CASE Close \/ ProcessEnds
  BY <1>4, FS_EmptySet DEF Close, ProcessEnds, SaveIndex, rows
<1> QED
  BY <1>1, <1>2, <1>3, <1>4 DEF StorageNext, storageVars, rows, indexVars

-----------------------------------------------------------------------------
(* A vector that is not among the n nearest of a set has n others that are *)
(* as similar, among the nearest and so in the whole set.                  *)
LEMMA NotNearest ==
    ASSUME NEW S \in SUBSET VectorIds, IsFiniteSet(S), NEW n \in Nat,
           NEW H \in Nearest(S, n), NEW v \in S, v \notin H
    PROVE  /\ Cardinality(AsSimilar(H, v)) >= n
           /\ Cardinality(AsSimilar(S, v)) >= n
<1>1. H \subseteq S /\ \A w \in H : Similarity[w] >= Similarity[v]
  BY DEF Nearest
<1>2. /\ IsFiniteSet(H) /\ Cardinality(H) \in Nat /\ Cardinality(S) \in Nat
      /\ Cardinality(H) = Cardinality(S) => H = S
  BY <1>1, FS_Subset, FS_CardinalityType
<1>3. Cardinality(H) = n
  BY <1>1, <1>2 DEF Nearest
<1>4. AsSimilar(H, v) = H /\ H \subseteq AsSimilar(S, v) /\ AsSimilar(S, v) \subseteq S
  BY <1>1 DEF AsSimilar
<1>5. /\ IsFiniteSet(AsSimilar(S, v)) /\ Cardinality(AsSimilar(S, v)) \in Nat
      /\ Cardinality(H) <= Cardinality(AsSimilar(S, v))
  BY <1>4, FS_Subset, FS_CardinalityType
<1> QED
  BY <1>3, <1>4, <1>5

(* What crowded a vector out keeps doing so while the index grows.         *)
LEMMA CrowdedOutStays ==
    ASSUME NEW t, NEW v, CrowdedOut(t, v), rvecs'[t] = rvecs[t], rfilter'[t] = rfilter[t],
           hnswIndex \subseteq hnswIndex', IsFiniteSet(hnswIndex')
    PROVE  CrowdedOut(t, v)'
<1>1. FetchCount(rfilter[t]) \in Nat /\ FetchCount(rfilter[t])' = FetchCount(rfilter[t])
  BY StorageAssumption DEF FetchCount
<1>2. AsSimilar(hnswIndex, v) \subseteq AsSimilar(hnswIndex', v)
  BY DEF AsSimilar
<1>3. IsFiniteSet(AsSimilar(hnswIndex', v))
  BY FS_Subset DEF AsSimilar
<1>4. /\ Cardinality(AsSimilar(hnswIndex, v)) \in Nat
      /\ Cardinality(AsSimilar(hnswIndex', v)) \in Nat
      /\ Cardinality(AsSimilar(hnswIndex, v)) <= Cardinality(AsSimilar(hnswIndex', v))
  BY <1>2, <1>3, FS_Subset, FS_CardinalityType
<1>5. AsSimilar(hnswIndex, v)' = AsSimilar(hnswIndex', v) /\ AsSimilar(rvecs[t], v)' = AsSimilar(rvecs[t], v)
  BY DEF AsSimilar
<1>6. Cardinality(AsSimilar(rvecs[t], v))' = Cardinality(AsSimilar(rvecs[t], v))
  BY <1>5
<1>7. Cardinality(AsSimilar(hnswIndex, v))' = Cardinality(AsSimilar(hnswIndex', v))
  BY <1>5
<1> QED
  BY <1>1, <1>4, <1>6, <1>7 DEF CrowdedOut

(* While a call is being served the index only grows.                      *)
LEMMA IndexGrows ==
    ASSUME StorageInv, CallInv, [Next]_vars, NEW s \in Readers, Serving(s), ~ServerEnds
    PROVE  hnswIndex \subseteq hnswIndex'
<1>1. ASSUME NEW t \in Readers, SearchStep(t) PROVE hnswIndex' = hnswIndex
  BY <1>1, CallsKeepStorage DEF indexVars
<1>2. ASSUME NEW t \in Writers, WriterStep(t) PROVE hnswIndex \subseteq hnswIndex'
  BY <1>2 DEF WriterStep, WriteStep, StoreEvent, AddEmbeddingToEvent, InsertVector,
     AddToIndex, CreateEdge, WriteFails, indexVars
<1>3. ~NewProvider
  BY DEF NewProvider, CallInv, CallOK, Serving
<1> QED
  BY <1>1, <1>2, <1>3 DEF Next, Close, vars, storageVars, indexVars

(* A link stays where it was while its call does nothing.                  *)
LEMMA TrackedStays ==
    ASSUME NEW s \in Readers, NEW x, Still(s), Tracked(s, x), edges \subseteq edges',
           hnswIndex \subseteq hnswIndex', IsFiniteSet(hnswIndex')
    PROVE  Tracked(s, x)'
<1>1. CrowdedOut(s, x[1]) => CrowdedOut(s, x[1])'
  BY CrowdedOutStays DEF Still
<1> QED
  BY <1>1 DEF Tracked, Still

(* The search: a link whose vector is not among the nodes is crowded out,  *)
(* by the hits in the whole index or by the usable ones.                   *)
LEMMA SearchTracks ==
    ASSUME StorageInv, FiniteIndex, NEW s \in Readers, NEW x, ExactSearch(s),
           x \in edges, x[1] \in hnswIndex, rfilter[s] # None => x[1] \in rvecs[s],
           x[1] \notin rvecs'[s]
    PROVE  CrowdedOut(s, x[1])'
<1>1. PICK hits \in Nearest(hnswIndex, FetchCount(rfilter[s])) :
         rvecs'[s] \in Nearest(IF rfilter[s] = None THEN hits ELSE hits \cap rvecs[s], TopK)
  BY DEF ExactSearch
<1> DEFINE usable == IF rfilter[s] = None THEN hits ELSE hits \cap rvecs[s]
<1>2. FetchCount(rfilter[s]) \in Nat /\ TopK \in Nat
  BY StorageAssumption DEF FetchCount
<1>3. /\ hnswIndex \in SUBSET VectorIds /\ IsFiniteSet(hnswIndex)
      /\ hits \subseteq hnswIndex
  BY DEF StorageInv, StorageTypeOK, FiniteIndex, Nearest
<1>4. rfilter'[s] = rfilter[s] /\ hnswIndex' = hnswIndex
  BY DEF ExactSearch, SearchIndex, indexVars
<1>5. CASE x[1] \notin hits
  <2>1. Cardinality(AsSimilar(hnswIndex, x[1])) >= FetchCount(rfilter[s])
    BY <1>1, <1>2, <1>3, <1>5, NotNearest
  <2> QED
    BY <1>4, <2>1 DEF CrowdedOut, AsSimilar, FetchCount
<1>6. CASE x[1] \in hits
  <2>1. usable \in SUBSET VectorIds /\ IsFiniteSet(usable) /\ x[1] \in usable
    BY <1>3, <1>6, FS_Subset
  <2>2. rvecs'[s] \in Nearest(usable, TopK)
    BY <1>1
  <2> HIDE DEF usable
  <2>3. Cardinality(AsSimilar(rvecs'[s], x[1])) >= TopK
    BY <1>2, <2>1, <2>2, NotNearest
  <2> QED
    BY <2>3 DEF CrowdedOut, AsSimilar
<1> QED
  BY <1>5, <1>6

(* Each step of a call hands every link it knows of on to the next place.  *)
LEMMA KnownTrackedStep ==
    ASSUME StorageInv, SearchTypes, CallInv, FiniteIndex, FiniteIndex', KnownTracked,
           [Next]_vars
    PROVE  KnownTracked'
<1> SUFFICES ASSUME NEW s \in Readers, s \notin cut', Serving(s)', NEW x \in known'[s]
             PROVE  Tracked(s, x)'
  BY DEF KnownTracked
<1>1. edges \subseteq edges' /\ ~ServerEnds
  BY SearchRowsGrow DEF ServerEnds, Serving
<1>2. CASE Still(s)
  <2>1. Tracked(s, x) /\ Serving(s)
    BY <1>2 DEF KnownTracked, Still, Serving
  <2> QED
    BY <1>1, <1>2, <2>1, IndexGrows, TrackedStays DEF FiniteIndex
<1>3. CASE SearchStep(s)
  <2> USE DEF SearchTypes, Goto, Cut, answerVars
  <2>1. UNCHANGED <<edges, events, hnswIndex>>
    BY <1>3, CallsKeepStorage DEF rows, indexVars
  <2>2. CASE Search(s) \/ EmbeddingFails(s) \/ QueryError(s)
    BY <2>2 DEF Search, EmbeddingFails, QueryError, Serving
  <2>3. ASSUME NEW f \in SearchFilters, Query(s, f) PROVE Tracked(s, x)'
    <3>1. /\ x \in edges /\ x[1] \in hnswIndex
          /\ f # None => events[x[2]].user = f.user
      BY <2>3 DEF Query
    <3>2. x[2] \in Stored
      BY <3>1 DEF Stored, StorageInv, GraphInv, EdgesResolve, StorageTypeOK
    <3>3. f # None => x[2] \in relig'[s]
      BY <2>3, <3>1, <3>2 DEF Query, findFilteredEventIDs
    <3>4. /\ spc'[s] = "query" /\ rfilter'[s] = f
          /\ rpc'[s] = "locate" \/ (f # None /\ relig'[s] = {})
          /\ rpc'[s] \in {"locate", "done"}
      BY <2>3 DEF Query, QuerySimilar, StorageInv, StorageTypeOK
    <3> QED
      BY <2>1, <3>1, <3>3, <3>4 DEF Tracked
  <2>4. CASE QueryStep(s)
    <3>1. spc[s] = "query" /\ spc'[s] = "query" /\ s \notin cut /\ x \in known[s]
      BY <2>4 DEF QueryStep
    <3>2. Tracked(s, x)
      BY <3>1 DEF KnownTracked, Serving
    <3>3. CASE LocateVectors(s) /\ Cut(s, rvecs'[s] # VectorsOf(relig[s]))
      <4>1. /\ rpc[s] = "locate" /\ rpc'[s] = "search" /\ rfilter'[s] = rfilter[s]
            /\ rvecs'[s] = VectorsOf(relig[s])
        BY <3>3 DEF LocateVectors, StorageInv, StorageTypeOK
      <4>2. rfilter[s] # None => x[1] \in rvecs'[s]
        <5>1. x \in edges /\ (rfilter[s] # None => x[2] \in relig[s])
          BY <3>1, <3>2, <4>1 DEF Tracked
        <5>2. x[1] \in VectorIds /\ x = <<x[1], x[2]>>
          BY <5>1 DEF StorageInv, StorageTypeOK
        <5> QED
          BY <4>1, <5>1, <5>2 DEF VectorsOf
      <4> QED
        BY <2>1, <3>1, <3>2, <4>1, <4>2 DEF Tracked
    <3>4. CASE ExactSearch(s)
      <4>1. /\ rpc[s] = "search" /\ rpc'[s] \in {"collect", "done"}
            /\ rpc'[s] = "done" => rvecs'[s] = {}
        BY <3>4 DEF ExactSearch, SearchIndex, StorageInv, StorageTypeOK
      <4>2. x \in edges /\ x[1] \in hnswIndex /\ (rfilter[s] # None => x[1] \in rvecs[s])
        BY <3>1, <3>2, <4>1 DEF Tracked
      <4>3. x[1] \in rvecs'[s] \/ CrowdedOut(s, x[1])'
        BY <3>4, <4>2, SearchTracks
      <4> QED
        BY <2>1, <3>1, <4>1, <4>2, <4>3 DEF Tracked
    <3>5. CASE CollectResults(s) /\ Cut(s, rres'[s] # LinksOf(rvecs[s]))
      <4>1. /\ rpc[s] = "collect" /\ rpc'[s] = "done"
            /\ rfilter'[s] = rfilter[s] /\ rvecs'[s] = rvecs[s]
            /\ rres'[s] = LinksOf(rvecs[s])
        BY <3>5 DEF CollectResults, StorageInv, StorageTypeOK
      <4>2. CrowdedOut(s, x[1]) => CrowdedOut(s, x[1])'
        BY <2>1, <4>1, CrowdedOutStays DEF FiniteIndex
      <4> QED
        BY <2>1, <3>1, <3>2, <4>1, <4>2 DEF Tracked, LinksOf
    <3> QED
      BY <2>4, <3>3, <3>4, <3>5 DEF QueryStep
  <2>5. CASE QueryReturns(s) \/ Respond(s)
        \/ \E y \in pending[s] : GetEvent(s, y) \/ GetEventFails(s, y)
    <3>1. UNCHANGED <<rvecs, rfilter, known, cut>>
      BY <2>5 DEF QueryReturns, Respond, GetEvent, GetEventFails, storageVars, readers
    <3>2. CrowdedOut(s, x[1]) => CrowdedOut(s, x[1])'
      BY <2>1, <3>1, CrowdedOutStays DEF FiniteIndex
    <3>3. spc'[s] \in {"fetch", "ok"} /\ Serving(s)
      BY <2>5 DEF QueryReturns, Respond, GetEvent, GetEventFails, Serving
    <3>4. Tracked(s, x)
      BY <3>1, <3>3 DEF KnownTracked
    <3>5. CASE QueryReturns(s) \/ Respond(s)
      BY <2>1, <3>2, <3>3, <3>4, <3>5 DEF QueryReturns, Respond, Tracked
    <3>6. ASSUME NEW y \in pending[s], GetEventFails(s, y) PROVE Tracked(s, x)'
      BY <2>1, <3>2, <3>3, <3>4, <3>6 DEF GetEventFails, Tracked
    <3>7. ASSUME NEW y \in pending[s], GetEvent(s, y) PROVE Tracked(s, x)'
      <4> DEFINE answer == results[s]
      <4>1. answer \in Seq(EventIds) /\ y[2] \in EventIds
        OBVIOUS
      <4>2. /\ results'[s] = Append(answer, y[2]) /\ pending'[s] = pending[s] \ {y}
            /\ spc[s] = "fetch" /\ missed' = missed
        BY <3>7 DEF GetEvent
      <4>3. \/ x \in pending[s]
            \/ \E n \in DOMAIN answer : answer[n] = x[2]
            \/ x[2] \in missed[s]
            \/ CrowdedOut(s, x[1])
        BY <3>4, <4>2 DEF Tracked
      <4> HIDE DEF answer
      <4>4. (\E n \in DOMAIN answer : answer[n] = x[2]) =>
               \E n \in DOMAIN Append(answer, y[2]) : Append(answer, y[2])[n] = x[2]
        <5>1. \A n \in DOMAIN answer :
                 n \in DOMAIN Append(answer, y[2]) /\ Append(answer, y[2])[n] = answer[n]
          BY <4>1
        <5> QED
          BY <5>1
      <4>5. \E n \in DOMAIN Append(answer, y[2]) : Append(answer, y[2])[n] = y[2]
        <5>1. /\ Len(answer) + 1 \in DOMAIN Append(answer, y[2])
              /\ Append(answer, y[2])[Len(answer) + 1] = y[2]
          BY <4>1
        <5> QED
          BY <5>1
      <4> QED
        BY <2>1, <3>2, <3>3, <3>4, <4>2, <4>3, <4>4, <4>5 DEF Tracked
    <3> QED
      BY <2>5, <3>5, <3>6, <3>7
  <2> QED
    BY <1>3, <2>2, <2>3, <2>4, <2>5 DEF SearchStep
<1>4. CASE \E t \in Readers : SearchStep(t) /\ s # t
  BY <1>2, <1>4, CallsAreSeparate DEF StorageInv
<1> QED
  BY <1>1, <1>2, <1>3, <1>4, WritersKeepCalls

-----------------------------------------------------------------------------
(* The initial state satisfies the invariant.                              *)
LEMMA SearchInvInit == Init => SearchInv
<1> SUFFICES ASSUME Init PROVE SearchInv
  OBVIOUS
<1>1. StorageInv
  BY StorageInvInit DEF Init
<1>2. SearchTypes /\ CallInv /\ ScoresMatchEvents
  BY DEF Init, SearchInit, StorageInit, SearchTypes, CallInv, CallOK, ScoresMatchEvents
<1>3. AnswersStayWithUser /\ KnownTracked
  BY DEF Init, SearchInit, AnswersStayWithUser, KnownTracked, Serving
<1>4. FiniteIndex
  BY FS_EmptySet DEF Init, StorageInit, FiniteIndex
<1> QED
  BY <1>1, <1>2, <1>3, <1>4 DEF SearchInv

(* SearchInv holds in every reachable state.                               *)
THEOREM SearchInvariant == Spec => []SearchInv
<1>1. ASSUME SearchInv, [Next]_vars PROVE SearchInv'
  <2>1. StorageInv /\ SearchTypes /\ CallInv /\ FiniteIndex
    BY <1>1 DEF SearchInv
  <2>2. [StorageNext]_storageVars
    BY <1>1, SearchUse
  <2>3. StorageInv' /\ FiniteIndex'
    BY <2>1, <2>2, StorageInvStep, FiniteStep
  <2>4. SearchTypes' /\ CallInv'
    BY <1>1, <2>1, SearchTypesStep, CallInvStep DEF StorageInv
  <2>5. ScoresMatchEvents' /\ AnswersStayWithUser' /\ KnownTracked'
    BY <1>1, <2>1, <2>3, ScoresStep, AnswersStep, KnownTrackedStep DEF SearchInv
  <2> QED
    BY <2>3, <2>4, <2>5 DEF SearchInv
<1> QED
  BY <1>1, SearchInvInit, PTL DEF Spec

(* A Search call uses storage as Storage describes it: whatever is proved  *)
(* of Storage holds while calls of Search are served.                      *)
THEOREM SearchUsesStorage == Spec => StorageSpec
  BY SearchUse, PTL DEF Spec, Init, StorageSpec

(* The n-th score of a SearchResponse is that of a vector that embeds its  *)
(* n-th event, however look-ups fail in between.                           *)
THEOREM SearchScoresMatch == Spec => []ScoresMatchEvents
<1>1. SearchInv => ScoresMatchEvents
  BY DEF SearchInv
<1> QED
  BY <1>1, SearchInvariant, PTL

(* An indexed event that the filter of a Search admits is missing from the *)
(* answer only because it was crowded out, its look-up failed or a SELECT  *)
(* broke off, whatever writers do meanwhile.                               *)
THEOREM SearchFindsNearest == Spec => []NearestOrCrowdedOut
<1>1. SearchInv => NearestOrCrowdedOut
  <2> SUFFICES ASSUME SearchInv, NEW t \in Answered \ cut, NEW x \in known[t]
               PROVE  \/ \E n \in DOMAIN results[t] : results[t][n] = x[2]
                      \/ x[2] \in missed[t]
                      \/ CrowdedOut(t, x[1])
    BY DEF NearestOrCrowdedOut, CrowdedOut, FetchCount
  <2>1. t \in Readers /\ spc[t] = "ok"
    BY DEF Answered
  <2>2. Tracked(t, x) /\ pending[t] = {}
    BY <2>1 DEF SearchInv, KnownTracked, Serving, CallInv, CallOK
  <2> QED
    BY <2>1, <2>2 DEF Tracked
<1> QED
  BY <1>1, SearchInvariant, PTL

(* The answer to a Search for a user holds only events that were published *)
(* with that user id: fetching the events one by one after the query does  *)
(* not let another user's event in.                                        *)
THEOREM SearchKeepsUsersApart == Spec => []AnswersStayWithUser
<1>1. SearchInv => AnswersStayWithUser
  BY DEF SearchInv
<1> QED
  BY <1>1, SearchInvariant, PTL

(* While Search calls are served, the queries they make keep users apart,  *)
(* and no step rewrites a stored event, a vector or a link.                *)
THEOREM SearchKeepsIsolation == Spec => []UserIsolation /\ RowsAreImmutable
  BY SearchUsesStorage, StorageUserIsolation, StorageRowsAreImmutable
=============================================================================
