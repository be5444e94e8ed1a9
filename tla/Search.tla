------------------------------- MODULE Search -------------------------------
(***************************************************************************)
(* The Search call of the bus server (internal/bus/server.go) on top of    *)
(* Storage: validation and query embedding, QuerySimilar, and a loop that  *)
(* fetches the events of the results one by one while writers go on.  A    *)
(* reader of Storage is one Search call; nothing else queries here.        *)
(*                                                                         *)
(* Storage leaves open which vectors the index finds.  Here the index is   *)
(* exact, so that what is missing from an answer is the code's doing.      *)
(***************************************************************************)
EXTENDS Storage, Sequences

CONSTANT Similarity  \* [VectorIds -> Nat]: to the text that is searched for

ASSUME SearchAssumption == Similarity \in [VectorIds -> Nat]

VARIABLES
    spc,       \* call -> "new", "embed", "query", "fetch", "ok", "error",
               \* or "gone" with the process
    pending,   \* call -> results of QuerySimilar still to be fetched
    results,   \* call -> the events of the answer, in order
    scores,    \* call -> the scores of the answer, in order
    known,     \* history: call -> links that could be found when it queried
    missed,    \* history: call -> events whose look-up failed
    cut        \* history: calls for which the iteration of a SELECT broke off

answerVars == <<pending, results, scores, missed>>
searchVars == <<spc, answerVars, known, cut>>
vars == <<storageVars, searchVars>>

SearchInit ==
    /\ spc = [t \in Readers |-> "new"]
    /\ pending = [t \in Readers |-> {}]
    /\ results = [t \in Readers |-> <<>>]
    /\ scores = [t \in Readers |-> <<>>]
    /\ known = [t \in Readers |-> {}]
    /\ missed = [t \in Readers |-> {}]
    /\ cut = {}

Init == StorageInit /\ SearchInit

Goto(t, where) == spc' = [spc EXCEPT ![t] = where]

Cut(t, broken) == cut' = IF broken THEN cut \cup {t} ELSE cut

(* An empty query text, or no embedding provider, is an error.             *)
Search(t) ==
    /\ db = "open"
    /\ spc[t] = "new"
    /\ Goto(t, "embed") \/ Goto(t, "error")
    /\ UNCHANGED <<storageVars, answerVars, known, cut>>

EmbeddingFails(t) ==
    /\ spc[t] = "embed"
    /\ Goto(t, "error")
    /\ UNCHANGED <<storageVars, answerVars, known, cut>>

(* The filter of a request, None when it names no user.                    *)
SearchFilters == {None} \cup [user : Users]

(* The embedding is there: QuerySimilar with the filter of the request.    *)
Query(t, f) ==
    /\ spc[t] = "embed"
    /\ QuerySimilar(t, f)
    /\ Goto(t, "query")
    /\ known' = [known EXCEPT ![t] = {x \in edges :
                   /\ x[1] \in hnswIndex
                   /\ f # None => events[x[2]].user = f.user}]
    /\ Cut(t, f # None /\ relig'[t] # findFilteredEventIDs(f))
    /\ UNCHANGED answerVars

-----------------------------------------------------------------------------
(* The index, exact.                                                       *)

(* The sets of the n members of S that are most similar to the query, or   *)
(* all of S; ties are broken arbitrarily.                                  *)
Nearest(S, n) ==
    {H \in SUBSET S :
       /\ Cardinality(H) = IF Cardinality(S) <= n THEN Cardinality(S) ELSE n
       /\ \A v \in H, w \in S \ H : Similarity[v] >= Similarity[w]}

(* Mutant: a filtered query asks for no more than topK hits either.        *)
FetchCountPlain(f) == TopK

(* How many hits QuerySimilar asks the index for.                          *)
FetchCount(f) == IF f = None THEN TopK ELSE TopK * OverFetch

ExactSearch(t) ==
    /\ SearchIndex(t)
    /\ \E hits \in Nearest(hnswIndex, FetchCount(rfilter[t])) :
          LET usable == IF rfilter[t] = None THEN hits ELSE hits \cap rvecs[t]
          IN  rvecs'[t] \in Nearest(usable, TopK)

-----------------------------------------------------------------------------
(* QuerySimilar inside the call.                                           *)

QueryStep(t) ==
    /\ spc[t] = "query"
    /\ \/ LocateVectors(t) /\ Cut(t, rvecs'[t] # VectorsOf(relig[t]))
       \/ ExactSearch(t) /\ UNCHANGED cut
       \/ CollectResults(t) /\ Cut(t, rres'[t] # LinksOf(rvecs[t]))
    /\ UNCHANGED <<spc, answerVars, known>>

QueryError(t) ==
    /\ spc[t] = "query"
    /\ QueryFails(t)
    /\ Goto(t, "error")
    /\ UNCHANGED <<answerVars, known, cut>>

QueryReturns(t) ==
    /\ spc[t] = "query"
    /\ rpc[t] = "done"
    /\ pending' = [pending EXCEPT ![t] = rres[t]]
    /\ Goto(t, "fetch")
    /\ UNCHANGED <<storageVars, results, scores, missed, known, cut>>

(* GetEventByID for one of the results; their order is that of the rows of *)
(* the last SELECT, which is none in particular.                           *)
GetEvent(t, x) ==
    /\ spc[t] = "fetch"
    /\ x \in pending[t]
    /\ db = "open"
    /\ events[x[2]] # None
    /\ pending' = [pending EXCEPT ![t] = @ \ {x}]
    /\ results' = [results EXCEPT ![t] = Append(@, x[2])]
    /\ scores' = [scores EXCEPT ![t] = Append(@, Similarity[x[1]])]
    /\ UNCHANGED <<storageVars, spc, missed, known, cut>>

(* Mutant: the score is appended before the error is looked at.            *)
GetEventFailsScored(t, x) ==
    /\ spc[t] = "fetch"
    /\ x \in pending[t]
    /\ pending' = [pending EXCEPT ![t] = @ \ {x}]
    /\ missed' = [missed EXCEPT ![t] = @ \cup {x[2]}]
    /\ scores' = [scores EXCEPT ![t] = Append(@, Similarity[x[1]])]
    /\ UNCHANGED <<storageVars, spc, results, known, cut>>

(* A look-up that fails is logged and skipped.                             *)
GetEventFails(t, x) ==
    /\ spc[t] = "fetch"
    /\ x \in pending[t]
    /\ pending' = [pending EXCEPT ![t] = @ \ {x}]
    /\ missed' = [missed EXCEPT ![t] = @ \cup {x[2]}]
    /\ UNCHANGED <<storageVars, spc, results, scores, known, cut>>

Respond(t) ==
    /\ spc[t] = "fetch"
    /\ pending[t] = {}
    /\ Goto(t, "ok")
    /\ UNCHANGED <<storageVars, answerVars, known, cut>>

(* The process ends, and the calls it was serving with it.                 *)
ServerEnds ==
    /\ ProcessEnds
    /\ spc' = [t \in Readers |-> IF spc[t] = "new" THEN "new" ELSE "gone"]
    /\ UNCHANGED <<answerVars, known, cut>>

SearchStep(t) ==
    \/ Search(t) \/ EmbeddingFails(t) \/ \E f \in SearchFilters : Query(t, f)
    \/ QueryStep(t) \/ QueryError(t) \/ QueryReturns(t)
    \/ \E x \in pending[t] : GetEvent(t, x) \/ GetEventFails(t, x)
    \/ Respond(t)

Next ==
    \/ \E t \in Readers : SearchStep(t)
    \/ (\E t \in Writers : WriterStep(t)) /\ UNCHANGED searchVars
    \/ (NewProvider \/ Close) /\ UNCHANGED searchVars
    \/ ServerEnds

Spec == Init /\ [][Next]_vars

-----------------------------------------------------------------------------
Answered == {t \in Readers : spc[t] = "ok"}

(* The two lists of a SearchResponse belong together although results whose *)
(* event could not be retrieved are left out: the n-th score is that of a  *)
(* vector that embeds the n-th event.                                      *)
ScoresMatchEvents ==
    \A t \in Readers :
       /\ Len(results[t]) = Len(scores[t])
       /\ \A n \in DOMAIN results[t] : \E v \in VectorIds :
             <<v, results[t][n]>> \in edges /\ scores[t][n] = Similarity[v]

AsSimilar(S, v) == {w \in S \ {v} : Similarity[w] >= Similarity[v]}

(* An event that was embedded and indexed when the query began, and that   *)
(* its filter admits, is missing from the answer only if topK of the hits  *)
(* are as similar, if so many vectors of the whole index are as similar    *)
(* that the over-fetched hits end before it, if its look-up failed, or if  *)
(* a SELECT of the query broke off unnoticed: no writer that acts during   *)
(* the query can hide it.                                                  *)
NearestOrCrowdedOut ==
    \A t \in Answered \ cut : \A x \in known[t] :
       \/ \E n \in DOMAIN results[t] : results[t][n] = x[2]
       \/ x[2] \in missed[t]
       \/ Cardinality(AsSimilar(rvecs[t], x[1])) >= TopK
       \/ Cardinality(AsSimilar(hnswIndex, x[1])) >=
             (IF rfilter[t] = None THEN TopK ELSE TopK * OverFetch)
=============================================================================
