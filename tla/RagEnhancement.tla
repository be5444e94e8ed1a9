--------------------------- MODULE RagEnhancement ---------------------------
(***************************************************************************)
(* The retrieval step of Publish (internal/bus/server_rag.go): concurrent  *)
(* applyRAGEnhancement calls that share an LRU cache of query embeddings,  *)
(* a rate limiter and a singleflight group around the embedding service,   *)
(* then query the storage, drop the event itself and what is not similar   *)
(* enough, and render the rest into the request.                           *)
(*                                                                         *)
(* An embedding is determined by its query text, so a cache item is its    *)
(* key.  Storage is used by its contract (module Storage): a query returns *)
(* at most topK of the events the filter admits.  Any of them may be       *)
(* embedded already, the event of the call included, whose vectorization   *)
(* runs concurrently.                                                      *)
(***************************************************************************)
EXTENDS Naturals, Sequences, FiniteSets, SequencesExt

CONSTANTS
    Calls,       \* goroutines that run Publish handlers, one after the other
    Keys,        \* cache keys: query texts
    EventIds,    \* the events in storage
    UserOf,      \* [EventIds -> users]: user_id of an event, or NoUser
    EventOf,     \* [Calls -> EventIds]: the event a call publishes
    NilData,     \* the calls whose event carries no data: requestData is nil
    Score,       \* [Keys -> [EventIds -> Nat]]: similarity to a query
    Threshold,   \* a score must exceed it (0.4 in the code)
    Size,        \* [EventIds -> Nat]: tokens of the rendered event
    Capacity,    \* of the embedding cache (1000 in the code)
    TopK,        \* ragTopK
    MaxTokens,   \* maxContextTokens
    Header,      \* tokens counted for the header (40 in the code)
    Separator,   \* tokens counted for a separator (10 in the code)
    NoUser, None

ASSUME RagAssumption ==
    /\ EventOf \in [Calls -> EventIds]
    /\ NilData \subseteq Calls
    /\ Score \in [Keys -> [EventIds -> Nat]]
    /\ Size \in [EventIds -> Nat]
    /\ {Capacity, TopK} \subseteq Nat \ {0}
    /\ {Threshold, MaxTokens, Header, Separator} \subseteq Nat
    /\ Header <= MaxTokens
    /\ None \notin Keys \cup Calls

VARIABLES
    lru,      \* the list of cached items, most recently used first
    cache,    \* the keys of the map into that list
    used,     \* history: every key ever cached, by its last use
    flight,   \* key -> the call that runs CreateEmbedding for it, or None
    pc,       \* position of each call
    key,      \* its cacheKey
    ctxDone,  \* calls whose ragCtx is done: cancelled, or past ragTimeout
    found,    \* the relevant events of a call
    request   \* the caller's requestData: rag_applied, and the context in it

cacheVars == <<lru, cache, used>>
vars == <<cacheVars, flight, pc, key, ctxDone, found, request>>

(* rag_applied as the caller sees it, and the events of the context.       *)
Data(applied, events) == [applied |-> applied, context |-> events]
Untouched == Data("unset", <<>>)

Init ==
    /\ lru = <<>> /\ cache = {} /\ used = <<>>
    /\ flight = [k \in Keys |-> None]
    /\ pc = [c \in Calls |-> "idle"]
    /\ key = [c \in Calls |-> None]
    /\ ctxDone = {}
    /\ found = [c \in Calls |-> {}]
    /\ request = [c \in Calls |-> Untouched]

-----------------------------------------------------------------------------
(* The embedding cache.                                                    *)

(* list.MoveToFront for a key of the list: the items before it move back   *)
(* by one place.  PushFront for another.                                   *)
MoveToFront(s, i) ==
    [j \in DOMAIN s |-> IF j = 1 THEN s[i] ELSE IF j <= i THEN s[j - 1] ELSE s[j]]

ToFront(s, k) ==
    IF k \in Range(s) THEN MoveToFront(s, CHOOSE i \in DOMAIN s : s[i] = k)
                      ELSE <<k>> \o s

(* Get, when the key is cached.                                            *)
Hit(k) ==
    /\ lru' = ToFront(lru, k)
    /\ used' = ToFront(used, k)
    /\ UNCHANGED cache

(* Mutant: nothing is ever evicted.                                        *)
SetNoEvict(k) ==
    /\ used' = ToFront(used, k)
    /\ lru' = ToFront(lru, k)
    /\ cache' = cache \cup {k}

(* Mutant: Set does not look whether another call has cached the key.      *)
SetUnchecked(k) ==
    /\ used' = ToFront(used, k)
    /\ IF Len(lru) + 1 > Capacity
       THEN /\ lru' = <<k>> \o Front(lru)
            /\ cache' = (cache \cup {k}) \ {Last(lru)}
       ELSE /\ lru' = <<k>> \o lru
            /\ cache' = cache \cup {k}

(* Set: update and move an item that is there, or insert in front and      *)
(* evict the last item when there are now too many.                        *)
Set(k) ==
    /\ used' = ToFront(used, k)
    /\ IF k \in cache
       THEN lru' = ToFront(lru, k) /\ UNCHANGED cache
       ELSE IF Len(lru) + 1 > Capacity
            THEN /\ lru' = <<k>> \o Front(lru)
                 /\ cache' = (cache \cup {k}) \ {Last(lru)}
            ELSE /\ lru' = <<k>> \o lru
                 /\ cache' = cache \cup {k}

-----------------------------------------------------------------------------
(* applyRAGEnhancement, step by step.                                      *)

Goto(c, where) == pc' = [pc EXCEPT ![c] = where]

(* What generateQueryText makes of subject and data; None when all of the  *)
(* fields it looks at are empty.                                           *)
QueryTexts == Keys \cup {None}

(* Publish reaches the enhancement.  Without a query text (or with RAG     *)
(* switched off) it returns at once, which leaves the request as it is.    *)
Begin(c, k) ==
    /\ pc[c] = "idle"
    /\ Goto(c, IF k = None THEN "idle" ELSE "lookup")
    /\ key' = [key EXCEPT ![c] = k]
    /\ found' = [found EXCEPT ![c] = {}]
    /\ request' = [request EXCEPT ![c] = Untouched]
    /\ UNCHANGED <<cacheVars, flight, ctxDone>>

(* The client cancels the call, or ragTimeout expires.                     *)
ContextDone(c) ==
    /\ pc[c] # "idle"
    /\ c \notin ctxDone
    /\ ctxDone' = ctxDone \cup {c}
    /\ UNCHANGED <<cacheVars, flight, pc, key, found, request>>

(* The calls of S return, having written d into their request.  Without    *)
(* data the map they write to is one the caller never sees.                *)
Return(S, d) ==
    /\ pc' = [c \in Calls |-> IF c \in S THEN "idle" ELSE pc[c]]
    /\ request' = [c \in Calls |->
                     IF c \in S /\ c \notin NilData THEN d ELSE request[c]]
    /\ ctxDone' = ctxDone \ S

Lookup(c) ==
    /\ pc[c] = "lookup"
    /\ IF key[c] \in cache
       THEN Hit(key[c]) /\ Goto(c, "query")
       ELSE UNCHANGED cacheVars /\ Goto(c, "limit")
    /\ UNCHANGED <<flight, key, ctxDone, found, request>>

(* rateLimiter.Wait refuses when the context is done, or would be before a *)
(* token is there.                                                         *)
RateLimited(c) ==
    /\ pc[c] = "limit"
    /\ Return({c}, Untouched)
    /\ UNCHANGED <<cacheVars, flight, key, found>>

(* singleFlight.Do: the first call for a key runs CreateEmbedding with its *)
(* own context, a later one waits for it, whatever its own context does.   *)
Fly(c) ==
    /\ pc[c] = "limit"
    /\ c \notin ctxDone
    /\ Goto(c, "flight")
    /\ flight' = IF flight[key[c]] = None
                 THEN [flight EXCEPT ![key[c]] = c] ELSE flight
    /\ UNCHANGED <<cacheVars, key, ctxDone, found, request>>

Aboard(k) == {c \in Calls : pc[c] = "flight" /\ key[c] = k}

(* CreateEmbedding returns an embedding to everyone aboard...              *)
FlightLands(k) ==
    /\ flight[k] # None
    /\ flight[k] \notin ctxDone
    /\ flight' = [flight EXCEPT ![k] = None]
    /\ pc' = [c \in Calls |-> IF c \in Aboard(k) THEN "set" ELSE pc[c]]
    /\ UNCHANGED <<cacheVars, key, ctxDone, found, request>>

(* Mutant: an error reaches only the call that ran CreateEmbedding.        *)
FlightFailsForOne(k) ==
    /\ flight[k] # None
    /\ flight' = [flight EXCEPT ![k] = None]
    /\ Return({flight[k]}, Untouched)
    /\ UNCHANGED <<cacheVars, key, found>>

(* ... or an error: the service's, or that the first caller's context is   *)
(* done.                                                                   *)
FlightFails(k) ==
    /\ flight[k] # None
    /\ flight' = [flight EXCEPT ![k] = None]
    /\ Return(Aboard(k), Untouched)
    /\ UNCHANGED <<cacheVars, key, found>>

SetEmbedding(c) ==
    /\ pc[c] = "set"
    /\ Set(key[c])
    /\ Goto(c, "query")
    /\ UNCHANGED <<flight, key, ctxDone, found, request>>

(* What QuerySimilar may answer: the filter is the user of the event, and  *)
(* there is none when the event has no user.                               *)
SimilarEvents(c) ==
    LET user == UserOf[EventOf[c]]
        eligible == {e \in EventIds : user = NoUser \/ UserOf[e] = user}
    IN  {R \in SUBSET eligible : IsFiniteSet(R) /\ Cardinality(R) <= TopK}

(* Mutant: the event itself stays among the results.                       *)
SelfKept(c, R) == R

(* The results without the event itself, and those that are similar enough.*)
Cleaned(c, R) == R \ {EventOf[c]}

Relevant(c, R) == {e \in R : Score[key[c]][e] > Threshold}

(* A query that fails leaves no mark; one that finds nothing useful does.  *)
QueryFails(c) ==
    /\ pc[c] = "query"
    /\ Return({c}, Untouched)
    /\ UNCHANGED <<cacheVars, flight, key, found>>

Query(c) ==
    /\ pc[c] = "query"
    /\ c \notin ctxDone
    /\ \E R \in SimilarEvents(c) :
         LET ids == Relevant(c, Cleaned(c, R)) IN
         /\ found' = [found EXCEPT ![c] = ids]
         /\ IF ids = {}
            THEN Return({c}, Data("false", <<>>))
            ELSE Goto(c, "fetch") /\ UNCHANGED <<request, ctxDone>>
    /\ UNCHANGED <<cacheVars, flight, key>>

(* BatchGetEvents finds all rows, as none is ever deleted, and returns     *)
(* them in no particular order.                                            *)
BatchGetEvents(S) == SetToSeqs(S)

(* Mutant: the rows are rendered in the order the database returns them.   *)
Unsorted(c, S) == BatchGetEvents(S)

(* sort.Slice on the fetched rows: best first, ties in any order.          *)
SortedByScore(c, S) ==
    {s \in BatchGetEvents(S) :
       \A i, j \in DOMAIN s :
          i < j => Score[key[c]][s[i]] >= Score[key[c]][s[j]]}

(* A quarter of the length of what renderSingleEventMarkdown returns.      *)
EventTokens(e) == Size[e]

(* renderEventsMarkdown: currentTokens before the i-th event, and the      *)
(* events up to the first that does not fit.                               *)
TokensBefore(s, i) ==
    LET currentTokens[j \in 1 .. Len(s) + 1] ==
          IF j = 1 THEN Header
          ELSE currentTokens[j - 1] + EventTokens(s[j - 1]) + Separator
    IN  currentTokens[i]

(* Mutant: the limit is looked at before the event is counted.             *)
RenderBeyond(s) ==
    LET fits(i) == TokensBefore(s, i) <= MaxTokens
        n == CHOOSE m \in 0 .. Len(s) :
               /\ \A i \in 1 .. m : fits(i)
               /\ m < Len(s) => ~ fits(m + 1)
    IN  SubSeq(s, 1, n)

RenderEvents(s) ==
    LET fits(i) == TokensBefore(s, i) + EventTokens(s[i]) <= MaxTokens
        n == CHOOSE m \in 0 .. Len(s) :
               /\ \A i \in 1 .. m : fits(i)
               /\ m < Len(s) => ~ fits(m + 1)
    IN  SubSeq(s, 1, n)

BatchGetFails(c) ==
    /\ pc[c] = "fetch"
    /\ Return({c}, Data("false", <<>>))
    /\ UNCHANGED <<cacheVars, flight, key, found>>

(* The rendered text is never empty, as it has a header: the code's case   *)
(* of no context does not occur.                                           *)
BatchGet(c) ==
    /\ pc[c] = "fetch"
    /\ c \notin ctxDone
    /\ \E s \in SortedByScore(c, found[c]) :
         Return({c}, Data("true", RenderEvents(s)))
    /\ UNCHANGED <<cacheVars, flight, key, found>>

-----------------------------------------------------------------------------
Proceed(c) ==
    \/ Lookup(c) \/ RateLimited(c) \/ Fly(c) \/ SetEmbedding(c)
    \/ QueryFails(c) \/ Query(c) \/ BatchGetFails(c) \/ BatchGet(c)

FlightReturns(k) == FlightLands(k) \/ FlightFails(k)

Next ==
    \/ \E c \in Calls, k \in QueryTexts : Begin(c, k)
    \/ \E c \in Calls : ContextDone(c) \/ Proceed(c)
    \/ \E k \in Keys : FlightReturns(k)

Spec == Init /\ [][Next]_vars

-----------------------------------------------------------------------------
(* Types; the list never outgrows the capacity and a flight is run by a    *)
(* call aboard (embeddingCache and singleFlight).                          *)
TypeOK ==
    /\ lru \in Seq(Keys) /\ Len(lru) <= Capacity
    /\ cache \subseteq Keys
    /\ used \in Seq(Keys)
    /\ \A k \in Keys : flight[k] # None => flight[k] \in Aboard(k)
    /\ pc \in [Calls -> {"idle", "lookup", "limit", "flight", "set",
                         "query", "fetch"}]
    /\ key \in [Calls -> Keys \cup {None}]
    /\ ctxDone \subseteq Calls
    /\ found \in [Calls -> SUBSET EventIds]
    /\ \A c \in Calls :
         /\ request[c].applied \in {"unset", "false", "true"}
         /\ request[c].context \in Seq(EventIds)

(* Get and Set together are a least recently used cache: whatever the      *)
(* order of the calls, it holds the keys used last and evicts no other.    *)
(* Several calls that missed the cache for one text, each storing its      *)
(* embedding (Set after singleFlight.Do), never put two items of one key   *)
(* into the list nor leave a key in the map whose item was evicted.        *)
KeepsRecentlyUsed ==
    /\ lru = SubSeq(used, 1, Min({Capacity, Len(used)}))
    /\ IsInjective(lru)
    /\ Range(lru) = cache

(* The context put into a request never holds the event that is asked      *)
(* about, even if it was embedded meanwhile, and for an event with a user  *)
(* only events of that user, although the embedding may come from a call   *)
(* of another user with the same text.                                     *)
OwnHistoryOnly ==
    \A c \in Calls : \A e \in Range(request[c].context) :
       /\ e # EventOf[c]
       /\ UserOf[EventOf[c]] # NoUser => UserOf[e] = UserOf[EventOf[c]]

(* Truncation drops the least similar: no event left out of a rendered     *)
(* context scores higher than one that is in it (the sort before           *)
(* renderEventsMarkdown).                                                  *)
BestEventsKept ==
    \A c \in Calls : request[c].applied = "true" =>
       \A e \in Range(request[c].context) :
          \A f \in found[c] \ Range(request[c].context) :
             Score[key[c]][e] >= Score[key[c]][f]

(* The rendered context stays within the token limit, except that the      *)
(* separator after the last event is not counted before it is written.     *)
ContextFits ==
    \A c \in Calls :
       LET s == request[c].context IN
       TokensBefore(s, Len(s) + 1) <= MaxTokens + Separator
=============================================================================
