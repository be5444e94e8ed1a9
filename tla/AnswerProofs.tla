---------------------------- MODULE AnswerProofs ----------------------------
(***************************************************************************)
(* For any number of concurrent calls, keys, events and providers: the     *)
(* embedding cache is a least recently used cache, the context put into a  *)
(* request is taken from the user's own history and keeps the best events, *)
(* the prompt reaches the model, and retries are bounded.  The policy is   *)
(* decided by the first rule that matches.                                 *)
(***************************************************************************)
EXTENDS Answer, SequenceTheorems, FiniteSetTheorems, FunctionTheorems,
        WellFoundedInduction, TLAPS

-----------------------------------------------------------------------------
(* The inductive invariant.                                                *)

Requests == [applied : {"unset", "false", "true"}, context : Seq(EventIds)]

Positions == {"idle", "lookup", "limit", "flight", "set", "query", "fetch"}

RagTypes ==
    /\ pc \in [Calls -> Positions]
    /\ key \in [Calls -> Keys \cup {None}]
    /\ flight \in [Keys -> Calls \cup {None}]
    /\ ctxDone \subseteq Calls
    /\ found \in [Calls -> SUBSET EventIds]
    /\ request \in [Calls -> Requests]

(* A call that is under way has a key; a flight is run by a call aboard.   *)
FlightInv ==
    /\ \A c \in Calls : pc[c] # "idle" => key[c] \in Keys
    /\ \A k \in Keys : flight[k] # None => flight[k] \in Aboard(k)

(* The list of the cache is the beginning of the list of all keys by their *)
(* last use, as long as the capacity allows, and no key is twice in it.    *)
CacheInv ==
    /\ lru \in Seq(Keys) /\ used \in Seq(Keys)
    /\ IsInjective(used)
    /\ Len(lru) <= Capacity /\ Len(lru) <= Len(used)
    /\ Len(lru) < Capacity => Len(lru) = Len(used)
    /\ \A i \in 1 .. Len(lru) : lru[i] = used[i]
    /\ cache = Range(lru)

(* The events a call may see: not its own, and only those of its user.     *)
Own(c) ==
    {e \in EventIds : /\ e # EventOf[c]
                      /\ UserOf[EventOf[c]] # NoUser => UserOf[e] = UserOf[EventOf[c]]}

(* A request is written when its call returns, from the events it found.   *)
ContextInv ==
    \A c \in Calls :
       /\ pc[c] # "idle" => request[c] = Untouched
       /\ found[c] \subseteq Own(c) /\ IsFiniteSet(found[c])
       /\ Range(request[c].context) \subseteq found[c]

RagInv ==
    /\ RagTypes /\ FlightInv /\ CacheInv
    /\ ContextInv /\ BestEventsKept /\ ContextFits

(* The steps of a handler, and what it has asked.                          *)
HandlerPositions ==
    {"free", "rag", "mock", "openai", "ollama", "asked", "request", "delay"}

Questions == [data : SUBSET Fields, message : {"prompt", "empty", "refused"}]

AnswerTypes ==
    /\ apc \in [Calls -> HandlerPositions]
    /\ asked \in [Calls -> Questions \cup {None}]
    /\ failed \in [Calls -> Nat]
    /\ lastErr \in [Calls -> Errors \cup {None}]
    /\ cancelled \subseteq Calls
    /\ late \in [Calls -> Nat]

(* Only a call in the enhancement takes steps of it, only a call that has  *)
(* asked OpenAI has a question, only one to Ollama counts.                 *)
CallHandler(c) ==
    /\ apc[c] # "rag" => pc[c] = "idle"
    /\ apc[c] = "rag" => RagProvider \in DOMAIN Providers
    /\ asked[c] # None => apc[c] = "asked"
    /\ apc[c] \notin {"request", "delay"} =>
         failed[c] = 0 /\ late[c] = 0 /\ c \notin cancelled
    /\ c \notin cancelled => late[c] = 0
    /\ apc[c] = "delay" => late[c] = 0

HandlerInv == \A c \in Calls : CallHandler(c)

AnswerInv ==
    /\ RagInv /\ AnswerTypes /\ HandlerInv /\ PromptReachesModel /\ RetriesAreBounded

-----------------------------------------------------------------------------
(* Every step of a handler is a step of the enhancement, or leaves it      *)
(* alone.                                                                  *)
LEMMA HandlerUse == [AnswerNext]_allVars => [Next]_vars
<1> SUFFICES ASSUME [AnswerNext]_allVars PROVE Next \/ UNCHANGED vars
  OBVIOUS
<1>1. ASSUME NEW c \in Calls, NEW type \in EventTypes \cup {NoType}, NEW k \in QueryTexts,
             Select(c, type, k)
      PROVE  Next
  BY <1>1 DEF Select, Next
<1>2. ASSUME NEW c \in Calls, Enhance(c) PROVE Next
  BY <1>2 DEF Enhance, Next
<1>3. ASSUME NEW c \in Calls, ProviderStep(c) \/ Cancel(c) PROVE UNCHANGED vars
  BY <1>3 DEF ProviderStep, Enhanced, Mock, OpenAIReturns, AskOpenAI, AskOllama,
     RequestSucceeds, RequestFails, DelayOver, DelayCancelled, Cancel
<1>4. ASSUME NEW k \in Keys, FlightStep(k) PROVE Next
  BY <1>4 DEF FlightStep, Next
<1> QED
  BY <1>1, <1>2, <1>3, <1>4 DEF AnswerNext, allVars

-----------------------------------------------------------------------------
(* The embedding cache.                                                    *)

(* The list after MoveToFront of its i-th item.                            *)
LEMMA Moved ==
    ASSUME NEW s \in Seq(Keys), IsInjective(s), NEW i \in 1 .. Len(s),
           NEW r, r = ToFront(s, s[i])
    PROVE  /\ r \in Seq(Keys) /\ Len(r) = Len(s)
           /\ \A j \in 1 .. Len(s) :
                 r[j] = IF j = 1 THEN s[i] ELSE IF j <= i THEN s[j - 1] ELSE s[j]
           /\ IsInjective(r) /\ Range(r) = Range(s)
<1>1. DOMAIN s = 1 .. Len(s) /\ Len(s) \in Nat /\ s \in [1 .. Len(s) -> Keys]
  BY LenProperties
<1>2. s[i] \in Range(s) /\ i \in DOMAIN s
  BY <1>1 DEF Range
<1>3. (CHOOSE h \in DOMAIN s : s[h] = s[i]) = i
  BY <1>2 DEF IsInjective
<1>4. r = MoveToFront(s, i)
  BY <1>2, <1>3 DEF ToFront
<1>5. r = [j \in 1 .. Len(s) |-> IF j = 1 THEN s[i] ELSE IF j <= i THEN s[j - 1] ELSE s[j]]
  BY <1>1, <1>4 DEF MoveToFront
<1>6. \A j \in 1 .. Len(s) : r[j] = IF j = 1 THEN s[i] ELSE IF j <= i THEN s[j - 1] ELSE s[j]
  BY <1>5
<1>7. r \in [1 .. Len(s) -> Keys]
  <2>1. \A j \in 1 .. Len(s) : r[j] \in Keys
    BY <1>1, <1>6
  <2> QED
    BY <1>5, <2>1
<1>8. r \in Seq(Keys) /\ Len(r) = Len(s) /\ DOMAIN r = 1 .. Len(s)
  BY <1>1, <1>7
<1>9. IsInjective(r)
  <2> SUFFICES ASSUME NEW a \in 1 .. Len(s), NEW b \in 1 .. Len(s), r[a] = r[b] PROVE a = b
    BY <1>8 DEF IsInjective
  <2> DEFINE from(j) == IF j = 1 THEN i ELSE IF j <= i THEN j - 1 ELSE j
  <2>1. \A j \in 1 .. Len(s) : from(j) \in 1 .. Len(s) /\ r[j] = s[from(j)]
    BY <1>1, <1>6
  <2>2. from(a) = from(b)
    BY <1>1, <2>1 DEF IsInjective
  <2> QED
    BY <1>1, <2>2
<1>10. Range(r) = Range(s)
  <2>1. ASSUME NEW j \in 1 .. Len(s) PROVE r[j] \in Range(s)
    <3>1. \E h \in 1 .. Len(s) : r[j] = s[h]
      BY <1>1, <1>6
    <3> QED
      BY <1>1, <3>1 DEF Range
  <2>2. ASSUME NEW h \in 1 .. Len(s) PROVE s[h] \in Range(r)
    <3> DEFINE to == IF h = i THEN 1 ELSE IF h < i THEN h + 1 ELSE h
    <3>1. to \in 1 .. Len(s) /\ r[to] = s[h]
      BY <1>1, <1>6
    <3> QED
      BY <1>8, <3>1 DEF Range
  <2> QED
    BY <1>1, <1>8, <2>1, <2>2 DEF Range
<1> QED
  BY <1>6, <1>8, <1>9, <1>10

(* The list after PushFront of an item that is not in it.                  *)
LEMMA Pushed ==
    ASSUME NEW s \in Seq(Keys), NEW k \in Keys, NEW r, r = <<k>> \o s
    PROVE  /\ r \in Seq(Keys) /\ Len(r) = Len(s) + 1
           /\ \A j \in 1 .. Len(s) + 1 : r[j] = IF j = 1 THEN k ELSE s[j - 1]
           /\ IsInjective(s) /\ k \notin Range(s) => IsInjective(r)
<1>1. <<k>> \in Seq(Keys) /\ Len(<<k>>) = 1 /\ <<k>>[1] = k /\ Len(s) \in Nat
  OBVIOUS
<1>2. r \in Seq(Keys) /\ Len(r) = Len(s) + 1
  BY <1>1, ConcatProperties
<1>3. \A j \in 1 .. 1 + Len(s) : r[j] = IF j <= 1 THEN <<k>>[j] ELSE s[j - 1]
  BY <1>1, ConcatProperties
<1>4. \A j \in 1 .. Len(s) + 1 : r[j] = IF j = 1 THEN k ELSE s[j - 1]
  BY <1>1, <1>3
<1>5. ASSUME IsInjective(s), k \notin Range(s) PROVE IsInjective(r)
  <2> SUFFICES ASSUME NEW a \in 1 .. Len(s) + 1, NEW b \in 1 .. Len(s) + 1, r[a] = r[b]
               PROVE  a = b
    BY <1>2 DEF IsInjective
  <2>1. DOMAIN s = 1 .. Len(s)
    OBVIOUS
  <2>2. \A j \in 1 .. Len(s) : s[j] # k
    BY <1>5, <2>1 DEF Range
  <2>3. \A j \in 1 .. Len(s) + 1 : j = 1 \/ (j - 1 \in 1 .. Len(s) /\ r[j] = s[j - 1])
    BY <1>1, <1>4
  <2>4. r[1] = k
    BY <1>1, <1>4
  <2>5. CASE a # 1 /\ b # 1
    <3>1. s[a - 1] = s[b - 1] /\ a - 1 \in DOMAIN s /\ b - 1 \in DOMAIN s
      BY <2>1, <2>3, <2>5
    <3>2. a - 1 = b - 1
      BY <1>5, <3>1 DEF IsInjective
    <3> QED
      BY <1>1, <3>2
  <2> QED
    BY <2>2, <2>3, <2>4, <2>5
<1> QED
  BY <1>2, <1>4, <1>5

(* The list of the cache is free of duplicates, being a part of used.      *)
LEMMA CacheFacts ==
    ASSUME CacheInv
    PROVE  /\ IsInjective(lru) /\ IsInjective(used)
           /\ Len(lru) \in Nat /\ Len(used) \in Nat
           /\ DOMAIN lru = 1 .. Len(lru) /\ DOMAIN used = 1 .. Len(used)
           /\ \A k \in cache : \E i \in 1 .. Len(lru) : k = lru[i] /\ k = used[i]
           /\ cache \subseteq Keys
<1>1. /\ Len(lru) \in Nat /\ Len(used) \in Nat
      /\ DOMAIN lru = 1 .. Len(lru) /\ DOMAIN used = 1 .. Len(used)
  BY DEF CacheInv
<1>2. \A i \in 1 .. Len(lru) : i \in DOMAIN used /\ lru[i] = used[i] /\ lru[i] \in Keys
  <2>1. \A i \in 1 .. Len(lru) : lru[i] = used[i] /\ lru[i] \in Keys
    BY ElementOfSeq DEF CacheInv
  <2>2. Len(lru) <= Len(used)
    BY DEF CacheInv
  <2> QED
    BY <1>1, <2>1, <2>2
<1>3. IsInjective(lru)
  BY <1>1, <1>2 DEF CacheInv, IsInjective
<1>4. \A k \in cache : \E i \in 1 .. Len(lru) : k = lru[i]
  BY <1>1 DEF CacheInv, Range
<1> QED
  BY <1>1, <1>2, <1>3, <1>4 DEF CacheInv

(* A use of a cached key: both lists move it to the front.                 *)
LEMMA UseOfCached ==
    ASSUME CacheInv, NEW k \in cache,
           lru' = ToFront(lru, k), used' = ToFront(used, k), cache' = cache
    PROVE  CacheInv'
<1>1. PICK i \in 1 .. Len(lru) : k = lru[i] /\ k = used[i]
  BY CacheFacts
<1>2. /\ Len(lru) \in Nat /\ Len(used) \in Nat /\ i \in 1 .. Len(used)
      /\ Len(lru) <= Len(used) /\ Len(lru) <= Capacity
      /\ Len(lru) < Capacity => Len(lru) = Len(used)
  BY CacheFacts DEF CacheInv
<1>3. /\ lru' \in Seq(Keys) /\ Len(lru') = Len(lru) /\ Range(lru') = Range(lru)
      /\ \A j \in 1 .. Len(lru) :
            lru'[j] = IF j = 1 THEN lru[i] ELSE IF j <= i THEN lru[j - 1] ELSE lru[j]
  <2>1. lru \in Seq(Keys) /\ IsInjective(lru) /\ lru' = ToFront(lru, lru[i])
    BY <1>1, CacheFacts DEF CacheInv
  <2> QED
    BY <2>1, Moved
<1>4. /\ used' \in Seq(Keys) /\ Len(used') = Len(used) /\ IsInjective(used')
      /\ \A j \in 1 .. Len(used) :
            used'[j] = IF j = 1 THEN used[i] ELSE IF j <= i THEN used[j - 1] ELSE used[j]
  <2>1. used \in Seq(Keys) /\ IsInjective(used) /\ used' = ToFront(used, used[i])
    BY <1>1, CacheFacts DEF CacheInv
  <2>2. i \in 1 .. Len(used)
    BY <1>2
  <2> QED
    BY <2>1, <2>2, Moved
<1>5. \A j \in 1 .. Len(lru) : lru[j] = used[j]
  BY DEF CacheInv
<1>6. ASSUME NEW j \in 1 .. Len(lru) PROVE lru'[j] = used'[j]
  <2>1. j \in 1 .. Len(used) /\ (j # 1 => j - 1 \in 1 .. Len(lru))
    BY <1>2
  <2> QED
    BY <1>3, <1>4, <1>5, <2>1
<1>7. cache' = Range(lru')
  BY <1>3 DEF CacheInv
<1> QED
  BY <1>2, <1>3, <1>4, <1>6, <1>7 DEF CacheInv

(* What used is after a use of any key: the key, and before the place it   *)
(* had, the others one place further back.                                 *)
LEMMA UsedAfter ==
    ASSUME CacheInv, NEW k \in Keys \ cache, used' = ToFront(used, k)
    PROVE  /\ used' \in Seq(Keys) /\ IsInjective(used') /\ Len(used') \in Nat
           /\ Len(lru) < Capacity => Len(used') = Len(lru) + 1
           /\ Len(lru) = Capacity => Len(used') >= Len(lru)
           /\ \A j \in 1 .. Len(used') : j <= Len(lru) + 1 =>
                 used'[j] = IF j = 1 THEN k ELSE lru[j - 1]
<1>1. /\ Len(lru) \in Nat /\ Len(used) \in Nat /\ Capacity \in Nat
      /\ Len(lru) <= Len(used) /\ Len(lru) <= Capacity
      /\ Len(lru) < Capacity => Len(lru) = Len(used)
  BY CacheFacts, RagAssumption DEF CacheInv
<1>2. \A j \in 1 .. Len(lru) : lru[j] = used[j]
  BY DEF CacheInv
<1>3. DOMAIN lru = 1 .. Len(lru) /\ DOMAIN used = 1 .. Len(used)
  BY CacheFacts
<1>4. \A j \in 1 .. Len(lru) : used[j] # k
  BY <1>2, <1>3 DEF CacheInv, Range
<1>5. used \in Seq(Keys) /\ IsInjective(used)
  BY DEF CacheInv
<1>6. CASE k \in Range(used)
  <2>1. PICK i \in 1 .. Len(used) : used[i] = k
    BY <1>3, <1>6 DEF Range
  <2>2. i > Len(lru)
    BY <1>1, <1>4, <2>1
  <2>3. Len(lru) = Capacity
    BY <1>1, <2>2
  <2>4. used' = ToFront(used, used[i])
    BY <2>1
  <2>5. /\ used' \in Seq(Keys) /\ Len(used') = Len(used) /\ IsInjective(used')
        /\ \A j \in 1 .. Len(used) :
              used'[j] = IF j = 1 THEN used[i] ELSE IF j <= i THEN used[j - 1] ELSE used[j]
    BY <1>5, <2>4, Moved
  <2>6. ASSUME NEW j \in 1 .. Len(used'), j <= Len(lru) + 1
        PROVE  used'[j] = IF j = 1 THEN k ELSE lru[j - 1]
    <3>1. j \in 1 .. Len(used) /\ j <= i /\ (j # 1 => j - 1 \in 1 .. Len(lru))
      BY <1>1, <2>2, <2>5, <2>6
    <3> QED
      BY <1>2, <2>1, <2>5, <3>1
  <2> QED
    BY <1>1, <2>3, <2>5, <2>6
<1>7. CASE k \notin Range(used)
  <2>1. used' = <<k>> \o used
    BY <1>7 DEF ToFront
  <2>2. /\ used' \in Seq(Keys) /\ Len(used') = Len(used) + 1 /\ IsInjective(used')
        /\ \A j \in 1 .. Len(used) + 1 : used'[j] = IF j = 1 THEN k ELSE used[j - 1]
    <3>1. k \in Keys
      OBVIOUS
    <3>2. /\ used' \in Seq(Keys) /\ Len(used') = Len(used) + 1
          /\ \A j \in 1 .. Len(used) + 1 : used'[j] = IF j = 1 THEN k ELSE used[j - 1]
      BY <1>5, <2>1, <3>1, Pushed
    <3>3. IsInjective(used')
      BY <1>5, <1>7, <2>1, <3>1, Pushed
    <3> QED
      BY <3>2, <3>3
  <2>3. ASSUME NEW j \in 1 .. Len(used'), j <= Len(lru) + 1
        PROVE  used'[j] = IF j = 1 THEN k ELSE lru[j - 1]
    <3>1. j \in 1 .. Len(used) + 1 /\ (j # 1 => j - 1 \in 1 .. Len(lru))
      BY <1>1, <2>2, <2>3
    <3> QED
      BY <1>2, <2>2, <3>1
  <2> QED
    BY <1>1, <2>2, <2>3
<1> QED
  BY <1>6, <1>7

(* Set for a key that is not cached: PushFront, and eviction of the last   *)
(* item when the list is full.                                             *)
LEMMA SetOfNew ==
    ASSUME CacheInv, NEW k \in Keys \ cache, Set(k) PROVE CacheInv'
<1>1. /\ Len(lru) \in Nat /\ Capacity \in Nat \ {0} /\ Len(lru) <= Capacity
      /\ lru \in Seq(Keys)
  BY CacheFacts, RagAssumption DEF CacheInv
<1>2. /\ used' \in Seq(Keys) /\ IsInjective(used') /\ Len(used') \in Nat
      /\ Len(lru) < Capacity => Len(used') = Len(lru) + 1
      /\ Len(lru) = Capacity => Len(used') >= Len(lru)
      /\ \A j \in 1 .. Len(used') : j <= Len(lru) + 1 =>
            used'[j] = IF j = 1 THEN k ELSE lru[j - 1]
  BY UsedAfter DEF Set
<1>3. DOMAIN lru = 1 .. Len(lru) /\ IsInjective(lru) /\ cache = Range(lru)
  BY CacheFacts DEF CacheInv
<1>4. CASE Len(lru) + 1 > Capacity
  <2> DEFINE n == Len(lru)
             front == Front(lru)
  <2>1. n = Capacity /\ n - 1 \in Nat
    BY <1>1, <1>4
  <2>2. lru' = <<k>> \o front /\ cache' = (cache \cup {k}) \ {lru[n]}
    BY <1>4 DEF Set, Last
  <2>3. \A i \in 1 .. n - 1 : lru[i] \in Keys
    BY <1>1, ElementOfSeq
  <2>4. /\ front \in Seq(Keys) /\ Len(front) = n - 1
        /\ \A i \in 1 .. n - 1 : front[i] = lru[i]
    <3>1. /\ front \in Seq(Keys)
          /\ Len(front) = IF 1 <= n - 1 THEN (n - 1) - 1 + 1 ELSE 0
          /\ \A i \in 1 .. (n - 1) - 1 + 1 : front[i] = lru[1 + i - 1]
      BY <2>1, <2>3, SubSeqProperties DEF Front
    <3> QED
      BY <2>1, <3>1
  <2> HIDE DEF n, front
  <2>5. /\ lru' \in Seq(Keys) /\ Len(lru') = (n - 1) + 1
        /\ \A j \in 1 .. (n - 1) + 1 : lru'[j] = IF j = 1 THEN k ELSE front[j - 1]
    BY <2>2, <2>4, Pushed
  <2>6. Len(lru') = n /\ \A j \in 1 .. n : lru'[j] = IF j = 1 THEN k ELSE lru[j - 1]
    <3>1. \A j \in 1 .. n : j \in 1 .. (n - 1) + 1 /\ (j # 1 => j - 1 \in 1 .. n - 1)
      BY <1>1, <2>1
    <3>2. (n - 1) + 1 = n
      BY <1>1, <2>1
    <3> QED
      BY <2>4, <2>5, <3>1, <3>2
  <2>7. n = Len(lru)
    BY DEF n
  <2>8. ASSUME NEW j \in 1 .. n PROVE lru'[j] = used'[j]
    <3>1. j \in 1 .. Len(used') /\ j <= Len(lru) + 1
      BY <1>1, <1>2, <2>1, <2>7
    <3> QED
      BY <1>2, <2>6, <3>1
  <2>9. cache' = Range(lru')
    <3>1. DOMAIN lru' = 1 .. n
      BY <2>5, <2>6
    <3>2. Range(lru') = {k} \cup {lru[i] : i \in 1 .. n - 1}
      <4>1. \A j \in 1 .. n : lru'[j] \in {k} \cup {lru[i] : i \in 1 .. n - 1}
        BY <2>1, <2>6
      <4>2. \A i \in 1 .. n - 1 : i + 1 \in 1 .. n /\ lru'[i + 1] = lru[i]
        BY <2>1, <2>6
      <4>3. 1 \in 1 .. n /\ lru'[1] = k
        BY <1>1, <2>1, <2>6
      <4> QED
        BY <3>1, <4>1, <4>2, <4>3 DEF Range
    <3>3. \A i \in 1 .. n - 1 : lru[i] # lru[n] /\ lru[i] \in cache
      BY <1>1, <1>3, <2>1, <2>7 DEF IsInjective, Range
    <3>4. lru[n] # k
      BY <1>1, <1>3, <2>1, <2>7 DEF Range
    <3>5. \A x \in cache : x = lru[n] \/ \E i \in 1 .. n - 1 : x = lru[i]
      BY <1>1, <1>3, <2>1, <2>7 DEF Range
    <3> QED
      BY <2>2, <3>2, <3>3, <3>4, <3>5
  <2> QED
    BY <1>2, <2>1, <2>5, <2>6, <2>7, <2>8, <2>9 DEF CacheInv
<1>5. CASE ~(Len(lru) + 1 > Capacity)
  <2>1. lru' = <<k>> \o lru /\ cache' = cache \cup {k}
    BY <1>5 DEF Set
  <2>2. /\ lru' \in Seq(Keys) /\ Len(lru') = Len(lru) + 1
        /\ \A j \in 1 .. Len(lru) + 1 : lru'[j] = IF j = 1 THEN k ELSE lru[j - 1]
    BY <1>1, <2>1, Pushed
  <2>3. Len(used') = Len(lru') /\ Len(lru') <= Capacity
    BY <1>1, <1>2, <1>5, <2>2
  <2>4. ASSUME NEW j \in 1 .. Len(lru') PROVE lru'[j] = used'[j]
    <3>1. j \in 1 .. Len(used') /\ j <= Len(lru) + 1
      BY <1>1, <2>2, <2>3
    <3> QED
      BY <1>2, <2>2, <3>1
  <2>5. cache' = Range(lru')
    <3>1. DOMAIN lru' = 1 .. Len(lru) + 1
      BY <2>2
    <3>2. \A j \in 1 .. Len(lru) + 1 : lru'[j] \in {k} \cup Range(lru)
      BY <1>1, <1>3, <2>2 DEF Range
    <3>3. \A i \in 1 .. Len(lru) : i + 1 \in 1 .. Len(lru) + 1 /\ lru'[i + 1] = lru[i]
      BY <1>1, <2>2
    <3>4. 1 \in 1 .. Len(lru) + 1 /\ lru'[1] = k
      BY <1>1, <2>2
    <3>5. Range(lru') \subseteq {k} \cup Range(lru)
      BY <3>1, <3>2 DEF Range
    <3>6. k \in Range(lru')
      BY <3>1, <3>4 DEF Range
    <3>7. \A i \in 1 .. Len(lru) : lru[i] \in Range(lru')
      BY <3>1, <3>3 DEF Range
    <3>8. Range(lru) \subseteq Range(lru')
      BY <1>3, <3>7 DEF Range
    <3> QED
      BY <1>3, <2>1, <3>5, <3>6, <3>8
  <2> QED
    BY <1>2, <2>2, <2>3, <2>4, <2>5 DEF CacheInv
<1> QED
  BY <1>4, <1>5

(* Each step keeps the cache a least recently used cache.                  *)
LEMMA CacheStep ==
    ASSUME RagInv, [Next]_vars PROVE CacheInv'
<1>1. CacheInv
  BY DEF RagInv
<1>2. ASSUME NEW c \in Calls, Lookup(c), key[c] \in cache PROVE CacheInv'
  BY <1>1, <1>2, UseOfCached DEF Lookup, Hit
<1>3. ASSUME NEW c \in Calls, SetEmbedding(c) PROVE CacheInv'
  <2>1. key[c] \in Keys /\ Set(key[c])
    BY <1>3 DEF SetEmbedding, RagInv, FlightInv
  <2>2. CASE key[c] \in cache
    BY <1>1, <2>1, <2>2, UseOfCached DEF Set
  <2> QED
    BY <1>1, <2>1, <2>2, SetOfNew
<1>4. CASE UNCHANGED cacheVars
  BY <1>1, <1>4 DEF cacheVars, CacheInv
<1> QED
  BY <1>2, <1>3, <1>4
  DEF Next, Begin, ContextDone, Proceed, Lookup, RateLimited, Fly, QueryFails, Query,
     BatchGetFails, BatchGet, FlightReturns, FlightLands, FlightFails, vars

(* What CacheInv says is what KeepsRecentlyUsed says.                      *)
LEMMA CacheIsLRU == CacheInv => KeepsRecentlyUsed
<1> SUFFICES ASSUME CacheInv PROVE KeepsRecentlyUsed
  OBVIOUS
<1> DEFINE n == Min({Capacity, Len(used)})
<1>1. /\ Len(lru) \in Nat /\ Len(used) \in Nat /\ Capacity \in Nat
      /\ Len(lru) <= Capacity /\ Len(lru) <= Len(used)
      /\ Len(lru) < Capacity => Len(lru) = Len(used)
  BY CacheFacts, RagAssumption DEF CacheInv
<1>2. n = Len(lru)
  <2>1. n = Capacity \/ n = Len(used)
    <3>1. \E x \in {Capacity, Len(used)} : \A y \in {Capacity, Len(used)} : x <= y
      BY <1>1
    <3> QED
      BY <3>1 DEF Min
  <2>2. n <= Capacity /\ n <= Len(used)
    <3>1. \E x \in {Capacity, Len(used)} : \A y \in {Capacity, Len(used)} : x <= y
      BY <1>1
    <3> QED
      BY <3>1 DEF Min
  <2> HIDE DEF n
  <2> QED
    BY <1>1, <2>1, <2>2
<1>3. lru \in Seq(Keys) /\ \A i \in 1 .. Len(lru) : lru[i] = used[i]
  BY DEF CacheInv
<1>4. \A i \in 1 .. Len(lru) : used[i] \in Keys
  BY <1>3, ElementOfSeq
<1> DEFINE prefix == SubSeq(used, 1, Len(lru))
<1>5. /\ prefix \in Seq(Keys) /\ Len(prefix) = Len(lru)
      /\ \A i \in 1 .. Len(lru) : prefix[i] = used[i]
  <2>1. /\ prefix \in Seq(Keys)
        /\ Len(prefix) = IF 1 <= Len(lru) THEN Len(lru) - 1 + 1 ELSE 0
        /\ \A i \in 1 .. Len(lru) - 1 + 1 : prefix[i] = used[1 + i - 1]
    BY <1>1, <1>4, SubSeqProperties
  <2> QED
    BY <1>1, <2>1
<1> HIDE DEF prefix
<1>6. lru = prefix
  BY <1>3, <1>5, SeqEqual
<1> QED
  BY <1>2, <1>6, CacheFacts DEF KeepsRecentlyUsed, CacheInv, prefix

-----------------------------------------------------------------------------
(* Rendering.                                                              *)

(* A set of positions in a sequence has a first one.                       *)
LEMMA FirstPosition ==
    ASSUME NEW B, B \subseteq Nat, B # {}
    PROVE  \E x \in B : \A y \in B : x <= y
<1>1. \E x \in B : \A y \in B : ~(<<y, x>> \in OpToRel(<, Nat))
  BY NatLessThanWellFounded, WFMin
<1>2. PICK x \in B : \A y \in B : ~(<<y, x>> \in OpToRel(<, Nat))
  BY <1>1
<1>3. ASSUME NEW y \in B PROVE ~(y < x)
  BY <1>2, <1>3 DEF OpToRel
<1> QED
  BY <1>3

(* currentTokens: the header, and event by event what it takes.            *)
LEMMA TokensCounted ==
    ASSUME NEW s \in Seq(EventIds)
    PROVE  /\ \A i \in 1 .. Len(s) + 1 : TokensBefore(s, i) \in Nat
           /\ TokensBefore(s, 1) = Header
           /\ \A i \in 1 .. Len(s) :
                 TokensBefore(s, i + 1) = TokensBefore(s, i) + EventTokens(s[i]) + Separator
<1> DEFINE N == Len(s) + 1
           Next1(f, j) == f[j - 1] + EventTokens(s[j - 1]) + Separator
           Counts(f, m) == f[1] = Header /\ \A j \in 2 .. m : f[j] = Next1(f, j)
           Bad == {m \in 1 .. N : ~ \E f \in [1 .. m -> Nat] : Counts(f, m)}
           tokens == CHOOSE f : f = [j \in 1 .. N |-> IF j = 1 THEN Header ELSE Next1(f, j)]
<1>1. /\ Len(s) \in Nat /\ N \in Nat \ {0} /\ Header \in Nat /\ Separator \in Nat
      /\ \A j \in 1 .. Len(s) : EventTokens(s[j]) \in Nat
  BY RagAssumption, ElementOfSeq DEF EventTokens
<1>2. Bad = {}
  <2>1. SUFFICES ASSUME Bad # {} PROVE FALSE
    OBVIOUS
  <2>2. Bad \subseteq Nat
    BY <1>1
  <2>3. PICK m \in Bad : \A y \in Bad : m <= y
    BY <2>1, <2>2, FirstPosition
  <2>4. m \in 1 .. N /\ ~ \E f \in [1 .. m -> Nat] : Counts(f, m)
    BY <2>3
  <2>5. m # 1
    <3>1. [j \in 1 .. 1 |-> Header] \in [1 .. 1 -> Nat] /\ Counts([j \in 1 .. 1 |-> Header], 1)
      BY <1>1
    <3> QED
      BY <2>4, <3>1
  <2>6. m - 1 \in 1 .. N /\ m - 1 \notin Bad
    <3> HIDE DEF Bad
    <3>1. m - 1 \in 1 .. N /\ ~(m <= m - 1)
      BY <1>1, <2>4, <2>5
    <3> QED
      BY <2>3, <3>1
  <2>7. PICK f \in [1 .. m - 1 -> Nat] : Counts(f, m - 1)
    BY <2>6
  <2> DEFINE g == [j \in 1 .. m |-> IF j = m THEN Next1(f, m) ELSE f[j]]
  <2>8. Next1(f, m) \in Nat
    BY <1>1, <2>4, <2>5, <2>7
  <2>9. g \in [1 .. m -> Nat]
    BY <1>1, <2>4, <2>7, <2>8
  <2>10. Counts(g, m)
    BY <1>1, <2>4, <2>5, <2>7
  <2> QED
    BY <2>4, <2>9, <2>10
<1>3. PICK f \in [1 .. N -> Nat] : Counts(f, N)
  <2>1. N \in 1 .. N
    BY <1>1
  <2> HIDE DEF Counts, N
  <2> QED
    BY <1>2, <2>1
<1>4. f = [j \in 1 .. N |-> IF j = 1 THEN Header ELSE Next1(f, j)]
  BY <1>1, <1>3
<1>5. tokens = [j \in 1 .. N |-> IF j = 1 THEN Header ELSE Next1(tokens, j)]
  BY <1>4
<1>6. \A i : TokensBefore(s, i) = tokens[i]
  BY DEF TokensBefore
<1> HIDE DEF tokens
<1>7. tokens[1] = Header /\ \A i \in 1 .. Len(s) : tokens[i + 1] = Next1(tokens, i + 1)
  BY <1>1, <1>5
<1>8. \A i \in 1 .. Len(s) : tokens[i + 1] = tokens[i] + EventTokens(s[i]) + Separator
  BY <1>1, <1>7
<1>9. \A i \in 1 .. N : tokens[i] \in Nat
  <2> DEFINE Odd == {i \in 1 .. N : tokens[i] \notin Nat}
  <2>1. SUFFICES ASSUME Odd # {} PROVE FALSE
    OBVIOUS
  <2>2. Odd \subseteq Nat
    BY <1>1
  <2>3. PICK i \in Odd : \A y \in Odd : i <= y
    BY <2>1, <2>2, FirstPosition
  <2>4. i \in 1 .. N /\ tokens[i] \notin Nat /\ i # 1
    BY <1>1, <1>7, <2>3
  <2>5. i - 1 \in 1 .. Len(s) /\ ~(i <= i - 1) /\ (i - 1) + 1 = i /\ i - 1 \in 1 .. N
    BY <1>1, <2>4
  <2>6. tokens[i - 1] \in Nat
    BY <2>3, <2>5
  <2>7. tokens[i] = tokens[i - 1] + EventTokens(s[i - 1]) + Separator
    BY <1>8, <2>5
  <2>8. tokens[i] \in Nat
    BY <1>1, <2>5, <2>6, <2>7
  <2> QED
    BY <2>4, <2>8
<1> QED
  BY <1>6, <1>7, <1>8, <1>9

(* The count does not depend on the events that follow.                    *)
LEMMA SameTokens ==
    ASSUME NEW s \in Seq(EventIds), NEW r \in Seq(EventIds), Len(r) <= Len(s),
           \A i \in 1 .. Len(r) : r[i] = s[i]
    PROVE  \A i \in 1 .. Len(r) + 1 : TokensBefore(r, i) = TokensBefore(s, i)
<1> DEFINE Bad == {i \in 1 .. Len(r) + 1 : TokensBefore(r, i) # TokensBefore(s, i)}
<1>1. Len(s) \in Nat /\ Len(r) \in Nat
  OBVIOUS
<1> SUFFICES ASSUME Bad # {} PROVE FALSE
  OBVIOUS
<1>2. Bad \subseteq Nat
  BY <1>1
<1>3. PICK i \in Bad : \A y \in Bad : i <= y
  BY <1>2, FirstPosition
<1>4. i \in 1 .. Len(r) + 1 /\ TokensBefore(r, i) # TokensBefore(s, i)
  BY <1>3
<1>5. i # 1
  BY <1>4, TokensCounted
<1>6. /\ i - 1 \in 1 .. Len(r) /\ i - 1 \in 1 .. Len(s) /\ i - 1 \in 1 .. Len(r) + 1
      /\ (i - 1) + 1 = i /\ ~(i <= i - 1)
  BY <1>1, <1>4, <1>5
<1>7. TokensBefore(r, i - 1) = TokensBefore(s, i - 1)
  BY <1>3, <1>6
<1>8. TokensBefore(r, i) = TokensBefore(r, i - 1) + EventTokens(r[i - 1]) + Separator
  BY <1>6, TokensCounted
<1>9. TokensBefore(s, i) = TokensBefore(s, i - 1) + EventTokens(s[i - 1]) + Separator
  BY <1>6, TokensCounted
<1> QED
  BY <1>4, <1>6, <1>7, <1>8, <1>9

(* What is rendered is a beginning of the sequence whose events all fit.   *)
LEMMA RenderedPrefix ==
    ASSUME NEW s \in Seq(EventIds)
    PROVE  \E n \in 0 .. Len(s) :
             /\ RenderEvents(s) \in Seq(EventIds) /\ Len(RenderEvents(s)) = n
             /\ \A i \in 1 .. n :
                   /\ RenderEvents(s)[i] = s[i]
                   /\ TokensBefore(s, i) + EventTokens(s[i]) <= MaxTokens
<1> DEFINE fits(i) == TokensBefore(s, i) + EventTokens(s[i]) <= MaxTokens
           ends(m) == (\A i \in 1 .. m : fits(i)) /\ (m < Len(s) => ~ fits(m + 1))
           n == CHOOSE m \in 0 .. Len(s) : ends(m)
           Bad == {i \in 1 .. Len(s) : ~ fits(i)}
<1>1. Len(s) \in Nat
  OBVIOUS
<1>2. \E m \in 0 .. Len(s) : ends(m)
  <2> HIDE DEF fits
  <2>1. CASE Bad = {}
    <3>1. ends(Len(s)) /\ Len(s) \in 0 .. Len(s)
      BY <1>1, <2>1
    <3> QED
      BY <3>1
  <2>2. CASE Bad # {}
    <3>1. Bad \subseteq Nat
      BY <1>1
    <3>2. PICK x \in Bad : \A y \in Bad : x <= y
      BY <2>2, <3>1, FirstPosition
    <3>3. x \in 1 .. Len(s) /\ ~ fits(x) /\ x - 1 \in 0 .. Len(s) /\ (x - 1) + 1 = x
      BY <1>1, <3>2
    <3>4. \A i \in 1 .. x - 1 : fits(i)
      BY <1>1, <3>2, <3>3
    <3>5. ends(x - 1)
      BY <3>3, <3>4
    <3> QED
      BY <3>3, <3>5
  <2> QED
    BY <2>1, <2>2
<1>3. n \in 0 .. Len(s) /\ ends(n)
  <2> HIDE DEF ends
  <2> QED
    BY <1>2
<1>4. RenderEvents(s) = SubSeq(s, 1, n)
  BY DEF RenderEvents
<1>9. \A i \in 1 .. n : TokensBefore(s, i) + EventTokens(s[i]) <= MaxTokens
  BY <1>3
<1> HIDE DEF n
<1>5. \A i \in 1 .. n : s[i] \in EventIds
  BY <1>1, <1>3, ElementOfSeq
<1> DEFINE r == SubSeq(s, 1, n)
<1>6. /\ r \in Seq(EventIds)
      /\ Len(r) = IF 1 <= n THEN n - 1 + 1 ELSE 0
      /\ \A i \in 1 .. n - 1 + 1 : r[i] = s[1 + i - 1]
  BY <1>1, <1>3, <1>5, SubSeqProperties
<1> HIDE DEF r
<1>7. Len(r) = n /\ \A i \in 1 .. n : r[i] = s[i]
  BY <1>1, <1>3, <1>6
<1>8. RenderEvents(s) = r
  BY <1>4 DEF r
<1> HIDE DEF ends, fits
<1> QED
  BY <1>3, <1>6, <1>7, <1>8, <1>9

(* BatchGetEvents and the sort lose no event.                              *)
LEMMA SortedIsAll ==
    ASSUME NEW S \in SUBSET EventIds, IsFiniteSet(S), NEW c, NEW s \in SortedByScore(c, S)
    PROVE  /\ s \in Seq(EventIds) /\ Range(s) = S
           /\ \A i, j \in 1 .. Len(s) :
                 i < j => Score[key[c]][s[i]] >= Score[key[c]][s[j]]
<1> DEFINE n == Cardinality(S)
<1>1. n \in Nat
  BY FS_CardinalityType
<1>2. s \in [1 .. n -> S] /\ \A i, j \in 1 .. n : i # j => s[i] # s[j]
  BY DEF SortedByScore, BatchGetEvents, SetToSeqs
<1>3. \A i, j \in DOMAIN s : i < j => Score[key[c]][s[i]] >= Score[key[c]][s[j]]
  BY DEF SortedByScore
<1> HIDE DEF n
<1>4. s \in Seq(EventIds) /\ Len(s) = n /\ DOMAIN s = 1 .. n
  <2>1. s \in [1 .. n -> EventIds]
    BY <1>2
  <2> QED
    BY <1>1, <2>1
<1>5. Range(s) = S
  <2>1. IsFiniteSet(1 .. n) /\ Cardinality(1 .. n) = n
    <3>1. /\ IsFiniteSet(1 .. n)
          /\ Cardinality(1 .. n) = IF 1 > n THEN 0 ELSE n - 1 + 1
      BY <1>1, FS_Interval
    <3> QED
      BY <1>1, <3>1
  <2>2. s \in Injection(1 .. n, S)
    BY <1>2 DEF Injection, IsInjective
  <2>3. s \in Surjection(1 .. n, S)
    BY <2>1, <2>2, FS_Injection DEF n
  <2>4. \A t \in S : \E i \in 1 .. n : s[i] = t
    BY <2>3 DEF Surjection
  <2> QED
    BY <1>2, <1>4, <2>4 DEF Range
<1> QED
  BY <1>3, <1>4, <1>5

(* What is rendered are events that were found, the best of them, and no   *)
(* more than the limit allows.                                             *)
LEMMA Rendered ==
    ASSUME NEW S \in SUBSET EventIds, IsFiniteSet(S), NEW c, NEW s \in SortedByScore(c, S),
           NEW r, r = RenderEvents(s)
    PROVE  /\ r \in Seq(EventIds) /\ Range(r) \subseteq S
           /\ \A e \in Range(r) : \A f \in S \ Range(r) :
                 Score[key[c]][e] >= Score[key[c]][f]
           /\ TokensBefore(r, Len(r) + 1) <= MaxTokens + Separator
<1>1. /\ s \in Seq(EventIds) /\ Range(s) = S
      /\ \A i, j \in 1 .. Len(s) :
            i < j => Score[key[c]][s[i]] >= Score[key[c]][s[j]]
  BY SortedIsAll
<1>2. PICK n \in 0 .. Len(s) :
             /\ r \in Seq(EventIds) /\ Len(r) = n
             /\ \A i \in 1 .. n :
                   r[i] = s[i] /\ TokensBefore(s, i) + EventTokens(s[i]) <= MaxTokens
  BY <1>1, RenderedPrefix
<1>3. Len(s) \in Nat /\ DOMAIN s = 1 .. Len(s) /\ DOMAIN r = 1 .. n
  BY <1>1, <1>2
<1>4. \A e \in Range(r) : \E i \in 1 .. n : e = s[i]
  BY <1>2, <1>3 DEF Range
<1>5. \A i \in 1 .. n : s[i] \in Range(r)
  BY <1>2, <1>3 DEF Range
<1>6. \A f \in S : \E j \in 1 .. Len(s) : f = s[j]
  BY <1>1, <1>3 DEF Range
<1>7. Range(r) \subseteq S
  <2>1. \A i \in 1 .. n : s[i] \in Range(s)
    BY <1>2, <1>3 DEF Range
  <2> QED
    BY <1>1, <1>4, <2>1
<1>8. ASSUME NEW e \in Range(r), NEW f \in S \ Range(r)
      PROVE  Score[key[c]][e] >= Score[key[c]][f]
  <2>1. PICK i \in 1 .. n : e = s[i]
    BY <1>4
  <2>2. PICK j \in 1 .. Len(s) : f = s[j]
    BY <1>6
  <2>3. j \notin 1 .. n
    BY <1>5, <2>2
  <2>4. i \in 1 .. Len(s) /\ i < j
    BY <1>2, <1>3, <2>3
  <2> QED
    BY <1>1, <2>1, <2>2, <2>4
<1>9. TokensBefore(r, Len(r) + 1) <= MaxTokens + Separator
  <2>1. /\ MaxTokens \in Nat /\ Header \in Nat /\ Separator \in Nat /\ Header <= MaxTokens
        /\ Len(s) \in Nat /\ n \in Nat /\ n <= Len(s)
    BY <1>3, RagAssumption
  <2>2. CASE n = 0
    <3>1. TokensBefore(r, 1) = Header
      BY <1>2, TokensCounted
    <3>2. Len(r) + 1 = 1
      BY <1>2, <2>2
    <3> QED
      BY <2>1, <3>1, <3>2
  <2>3. CASE n # 0
    <3>1. n \in 1 .. n /\ n \in 1 .. Len(s) /\ n + 1 \in 1 .. n + 1 /\ n \in 1 .. Len(s) + 1
      BY <2>1, <2>3
    <3>2. TokensBefore(r, n + 1) = TokensBefore(s, n + 1)
      BY <1>1, <1>2, <2>1, <3>1, SameTokens
    <3>3. TokensBefore(s, n + 1) = TokensBefore(s, n) + EventTokens(s[n]) + Separator
      BY <1>1, <3>1, TokensCounted
    <3>4. TokensBefore(s, n) + EventTokens(s[n]) <= MaxTokens
      BY <1>2, <3>1
    <3>5. TokensBefore(s, n) \in Nat /\ EventTokens(s[n]) \in Nat
      BY <1>1, <3>1, TokensCounted, ElementOfSeq, RagAssumption DEF EventTokens
    <3> QED
      BY <1>2, <2>1, <3>2, <3>3, <3>4, <3>5
  <2> QED
    BY <2>2, <2>3
<1> QED
  BY <1>2, <1>7, <1>8, <1>9

-----------------------------------------------------------------------------
(* The steps of the enhancement.                                           *)

LEMMA WrittenData ==
    /\ Untouched \in Requests /\ Data("false", <<>>) \in Requests
    /\ \A r \in Seq(EventIds) : Data("true", r) \in Requests
<1>1. <<>> \in Seq(EventIds)
  BY EmptySeq
<1> QED
  BY <1>1 DEF Untouched, Data, Requests

(* What a return leaves of the types.                                      *)
LEMMA ReturnTypes ==
    ASSUME RagTypes, NEW S \in SUBSET Calls, NEW d \in Requests, Return(S, d)
    PROVE  /\ pc' \in [Calls -> Positions]
           /\ request' \in [Calls -> Requests]
           /\ ctxDone' \subseteq Calls
  BY DEF RagTypes, Return, Positions

LEMMA TypesStep ==
    ASSUME RagInv, [Next]_vars PROVE RagTypes'
<1>1. RagTypes /\ FlightInv /\ ContextInv
  BY DEF RagInv
<1>2. /\ pc \in [Calls -> Positions] /\ key \in [Calls -> Keys \cup {None}]
      /\ flight \in [Keys -> Calls \cup {None}] /\ ctxDone \subseteq Calls
      /\ found \in [Calls -> SUBSET EventIds] /\ request \in [Calls -> Requests]
  BY <1>1 DEF RagTypes, Positions
<1>3. ASSUME NEW c \in Calls, NEW k \in QueryTexts, Begin(c, k) PROVE RagTypes'
  <2>1. pc' \in [Calls -> Positions]
    BY <1>2, <1>3 DEF Begin, Goto, Positions
  <2>2. key' \in [Calls -> Keys \cup {None}]
    BY <1>2, <1>3 DEF Begin, QueryTexts
  <2>3. found' \in [Calls -> SUBSET EventIds]
    BY <1>2, <1>3 DEF Begin
  <2>4. request' \in [Calls -> Requests]
    BY <1>2, <1>3, WrittenData DEF Begin
  <2> QED
    BY <1>2, <1>3, <2>1, <2>2, <2>3, <2>4 DEF Begin, RagTypes, Positions
<1>4. ASSUME NEW c \in Calls, ContextDone(c) PROVE RagTypes'
  BY <1>2, <1>4 DEF ContextDone, RagTypes, Positions
<1>5. ASSUME NEW c \in Calls, NEW where \in Positions, Goto(c, where)
      PROVE  pc' \in [Calls -> Positions]
  BY <1>2, <1>5 DEF Goto
<1>6. ASSUME NEW c \in Calls, Lookup(c) \/ SetEmbedding(c) PROVE RagTypes'
  <2>1. Goto(c, "query") \/ Goto(c, "limit")
    BY <1>6 DEF Lookup, SetEmbedding
  <2>2. pc' \in [Calls -> Positions]
    BY <1>5, <2>1 DEF Positions
  <2> QED
    BY <1>2, <1>6, <2>2 DEF Lookup, SetEmbedding, RagTypes, Positions
<1>7. ASSUME NEW c \in Calls, Fly(c) PROVE RagTypes'
  <2>1. pc' \in [Calls -> Positions]
    BY <1>5, <1>7 DEF Fly, Positions
  <2>2. flight' \in [Keys -> Calls \cup {None}]
    BY <1>2, <1>7 DEF Fly
  <2> QED
    BY <1>2, <1>7, <2>1, <2>2 DEF Fly, RagTypes, Positions
<1>8. ASSUME NEW c \in Calls, RateLimited(c) \/ QueryFails(c) \/ BatchGetFails(c)
      PROVE  RagTypes'
  <2>1. Return({c}, Untouched) \/ Return({c}, Data("false", <<>>))
    BY <1>8 DEF RateLimited, QueryFails, BatchGetFails
  <2>2. /\ pc' \in [Calls -> Positions] /\ request' \in [Calls -> Requests]
        /\ ctxDone' \subseteq Calls
    BY <1>1, <2>1, WrittenData, ReturnTypes
  <2> QED
    BY <1>2, <1>8, <2>2 DEF RateLimited, QueryFails, BatchGetFails, RagTypes, Positions
<1>9. ASSUME NEW c \in Calls, Query(c) PROVE RagTypes'
  <2>1. PICK R \in SimilarEvents(c) :
           LET ids == Relevant(c, Cleaned(c, R)) IN
           /\ found' = [found EXCEPT ![c] = ids]
           /\ IF ids = {}
              THEN Return({c}, Data("false", <<>>))
              ELSE Goto(c, "fetch") /\ UNCHANGED <<request, ctxDone>>
    BY <1>9 DEF Query
  <2>2. Relevant(c, Cleaned(c, R)) \subseteq EventIds
    BY DEF Relevant, Cleaned, SimilarEvents
  <2>3. found' \in [Calls -> SUBSET EventIds]
    BY <1>2, <2>1, <2>2
  <2>4. CASE Return({c}, Data("false", <<>>))
    <3>1. /\ pc' \in [Calls -> Positions] /\ request' \in [Calls -> Requests]
          /\ ctxDone' \subseteq Calls
      BY <1>1, <2>4, WrittenData, ReturnTypes
    <3> QED
      BY <1>2, <1>9, <2>3, <3>1 DEF Query, RagTypes, Positions
  <2>5. CASE Goto(c, "fetch") /\ UNCHANGED <<request, ctxDone>>
    <3>1. pc' \in [Calls -> Positions]
      BY <1>5, <2>5 DEF Positions
    <3> QED
      BY <1>2, <1>9, <2>3, <2>5, <3>1 DEF Query, RagTypes, Positions
  <2> QED
    BY <2>1, <2>4, <2>5
<1>10. ASSUME NEW c \in Calls, BatchGet(c) PROVE RagTypes'
  <2>1. PICK s \in SortedByScore(c, found[c]) : Return({c}, Data("true", RenderEvents(s)))
    BY <1>10 DEF BatchGet
  <2>2. found[c] \in SUBSET EventIds /\ IsFiniteSet(found[c])
    BY <1>1, <1>2 DEF ContextInv
  <2>3. RenderEvents(s) \in Seq(EventIds)
    BY <2>2, Rendered
  <2>4. Data("true", RenderEvents(s)) \in Requests
    BY <2>3, WrittenData
  <2>5. /\ pc' \in [Calls -> Positions] /\ request' \in [Calls -> Requests]
        /\ ctxDone' \subseteq Calls
    BY <1>1, <2>1, <2>4, ReturnTypes
  <2> QED
    BY <1>2, <1>10, <2>5 DEF BatchGet, RagTypes, Positions
<1>11. ASSUME NEW k \in Keys, FlightLands(k) PROVE RagTypes'
  <2>1. pc' \in [Calls -> Positions]
    BY <1>2, <1>11 DEF FlightLands, Positions
  <2>2. flight' \in [Keys -> Calls \cup {None}]
    BY <1>2, <1>11 DEF FlightLands
  <2> QED
    BY <1>2, <1>11, <2>1, <2>2 DEF FlightLands, RagTypes, Positions
<1>12. ASSUME NEW k \in Keys, FlightFails(k) PROVE RagTypes'
  <2>1. Aboard(k) \in SUBSET Calls /\ Return(Aboard(k), Untouched)
    BY <1>12 DEF FlightFails, Aboard
  <2>2. /\ pc' \in [Calls -> Positions] /\ request' \in [Calls -> Requests]
        /\ ctxDone' \subseteq Calls
    BY <1>1, <2>1, WrittenData, ReturnTypes
  <2>3. flight' \in [Keys -> Calls \cup {None}]
    BY <1>2, <1>12 DEF FlightFails
  <2> QED
    BY <1>2, <1>12, <2>2, <2>3 DEF FlightFails, RagTypes, Positions
<1>13. CASE UNCHANGED vars
  BY <1>1, <1>13 DEF vars, RagTypes
<1> QED
  BY <1>3, <1>4, <1>6, <1>7, <1>8, <1>9, <1>10, <1>11, <1>12, <1>13
  DEF Next, Proceed, FlightReturns

(* A return of calls that are not aboard takes nobody off a flight.        *)
LEMMA FlightKept ==
    ASSUME RagInv, [Next]_vars PROVE FlightInv'
<1>1. /\ pc \in [Calls -> Positions] /\ key \in [Calls -> Keys \cup {None}]
      /\ flight \in [Keys -> Calls \cup {None}]
  BY DEF RagInv, RagTypes
<1>2. /\ \A c \in Calls : pc[c] # "idle" => key[c] \in Keys
      /\ \A k \in Keys : flight[k] # None =>
            flight[k] \in Calls /\ pc[flight[k]] = "flight" /\ key[flight[k]] = k
  BY DEF RagInv, FlightInv, Aboard
<1>3. None \notin Keys /\ None \notin Calls
  BY RagAssumption
<1> DEFINE Keyed == \A c \in Calls : pc'[c] # "idle" => key'[c] \in Keys
           Run == \A k \in Keys : flight'[k] # None =>
                     flight'[k] \in Calls /\ pc'[flight'[k]] = "flight" /\ key'[flight'[k]] = k
<1>4. Keyed /\ Run => FlightInv'
  BY DEF FlightInv, Aboard
<1> SUFFICES Keyed /\ Run
  BY <1>4
<1>5. ASSUME NEW c \in Calls, NEW k \in QueryTexts, Begin(c, k) PROVE Keyed /\ Run
  BY <1>1, <1>2, <1>3, <1>5 DEF Begin, Goto, QueryTexts
<1>6. ASSUME NEW c \in Calls, ContextDone(c) PROVE Keyed /\ Run
  BY <1>1, <1>2, <1>6 DEF ContextDone
<1>7. ASSUME NEW c \in Calls, pc[c] \notin {"idle", "flight"}, NEW where,
             Goto(c, where), UNCHANGED <<key, flight>>
      PROVE  Keyed /\ Run
  BY <1>1, <1>2, <1>7 DEF Goto
<1>8. ASSUME NEW c \in Calls, pc[c] \notin {"idle", "flight"}, NEW d,
             Return({c}, d), UNCHANGED <<key, flight>>
      PROVE  Keyed /\ Run
  BY <1>1, <1>2, <1>8 DEF Return
<1>9. ASSUME NEW c \in Calls, Lookup(c) \/ SetEmbedding(c) PROVE Keyed /\ Run
  <2>1. /\ Goto(c, "query") \/ Goto(c, "limit")
        /\ pc[c] \notin {"idle", "flight"} /\ UNCHANGED <<key, flight>>
    BY <1>9 DEF Lookup, SetEmbedding
  <2> QED
    BY <1>7, <2>1
<1>10. ASSUME NEW c \in Calls,
              RateLimited(c) \/ QueryFails(c) \/ Query(c) \/ BatchGetFails(c) \/ BatchGet(c)
       PROVE  Keyed /\ Run
  <2>1. /\ Goto(c, "fetch") \/ \E d : Return({c}, d)
        /\ pc[c] \notin {"idle", "flight"} /\ UNCHANGED <<key, flight>>
    BY <1>10 DEF RateLimited, QueryFails, Query, BatchGetFails, BatchGet
  <2> QED
    BY <1>7, <1>8, <2>1
<1>11. ASSUME NEW c \in Calls, Fly(c) PROVE Keyed /\ Run
  <2>1. key[c] \in Keys /\ pc[c] = "limit" /\ pc' = [pc EXCEPT ![c] = "flight"] /\ key' = key
    BY <1>2, <1>11 DEF Fly, Goto
  <2>2. flight' = flight \/ flight' = [flight EXCEPT ![key[c]] = c]
    BY <1>11 DEF Fly
  <2> QED
    BY <1>1, <1>2, <2>1, <2>2
<1>12. ASSUME NEW k \in Keys, FlightLands(k) PROVE Keyed /\ Run
  BY <1>1, <1>2, <1>12 DEF FlightLands, Aboard
<1>13. ASSUME NEW k \in Keys, FlightFails(k) PROVE Keyed /\ Run
  BY <1>1, <1>2, <1>13 DEF FlightFails, Return, Aboard
<1>14. CASE UNCHANGED vars
  BY <1>1, <1>2, <1>14 DEF vars
<1> HIDE DEF Keyed, Run
<1> QED
  BY <1>5, <1>6, <1>9, <1>10, <1>11, <1>12, <1>13, <1>14
  DEF Next, Proceed, FlightReturns

(* ContextInv, BestEventsKept and ContextFits for one call.                *)
CallContext(c) ==
    /\ pc[c] # "idle" => request[c] = Untouched
    /\ found[c] \subseteq Own(c) /\ IsFiniteSet(found[c])
    /\ Range(request[c].context) \subseteq found[c]
    /\ request[c].applied = "true" =>
         \A e \in Range(request[c].context) :
            \A f \in found[c] \ Range(request[c].context) :
               Score[key[c]][e] >= Score[key[c]][f]
    /\ TokensBefore(request[c].context, Len(request[c].context) + 1) <= MaxTokens + Separator

LEMMA ContextOfCalls ==
    (\A c \in Calls : CallContext(c)) <=> ContextInv /\ BestEventsKept /\ ContextFits
  BY DEF CallContext, ContextInv, BestEventsKept, ContextFits

LEMMA NoContext ==
    /\ Untouched.applied = "unset" /\ Range(Untouched.context) = {}
    /\ Data("false", <<>>).applied = "false" /\ Range(Data("false", <<>>).context) = {}
    /\ \A r : Data("true", r).applied = "true" /\ Data("true", r).context = r
    /\ \A d \in {Untouched, Data("false", <<>>)} :
          TokensBefore(d.context, Len(d.context) + 1) <= MaxTokens + Separator
<1>1. Range(<<>>) = {}
  BY DEF Range
<1>2. <<>> \in Seq(EventIds) /\ Len(<<>>) = 0
  BY EmptySeq
<1>3. TokensBefore(<<>>, 1) = Header
  BY <1>2, TokensCounted
<1>4. TokensBefore(<<>>, Len(<<>>) + 1) <= MaxTokens + Separator
  BY <1>2, <1>3, RagAssumption
<1>5. \A d \in {Untouched, Data("false", <<>>)} : d.context = <<>>
  BY DEF Untouched, Data
<1> QED
  BY <1>1, <1>4, <1>5 DEF Untouched, Data

(* A call whose request, key and results stay, and that does not leave     *)
(* "idle".                                                                 *)
LEMMA CallKept ==
    ASSUME NEW c \in Calls, CallContext(c), pc'[c] # "idle" => pc[c] # "idle",
           found'[c] = found[c], key'[c] = key[c], request'[c] = request[c]
    PROVE  CallContext(c)'
  BY DEF CallContext, Own

(* A call that returns without context.                                    *)
LEMMA CallFails ==
    ASSUME NEW c \in Calls, CallContext(c), pc[c] # "idle", pc'[c] = "idle",
           found'[c] = found[c],
           request'[c] \in {Untouched, Data("false", <<>>)}
    PROVE  CallContext(c)'
  BY NoContext DEF CallContext, Own

(* A step that one call takes leaves what the others have found and        *)
(* written alone.                                                          *)
LEMMA OthersUntouched ==
    ASSUME RagTypes, NEW c \in Calls, NEW o \in Calls, o # c,
           ContextDone(c) \/ Proceed(c) \/ \E k \in QueryTexts : Begin(c, k)
    PROVE  /\ key'[o] = key[o] /\ found'[o] = found[o]
           /\ pc'[o] = pc[o] /\ request'[o] = request[o]
<1>1. /\ pc \in [Calls -> Positions] /\ key \in [Calls -> Keys \cup {None}]
      /\ found \in [Calls -> SUBSET EventIds] /\ request \in [Calls -> Requests]
  BY DEF RagTypes
<1>2. key'[o] = key[o] /\ found'[o] = found[o]
  BY <1>1 DEF ContextDone, Proceed, Begin, Lookup, RateLimited, Fly, SetEmbedding,
     QueryFails, Query, BatchGetFails, BatchGet
<1>3. \/ UNCHANGED <<pc, request>> \/ (\E d : Return({c}, d))
      \/ \E where : /\ Goto(c, where)
                    /\ request' = request \/ request' = [request EXCEPT ![c] = Untouched]
  BY DEF ContextDone, Proceed, Begin, Lookup, RateLimited, Fly, SetEmbedding,
     QueryFails, Query, BatchGetFails, BatchGet
<1>4. pc'[o] = pc[o] /\ request'[o] = request[o]
  BY <1>1, <1>3 DEF Goto, Return
<1> QED
  BY <1>2, <1>4

(* What a query finds is the user's own history without the event itself.  *)
LEMMA QueryFindsOwn ==
    ASSUME NEW c \in Calls, NEW R \in SimilarEvents(c)
    PROVE  /\ Relevant(c, Cleaned(c, R)) \subseteq Own(c)
           /\ IsFiniteSet(Relevant(c, Cleaned(c, R)))
<1>1. IsFiniteSet(R) /\ Relevant(c, Cleaned(c, R)) \in SUBSET R
  BY DEF SimilarEvents, Relevant, Cleaned
<1>2. IsFiniteSet(Relevant(c, Cleaned(c, R)))
  BY <1>1, FS_Subset
<1>3. Relevant(c, Cleaned(c, R)) \subseteq Own(c)
  BY DEF SimilarEvents, Relevant, Cleaned, Own
<1> QED
  BY <1>2, <1>3

LEMMA ContextStep ==
    ASSUME RagInv, [Next]_vars PROVE ContextInv' /\ BestEventsKept' /\ ContextFits'
<1>1. /\ pc \in [Calls -> Positions] /\ key \in [Calls -> Keys \cup {None}]
      /\ found \in [Calls -> SUBSET EventIds] /\ request \in [Calls -> Requests]
  BY DEF RagInv, RagTypes
<1>2. RagTypes /\ \A c \in Calls : CallContext(c)
  BY ContextOfCalls DEF RagInv
<1>3. ASSUME NEW c \in Calls, NEW k \in QueryTexts, Begin(c, k) PROVE CallContext(c)'
  <2>1. found'[c] = {} /\ request'[c] = Untouched
    BY <1>1, <1>3 DEF Begin
  <2>2. IsFiniteSet({})
    BY FS_EmptySet
  <2> QED
    BY <2>1, <2>2, NoContext DEF CallContext
<1>4. ASSUME NEW c \in Calls, ContextDone(c) \/ Lookup(c) \/ Fly(c) \/ SetEmbedding(c)
      PROVE  CallContext(c)'
  <2>1. pc[c] # "idle" /\ UNCHANGED <<key, found, request>>
    BY <1>4 DEF ContextDone, Lookup, Fly, SetEmbedding
  <2> QED
    BY <1>2, <2>1, CallKept
<1>5. ASSUME NEW c \in Calls, NEW d \in {Untouched, Data("false", <<>>)}, pc[c] # "idle",
             Return({c}, d)
      PROVE  pc'[c] = "idle" /\ request'[c] \in {Untouched, Data("false", <<>>)}
  <2>1. request[c] = Untouched
    BY <1>2, <1>5 DEF CallContext
  <2> QED
    BY <1>5, <2>1 DEF Return
<1>6. ASSUME NEW c \in Calls, RateLimited(c) \/ QueryFails(c) \/ BatchGetFails(c)
      PROVE  CallContext(c)'
  <2>1. /\ pc[c] # "idle" /\ found' = found
        /\ Return({c}, Untouched) \/ Return({c}, Data("false", <<>>))
    BY <1>6 DEF RateLimited, QueryFails, BatchGetFails
  <2>2. pc'[c] = "idle" /\ request'[c] \in {Untouched, Data("false", <<>>)}
    BY <1>5, <2>1
  <2> QED
    BY <1>2, <2>1, <2>2, CallFails
<1>7. ASSUME NEW c \in Calls, Query(c) PROVE CallContext(c)'
  <2>1. PICK R \in SimilarEvents(c) :
           LET ids == Relevant(c, Cleaned(c, R)) IN
           /\ found' = [found EXCEPT ![c] = ids]
           /\ IF ids = {}
              THEN Return({c}, Data("false", <<>>))
              ELSE Goto(c, "fetch") /\ UNCHANGED <<request, ctxDone>>
    BY <1>7 DEF Query
  <2>2. pc[c] # "idle" /\ request[c] = Untouched
    BY <1>2, <1>7 DEF Query, CallContext
  <2>3. found'[c] \subseteq Own(c) /\ IsFiniteSet(found'[c])
    BY <1>1, <2>1, QueryFindsOwn
  <2>4. \/ pc'[c] = "idle" /\ request'[c] \in {Untouched, Data("false", <<>>)}
        \/ request'[c] = Untouched
    BY <1>5, <2>1, <2>2
  <2> QED
    BY <2>3, <2>4, NoContext DEF CallContext, Own
<1>8. ASSUME NEW c \in Calls, BatchGet(c) PROVE CallContext(c)'
  <2>1. PICK s \in SortedByScore(c, found[c]) : Return({c}, Data("true", RenderEvents(s)))
    BY <1>8 DEF BatchGet
  <2>2. pc[c] # "idle" /\ request[c] = Untouched /\ UNCHANGED <<key, found>>
    BY <1>2, <1>8 DEF BatchGet, CallContext
  <2>3. found[c] \in SUBSET EventIds /\ IsFiniteSet(found[c]) /\ found[c] \subseteq Own(c)
    BY <1>1, <1>2 DEF CallContext
  <2> DEFINE r == RenderEvents(s)
  <2>4. /\ r \in Seq(EventIds) /\ Range(r) \subseteq found[c]
        /\ \A e \in Range(r) : \A f \in found[c] \ Range(r) :
              Score[key[c]][e] >= Score[key[c]][f]
        /\ TokensBefore(r, Len(r) + 1) <= MaxTokens + Separator
    BY <2>3, Rendered
  <2>5. pc'[c] = "idle" /\ request'[c] \in {Untouched, Data("true", r)}
    BY <2>1, <2>2 DEF Return
  <2> HIDE DEF r
  <2>6. CASE request'[c] = Untouched
    BY <2>2, <2>3, <2>5, <2>6, NoContext DEF CallContext, Own
  <2>7. CASE request'[c] = Data("true", r)
    BY <2>2, <2>3, <2>4, <2>5, <2>7, NoContext DEF CallContext, Own
  <2> QED
    BY <2>5, <2>6, <2>7
<1>9. ASSUME NEW k \in Keys, FlightReturns(k), NEW c \in Calls PROVE CallContext(c)'
  <2>1. CASE FlightLands(k)
    <3>1. (pc'[c] # "idle" => pc[c] # "idle") /\ UNCHANGED <<key, found, request>>
      BY <1>1, <2>1 DEF FlightLands, Aboard
    <3> QED
      BY <1>2, <3>1, CallKept
  <2>2. CASE FlightFails(k)
    <3>1. UNCHANGED <<key, found>> /\ Return(Aboard(k), Untouched)
      BY <2>2 DEF FlightFails
    <3>2. CASE c \in Aboard(k)
      <4>1. pc[c] # "idle" /\ request[c] = Untouched
        BY <1>2, <3>2 DEF Aboard, CallContext
      <4>2. pc'[c] = "idle" /\ request'[c] = Untouched
        BY <3>1, <3>2, <4>1 DEF Return
      <4> QED
        BY <1>2, <3>1, <4>1, <4>2, CallFails
    <3>3. CASE c \notin Aboard(k)
      <4>1. pc'[c] = pc[c] /\ request'[c] = request[c]
        BY <3>1, <3>3 DEF Return
      <4> QED
        BY <1>2, <3>1, <4>1, CallKept
    <3> QED
      BY <3>2, <3>3
  <2> QED
    BY <1>9, <2>1, <2>2 DEF FlightReturns
<1>10. ASSUME NEW c \in Calls, NEW o \in Calls,
              ContextDone(c) \/ Proceed(c) \/ \E k \in QueryTexts : Begin(c, k)
       PROVE  CallContext(o)'
  <2>1. CASE o = c
    BY <1>3, <1>4, <1>6, <1>7, <1>8, <1>10, <2>1 DEF Proceed
  <2>2. CASE o # c
    BY <1>2, <1>10, <2>2, OthersUntouched, CallKept
  <2> QED
    BY <2>1, <2>2
<1>11. ASSUME UNCHANGED vars, NEW c \in Calls PROVE CallContext(c)'
  <2>1. UNCHANGED <<pc, key, found, request>>
    BY <1>11 DEF vars
  <2> QED
    BY <1>2, <2>1, CallKept
<1>12. \A c \in Calls : CallContext(c)'
  BY <1>9, <1>10, <1>11 DEF Next
<1>13. (\A c \in Calls : CallContext(c)') => ContextInv' /\ BestEventsKept' /\ ContextFits'
  BY DEF CallContext, ContextInv, BestEventsKept, ContextFits, Own
<1> QED
  BY <1>12, <1>13

LEMMA RagInvStep ==
    ASSUME RagInv, [Next]_vars PROVE RagInv'
  BY TypesStep, FlightKept, CacheStep, ContextStep DEF RagInv

LEMMA RagInvInit == Init => RagInv
<1> SUFFICES ASSUME Init PROVE RagInv
  OBVIOUS
<1>1. RagTypes
  BY WrittenData DEF Init, RagTypes, Positions
<1>2. FlightInv
  BY DEF Init, FlightInv
<1>3. CacheInv
  <2>1. <<>> \in Seq(Keys) /\ Len(<<>>) = 0 /\ Range(<<>>) = {} /\ IsInjective(<<>>)
    BY EmptySeq DEF Range, IsInjective
  <2>2. Capacity \in Nat \ {0}
    BY RagAssumption
  <2> QED
    BY <2>1, <2>2 DEF Init, CacheInv
<1>4. ContextInv /\ BestEventsKept /\ ContextFits
  <2>1. IsFiniteSet({})
    BY FS_EmptySet
  <2>2. \A c \in Calls : request[c] = Untouched /\ found[c] = {}
    BY DEF Init
  <2> QED
    BY <2>1, <2>2, NoContext DEF ContextInv, BestEventsKept, ContextFits
<1> QED
  BY <1>1, <1>2, <1>3, <1>4 DEF RagInv

-----------------------------------------------------------------------------
(* The steps of the handlers.                                              *)

(* PromptReachesModel and RetriesAreBounded for one call.                  *)
CallAnswered(c) ==
    /\ asked[c] # None =>
         /\ asked[c].message = "prompt" => "prompt" \in asked[c].data
         /\ asked[c].message = "refused" =>
              "prompt" \notin asked[c].data \/ "messages" \in asked[c].data
         /\ asked[c].message = "empty" =>
              "prompt" \notin asked[c].data /\ request[c].applied = "true"
    /\ apc[c] \in {"request", "delay"} =>
         /\ failed[c] <= MaxRetries
         /\ failed[c] > 0 => lastErr[c] \in {"unavailable", "mentions"}
         /\ late[c] <= 1

LEMMA AnsweredCalls ==
    (\A c \in Calls : CallAnswered(c)) <=> PromptReachesModel /\ RetriesAreBounded
  BY DEF CallAnswered, PromptReachesModel, RetriesAreBounded

(* A handler whose own state stays; when it is not in the enhancement, its *)
(* request stays too.                                                      *)
LEMMA HandlerKept ==
    ASSUME NEW c \in Calls, CallHandler(c), CallAnswered(c),
           apc'[c] = apc[c], asked'[c] = asked[c], failed'[c] = failed[c],
           lastErr'[c] = lastErr[c], late'[c] = late[c],
           c \in cancelled' <=> c \in cancelled,
           pc[c] = "idle" => pc'[c] = "idle" /\ request'[c] = request[c]
    PROVE  CallHandler(c)' /\ CallAnswered(c)'
<1>1. CallHandler(c)'
  BY DEF CallHandler
<1>2. asked[c] # None => request'[c] = request[c]
  BY DEF CallHandler
<1>3. CallAnswered(c)'
  BY <1>2 DEF CallAnswered
<1> QED
  BY <1>1, <1>3

(* A flight that returns does not touch a call that is not in it.          *)
LEMMA FlightSparesIdle ==
    ASSUME NEW k \in Keys, FlightReturns(k), NEW c \in Calls, pc[c] = "idle"
    PROVE  pc'[c] = "idle" /\ request'[c] = request[c]
<1>1. c \notin Aboard(k)
  BY DEF Aboard
<1> QED
  BY <1>1 DEF FlightReturns, FlightLands, FlightFails, Return

(* A call of the enhancement that takes a step is under way.               *)
LEMMA UnderWay ==
    ASSUME NEW c \in Calls, ContextDone(c) \/ Proceed(c) PROVE pc[c] # "idle"
  BY DEF ContextDone, Proceed, Lookup, RateLimited, Fly, SetEmbedding,
     QueryFails, Query, BatchGetFails, BatchGet

(* The kinds of providers.                                                 *)
LEMMA ProviderKinds ==
    \A p \in DOMAIN Providers : Providers[p] \in {"mock", "openai", "ollama"}
  BY AnswerAssumption

LEMMA GoTypes ==
    ASSUME AnswerTypes, NEW c \in Calls, NEW where \in HandlerPositions, Go(c, where)
    PROVE  apc' \in [Calls -> HandlerPositions]
  BY DEF AnswerTypes, HandlerPositions, Go

(* The end of a call to Ollama.                                            *)
LEMMA EndedTypes ==
    ASSUME AnswerTypes, NEW c \in Calls, Ended(c)
    PROVE  /\ apc' \in [Calls -> HandlerPositions] /\ failed' \in [Calls -> Nat]
           /\ lastErr' \in [Calls -> Errors \cup {None}] /\ cancelled' \subseteq Calls
           /\ late' \in [Calls -> Nat]
<1>1. apc' \in [Calls -> HandlerPositions]
  BY GoTypes DEF Ended, HandlerPositions
<1> QED
  BY <1>1 DEF AnswerTypes, Ended

LEMMA AnswerTypesStep ==
    ASSUME AnswerTypes, HandlerInv, [AnswerNext]_allVars PROVE AnswerTypes'
<1>1. /\ apc \in [Calls -> HandlerPositions] /\ asked \in [Calls -> Questions \cup {None}]
      /\ failed \in [Calls -> Nat] /\ lastErr \in [Calls -> Errors \cup {None}]
      /\ cancelled \subseteq Calls /\ late \in [Calls -> Nat]
  BY DEF AnswerTypes, HandlerPositions
<1>2. ASSUME NEW c \in Calls, NEW where \in HandlerPositions, Go(c, where),
             UNCHANGED <<asked, retryVars>>
      PROVE  AnswerTypes'
  BY <1>1, <1>2, GoTypes DEF AnswerTypes, HandlerPositions, retryVars
<1>3. ASSUME NEW c \in Calls, NEW type \in EventTypes \cup {NoType}, NEW k \in QueryTexts,
             Select(c, type, k)
      PROVE  AnswerTypes'
  <2>1. \E where \in HandlerPositions : Go(c, where)
    BY <1>3, ProviderKinds DEF Select, HandlerPositions
  <2> QED
    BY <1>2, <1>3, <2>1 DEF Select
<1>4. ASSUME NEW c \in Calls, Enhanced(c) \/ Mock(c) PROVE AnswerTypes'
  <2>1. Enhanced(c) => RagProvider \in DOMAIN Providers
    BY DEF Enhanced, HandlerInv, CallHandler
  <2>2. \E where \in HandlerPositions : Go(c, where)
    BY <1>4, <2>1, ProviderKinds DEF Enhanced, Mock, HandlerPositions
  <2> QED
    BY <1>2, <1>4, <2>2 DEF Enhanced, Mock
<1>5. ASSUME NEW c \in Calls, OpenAIReturns(c) PROVE AnswerTypes'
  <2>1. apc' \in [Calls -> HandlerPositions]
    BY <1>5, GoTypes DEF OpenAIReturns, HandlerPositions
  <2> QED
    BY <1>1, <1>5, <2>1 DEF OpenAIReturns, AnswerTypes, HandlerPositions, retryVars
<1>6. ASSUME NEW c \in Calls, NEW d \in DataOf(c), AskOpenAI(c, d) PROVE AnswerTypes'
  <2>1. apc' \in [Calls -> HandlerPositions]
    BY <1>6, GoTypes DEF AskOpenAI, HandlerPositions
  <2>2. d \in SUBSET Fields
    BY AnswerAssumption DEF DataOf
  <2>3. [data |-> d, message |-> UserMessage(c, d)] \in Questions
    BY <2>2 DEF Questions, UserMessage
  <2> QED
    BY <1>1, <1>6, <2>1, <2>3 DEF AskOpenAI, AnswerTypes, HandlerPositions, retryVars
<1>7. ASSUME NEW c \in Calls, Ended(c), UNCHANGED asked PROVE AnswerTypes'
  BY <1>1, <1>7, EndedTypes DEF AnswerTypes, HandlerPositions
<1>8. ASSUME NEW c \in Calls, NEW d \in DataOf(c), AskOllama(c, d) PROVE AnswerTypes'
  <2>1. "request" \in HandlerPositions
    BY DEF HandlerPositions
  <2> QED
    BY <1>2, <1>7, <1>8, <2>1 DEF AskOllama
<1>9. ASSUME NEW c \in Calls, RequestSucceeds(c) \/ DelayCancelled(c) PROVE AnswerTypes'
  BY <1>7, <1>9 DEF RequestSucceeds, DelayCancelled
<1>10. ASSUME NEW c \in Calls, NEW err \in Errors, RequestFails(c, err) PROVE AnswerTypes'
  <2>1. CASE /\ Go(c, "delay")
             /\ failed' = [failed EXCEPT ![c] = @ + 1]
             /\ lastErr' = [lastErr EXCEPT ![c] = err]
             /\ UNCHANGED <<cancelled, late>>
    <3>1. apc' \in [Calls -> HandlerPositions]
      BY <2>1, GoTypes DEF HandlerPositions
    <3>2. failed' \in [Calls -> Nat]
      BY <1>1, <2>1
    <3>3. lastErr' \in [Calls -> Errors \cup {None}]
      BY <1>1, <2>1
    <3> QED
      BY <1>1, <1>10, <2>1, <3>1, <3>2, <3>3 DEF RequestFails, AnswerTypes
  <2> QED
    BY <1>7, <1>10, <2>1 DEF RequestFails
<1>11. ASSUME NEW c \in Calls, DelayOver(c) PROVE AnswerTypes'
  <2>1. apc' \in [Calls -> HandlerPositions]
    BY <1>11, GoTypes DEF DelayOver, HandlerPositions
  <2>2. late' \in [Calls -> Nat]
    BY <1>1, <1>11 DEF DelayOver
  <2> QED
    BY <1>1, <1>11, <2>1, <2>2 DEF DelayOver, AnswerTypes, HandlerPositions
<1>12. ASSUME NEW c \in Calls, Cancel(c) PROVE AnswerTypes'
  BY <1>1, <1>12 DEF Cancel, AnswerTypes, HandlerPositions
<1>13. CASE UNCHANGED answerVars
  BY <1>1, <1>13 DEF answerVars, retryVars, AnswerTypes, HandlerPositions
<1> QED
  BY <1>3, <1>4, <1>5, <1>6, <1>8, <1>9, <1>10, <1>11, <1>12, <1>13
  DEF AnswerNext, Enhance, ProviderStep, FlightStep, allVars

(* A step of one handler leaves the others alone.                          *)
LEMMA OtherHandlers ==
    ASSUME AnswerTypes, RagTypes, NEW c \in Calls, NEW o \in Calls, o # c,
           CallHandler(o), CallAnswered(o),
           \/ \E type \in EventTypes \cup {NoType}, k \in QueryTexts : Select(c, type, k)
           \/ Enhance(c) \/ ProviderStep(c) \/ Cancel(c)
    PROVE  CallHandler(o)' /\ CallAnswered(o)'
<1>1. /\ apc \in [Calls -> HandlerPositions] /\ asked \in [Calls -> Questions \cup {None}]
      /\ failed \in [Calls -> Nat] /\ lastErr \in [Calls -> Errors \cup {None}]
      /\ cancelled \subseteq Calls /\ late \in [Calls -> Nat]
  BY DEF AnswerTypes
<1>2. pc'[o] = pc[o] /\ request'[o] = request[o]
  <2>1. CASE UNCHANGED vars
    BY <2>1 DEF vars
  <2>2. CASE ContextDone(c) \/ Proceed(c) \/ \E k \in QueryTexts : Begin(c, k)
    BY <2>2, OthersUntouched
  <2> QED
    BY <2>1, <2>2 DEF Select, Enhance, ProviderStep, Enhanced, Mock, OpenAIReturns,
       AskOpenAI, AskOllama, RequestSucceeds, RequestFails, DelayOver, DelayCancelled, Cancel
<1>3. apc'[o] = apc[o]
  BY <1>1 DEF Select, Enhance, ProviderStep, Enhanced, Mock, OpenAIReturns, AskOpenAI,
     AskOllama, RequestSucceeds, RequestFails, DelayOver, DelayCancelled, Cancel, Go,
     Ended, answerVars
<1>4. asked'[o] = asked[o]
  BY <1>1 DEF Select, Enhance, ProviderStep, Enhanced, Mock, OpenAIReturns, AskOpenAI,
     AskOllama, RequestSucceeds, RequestFails, DelayOver, DelayCancelled, Cancel, answerVars
<1>5. failed'[o] = failed[o] /\ lastErr'[o] = lastErr[o]
  BY <1>1 DEF Select, Enhance, ProviderStep, Enhanced, Mock, OpenAIReturns, AskOpenAI,
     AskOllama, RequestSucceeds, RequestFails, DelayOver, DelayCancelled, Cancel, Ended,
     answerVars, retryVars
<1>6. late'[o] = late[o] /\ (o \in cancelled' <=> o \in cancelled)
  BY <1>1 DEF Select, Enhance, ProviderStep, Enhanced, Mock, OpenAIReturns, AskOpenAI,
     AskOllama, RequestSucceeds, RequestFails, DelayOver, DelayCancelled, Cancel, Ended,
     answerVars, retryVars
<1> QED
  BY <1>2, <1>3, <1>4, <1>5, <1>6, HandlerKept

(* A handler that has ended, or has not asked anybody yet.                 *)
LEMMA QuietHandler ==
    ASSUME NEW c \in Calls, apc'[c] \notin {"rag", "asked", "request", "delay"},
           pc'[c] = "idle", asked'[c] = None, failed'[c] = 0, late'[c] = 0,
           c \notin cancelled'
    PROVE  CallHandler(c)' /\ CallAnswered(c)'
  BY DEF CallHandler, CallAnswered

LEMMA OwnStep ==
    ASSUME AnswerTypes, RagTypes, NEW c \in Calls, CallHandler(c), CallAnswered(c),
           \/ \E type \in EventTypes \cup {NoType}, k \in QueryTexts : Select(c, type, k)
           \/ Enhance(c) \/ ProviderStep(c) \/ Cancel(c)
    PROVE  CallHandler(c)' /\ CallAnswered(c)'
<1>1. /\ apc \in [Calls -> HandlerPositions] /\ asked \in [Calls -> Questions \cup {None}]
      /\ failed \in [Calls -> Nat] /\ lastErr \in [Calls -> Errors \cup {None}]
      /\ cancelled \subseteq Calls /\ late \in [Calls -> Nat]
      /\ pc \in [Calls -> Positions] /\ MaxRetries \in Nat
  BY AnswerAssumption DEF AnswerTypes, RagTypes
<1>2. ASSUME NEW type \in EventTypes \cup {NoType}, NEW k \in QueryTexts, Select(c, type, k)
      PROVE  CallHandler(c)' /\ CallAnswered(c)'
  <2>1. /\ asked'[c] = None /\ failed'[c] = 0 /\ late'[c] = 0 /\ c \notin cancelled'
    BY <1>2 DEF Select, CallHandler, retryVars
  <2> DEFINE name == SelectProvider(Rules, type)
             enhance == name = RagProvider /\ name \in DOMAIN Providers /\ HasEmbedding
  <2>2. /\ apc'[c] = IF name \notin DOMAIN Providers THEN "free"
                     ELSE IF enhance THEN "rag" ELSE Providers[name]
        /\ k # None => enhance
        /\ pc'[c] = IF k = None THEN "idle" ELSE "lookup"
    BY <1>1, <1>2 DEF Select, Go, Begin, Goto
  <2> HIDE DEF name
  <2>3. CASE enhance
    BY <2>1, <2>2, <2>3 DEF CallHandler, CallAnswered
  <2>4. CASE ~ enhance
    <3>1. pc'[c] = "idle" /\ apc'[c] \in {"free", "mock", "openai", "ollama"}
      BY <2>2, <2>4, ProviderKinds
    <3> QED
      BY <2>1, <3>1, QuietHandler
  <2> QED
    BY <2>3, <2>4
<1>3. ASSUME Enhance(c) PROVE CallHandler(c)' /\ CallAnswered(c)'
  <2>1. pc[c] # "idle" /\ UNCHANGED <<apc, asked, failed, lastErr, cancelled, late>>
    BY <1>3, UnderWay DEF Enhance, answerVars, retryVars
  <2> QED
    BY <2>1, HandlerKept
<1>4. ASSUME Enhanced(c) \/ Mock(c) \/ OpenAIReturns(c)
      PROVE  CallHandler(c)' /\ CallAnswered(c)'
  <2>1. failed'[c] = 0 /\ late'[c] = 0 /\ c \notin cancelled'
    BY <1>4 DEF Enhanced, Mock, OpenAIReturns, CallHandler, retryVars
  <2>2. pc'[c] = "idle"
    BY <1>4 DEF Enhanced, Mock, OpenAIReturns, CallHandler, vars
  <2>3. asked'[c] = None
    BY <1>1, <1>4 DEF Enhanced, Mock, OpenAIReturns, CallHandler
  <2>4. apc'[c] \in {"free", "mock", "openai", "ollama"}
    BY <1>1, <1>4, ProviderKinds DEF Enhanced, Mock, OpenAIReturns, CallHandler, Go
  <2> QED
    BY <2>1, <2>2, <2>3, <2>4, QuietHandler
<1>5. ASSUME NEW d \in DataOf(c), AskOpenAI(c, d) PROVE CallHandler(c)' /\ CallAnswered(c)'
  <2>1. /\ apc'[c] = "asked" /\ asked'[c] = [data |-> d, message |-> UserMessage(c, d)]
        /\ failed'[c] = 0 /\ late'[c] = 0 /\ c \notin cancelled'
        /\ pc'[c] = "idle" /\ request'[c] = request[c]
    BY <1>1, <1>5 DEF AskOpenAI, Go, CallHandler, vars, retryVars
  <2>2. CallHandler(c)'
    BY <2>1 DEF CallHandler
  <2>3. asked'[c].data = d /\ asked'[c].message = UserMessage(c, d)
    BY <2>1
  <2>4. CallAnswered(c)'
    BY <2>1, <2>3 DEF CallAnswered, UserMessage
  <2> QED
    BY <2>2, <2>4
<1>6. ASSUME Ended(c), apc[c] \in {"ollama", "request", "delay"}, UNCHANGED <<vars, asked>>
      PROVE  CallHandler(c)' /\ CallAnswered(c)'
  <2>1. /\ apc'[c] = "free" /\ failed'[c] = 0 /\ late'[c] = 0 /\ c \notin cancelled'
        /\ pc'[c] = "idle" /\ asked'[c] = None
    BY <1>1, <1>6 DEF Ended, Go, CallHandler, vars
  <2> QED
    BY <2>1, QuietHandler
<1>7. ASSUME NEW d \in DataOf(c), AskOllama(c, d) PROVE CallHandler(c)' /\ CallAnswered(c)'
  <2>1. CASE Ended(c)
    BY <1>6, <1>7, <2>1 DEF AskOllama
  <2>2. CASE Go(c, "request") /\ UNCHANGED retryVars
    <3>1. /\ apc'[c] = "request" /\ failed'[c] = 0 /\ late'[c] = 0 /\ c \notin cancelled'
          /\ pc'[c] = "idle" /\ asked'[c] = None
      BY <1>1, <1>7, <2>2 DEF AskOllama, Go, CallHandler, vars, retryVars
    <3> QED
      BY <1>1, <3>1 DEF CallHandler, CallAnswered
  <2> QED
    BY <1>7, <2>1, <2>2 DEF AskOllama
<1>8. ASSUME RequestSucceeds(c) \/ DelayCancelled(c) PROVE CallHandler(c)' /\ CallAnswered(c)'
  BY <1>6, <1>8 DEF RequestSucceeds, DelayCancelled
<1>9. ASSUME NEW err \in Errors, RequestFails(c, err) PROVE CallHandler(c)' /\ CallAnswered(c)'
  <2>1. CASE Ended(c)
    BY <1>6, <1>9, <2>1 DEF RequestFails
  <2>2. CASE ~ Ended(c)
    <3>1. /\ Retryable(err) /\ failed[c] < MaxRetries /\ c \notin cancelled
          /\ Go(c, "delay") /\ failed' = [failed EXCEPT ![c] = @ + 1]
          /\ lastErr' = [lastErr EXCEPT ![c] = err] /\ UNCHANGED <<cancelled, late>>
          /\ UNCHANGED <<vars, asked>> /\ apc[c] = "request"
      BY <1>9, <2>2 DEF RequestFails
    <3>2. /\ apc'[c] = "delay" /\ failed'[c] = failed[c] + 1 /\ lastErr'[c] = err
          /\ late'[c] = 0 /\ c \notin cancelled' /\ pc'[c] = "idle" /\ asked'[c] = None
      BY <1>1, <3>1 DEF Go, CallHandler, vars
    <3>3. failed'[c] <= MaxRetries /\ err \in {"unavailable", "mentions"}
      BY <1>1, <3>1, <3>2 DEF Retryable
    <3> QED
      BY <3>2, <3>3 DEF CallHandler, CallAnswered
  <2> QED
    BY <2>1, <2>2
<1>10. ASSUME DelayOver(c) PROVE CallHandler(c)' /\ CallAnswered(c)'
  <2>1. /\ apc'[c] = "request" /\ failed'[c] = failed[c] /\ lastErr'[c] = lastErr[c]
        /\ pc'[c] = "idle" /\ asked'[c] = None /\ cancelled' = cancelled
    BY <1>1, <1>10 DEF DelayOver, Go, CallHandler, vars
  <2>2. late'[c] = IF c \in cancelled THEN 1 ELSE 0
    BY <1>1, <1>10 DEF DelayOver, CallHandler
  <2>3. /\ failed[c] <= MaxRetries
        /\ failed[c] > 0 => lastErr[c] \in {"unavailable", "mentions"}
    BY <1>10 DEF DelayOver, CallAnswered
  <2> QED
    BY <2>1, <2>2, <2>3 DEF CallHandler, CallAnswered
<1>11. ASSUME Cancel(c) PROVE CallHandler(c)' /\ CallAnswered(c)'
  <2>1. /\ apc[c] \in {"request", "delay"} /\ late[c] = 0 /\ cancelled' = cancelled \cup {c}
        /\ UNCHANGED <<apc, asked, failed, lastErr, late>> /\ UNCHANGED <<pc, request>>
    BY <1>11 DEF Cancel, CallHandler, vars
  <2> QED
    BY <2>1 DEF CallHandler, CallAnswered
<1> QED
  BY <1>2, <1>3, <1>4, <1>5, <1>7, <1>8, <1>9, <1>10, <1>11 DEF ProviderStep

LEMMA AnswerInvStep ==
    ASSUME AnswerInv, [AnswerNext]_allVars PROVE AnswerInv'
<1>1. RagTypes /\ AnswerTypes /\ HandlerInv
  BY DEF AnswerInv, RagInv
<1>2. \A c \in Calls : CallHandler(c) /\ CallAnswered(c)
  BY AnsweredCalls DEF AnswerInv, HandlerInv
<1>3. RagInv'
  BY HandlerUse, RagInvStep DEF AnswerInv
<1>4. AnswerTypes'
  BY <1>1, AnswerTypesStep
<1>5. ASSUME NEW k \in Keys, FlightStep(k), NEW c \in Calls
      PROVE  CallHandler(c)' /\ CallAnswered(c)'
  <2>1. UNCHANGED <<apc, asked, failed, lastErr, cancelled, late>>
    BY <1>5 DEF FlightStep, answerVars, retryVars
  <2>2. pc[c] = "idle" => pc'[c] = "idle" /\ request'[c] = request[c]
    BY <1>5, FlightSparesIdle DEF FlightStep
  <2> QED
    BY <1>2, <2>1, <2>2, HandlerKept
<1>6. ASSUME NEW c \in Calls, NEW o \in Calls,
             \/ \E type \in EventTypes \cup {NoType}, k \in QueryTexts : Select(c, type, k)
             \/ Enhance(c) \/ ProviderStep(c) \/ Cancel(c)
      PROVE  CallHandler(o)' /\ CallAnswered(o)'
  <2>1. CASE o = c
    BY <1>1, <1>2, <1>6, <2>1, OwnStep
  <2>2. CASE o # c
    BY <1>1, <1>2, <1>6, <2>2, OtherHandlers
  <2> QED
    BY <2>1, <2>2
<1>7. ASSUME UNCHANGED allVars, NEW c \in Calls PROVE CallHandler(c)' /\ CallAnswered(c)'
  <2>1. /\ UNCHANGED <<apc, asked, failed, lastErr, cancelled, late>>
        /\ UNCHANGED <<pc, request>>
    BY <1>7 DEF allVars, vars, answerVars, retryVars
  <2> QED
    BY <1>2, <2>1, HandlerKept
<1>8. \A c \in Calls : CallHandler(c)' /\ CallAnswered(c)'
  BY <1>5, <1>6, <1>7 DEF AnswerNext
<1>9. HandlerInv'
  BY <1>8 DEF HandlerInv
<1>10. PromptReachesModel' /\ RetriesAreBounded'
  BY <1>8 DEF CallAnswered, PromptReachesModel, RetriesAreBounded
<1> QED
  BY <1>3, <1>4, <1>9, <1>10 DEF AnswerInv

LEMMA AnswerInvInit == AnswerInit => AnswerInv
<1> SUFFICES ASSUME AnswerInit PROVE AnswerInv
  OBVIOUS
<1>1. RagInv
  BY RagInvInit DEF AnswerInit
<1>2. AnswerTypes
  BY DEF AnswerInit, AnswerTypes, HandlerPositions
<1>3. HandlerInv
  BY DEF AnswerInit, Init, HandlerInv, CallHandler
<1>4. PromptReachesModel /\ RetriesAreBounded
  BY DEF AnswerInit, PromptReachesModel, RetriesAreBounded
<1> QED
  BY <1>1, <1>2, <1>3, <1>4 DEF AnswerInv

-----------------------------------------------------------------------------
(* The theorems.                                                           *)

(* AnswerInv is an inductive invariant of the handlers: no interleaving of *)
(* Publish calls, flights, cancellations and failures breaks it.           *)
THEOREM AnswerInvariant == AnswerSpec => []AnswerInv
<1>1. AnswerInv /\ [AnswerNext]_allVars => AnswerInv'
  BY AnswerInvStep
<1> QED
  BY <1>1, AnswerInvInit, PTL DEF AnswerSpec

(* The types of the enhancement; the list of the cache never outgrows its  *)
(* capacity and a flight is run by a call aboard.                          *)
THEOREM AnswerTypesHold == AnswerSpec => []TypeOK
<1>1. AnswerInv => TypeOK
  <2> SUFFICES ASSUME AnswerInv PROVE TypeOK
    OBVIOUS
  <2>1. RagTypes /\ FlightInv /\ CacheInv
    BY DEF AnswerInv, RagInv
  <2>2. cache \subseteq Keys
    BY <2>1, CacheFacts
  <2>3. \A c \in Calls : /\ request[c].applied \in {"unset", "false", "true"}
                         /\ request[c].context \in Seq(EventIds)
    BY <2>1 DEF RagTypes, Requests
  <2> QED
    BY <2>1, <2>2, <2>3 DEF TypeOK, RagTypes, Positions, FlightInv, CacheInv
<1> QED
  BY <1>1, AnswerInvariant, PTL

(* Get and Set of the embedding cache, called by any number of calls in    *)
(* any order and several times for one text, are a least recently used     *)
(* cache of any capacity.                                                  *)
THEOREM CacheKeepsRecentlyUsed == AnswerSpec => []KeepsRecentlyUsed
<1>1. AnswerInv => KeepsRecentlyUsed
  BY CacheIsLRU DEF AnswerInv, RagInv
<1> QED
  BY <1>1, AnswerInvariant, PTL

(* applyRAGEnhancement never puts the event itself or an event of another  *)
(* user into a context.                                                    *)
THEOREM ContextIsOwnHistory == AnswerSpec => []OwnHistoryOnly
<1>1. AnswerInv => OwnHistoryOnly
  BY DEF AnswerInv, RagInv, ContextInv, OwnHistoryOnly, Own
<1> QED
  BY <1>1, AnswerInvariant, PTL

(* The truncation of renderEventsMarkdown drops the least similar events.  *)
THEOREM ContextKeepsBest == AnswerSpec => []BestEventsKept
<1>1. AnswerInv => BestEventsKept
  BY DEF AnswerInv, RagInv
<1> QED
  BY <1>1, AnswerInvariant, PTL

(* A rendered context exceeds the token limit by one separator at most,    *)
(* whatever the sizes of the events.                                       *)
THEOREM ContextWithinLimit == AnswerSpec => []ContextFits
<1>1. AnswerInv => ContextFits
  BY DEF AnswerInv, RagInv
<1> QED
  BY <1>1, AnswerInvariant, PTL

(* Publish asks OpenAI the prompt of the event however the enhancement     *)
(* ended; a request that was asked is not rewritten by a flight that       *)
(* returns later.                                                          *)
THEOREM PromptIsAsked == AnswerSpec => []PromptReachesModel
<1>1. AnswerInv => PromptReachesModel
  BY DEF AnswerInv
<1> QED
  BY <1>1, AnswerInvariant, PTL

(* Execute of the Ollama provider makes MaxRetries further requests at     *)
(* most, and at most one after its caller has given up.                    *)
THEOREM OllamaRetriesAreBounded == AnswerSpec => []RetriesAreBounded
<1>1. AnswerInv => RetriesAreBounded
  BY DEF AnswerInv
<1> QED
  BY <1>1, AnswerInvariant, PTL

-----------------------------------------------------------------------------
(* The policy.                                                             *)

DecidedBy(rules, type, i) ==
    /\ i \in DOMAIN rules /\ Matches(rules[i], type)
    /\ \A j \in 1 .. i - 1 : ~Matches(rules[j], type)

(* SelectProvider is decided by the first rule that matches the event      *)
(* type, whatever the rules after it say, and selects nothing only when no *)
(* rule matches or the deciding one names no provider.                     *)
THEOREM FirstRuleDecides ==
    ASSUME NEW S, NEW rules \in Seq(S), NEW type
    PROVE  \/ /\ \A i \in DOMAIN rules : ~Matches(rules[i], type)
              /\ SelectProvider(rules, type) = NoProvider
           \/ \E i \in DOMAIN rules : /\ DecidedBy(rules, type, i)
                                      /\ SelectProvider(rules, type) = rules[i].provider
<1> DEFINE hits == {i \in DOMAIN rules : Matches(rules[i], type)}
<1>0. DOMAIN rules = 1 .. Len(rules) /\ Len(rules) \in Nat
  OBVIOUS
<1>1. CASE hits = {}
  BY <1>1 DEF SelectProvider
<1>2. CASE hits # {}
  <2>1. \E x \in hits : \A y \in hits : x <= y
    <3>1. hits \subseteq Nat
      BY <1>0
    <3> QED
      BY <1>2, <3>1, FirstPosition
  <2> DEFINE first == Min(hits)
  <2>2. first \in hits /\ \A y \in hits : first <= y
    BY <2>1 DEF Min
  <2>3. SelectProvider(rules, type) = rules[first].provider
    BY <1>2 DEF SelectProvider
  <2> HIDE DEF first
  <2>4. \A j \in 1 .. first - 1 : ~Matches(rules[j], type)
    BY <1>0, <2>2
  <2> QED
    BY <2>2, <2>3, <2>4 DEF DecidedBy
<1> QED
  BY <1>1, <1>2

(* Rules added at the end of a policy file never change where an event     *)
(* goes that a rule matched before.                                        *)
THEOREM LaterRulesDoNotMatter ==
    ASSUME NEW S, NEW rules \in Seq(S), NEW more \in Seq(S), NEW type,
           NEW k \in DOMAIN rules, Matches(rules[k], type)
    PROVE  SelectProvider(rules \o more, type) = SelectProvider(rules, type)
<1> DEFINE all == rules \o more
<1>1. /\ all \in Seq(S) /\ Len(all) = Len(rules) + Len(more)
      /\ DOMAIN all = 1 .. Len(all) /\ DOMAIN rules = 1 .. Len(rules)
      /\ Len(rules) \in Nat /\ Len(more) \in Nat
      /\ \A i \in 1 .. Len(rules) : all[i] = rules[i]
  OBVIOUS
<1> HIDE DEF all
<1>2. PICK i \in DOMAIN rules : /\ DecidedBy(rules, type, i)
                                /\ SelectProvider(rules, type) = rules[i].provider
  BY FirstRuleDecides
<1>3. i \in DOMAIN all /\ DecidedBy(all, type, i)
  BY <1>1, <1>2 DEF DecidedBy
<1>4. PICK j \in DOMAIN all : /\ DecidedBy(all, type, j)
                              /\ SelectProvider(all, type) = all[j].provider
  BY <1>1, <1>3, FirstRuleDecides DEF DecidedBy
<1>5. i = j
  <2>1. i \in Nat /\ j \in Nat /\ i >= 1 /\ j >= 1
    BY <1>1
  <2>2. ~(i < j) /\ ~(j < i)
    BY <1>3, <1>4, <2>1 DEF DecidedBy
  <2> QED
    BY <2>1, <2>2
<1> QED
  BY <1>1, <1>2, <1>4, <1>5 DEF all
=============================================================================
