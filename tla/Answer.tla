------------------------------- MODULE Answer -------------------------------
(***************************************************************************)
(* How Publish gets an answer (internal/bus/server.go from SelectProvider  *)
(* to the result of Execute): the policy selects a provider, a request to  *)
(* OpenAI is enhanced first (RagEnhancement), and the provider runs.  The  *)
(* mock provider answers at once, OpenAI is asked once, Ollama with        *)
(* retries (internal/providers/).                                          *)
(***************************************************************************)
EXTENDS RagEnhancement, PolicyEngine

CONSTANTS
    Rules,         \* the rules of the policy, in order
    Providers,     \* provider name -> "mock", "openai" or "ollama"
    RagProvider,   \* the provider whose requests are enhanced (openai-gpt4)
    HasEmbedding,  \* is an embedding provider set?
    Inputs,        \* the data that events carry, see Fields
    MaxRetries     \* 2 in the code

(* The fields of the data that decide what a provider does with it: a      *)
(* prompt, messages of the client's own, a model name, stream switched on. *)
Fields == {"prompt", "messages", "model", "stream"}

ASSUME AnswerAssumption ==
    /\ Providers \in [DOMAIN Providers -> {"mock", "openai", "ollama"}]
    /\ NoProvider \notin DOMAIN Providers
    /\ \A i \in DOMAIN Rules : Rules[i] \in Rule(DOMAIN Providers \cup {Rules[i].provider})
    /\ HasEmbedding \in BOOLEAN
    /\ Inputs \subseteq SUBSET Fields
    /\ MaxRetries \in Nat

VARIABLES
    apc,        \* call -> "free", "rag", a kind of provider, "asked",
                \* "request" or "delay"
    asked,      \* call -> what OpenAI is asked, None when it is not
    failed,     \* call -> failed requests to Ollama
    lastErr,    \* call -> the error of the last of them
    cancelled,  \* calls to Ollama whose context is done
    late        \* history: call -> requests made after that

retryVars == <<failed, lastErr, cancelled, late>>
answerVars == <<apc, asked, retryVars>>
allVars == <<vars, answerVars>>

AnswerInit ==
    /\ Init
    /\ apc = [c \in Calls |-> "free"]
    /\ asked = [c \in Calls |-> None]
    /\ failed = [c \in Calls |-> 0]
    /\ lastErr = [c \in Calls |-> None]
    /\ cancelled = {}
    /\ late = [c \in Calls |-> 0]

Go(c, where) == apc' = [apc EXCEPT ![c] = where]

-----------------------------------------------------------------------------
(* No rule, or a rule without provider: done.  A provider that is not      *)
(* there: an error.                                                        *)
Select(c, type, k) ==
    LET name == SelectProvider(Rules, type)
        enhance == name = RagProvider /\ name \in DOMAIN Providers /\ HasEmbedding
    IN
    /\ apc[c] = "free"
    /\ k # None => enhance
    /\ Begin(c, k)
    /\ Go(c, IF name \notin DOMAIN Providers THEN "free"
             ELSE IF enhance THEN "rag" ELSE Providers[name])
    /\ UNCHANGED <<asked, retryVars>>

Enhance(c) ==
    /\ apc[c] = "rag"
    /\ ContextDone(c) \/ Proceed(c)
    /\ UNCHANGED answerVars

FlightStep(k) == FlightReturns(k) /\ UNCHANGED answerVars

Enhanced(c) ==
    /\ apc[c] = "rag"
    /\ pc[c] = "idle"
    /\ Go(c, Providers[RagProvider])
    /\ UNCHANGED <<vars, asked, retryVars>>

Mock(c) ==
    /\ apc[c] = "mock"
    /\ Go(c, "free")
    /\ UNCHANGED <<vars, asked, retryVars>>

-----------------------------------------------------------------------------
(* Execute of the OpenAI provider.  The fields of the data matter only     *)
(* from here on, so they are chosen here.                                  *)

DataOf(c) == IF c \in NilData THEN {{}} ELSE Inputs

(* Mutant: the provider looks for the prompt the enhancement has removed.  *)
UserMessageFromPrompt(c, d) ==
    IF request[c].applied = "true" \/ "messages" \in d \/ "prompt" \notin d
    THEN "refused" ELSE "prompt"

(* The user message.  An enhanced request has messages of the right type,  *)
(* with the prompt or an empty string; messages of the client's own do not *)
(* have it.                                                                *)
UserMessage(c, d) ==
    IF request[c].applied = "true"
    THEN IF "prompt" \in d THEN "prompt" ELSE "empty"
    ELSE IF "messages" \in d \/ "prompt" \notin d THEN "refused" ELSE "prompt"

AskOpenAI(c, d) ==
    /\ apc[c] = "openai"
    /\ asked' = [asked EXCEPT ![c] = [data |-> d, message |-> UserMessage(c, d)]]
    /\ Go(c, "asked")
    /\ UNCHANGED <<vars, retryVars>>

(* An answer, an API error, no choices, or the refusal: Publish goes on or *)
(* returns the error.                                                      *)
OpenAIReturns(c) ==
    /\ apc[c] = "asked"
    /\ asked' = [asked EXCEPT ![c] = None]
    /\ Go(c, "free")
    /\ UNCHANGED <<vars, retryVars>>

-----------------------------------------------------------------------------
(* Execute of the Ollama provider.                                         *)

(* What can become of a request: an answer; a network error, also one of a *)
(* context that is done, or a status 500, 502 or 503; another error whose  *)
(* text mentions a timeout or a refused connection; another error.         *)
Errors == {"unavailable", "mentions", "other"}

(* isRetryableError goes by the text of the error.                         *)
Retryable(err) == err \in {"unavailable", "mentions"}

Ended(c) ==
    /\ Go(c, "free")
    /\ failed' = [failed EXCEPT ![c] = 0]
    /\ lastErr' = [lastErr EXCEPT ![c] = None]
    /\ cancelled' = cancelled \ {c}
    /\ late' = [late EXCEPT ![c] = 0]

(* extractParameters.                                                      *)
ValidParameters(d) == {"model", "prompt"} \subseteq d /\ "stream" \notin d

AskOllama(c, d) ==
    /\ apc[c] = "ollama"
    /\ IF ValidParameters(d)
       THEN Go(c, "request") /\ UNCHANGED retryVars
       ELSE Ended(c)
    /\ UNCHANGED <<vars, asked>>

RequestSucceeds(c) ==
    /\ apc[c] = "request"
    /\ Ended(c)
    /\ UNCHANGED <<vars, asked>>

(* Mutant: every error is retried.                                         *)
RequestFailsRetryAll(c, err) ==
    /\ apc[c] = "request"
    /\ IF failed[c] < MaxRetries /\ c \notin cancelled
       THEN /\ Go(c, "delay")
            /\ failed' = [failed EXCEPT ![c] = @ + 1]
            /\ lastErr' = [lastErr EXCEPT ![c] = err]
            /\ UNCHANGED <<cancelled, late>>
       ELSE Ended(c)
    /\ UNCHANGED <<vars, asked>>

(* An error that is not retryable, or that of the last attempt, is         *)
(* returned.  The delay that follows the others ends at once when the      *)
(* context is done already.                                                *)
RequestFails(c, err) ==
    /\ apc[c] = "request"
    /\ IF Retryable(err) /\ failed[c] < MaxRetries /\ c \notin cancelled
       THEN /\ Go(c, "delay")
            /\ failed' = [failed EXCEPT ![c] = @ + 1]
            /\ lastErr' = [lastErr EXCEPT ![c] = err]
            /\ UNCHANGED <<cancelled, late>>
       ELSE Ended(c)
    /\ UNCHANGED <<vars, asked>>

(* When the context ends together with the delay, either case is taken.    *)
DelayOver(c) ==
    /\ apc[c] = "delay"
    /\ Go(c, "request")
    /\ late' = [late EXCEPT ![c] = IF c \in cancelled THEN @ + 1 ELSE @]
    /\ UNCHANGED <<vars, asked, failed, lastErr, cancelled>>

DelayCancelled(c) ==
    /\ apc[c] = "delay"
    /\ c \in cancelled
    /\ Ended(c)
    /\ UNCHANGED <<vars, asked>>

(* The caller of Publish cancels, or its deadline passes.                  *)
Cancel(c) ==
    /\ apc[c] \in {"request", "delay"}
    /\ c \notin cancelled
    /\ cancelled' = cancelled \cup {c}
    /\ UNCHANGED <<vars, apc, asked, failed, lastErr, late>>

-----------------------------------------------------------------------------
ProviderStep(c) ==
    \/ Enhanced(c) \/ Mock(c) \/ OpenAIReturns(c)
    \/ \E d \in DataOf(c) : AskOpenAI(c, d) \/ AskOllama(c, d)
    \/ RequestSucceeds(c) \/ \E err \in Errors : RequestFails(c, err)
    \/ DelayOver(c) \/ DelayCancelled(c)

AnswerNext ==
    \/ \E c \in Calls, type \in EventTypes \cup {NoType}, k \in QueryTexts :
          Select(c, type, k)
    \/ \E c \in Calls : Enhance(c) \/ ProviderStep(c) \/ Cancel(c)
    \/ \E k \in Keys : FlightStep(k)

(* The handler runs on; a request to Ollama ends by the 30 seconds of its  *)
(* HTTP client, one to OpenAI is assumed to end.  An enhancement goes on,  *)
(* as every wait in it has the deadline ragTimeout sets, and so does a     *)
(* flight, which ends by the deadline of the first caller.                 *)
AnswerSpec ==
    /\ AnswerInit /\ [][AnswerNext]_allVars
    /\ \A c \in Calls :
         /\ WF_allVars(ProviderStep(c))
         /\ WF_allVars(Proceed(c) /\ UNCHANGED answerVars)
    /\ \A k \in Keys : WF_allVars(FlightStep(k))

-----------------------------------------------------------------------------
(* Whatever step of the enhancement fails, is cut off by its deadline or   *)
(* succeeds, OpenAI is asked the prompt of the event ("graceful            *)
(* degradation"); without one it is asked nothing, or an empty question    *)
(* when the enhancement went through.  Messages of the client's own are    *)
(* refused unless the enhancement replaced them.                           *)
PromptReachesModel ==
    \A c \in Calls : asked[c] # None =>
       /\ asked[c].message = "prompt" => "prompt" \in asked[c].data
       /\ asked[c].message = "refused" =>
            "prompt" \notin asked[c].data \/ "messages" \in asked[c].data
       /\ asked[c].message = "empty" =>
            "prompt" \notin asked[c].data /\ request[c].applied = "true"

(* The retry loop: at most MaxRetries requests follow the first, each      *)
(* after an error that may go away, and once the caller has given up at    *)
(* most one, when its cancellation meets the end of a delay.               *)
RetriesAreBounded ==
    \A c \in Calls : apc[c] \in {"request", "delay"} =>
       /\ failed[c] <= MaxRetries
       /\ failed[c] > 0 => lastErr[c] \in {"unavailable", "mentions"}
       /\ late[c] <= 1

(* Every call comes to an end: whichever provider is selected, also when   *)
(* it waits for another call's embedding and its own client has gone.      *)
AnswerEnds == \A c \in Calls : apc[c] # "free" ~> apc[c] = "free"
=============================================================================
