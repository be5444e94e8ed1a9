# PCAS in TLA+

TLA+ models of PCAS: how events are published, answered, stored, embedded,
searched and delivered, how the server process stops and starts, and what the
client programs make of it. Every
module is translated from the Go source under `src/`; `PROJECT.json` maps each
definition to its lines.

## 1. The system

`pcas serve` is one process: a gRPC server around a policy engine, a set of
compute providers, a SQLite-backed memory with a vector index, and a registry of
subscribers.

| component | state | operations | interacts through |
|---|---|---|---|
| Subscribe / broadcast (`internal/bus/server_subscribe.go`) | `subscribers` map under an RWMutex, one channel of 100 per handler | `Subscribe`, its deferred clean-up, `broadcastEvent` | called by gRPC and by `Publish`; channels |
| Publish and vectorization (`internal/bus/server.go`, `vectorize.go`, `util.go`) | `vectorizeWG`, the goroutines it counts | `Publish`, `vectorizeEvent`, `WaitForVectorization`, `Search` | storage, policy, providers, broadcast |
| InteractStream (`internal/bus/server_interactstream.go`) | per call: two data channels of 10, an error channel of 2, the stream's context | handshake, receiving goroutine, provider goroutine, forwarding loop | provider, client |
| RAG (`internal/bus/server_rag.go`) | LRU embedding cache, rate limiter, singleflight group | `applyRAGEnhancement` | `Publish`, storage, embedding provider |
| Memory bus (`internal/bus/memory/bus.go`) | `subscribers` map under an RWMutex | `Publish`, `Subscribe`, `GetSubscriberCount` | gRPC |
| Storage (`internal/storage/sqlite/provider_pure.go`) | tables `nodes` and `edges`, the in-memory HNSW index behind `indexMu`, the index file | `NewProvider`, `StoreEvent`, `StoreVector`, `CreateEdge`, `AddEmbeddingToEvent`, `QuerySimilar`, `Close`, plain reads | bus server, serve command |
| Serve command (`cmd/pcas/cmd/serve.go`) | the signal goroutine, `shutdownComplete` | start, signal, shutdown sequence, exit | all of the above |
| Policy engine (`internal/policy/engine.go`) | an immutable rule list | `SelectProvider` | `Publish`, `InteractStream` |
| Providers (`internal/providers/`) | none between calls | `Execute` (mock, OpenAI, Ollama with retries), `CreateEmbedding` | remote services |
| Go SDK (`pkg/sdk/go/`) | a connection; per subscription a goroutine and an unbuffered channel | `Subscribe`, `Emit`, `Close` | gRPC, the application |
| `pcasctl emit` (`cmd/pcasctl/cmd/emit.go`) | a receiving goroutine, `subReady`, three timers | subscribe, publish, linger | gRPC |
| Applications (`examples/logger-dapp`, `hello-dapp`) | a context that Ctrl-C cancels | receive loop, heartbeats | Go SDK |

What is hard about it:

- *Concurrency.* Publish handlers, Subscribe handlers and vectorizations run at
  the same time and share the registry, the tables and the index.
- *Channels.* They fill up, and they are closed by one goroutine while others
  send; a send on a closed Go channel ends the process.
- *Failure.* No operation of storage uses a transaction. A call consists of
  several statements, each of which can fail, and the process can die between
  any two. The index is saved only by an orderly shutdown.
- *Time.* Embedding, answering, retrying and the clients' waits all have limits
  that race with what they limit.
- *Shutdown.* The order of GracefulStop, the wait group and Close decides
  whether acknowledged events survive.

What makes each part correct: a bus offers every broadcast to every open stream
once, in order, and waits for nobody; storage never links what is not stored,
never changes a row, and keeps a user's query to that user's events; a search
misses an embedded event only for a reason the code gives, and pairs each event
with its own score; the user's prompt reaches the model whatever becomes of its
enhancement; an acknowledged fact survives a shutdown; a client shows what it was
sent; every call, goroutine and process that should end does.

## 2. Modules

| module | models | role |
|---|---|---|
| `SubscriberChannels` | what both buses share: registry, channels, receive loop, broadcast | state, actions, delivery properties |
| `ServerSubscribe` | `server_subscribe.go` | registration that overwrites, clean-up in two parts |
| `MemoryBus` | `memory/bus.go` | registration that rejects, clean-up in one critical section |
| `EventDelivery` | nothing in the code: the contract of a bus | abstract specification of the two above |
| `Storage` | `provider_pure.go` | rows, edges, index and index file; statements as steps; crash and restart |
| `Search` | the Search call in `server.go`, over `Storage` with an exact index | one call's steps beside writers; extends `Storage` |
| `Server` | `server.go`, `vectorize.go`, `serve.go` | Publish, vectorization, streams and shutdown; extends `Storage` and implements its specification |
| `InteractStream` | `server_interactstream.go` | one bidirectional call |
| `RagEnhancement` | `server_rag.go`, `BatchGetEvents` | concurrent enhancement calls around a shared embedding cache |
| `PolicyEngine` | `engine.go` | rule matching as operators |
| `Answer` | `server.go` from policy to `Execute`, `internal/providers/` | concurrent answers; extends `RagEnhancement` and `PolicyEngine` |
| `ClientApps` | the SDK, the example applications, `pcasctl emit` | client processes against `EventDelivery` as their server; extends it |
| `MC*` | | constants, symmetry and the terminal stuttering step for TLC |
| `*Proofs` | | inductive invariants and theorems |

### Correspondence

**SubscriberChannels.** An element of `Streams` is one invocation of the
Subscribe handler and names the channel it makes; `ClientOf` gives the client id
of its request. `pc` is the position of the handler: `idle`, `loop` (at its
select), `send` (in `stream.Send`, `held` is the event), `cleanup`, `close`,
`done`. A broadcast holds the read lock from `BeginBroadcast` to `EndBroadcast`
and visits the registered clients in any order (`SendTo`), one step each, so
broadcasts interleave with each other and with receivers. An action that takes
the write lock requires that no broadcast is under way. A full channel drops the
event. When the context is done and an event is buffered, either case of the
select may be taken. `before` is a history variable: the broadcasts that were
over when this one began. The refinement mapping to `EventDelivery` (`Delivery`:
a stream is open while its handler is live, its mailbox is what the handler holds
and has buffered, an audience is the handlers a broadcast has still to visit) is
here too, as both buses use it.

**ServerSubscribe.** `Subscribe` overwrites the entry, `Unregister` deletes by
client id under the lock, `CloseChan` closes after the unlock. `ConcurrentReuse`
says whether a client id may be used while an earlier handler with that id still
runs; the server does not check.

**MemoryBus.** `AcceptSubscribe`, `RejectSubscribe` (empty id, or id registered) and
`Unsubscribe` (delete and close in one critical section).

**Storage.** Table `nodes` is `events` (id to row) and `vectors` (ids); table
`edges` holds pairs of vector id and event id. A row keeps the user id, the field
a filter looks at. A writer `t` goes through
`InsertEvent` or the look-up of `AddEmbeddingToEvent`, then `InsertVector`,
`AddToIndex`, `CreateEdge`; `WriteFails` ends the call at any statement. A query
goes through `QuerySimilar` (select the eligible events), `LocateVectors` (read
lock, edges of these), `SearchIndex` and `CollectResults`. The iterations over
rows never ask `rows.Err`, so `RowsRead` lets a SELECT return any part of its
rows without an error. `HnswSearch` returns
an arbitrary set of at most k indexed vectors. `NewProvider` loads the index file
as it is (`LoadIndex`) or rebuilds and saves (`RebuildIndex`). The constant
`MissingFileIsError` covers both behaviours of the index library for a missing
file; a file that cannot be read leads to a rebuild under either. `ProcessEnds`
drops the memory and keeps tables and file. `given` is a history variable: the
event whose insertion succeeded. Event ids and generated vector ids
(`vec_<ns>_<dim>`) are taken to be different, although they share a key column.

**Server.** An element of `Reqs` is one Publish call; it also names the
vectorization it may start, which is a writer of Storage. `hpc` is the handler's
position (`store`, `vectorize`, `dispatch`, `execute`, `respond`, `broadcast`,
then `ok` or `error`; `lost` when the process dies), `vpc` that of its
vectorization, `wg` the wait group's counter. `shutdown` is the signal goroutine:
GracefulStop, WaitForVectorization, Close. `main` is `runServer`: serving, then
waiting on `shutdownComplete`. A broadcast reaches some of the open streams;
which ones exactly is the matter of ServerSubscribe. With `MayFail` each call of
storage, provider or embedding may fail. `failed` and `unsaved` are history
variables: the requests one of whose calls failed (the code logs most of these
failures and goes on), and whether a process has ended without saving its index.
The properties about survival except these and nothing else.

**Search.** A reader of Storage is one Search call. `spc` is its position
(`embed`, `query`, `fetch`, then `ok` or `error`). `Storage` lets the index find
anything; here `ExactSearch` returns the nearest vectors by `Similarity`, so that
what an answer lacks is the code's doing: `FetchCount` is topK, or ten times that
(`OverFetch`) for a filtered query, whose other users' hits are dropped
afterwards. The loop then fetches the result's events one by one; a look-up that
fails is skipped. `known`, `missed` and `cut` are history variables: the links
that could be found when the query began, the look-ups that failed, and the calls
with an iteration that broke off. `NearestOrCrowdedOut` says that these and
crowding out by nearer vectors are the only reasons for a known event to be
missing.

**InteractStream.** `recv` and `prov` are the two goroutines, `main` the handler.
The provider is external (no provider in the repository streams) and assumed to
answer each chunk with one chunk, to heed its context and to return when its input is
closed. Chunks are numbers, and the messages to the client are records of a kind
and such a number, so that `SuccessIsComplete` can say which chunk is at which place.

**RagEnhancement.** An element of `Calls` is a goroutine that runs Publish
handlers one after the other; `pc` is its position in `applyRAGEnhancement`
(`lookup`, `limit`, `flight`, `set`, `query`, `fetch`). `lru` and `cache` are the
list and the map of `embeddingCache`; `Hit` and `Set` are its two operations, each
atomic under its mutex, with `ToFront` for the list's MoveToFront and PushFront. An
embedding is a function of the text, so an item is its
key. `flight[k]` is the call whose context runs CreateEmbedding for `k`; everyone
`Aboard` gets its result, and a waiter cannot leave early. The rate limiter may
refuse at any time. Storage enters by the contract `Storage` proves: at most
`TopK` events the filter admits, the call's own event possibly among them.
`Score` and `Size` give similarity and rendered length; `TokensBefore` adds up
`currentTokens` event by event, and `RenderEvents` keeps the longest prefix that
fits. A call in `NilData` writes to a map its caller never
sees. The branch for an empty context is left out: the header makes it
unreachable. `used` is a history variable: all keys by their last use.

**PolicyEngine.** `SelectProvider` takes the first rule that matches: its own
type, if it has one, or a type of its `any_of` list.

**Answer.** `Select` begins a call of `RagEnhancement` when the rule's provider is
the one that is enhanced, and otherwise goes straight to the provider. `asked` is
what OpenAI is sent, decided by the fields of the event's data (`Fields`) and by
whether the enhancement was applied. Ollama's retry loop is `request` and
`delay`, with `failed` requests so far, `lastErr`, and the context's end
(`cancelled`) at any time; `late` counts requests made after it.

**ClientApps.** A client is one process with one Subscribe call; `kind`, chosen
once, says which program it is. `main` and `receiver` are its goroutines, `hand`
the event the SDK's goroutine offers on its unbuffered channel. Its server is
`EventDelivery`, the contract `ServerSubscribe` implements, with Publish calls
on top of which only the response is broadcast (`Register` may come long after the client has
its stream). Clients meet only in the bus, so one of each kind in turn, with
others that publish, is enough.

## 3. Runs

Bounds are the smallest at which each case occurs: a channel of one slot is full
after one event, two handlers with one client id are enough for every conflict
of registrations, two writers and a query for every conflict in storage, two
starts for a restart after a crash, three query texts for an eviction from a
cache of two, three vectors of another user's event to crowd out one's own.

| run | instance | result |
|---|---|---|
| `server_subscribe` | 2 handlers with ids of their own, 2 broadcasts, capacity 1 | no send on a closed channel; live streams stay registered; no reordering and no duplicate; the server implements `EventDelivery`; broadcasts end, handlers of gone clients return |
| `server_subscribe_reuse` | 2 handlers that share an id at once | **violation**, finding 1 |
| `memory_bus` | 4 handlers: two with one id, one other, one empty id; 2 broadcasts, capacity 1 | registry is exactly the running handlers; implements `EventDelivery` |
| `search` | a stored event with 3 vectors, a new one, 2 writers, 1 Search call, 2 users, topK 2, over-fetch 2; failing statements and saves, cut iterations, crash | graph well formed, rows immutable, user isolation; scores belong to their events; what is missing was crowded out or named |
| `storage_crash` | 1 writer, 3 starts, crashes | **violation**, finding 2 |
| `server` | 2 Publish calls with one event id (one is answered), 1 stream, 2 starts; every call, save, Serve and the process may fail | acknowledged facts survive an orderly shutdown unless one of their own calls or a save failed; responses are stored before they are broadcast, with the same exception; storage is closed last; implements `StorageSpec`; accepted calls return; a signal ends the process once clients have left |
| `server_stream_shutdown` | 1 call, 1 stream, nothing fails | **violation**, finding 3 |
| `interact_stream` | 3 chunks, channels of 1, error channel of 2 | success means all output delivered in order; goroutines and call end |
| `interact_stream_error` | the same | **violation**, finding 4 |
| `answer` | 2 goroutines, calls without bound, 4 rules (one hidden, one without provider), 3 kinds of data, 3 texts, cache of 2, 5 events, topK 2, 2 retries | the cache holds the keys used last; a context has only the user's other events, the best ones, within the limit; the prompt reaches the model; retries are bounded; every call ends |
| `clients` | one client of any kind, its own Publish call, one other that is answered and one that is not, capacity 1 | what is delivered is shown in order; what is offered is shown; clients end |
| `clients_race` | one `pcasctl emit` | **violation**, finding 5 |

Deadlock checking is off in the runs whose specification states fairness and has
no terminal stuttering step (`server_subscribe`, `server`, `interact_stream`,
`clients` and the violations beside them): there a handler, a call or a process
simply ends, and the liveness properties say that it does. `search`,
`memory_bus` and `storage_crash` end in an explicit `Finished` step and `answer`
never ends, so in them a deadlock would be reported. Symmetry is used only where
no temporal property but an action property or a refinement of a safety
specification is checked, on sets whose elements no definition tells apart.

Each property also has a mutant (the operators marked *Mutant* beside the action
they alter): a plausible bug under which the run fails.

### Fairness

- Steps of the server's own goroutines that stay possible are taken (WF): the
  Go scheduler is fair.
- `ContextDone`, `Unregister`, `Unsubscribe` get SF: Go's select picks at random
  among ready cases, so a ready case is not starved, and a waiting writer of an
  RWMutex keeps new readers out.
- `stream.Send` may hang on flow control as long as the client is there; it is
  fair only after the context is done.
- The embedding call has a 30 second timeout, and providers are assumed to
  answer or fail in the end; InteractStream's client is assumed to take what it
  is sent or to go away, and its provider to heed its context.
- A step of `applyRAGEnhancement` is taken in the end, as everything it waits for
  has the deadline `ragTimeout`; a flight ends by the first caller's deadline.
- A provider returns: Ollama's HTTP client has a 30 second timeout, and its
  delays are timers. OpenAI's client sets no timeout of its own, so that its
  service answers or fails is an assumption.
- The clients' timers fire, their goroutines run, and the server serves an
  accepted Publish. The server sends while its client receives. Whether a call of
  Subscribe ever comes back is left open, unless its context is done.
- Nothing else is assumed of clients, and nothing of signals, crashes and failures.

### Findings

1. A client that reconnects while its old handler is still running ends up
   connected but unregistered: registration overwrites, clean-up deletes by id.
2. After a crash the index file is loaded without a comparison with the tables;
   what was embedded since the last orderly shutdown is never found again.
3. A connected subscriber keeps a signalled server from ending: GracefulStop
   waits for a stream that ends only when its client leaves.
4. A failing provider's error and its closed output are ready in one select: the
   client may be told that the call succeeded.

5. `pcasctl emit` says "Subscription established" when its call returns a stream,
   which is before the server has registered it: the response it waits for can be
   broadcast without it.

More disagreements were met while reading and have no run of their own.

- *Published events are never broadcast*, only responses are. `subscribe.go:16`
  of the SDK says a client "will receive all events", `logger-dapp/README.md:37`
  "Any events emitted by other clients will also be logged", and
  `docs/getting-started/hello-dapp-tutorial.md:205` "You should see two events".
- When Serve fails by itself, `runServer` waits for a shutdown nobody started
  (`serve.go:157`): in the run `server` the process then ends only after a signal.
- `serve.go:56-70` never initialises a provider of type `ollama`, to which the
  policy and the docs route; `Answer` models the provider as its code stands.
  Its guide (`ollama-provider.md:89`) promises `ErrTimeout` when a request exceeds
  its timeout; the code reports that as `ErrProviderUnavailable` and returns
  `ErrTimeout` only when the context ends during a delay.
- The tutorial emits `{"text": ...}`; OpenAI's provider needs a `prompt`. A
  client's own `messages` are refused unless the enhancement has replaced them.
- `StoreEvent` does not store attributes (`provider_pure.go:230`), so the
  attribute condition of a filter matches nothing, although `event.proto:70`
  offers them for retrieval.
- `tagging-ontology.md:89` describes filtering before the search; the code
  searches for topK*10 and filters afterwards.
- An event published or embedded twice has two vectors, and one Search may
  return it twice.
- `pcasctl replay` selects from a table `events`; the schema has `nodes`.
- `server_rag.go:21` says "approximately 4000 tokens" of `maxContextTokens`,
  16000, which `renderEventsMarkdown` compares with a number of tokens, not of
  characters.
- A request without data loses its enhancement (`server_rag.go:273`).

## 4. Proofs

The theorems hold for every value of the constants that satisfies the
assumptions in the modules: capacities and bounds are natural numbers, `None` is
a value of its own, `ClientOf`, `EventOf`, `Score` and the like are functions,
the header alone fits the token limit, the error channel has two places as in
the code. TLC evaluates these assumptions on every instance. The sets of calls,
handlers, events and users may be infinite. Every safety invariant that a run
checks is proved, and so are the refinements.

| module | inductive invariant | what follows |
|---|---|---|
| `BusProofs`, server | `IInv`, `OrderInv`, `UInv` | `TypeOK`, `NoSendOnClosed`, `BroadcastOrder`; with unique ids `LiveStreamRegistered`, `SoleConnectionRegistered`, `ImplementsDelivery` |
| `BusProofs`, memory bus | `MInv`, `OrderInv` | `NoSendOnClosed`, `RegistryIsLiveStreams`, `SoleConnectionRegistered`, `BroadcastOrder`, `ImplementsDelivery` |
| `StorageProofs` | `StorageInv`, `IndexFollowsEdges` | `StorageTypeOK`, `EdgesResolve`, `OneEventPerVector`, `IndexIsStored`, `UserIsolation`, `RowsAreImmutable`; without crashes and failing saves `EmbeddedEventsSearchable` |
| `ServerProofs` | `ServerInv` | `TypeOK`, `ImplementsStorage` and with it what is proved of storage, `StorageClosedLast`, `BroadcastResponsesStored`, `AcknowledgedFactsSurvive` |
| `SearchProofs` | `SearchInv` | `StorageSpec`, `UserIsolation`, `RowsAreImmutable`, `ScoresMatchEvents`, `NearestOrCrowdedOut`, `AnswersStayWithUser` |
| `InteractStreamProofs` | `StreamInv` | `TypeOK`, `SuccessIsComplete`, `ErrorsNeverBlock` |
| `AnswerProofs` | `AnswerInv` | `TypeOK`, `KeepsRecentlyUsed`, `OwnHistoryOnly`, `BestEventsKept`, `ContextFits`, `PromptReachesModel`, `RetriesAreBounded`; no invariant needed: `FirstRuleDecides`, `LaterRulesDoNotMatter` |
| `ClientAppsProofs` | `CInv`, `ContractInv`, `ResponsesOnly` | `ShownIsDelivered`, `ShownOnce`, `RegisteredIsReached`; of the contract `DeliveredOnce` |

**The buses** (`SubscriberChannelsProofs` has the steps they share).
`NoSendOnClosed` is not inductive: it says nothing of channels no broadcast is
about to visit. `IInv` adds that a broadcast visits only while it is under way
(so no clean-up can run: `VisitsUnderLock`), that what it has still to visit is
registered, that a registered channel belongs to a handler which has not begun to
close it, and that a closed channel belongs to a handler that is done. For the
server this needs care because an entry may belong to another handler with the
same id: deleting it removes more than the handler's own, but never leaves a
closed channel registered. `OrderInv` says why `BroadcastOrder` is kept: all that a
stream was given has begun to be broadcast, a broadcast has not given its event to
a handler it has still to visit, and a broadcast that was over before another
began stays over. That a live handler is registered is false for the server when a client
id is reused (finding 1), so `ServerRegistersLiveStreams` and
`ServerImplementsDelivery` assume `~ConcurrentReuse`; the other theorems about
the server do not. The memory bus rejects a registered id, so `MInv` (a live
handler is registered) is inductive there without an assumption, and its theorems
have none. The refinement takes the steps one by one: registration is the
contract's `Join`, the end of a handler's loop its `Leave`, the steps of a
broadcast `Start`, `Offer` and `Finish`, a returning Send `Deliver`, and every
other step leaves the mapped state alone.

**StorageProofs.** `StorageInv` has three parts. *Types.* *Graph*: the
properties `EdgesResolve`, `OneEventPerVector` and `IndexIsStored`, strengthened
by the fact that a writer between inserting its vector and creating its edge
owns the vector (it is stored, unlinked, and no other writer has it), that it
works for a stored event, and that a row is what `StoreEvent` makes of the given
event. The primary key is what gives ownership: a second writer that draws the
same vector id fails. *Queries*: at each of its steps a query restricted to a
user holds only events of that user or vectors linked to one. The step that
needs the graph is the last: a hit is linked to an event of the user, and as a
vector embeds one event only, the SELECT returns no other. The action property
`RowsAreImmutable` follows from the lemma that rows only grow.

`EmbeddedEventsSearchable` is false (finding 2); `OrderlyRestartsKeepSearchable`
says exactly what it takes: with `~AllowCrash` and `~SaveMayFail` it is an
invariant, whichever way the index is loaded. `IndexFollowsEdges` is the reason:
a writer indexes a vector before it links it, and while no provider is open the
file holds the vector of every link.

**ServerProofs.** Every step of the server is a step of `StorageSpec` or leaves
storage alone, provided that a vectorization uses a writer of its own
(`WriterUse`, part of `ServerInv`): so the theorems about storage hold of the
running server. The counter of the wait group equals the number of goroutines
under way, hence `WaitForVectorization` returns when there are none, and Close
comes last. `AcknowledgedFactsSurvive` needs to follow an event through the
phases of its request: which of stored, linked and indexed holds at each position
of the handler and of its vectorization, and that the index file of a process that
ended in order holds what its index held.

**SearchProofs.** `KnownTracked` says where a link that could be found when the
query began is at each step of the call: among the eligible events, the vectors
to look for, the hits, what is to be fetched, or in the answer, unless one of the
named reasons took it away. Writers only add to tables and index meanwhile, which
can make the crowding worse and never undoes it. That an answer keeps to its user
follows from the isolation of queries, as a fetched event is one the query found.

**InteractStreamProofs.** The chunks are numbered, so order and completeness are
statements about positions: each of the two channels holds the numbers that
follow those that have left it. With the channel empty and closed, all of what the
provider emitted is in `out`. `OneErrorEach` shows that two places in `errChan`
are enough.

**AnswerProofs.** `CacheInv` relates the list of the cache to the list `used` of
all keys by their last use: the one is a beginning of the other, as long as the
capacity allows, and no key occurs twice. Moving a key to the front does the same
to both lists, as a cached key has the same place in both; a new key may come from
beyond the end of the cache's list, which changes nothing before that. For the
contexts, a call that is under way has not written its request yet, what it found
is its user's, and the fetched sequence is onto what was found (an injection
between finite sets of one size is). What is rendered is a prefix; its count of
tokens is compared with that of the whole sequence by looking at the first
position where a claim would fail (`FirstPosition`), which stands in for
induction. The handlers' part says that a call outside the enhancement is idle in
it, so a flight that fails for everybody aboard never rewrites a request that was
already asked. The theorems about the policy are about `SelectProvider` itself,
for every list of rules; that there is a first match is `FirstPosition` again.

**ClientAppsProofs.** `ShownIsDelivered` is not inductive: a goroutine that was
started again after it ended could have left an event out. `GoroutineInv` adds
that it starts only once (while `main` is at its start there is none), that it has
an event in its hands exactly while it offers one, so that a Recv never
overwrites one, and that it has not received more than was delivered; more being
delivered does not change the prefix received so far. The steps fall into four
kinds (Recv, HandOver, a goroutine that starts, one that ends) and those that
leave the goroutines alone. The rest is about the contract: what a stream has
accepted (`Accepted`: delivered or waiting) is never offered to it again
(`ContractInv`), and only responses of calls that do not fail are broadcast
(`ResponsesOnly`), which gives `ShownOnce`. `RegisteredIsReached`, an action
property, is what remains of `EstablishedHearsResponse` (finding 5): a client
that is registered when a broadcast begins is reached by it.

Only model-checked: all liveness properties (fairness and ENABLED are out of the
prover's reach): `BroadcastNeverBlocks`, `DisconnectReclaims`, `PublishReturns`,
`SignalEndsOnceClientsLeave`, `GoroutinesTerminate`, `ClientEndEndsCall`,
`AnswerEnds`, `OfferedIsShown`, `ClientsEnd`. What a run refutes is of course not
proved; the theorems with the assumptions `~ConcurrentReuse`, `~AllowCrash` and
`~SaveMayFail` say where it does hold.

## 5. Not modelled

- `GetAllEvents`, which nothing calls; the time, session and attribute
  conditions of filters, which restrict a query as the user does.
- Text extraction, prompts, response contents, logging, printing.
- Reading configuration and building providers: a start succeeds.
  `SelectProviderForStream` repeats `SelectProvider` and has no caller.
- The rate limiter's tokens: it may refuse at any time.
- A second signal (ignored by the code) and forced kills other than a crash.
- `pcasctl search` (one call with a timeout) and `replay` (see above).
- `examples/multi-ai-chatbot`: it does not compile (an unused import and an unused
  variable), so it has no behaviour.
- `poc/vector_search`, a benchmark of the index library, and generated code.

## 6. State of the plan

Every component that can be modelled is, every safety property that a run checks
is proved for all values of the constants, and the refinements are proved
step by step. Liveness stays with TLC.
