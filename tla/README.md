# A verification of the knowledge-base chat service

The program in `src/app` is a FastAPI service: a client posts a message to a
chat, a model answers it with the help of two knowledge-base tools, and the
client may watch the chat's events over server-sent events. Everything is kept
in one SQLite database. This directory holds TLA+ modules that model it, the
TLC configurations that check them on small instances, and theorems that the
TLA+ proof system checks for every value of the constants.

* [Inventory](#inventory): the parts of the system and what makes them correct
* [Modules](#modules): which module models what
* [Runs](#runs): what TLC checks, the bounds, the findings
* [Fairness and deadlock](#fairness-and-deadlock)
* [Proofs](#proofs)
* [Mutants](#mutants)
* [Not modelled](#not-modelled) and [Plan](#plan)

To repeat a run: `tlc -config X.cfg M` with the module and configuration of
the table below; to repeat the proofs: `tlapm M_proofs.tla`.


## Inventory

One worker process runs an asyncio event loop (`Dockerfile` starts uvicorn with
`APP_WORKERS`, by default 1; `k8s/deployment.yaml` asks for one replica, while
`k8s/hpa.yaml` would allow more). Two coroutines interleave only where one of
them awaits. They share no memory that they write, except through the
database: each repository call opens a connection of its own, runs one
transaction and closes it (`repositories/base.py`). SQLite gives a transaction
one writer at a time, cascades deletions, and raises when a writer waits longer
than the busy timeout.

| Component | State | Operations | What is hard | What makes it correct |
|---|---|---|---|---|
| Event feed (`api/v1/events.py`, `repositories/events.py`, `services/notification_service.py`) | rows of `chat_events`; per connection, a cursor `(created_at, id)` and the fetched page | emit an event; open a stream with or without `Last-Event-ID`; poll a page; yield; list | the stamp is drawn before the transaction; connections are lost with frames on the wire; rows with equal stamps straddle a page; the chat is deleted under the stream | each event at most once and in order; none skipped; everything arrives while the connection holds |
| Message processing (`services/message_service.py`, `api/v1/messages.py`, `repositories/messages.py`, `services/context_service.py`, `llm/prompts.py`) | rows of `messages` and their metadata; in memory, one flow per POST | store the question, tell, read the history, guard, ask, call tools, guard, store the answer, tell, reply | two POSTs to one chat at any await; deletion of the chat under both; a failing statement at any of a dozen places; death of the process | rows, events, metadata and HTTP reply never tell different stories; a POST ends; the prompt is the conversation |
| Tool executor (`llm/tool_executor.py`, `llm/tools.py`) | none of its own; per flow, a `ToolExecutionContext` | search, read, and their guards | one executor serves all requests; the context is read and written around awaits | only what the last search of the same flow returned is read, twice at most |
| Guardrails (`guardrails/`) | none | check the input, check the output | their place in the flow | a rejected message is not sent, and its sender is told |
| Knowledge index (`knowledge/sync.py`, `knowledge/loader.py`, `repositories/knowledge.py`, `config/bootstrap.py`) | `kb_documents`, `kb_fts` | list files, compare checksums and models, delete orphans, embed batches, upsert | transactions of several statements; death, failure or another process between any two; partial or unordered answers of the provider; files that change meanwhile | the two tables agree; vectors belong to the file and the content beside them; a finished sync repairs what came before; nothing unchanged is embedded |
| Retrieval (`knowledge/retriever.py`, `knowledge/ranking.py`) | none | full-text and vector search, fusion | rows read on two connections; vectors of two models | a ranking of rows that exist |
| Chats, and the listings of chats and messages (`api/v1/chats.py`, `services/chat_service.py`, `repositories/chats.py`) | rows of `chats` | create, get, list, delete | deletion cascades under everything else; pages by offset shift while a client walks them; a page and its total are two reads | nothing of a deleted chat is left; a walk misses and repeats no more than what changed meanwhile |
| Provider client (`llm/client.py`) | none | complete, embed | what an outside service may answer | errors are of one kind |
| Persistence base (`repositories/base.py`, `db/`) | connections | open, execute, commit or roll back, close | the write lock, the busy timeout | a failed transaction leaves nothing |
| Settings, logging, middleware, schemas, health | none that two steps share | | | |

How they interact: the routes call the services; `MessageService` calls the
repositories, the model and the tool executor, and emits events through
`NotificationService`, which only inserts rows; the stream endpoint only reads
rows. So the emitter and the subscriber meet in `chat_events`, two POSTs meet
in `messages`, and the sync meets itself, in another process or another life,
in the two tables of the index.

The hazards of this code, each at its line, are listed in `PROJECT.json`
(`hazards`), with the properties that watch them or the reason none does.


## Modules

| Module | Models | Extends / uses |
|---|---|---|
| `EventStream` | the event feed of one chat | `EventFeed` by refinement |
| `EventFeed` | abstract: what a subscriber is promised | |
| `MessageService` | the POSTs to one chat, from the route to the rows | `ToolExecutor`; `MessageLifecycle` by refinement |
| `ToolExecutor` | the guards and effects of a tool call on its context | |
| `MessageLifecycle` | abstract: what a client may be told about a message | |
| `KnowledgeSync` | the startup of a process and every write to the index | `KnowledgeIndex` by refinement |
| `KnowledgeIndex` | abstract: the index as those see it who only read it | |
| `Retrieval` | one search over an index that another process changes | `KnowledgeIndex`, in its proofs |
| `Listing` | the chats, their messages, and a client that walks a listing page by page | |
| `MC...` | the instances for TLC | the module named |
| `..._proofs` | theorems and their proofs | the module named |
| `MessageAnswers_proofs`, `MessageLifecycle_proofs` | more of them about `MessageService`: its answers and accounts, its refinement and its verdicts | each the proofs before it |

### EventStream

An emitter is a request inside `_emit`. `Stamp` is the part of `create_event`
before its connection is open (`id` and `created_at` are drawn there), `Commit`
is the transaction, `Abort` its failure. The clock (`now`) stands still or runs
on; a row is committed at a later instant than the one it was stamped at, since
opening a connection, inserting and committing take longer than the microsecond
that a stamp resolves. The subscriber is the
generator of `stream_events`: `OpenStream` and `ResolveCursor` are its
beginning, `Poll` is `list_events_after`, `Yield` one round of its `for` loop.
`wire`, `lastSeen` and `received` are the connection and the client. Ids are
numbers because the code compares them, as text, to break ties; they are drawn
in any order. Subscribers share nothing, so one is enough; the events of other
chats appear as the ids a confused client may present (`ForeignIds`).
`overtaken` and `start` are history variables.

### EventFeed

What the feed promises, without connections, pages or cursors: from where the
subscription starts the client is given the stored events in their order, each
once, and none stored in time is left out. An event that was not the latest when
it was stored may be delivered or not; a client that has received nothing may
start anew; once the chat is deleted the feed ends anywhere. `EventStream`
implements it (`FeedSpec`) with `stored` its table, `late` its `overtaken`, and
`start`, `lastSeen` and `received` its own: a frame is delivered when the client
receives it, and whatever the server does before is a stutter.

### MessageService

`pc[r]` is the await a request stands at, and an action is what runs from one
await to the next, the transaction at its end included. Every action that
writes has the branch in which the statement raises: the chat is gone (the
foreign key) or, with `"database"` among the `Faults`, at will. `Raise` is the
`except` clause of `post_user_message`, `Reply` the route. The reply is behind
the last await of all, the close of the connection that wrote the verdict: at
`"respond"` the log says how the POST ended, and its client does not know yet
(`Respond`, with the `Status` both translations make of the error). The model is
outside: a completion is a content, any number of calls up to `MaxCalls`, or a
failure; a search returns any set of files, a read finds the file or not. What a
prompt contains is kept as `history` (the earlier rows) and `conversation` (the
tool results), since that is what the properties compare. The guard's patterns
are abstracted to the set of `Flagged` requests.

`clock` orders the `created_at` of messages; unlike in `EventStream` two stamps
differ, since the order of two rows stamped in the same microsecond is not what
is asked here. It is drawn at the end of the action before the insertion, so two
requests may commit in the other order than they stamped.

### MessageLifecycle

What POST promises: the stages received, processing, tool calls, and one
verdict; the answer is stored before `completed` is told, and the reply comes
after the verdict: a 201 only for a completed message (`Accept`), an error never
for one (`Refuse`). Short of that an error says nothing of how far the message
got, and no reply says nothing at all. `MessageService` implements it through the mapping at its end
(`Lifecycle`), which reads every abstract variable off the tables and the
replies.

### KnowledgeSync

`pc[w]` is the await of `lifespan`, `build_app_context` or `sync_knowledge_index` at
which a process stands. A write transaction is opened by its first statement, which
takes the lock (`lock`) and works on a private copy (`txnDocs`, `txnFts`) that
`Commit` installs; an error or a death gives the lock up. A content is a number,
0 for a file that is not there, and stands for its checksum and its text; a
vector is known by the file and the content it was computed from (`Embedding`).
`Edit` changes the files at any moment. `CreateEmbeddings` takes the next batch in
the order of paths (`NextBatch`; files are numbered in that order): the call fails,
or the provider answers with a sequence of vectors (`Answers`), and `zip` pairs the
n-th of them with the n-th file of the batch (`Vectors`). Nothing in the code looks
at the length or the indices of an answer. With `"provider"` among the `Faults` it
may be cut short, and `zip` drops the files at the end of the batch; with `"order"`
it may also leave out an earlier input, or change the order, and then vectors and
files do not match. `Stop` and `Boot` are the end and the start of a process.
`BuildAppContext` is what it does before the sync, `initialize_database` first: it
gets any of the `Models`, or serves without tools, or ends, if the schema cannot be
created or the configured directory is missing (`KnowledgeLoader` raises outside the
`try`). `skipped` and `alone` are history variables.

### KnowledgeIndex

Each file has one row or none; an upsert puts one row, a deletion removes any
number, in one instant. `KnowledgeSync` implements it (`IndexSpec`) with a row
that is spread over its two tables (`IndexRows`): every statement inside a
transaction, and every death of one, is a stutter, and a commit is the one step.

### Retrieval

One search at a time, since searches share nothing. `FtsSearch`, `ListFileIds`
and `LoadCandidates` are the three reads of `search_knowledge_base`, each on a
connection of its own; the last one goes on to the end, as there is no await
behind it. `UpsertDocument` and `DeleteDocuments` are the transactions of a sync
in another process; each changes both tables at once, and one row at a time is put.
That these are all that a sync can do to a search is proved: `SyncsImplementIndex`
takes a sync to `KnowledgeIndex`, `SyncsAreSeenAsCommits` that to `Commit`. A
row is what the query sees of it: its BM25 score (0: no match), its similarity
and the length of its vector. The index, the weight and the limit are arbitrary.
`FtsSearch` may find nothing although there are matches, since an
`OperationalError` counts as no hits; a query without letters or digits starts
at `ListFileIds`. The query may or may not get a vector. Vectors of another
length than the query's, which a failed batch leaves after a change of
`EMBEDDING_MODEL`, end the search with an error of NumPy.

`Fused` is the fused score times `Unit` and times both divisors, so it orders the
candidates as the fraction does without dividing: a difference that floating
point would round away counts here. A file is its rank in the order of
(filename, file_id), which breaks ties. `ahead` is a history variable.

### Listing

A client takes `GET /chats` or `GET /chats/{id}/messages` page by page until a
page is not full. `Ask` is the request; `EnsureChatExists`, `ListRows` and
`CountRows` are its reads, each on a connection of its own, the last two in either
order, since `asyncio.gather` runs them together; `Respond` is the reply. Between any two of them chats are created
and deleted and messages stored, stamped at any time; a read fails (`ReadFails`);
the process dies and another one starts (`Restart`), with or without its tools.
In a process without them `get_message_service` raises, and the messages of a
chat cannot even be listed (`GetMessageServiceFails`). A request that got an
error is asked again; a 404 ends the walk.

`IsPage` is `ORDER BY created_at DESC, id DESC LIMIT ? OFFSET ?`: the rows whose
rank, the number of newer rows, is within the page. Rows of both tables are in
one set, told apart by `chat`; `Cascade` is the foreign key. `first`, `gone`,
`new`, `repeats` and `between` are history variables: what was listed when the
walk began, what left and came since, how often a row was given again, and how
many rows came or left between the two reads of one request. `quiet` is a
moment, chosen by `Settle`, from which nobody else writes and nothing fails.


## Runs

Runs marked "violated" check one claim of the repository's own documentation or
tests, and TLC finds a behaviour that breaks it: these are the findings.

| Run | Module, configuration | Shows |
|---|---|---|
| `event_feed` | `MCEventStream`, `EventStream.cfg` | order, no duplicates, no gap but what was overtaken, everything arrives; the stream implements `EventFeed` |
| `overtaken_event_is_lost` | `MCEventStream`, `EventStreamGap.cfg` | violated: `PersistedEventsAreDelivered` |
| `posts_race` | `MCMessageService`, `MessageService.cfg` | two POSTs implement the lifecycle; accounting, grounding and memory of what was answered, under every fault |
| `tool_loop` | `MCMessageService`, `MessageServiceTools.cfg` | accounting and grounding in every long conversation; a POST ends, within its bound, and one verdict is told |
| `current_message_twice` | `MCMessageService`, `MessageServiceCurrent.cfg` | violated: `CurrentMessageOnce` |
| `rejected_message_is_sent` | `MCMessageService`, `MessageServiceRejected.cfg` | violated: `RejectedIsNeverSent` |
| `sync_restarts` | `MCKnowledgeSync`, `KnowledgeSync.cfg` | one process over its lives: consistency, repair, economy, and the end of a startup within its bound |
| `sync_two_processes` | `MCKnowledgeSync`, `KnowledgeSyncTwo.cfg` | two processes at once: consistency, each file with its own vector, repair by a sync that was alone; the two tables implement `KnowledgeIndex` |
| `search_during_sync` | `MCRetrieval`, `Retrieval.cfg` | the ranking respects both signals, whatever is cut and whatever is committed between the reads |
| `listing` | `MCListing`, `Listing.cfg` | a walk misses, repeats and miscounts no more than what changed meanwhile, and ends |
| `no_lexical_fallback` | `MCKnowledgeSync`, `KnowledgeSyncLexical.cfg` | violated: `LexicalFallback` |
| `vectors_change_places` | `MCKnowledgeSync`, `KnowledgeSyncOrder.cfg` | violated: `VectorsBelong` |

### The properties

* `InOrderOnce`, `NoGap`, `CursorLeavesNothingBehind`, `EverythingArrives`: the
  feed loses nothing across connections. `NoGap` speaks of the client,
  `CursorLeavesNothingBehind` of the server, which is ahead of it by the frames
  on the wire; the exception in both (`overtaken`) is the first finding.
* `FeedSpec`: the refinement to `EventFeed`. It adds to the three above that a
  subscription starts at the latest event and is moved only while the client has
  nothing, and that nothing is delivered that was not stored.
* `LifecycleSpec`: the refinement to `MessageLifecycle`. A counterexample would be a `completed`
  without a stored answer, two verdicts, a 201 of a failed message, an error
  reply to a completed one, a tool event after the answer.
* `AccountingAgrees`: the number of tool calls and the files in the metadata of
  an answer, the tool events in the log and the results in the conversation are
  four accounts kept in four places of the code; they agree when `completed` is
  told.
* `GroundedReads`: a document enters a conversation only as a hit of the last
  search of that conversation, and two at most.
* `AnswersAreRemembered`: what a client saw answered before it posted is in the
  prompt, whatever other requests do in between.
* `EveryPostIsRepliedTo`, `VerdictArrives`: a request ends, and its client is
  told the verdict, unless the chat goes.
* `PostIsBounded`: whatever the model asks for, each step of a POST leaves it
  fewer of them, and nobody else's step gives it more.
* `VerdictIsTold`: a POST that is replied to, or about to be, has told exactly one of `completed` and
  `failed`, if its chat is there and the database took every event.
* `TablesAgree`: the two tables hold the same contents at every instant.
* `VectorsBelong`: a stored vector is of the file it is stored for and of the content
  beside it, although files change while they are embedded and vectors are paired
  with files by their positions only. It holds if the provider keeps the order of
  the inputs, whether it answers for all of them or not; `vectors_change_places` is
  what happens if it does not.
* `IndexIsWhatWasFound`: a sync that nobody overlapped leaves the index equal to
  what it found, but for the files it got no vector for; so a restart repairs.
* `EmbedsOnlyWhatChanged`: and it does not pay twice for what is there.
* `IndexSpec`: the refinement to `KnowledgeIndex`. It adds to `TablesAgree`, which
  speaks of one state, that a row does not vanish and come back while it is
  replaced, that no commit undoes what another process committed, and that the
  rows of two files are not put in one step.
* `StartupEnds`: a start ends, in serving or with its process. `StartupIsBounded`: each
  step of it leaves fewer of them; nothing is tried twice.
* `DominanceRespected`: of two candidates, the one that is as good in both signals
  and better in one that counts comes first, whatever the weight and the spans of
  the normalisation, an empty span included.
* `AheadIsListedFirst`: the same of any two files of the index, candidates or not,
  although the full-text hits are cut before anything is compared, and scores and
  vectors are read in two states of the index. A file that was better in both
  signals all along is not listed after, or left out in favour of, the other.
* `OnlyDeletionsSkip`, `OnlyInsertionsRepeat`: a finished walk misses at most as many
  of the rows listed all along as have left the listing, and is given rows again
  at most as often as rows have come into it. Messages leave only with their
  chat, so a walk of messages misses none, whatever is stored meanwhile.
* `TotalAgrees`: the page and the total of one reply are of two moments; they
  disagree by no more than the rows that came or left between them.
* `WalkEnds`: when nobody else writes any more, a walk ends. Of messages only in a
  process that has its tools.
* `TypeOK`, one per module, includes what is not a matter of types but of
  bookkeeping: a deleted chat leaves no row, a message has a chat, a lock is held only inside a
  transaction, the rounds of a flow are bounded, hits are within the limit.

### Bounds, and why they are enough

* `EventStream`: two emitters, three ids, three instants, pages of two. One
  overtaking needs two emitters; a page that is full, with a row of the same
  instant as its last one outside of it, needs three rows; a client that has
  received something, lost something on the wire and is owed something needs
  three. `ForeignIds` is empty in both runs, as in the theorems that say so: a client
  that presents an id it never received is replayed the chat (see below).
* `MessageService.cfg` (two requests, one file, two rounds of one call, all
  faults): two requests are a race, with the deletion and the crash as third
  actors; two rounds give a search and a read, and the last round. `AnswersAreRemembered` needs
  one request that is answered and one posted after it; a third that overlaps both
  adds rows and takes none away, which the theorem confirms. `GroundedReads`
  is about the reuse of a context across requests here, and about the cap in
  `MessageServiceTools.cfg` (one request, two files, three rounds of up to two
  calls: six calls are two searches, two reads and a third that is refused, in
  every order).
* `KnowledgeSync.cfg` (one process, two files, two contents, two models, batches
  of one, all faults): a file that is kept and one that changes, appears or goes
  while the process is at its batches; two models to change between lives. With
  one file per batch there are two batches, so one can fail after the other was
  written, and a file can change between its embedding and its row.
* `KnowledgeSyncTwo.cfg` (two processes, one model, one content, batches of two
  whose answers may be cut short): any two write transactions interleave; a third
  process adds a waiter for the lock and no new pair. A batch of two is the least in
  which positions matter. `KnowledgeSyncOrder.cfg` has one process, the same batch,
  and answers with a gap or in another order.
* `Retrieval.cfg` (three files, of which the full-text search returns two; scores
  up to 2, similarities up to 1, vectors of two lengths, weights 0, 1/2 and 1,
  limits 1 and 3, one commit): a match that is cut, a tie in either signal, an
  empty span, both signals against one another, and a commit between any two
  reads.
* `Listing.cfg` (two chats, two messages, two instants, pages of one and two): a
  second page, a full last page, a tie in `created_at`, an insertion and a deletion
  above and below the boundary of two pages, a listing with rows of another chat
  beside it.

The theorems have none of these bounds.

`MaxTime`, `Ids`, `ChatIds`, `MessageIds`, `Stamps`, `MaxCalls`, `MaxVersion`, `MaxLex`, `MaxSem` and `MaxCommits` are
bounds of the models alone: the clock, uuids, the calls in one completion, the
edits of a file, scores and the commits during a search have none in the code. `MaxToolRounds`, `BatchSize` and `MaxFullReads` are settings and
constants of the code. All but `MaxFullReads` (2 in the code) are arbitrary in
the theorems.

### Findings

1. **An overtaken event is lost** (`repositories/events.py:28`). `created_at` is
   drawn before the connection is opened. When a second request stamps later and
   commits earlier, a subscriber that receives its event has passed the first
   one, and neither this connection nor a resumption delivers it.
   `OneEmitterLosesNothing` proves that this takes two requests at once.
2. **The current message is sent twice** (`services/message_service.py:218`) when
   another request stores a message between its insertion and the read of the
   history. `SequentialPostsSendOnce` proves that this takes two POSTs at once.
3. **A rejected message is sent to the model by the next POST**
   (`services/message_service.py:98`): it is stored before the input guard runs,
   and stays in the history.
4. **A failed embedding leaves no lexical index either** (`knowledge/sync.py:126`),
   where `README.md:83` says that the indexer falls back to BM25.
   `EverythingIsSearchable` proves that this takes a provider that fails, if one
   process is on the database.
5. **A file may get the vector of another** (`knowledge/sync.py:128`). The client
   promises "one float vector per input, in the same order" (`llm/client.py:137`) but
   returns `response.data` as it was received, and `zip` pairs by position. After an
   answer with a gap, or in another order, the row has the wanted checksum and model,
   so no later start embeds the file again until it changes.
   `VectorsAreOfTheirContent` proves that this takes a provider that does not keep the
   order: an answer that is cut short does no harm.

Met on the way, without a run of their own:

* `Raise` and `Reply` of `MessageService` show that a guardrail violation is
  answered with 500 (`services/message_service.py:148` wraps it), where the route
  documents, and has an `except` clause for, a 400.
* `README.md:78` has a mode "FTS5 index, no embeddings: BM25-only". Without a client
  for embeddings the process starts with no tools at all
  (`config/bootstrap.py:29`), and then every route that builds a `MessageService`
  raises, `GET` of the messages included (`GetMessageServiceFails` of `Listing`).
* `ResumeUnknown` of `EventStream`: a `Last-Event-ID` of no event of the chat sets
  the cursor to `(None, None)` (`api/v1/events.py:65`), and the chat is replayed from
  its first event. The docstring of the test (`tests/integration/test_sse.py:370-371`)
  says that the stream tails from the latest stored event; the test itself stores an
  event (373-380) and asserts the replaying cursor (391-393).
* When the chat or the cursor of a stream cannot be read, the `except` clause of
  `stream_events` (`api/v1/events.py:170`) logs `cursor_id` before it is assigned,
  so the handler raises and its own error body is not sent.


## Fairness and deadlock

Weak fairness is stated of the steps that the event loop owes and of nothing
else.

* `EventStream`: `Poll`, `Yield` and `Receive`. A coroutine that can go on is
  resumed by the loop, and a connection that stays up carries its frames.
  Nothing is owed of an emitter, a client, a clock or a failure, and
  `EverythingArrives` assumes, as a hypothesis of its own, that from some moment
  the stream stays connected.
* `MessageService`: the work of a request in flight. Each of its awaits returns:
  a SQLite statement gives up after its busy timeout, a provider call after the
  SDK's. Which branch is taken is not constrained. A POST, the deletion of the
  chat and a crash are never owed.
* `KnowledgeSync`: the steps of a started sync, for the same reasons. A write
  that finds the lock taken waits; `SyncFails` is its timeout and is not owed.
  `StartupEnds` is checked for one process, where the lock is free or its own.
  With two, the code rests on the timeout of SQLite, which the model leaves
  possible and does not owe.
* `Listing`: `Ask`, since a client that walks asks for its next page, and `Serve`,
  since the event loop owes the request its reads. Writers, failures, restarts and
  the end of them (`Settle`) are not owed: that they have ended (`quiet`), and that
  the process has its tools if messages are listed, are hypotheses of `WalkEnds`.
  Without the first a client may be kept walking by rows stored as fast as it
  reads.

The runs say `CHECK_DEADLOCK FALSE` because the system may really stop: all
requests are done, the chat is deleted, the ids or the instants of the instance
are used up and nobody connects. What must not stop is stated by the
liveness properties.


## Proofs

For every value of the constants that satisfies the named assumptions
(`EventStreamAssumption`, `MessageServiceAssumption`, `KnowledgeSyncAssumption`,
`RetrievalAssumption`, `ListingAssumption`,
which TLC evaluates in the runs):

| Theorem | States | From |
|---|---|---|
| `EventStream_proofs!TypeCorrect` | `TypeOK` | |
| `EventStream_proofs!DeliveryIsInOrder` | `InOrderOnce` | clients present ids of this chat only |
| `EventStream_proofs!NothingElseIsLost` | `NoGap` | the same |
| `EventStream_proofs!CursorSkipsNothing` | `CursorLeavesNothingBehind` | the same |
| `EventStream_proofs!StreamImplementsFeed` | `FeedSpec` | the same |
| `EventStream_proofs!OneEmitterLosesNothing` | `PersistedEventsAreDelivered` | the same, and one request emits at a time |
| `MessageService_proofs!TypeCorrect` | `TypeOK` | |
| `MessageService_proofs!ReadsAreGrounded` | `GroundedReads` | |
| `MessageService_proofs!PostsAreBounded` | `PostIsBounded` | |
| `MessageAnswers_proofs!AnswersRemembered` | `AnswersAreRemembered` | |
| `MessageAnswers_proofs!AccountsAgree` | `AccountingAgrees` | |
| `MessageAnswers_proofs!SequentialPostsSendOnce` | `CurrentMessageOnce` | no two POSTs to the chat overlap |
| `MessageLifecycle_proofs!RequestsImplementLifecycle` | `LifecycleSpec` | |
| `MessageLifecycle_proofs!VerdictsAreTold` | `VerdictIsTold` | |
| `KnowledgeSync_proofs!TypeCorrect` | `TypeOK` | |
| `KnowledgeSync_proofs!IndexIsConsistent` | `TablesAgree` | |
| `KnowledgeSync_proofs!VectorsAreOfTheirContent` | `VectorsBelong` | the provider keeps the order of its inputs |
| `KnowledgeSync_proofs!RestartRepairs` | `IndexIsWhatWasFound` | |
| `KnowledgeSync_proofs!OnlyChangesAreEmbedded` | `EmbedsOnlyWhatChanged` | |
| `KnowledgeSync_proofs!StartupsAreBounded` | `StartupIsBounded` | |
| `KnowledgeSync_proofs!SyncsImplementIndex` | `IndexSpec` | |
| `KnowledgeSync_proofs!NothingIsLeftOut` | both tables are what an undisturbed sync found on disk | the provider answers for every file |
| `KnowledgeSync_proofs!EverythingIsSearchable` | `LexicalFallback` | the same, and one process |
| `Retrieval_proofs!TypeCorrect` | `TypeOK` | |
| `Retrieval_proofs!SignalsAreRespected` | `DominanceRespected` | |
| `Retrieval_proofs!AheadStaysAhead` | `AheadIsListedFirst` | |
| `Retrieval_proofs!SyncsAreSeenAsCommits` | a step of `KnowledgeIndex` is a `Commit` of `Retrieval` or nothing | a search is in progress, the bound on commits is not reached, and the rest moves as `Commit` says |
| `Listing_proofs!TypeCorrect` | `TypeOK` | |
| `Listing_proofs!DeletionsSkipAtMost` | `OnlyDeletionsSkip` | |
| `Listing_proofs!InsertionsRepeatAtMost` | `OnlyInsertionsRepeat` | |
| `Listing_proofs!TotalsAreClose` | `TotalAgrees` | |

**Order of the feed.** `OrderInv`: rows are lined up as received, then
`lastSeen`, then the wire, then `cursor`, then the fetched batch
(`AheadInOrder`). The difficult step is `ResolveCursor`, which sets the cursor
anew: it must not go behind `lastSeen`. It does not because the header is
`lastSeen.id` (`IdleWhenNotStreaming`), ids are unique (`OneRowPerId`), and
`lastSeen` is still in the table unless the chat was deleted (`StillStored`); in
that case the cursor is behind, and nothing ever comes (`CursorAhead`). The
order `(created_at, id)` is shown to be a strict total order first.

**Nothing else is lost.** `NoGap` is not inductive: the last event received comes
from the wire, the wire from the batch, the batch from the table. So the
invariant (`GapInv`) follows that path: the batch is what is next in the table
(`BatchIsNext`), the cursor has left nothing behind, the client has not either. A
commit puts a row behind these points only if it is overtaken.

**The feed.** Both invariants together say what a step of the client is in the
terms of `EventFeed`: the frame it receives is after `lastSeen` (order), was
stored, and leaves nothing owed between them (the gap). Every other step of the
stream changes nothing abstract but the start, which it sets only to the latest
row and only while the client has nothing.

**Grounding.** `ContextIsOfConversation`: the context counts at least the reads
in the conversation, and what it allows are the hits of the last search in it,
as long as the request may still call tools. The condition is needed: a call
without an id has changed the context and appends nothing, and then the request
fails. That only two reads pass is a matter of cardinality of the positions of
the reads, for which the theorems on finite sets are used. The types rest on
`LoopIsBounded`: a request asks the model only with a round left.

**Answers and accounts.** `Remembers` says of a request where its question and its
answer are in the table, and that what it was posted after is in its history once
it has read one: the rows are there before the 201, while the request is about to
answer (`Answers`) already, only the deletion of the chat takes them away, and no later step changes the history but to add to it.
`Accounts` follows the accounts through the loop: what is counted for the metadata
is what is in the conversation (`Counted`), the events are behind it by the one
call whose event is still to be emitted (`Logged`), and the rows of the request are
those of its step, the answer with these numbers last (`Filed`). From `"respond"`
on this stands still, whatever the others do before the reply. So when
`completed` is told, nothing is outstanding.

**The lifecycle.** `Story` says what `Stage`, which the mapping reads off the log,
is at each `pc`; with the two invariants above every step of a request is then
one of the abstract actions or a stutter, and the rows of the others stand still.
Between verdict and reply the chat may be deleted, so a 201 may be of an erased
story; that an error is never sent for a completed one is that the log of a
request about to reply says `completed` exactly if it has no error.

**The verdict.** `Judged`: a request has told no verdict until it is about to
reply, and one from then on. A 404 tells none and leaves no one to tell. A death
may come between the verdict and the reply: the client is then told by the log
alone, which is why the property is about the log.

**The current message.** `_exclude_current_user_message` looks at the last row
only. `LatestInv`: from the moment a request draws its stamp until it has read the
history, no later stamp has been drawn, so no row is behind its own. It is kept
because whoever draws a stamp is in flight, and there is one.

**Bounded steps.** `StepsLeft` is a measure: the statements still ahead, and for
a POST the rounds of tools left, each with its calls. That it decreases needs that
a request in the loop has a round or a call left (`LoopIsBounded`), and for a
startup that the file in hand is one of its batch and the batch no part of what is
still to embed (`InHandInv`), so that the cardinalities add up; `Files` is finite.
Fairness plays no part in it: it says that there is nothing to do for ever, not
that what there is gets done.

**The two tables.** `TablesAgree` is not inductive: a commit installs the private
copy of a transaction. `IndexInv` says what the copy lacks at each statement
(`StagedAgrees`), that only the holder of the lock is at such a statement
(`OneWriter`), and that each file of the batch being written has a vector (`BatchIsEmbedded`). So
neither the number of processes nor the place where one of them dies matters.

**The vectors.** If the provider keeps the order, `BatchIsEmbedded` says more: the
vectors are those of these files with the contents found, and `Belong` says so of
the committed rows and those of the copy. The one difficult step is
`CreateEmbeddings` (`AnswerIsPaired`): an answer has one vector per position, the
place of a file in its batch is one of them or past the end, and what `zip` drops are
the files past the end. That the file at hand is one of the batch (`FirstIsIn`) needs
that a set of file numbers has a least element, for which the theorems on well-founded
orders are used.

**A sync alone.** `PlanHolds` says what the plan of a sync that nobody has
overlapped still owes the index: each file that it has neither to embed, to write
nor to delete has its row already, and each that it is to embed has another one.
The plan is computed from metadata read earlier; it stays true because any other
process that starts, or commits, ends `alone`. When the sync has nothing left the
first half is `IndexIsWhatWasFound`; when it takes a batch the second half is
`EmbedsOnlyWhatChanged`. If the provider answers for every file, no sync skips one
(`SkipsNothing`), so the exception of `IndexIsWhatWasFound` is void and both tables
are the files on disk.

**The index of its readers.** A commit installs a whole copy, so it might undo
what others committed since the copy was taken. `CopyInv`: the copy of an open
transaction is the committed tables but for the rows that its statements so far
have written, since no one else commits while the lock is held (`OneWriter`). So a
commit changes one row, or removes the orphans, and is a step of `KnowledgeIndex`.
On the other side `SyncsAreSeenAsCommits` takes any function from rows to what a
query makes of them, and shows that a step of `KnowledgeIndex`, seen through it, is
a `Commit` of `Retrieval`.

**Ranking.** `FusedIsMonotonic`: a better candidate has a higher fused score,
because the divisors are positive; that is what the special case of
`min_max_normalize` is needed for. The ranking lists every candidate, since it is
as long as there are candidates and none is in it twice (`RankingIsOnto`), so the
better one is in it, before the other, and no cut removes it alone.
`AheadIsListedFirst` needs what the search knew at its first read: `AheadIsAsked`
says that whenever it asks for a file it also asks for one that was ahead of it,
with a higher score unless it has none at all.

**Pages.** The ranks of a listing are all the numbers below its size
(`RanksAreAll`), so a page has the size it should (`PageOfSlice`), and a row that
comes or leaves changes the rank of any other by one at most
(`RankAfterOneMore`). `SkipInv` bounds, by the rows that have left, the rows listed
all along that stand before the offset and were not given; `RepeatInv` bounds, by
the rows that have come, those that were given and stand at it or after. Both hold
at the end of a page because the offset moves by the size of the page. `TotalInv`
compares the listing now with what each of the two reads has seen of it.

**Only model-checked.** The liveness properties (`EverythingArrives`,
`EveryPostIsRepliedTo`, `VerdictArrives`, `StartupEnds`, `WalkEnds`), which need
fairness and `ENABLED`. Of `EveryPostIsRepliedTo` and `StartupEnds` the half that
needs neither is proved: the steps are bounded (`PostsAreBounded`,
`StartupsAreBounded`); of `VerdictArrives`, that a request that is over has told
its verdict (`VerdictsAreTold`). What TLC adds is that the fair steps are enabled
until the end. Every safety property of the passing runs is proved.


## Mutants

Beside some definitions there is a wrong form of it, named `..._Mutant`, that no
specification uses: a lost guard, a forgotten reset, a swapped order, a bug
that a maintainer could plausibly introduce. Put in the place of the definition it
follows, it violates the property that `PROJECT.json` names with it, under the
unchanged configuration of that run. So each property is known to be able to
fail, and a reader sees what kind of mistake it guards against.


## Not modelled

* Snippets, the rounding of scores for display, tokenisation: wording. BM25 and
  cosine similarity are arbitrary numbers in `Retrieval`, and in `MessageService`
  a search returns any set of files.
* `GET /events`, one read of rows with `since` and a limit: what it returns is one
  statement, and the hazard in it, timestamps compared as text, is one of parsing.
* Parsing of timestamps and of the JSON columns of a row.
* `get_recent_chat_history` of `context_service.py`, which no code of the program
  calls.
* The choice of provider from the settings, retries inside its SDK, request and
  response schemas, logging, middleware, health: no state that two steps share.
* Wall time: delays, the poll interval and timeouts are steps that may come late.
  A wall clock that steps back is not modelled: a row it stamps would be behind the
  cursor as an overtaken one is.
* `execute_tool_calls` of `tool_executor.py`, which no code of the program calls.


## Plan

Done, in this order: `EventStream` with its proofs; `ToolExecutor`,
`MessageService`, `MessageLifecycle`, with types and grounding proved;
`KnowledgeSync` with the consistency of the tables proved; `Retrieval`, proved;
`EventFeed` and the refinement, proved; `Listing`, with processes that serve
without tools, proved; answers, accounts and the lifecycle of `MessageService`,
proved; the repair and the economy of a sync, proved; `KnowledgeIndex` between
`KnowledgeSync` and `Retrieval`, proved on both sides; the bounds of a POST and of a
startup, the verdicts, and where the findings 2, 4 and 5 end, proved.

Left, in the model:

1. `ChatService`: `MessageService` composed with the subscriber of `EventStream`,
   to ask whether a client that was told 201 has been told, or will be told,
   `completed`.
2. `Retrieval` over the index of `KnowledgeSync`: which failed batches make which
   searches raise, and until when.
3. `GET /events`.

4. The events of `MessageService` and those of `EventStream` are two models of one
   table; a common abstract store would tie them, as `KnowledgeIndex` does the
   index.

What is left in the proofs is liveness, which stays with TLC, and for `Listing` the
bound on the steps of a walk nobody disturbs.
