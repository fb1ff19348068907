# LadyBook: models, checks and proofs

LadyBook is an iOS app (Swift, `src/LadyBook/LadyBook`) in which users publish
illustrated articles.  It has no server of its own: accounts are Firebase Auth's,
articles are documents of the Firestore collection `Articles`, pictures are
files in Firebase Storage.  The SDKs are vendored in source form under
`src/LadyBook/Pods`; the parts of the Firestore SDK that carry the app's writes
and its one-shot reads, its local store and the image loader Nuke are modelled from that source,
the servers are external.

The repository has no tests and its README has one line.  The promises that the
models are held against are those of the Swift comments, of the assertions
in the SDK, and of the comments in the SDK's headers.

Paths below are relative to `src/LadyBook/LadyBook/` for the app and to
`src/LadyBook/Pods/FirebaseFirestore/Firestore/core/src/` for the SDK, and to
`src/LadyBook/Pods/Nuke/Sources/` for Nuke.

## 1. The system

### Components

| Component | State | Operations | Talks to |
|---|---|---|---|
| Onboarding (`ViewController`, `Message1..3ViewController`) | the shown scene, a 3 s timer | timer, Next, Next, Open | storyboard segues to the tab bar |
| Pager (`MainViewController`, First, First2, Second .. Fifth) | selected page | swipe, tap a title | XLPagerTabStrip |
| Feeds (`FirstViewController`, `FirstView2Controller`) | `articles` | read the collection once, tap a row, tap the writing button | Firestore reads, navigation stack |
| Login (`LoginViewController`) | two text fields | sign up | Firebase Auth; pushes Writing |
| Writing (`WritingViewController`) | two text views, a picture | type, choose a picture, Next | pushes WritingAdd, hands its views over |
| WritingAdd (`WritingAddViewController`) | category, style; the views of Writing | wheels, Done, release | Firestore writes, Storage; pushes Article |
| Article (`ArticleViewController`) | labels, picture | read one document, load the picture | Firestore read, Nuke |
| Firestore write path (`core/sync_engine`, `local/local_store`, `local/leveldb_mutation_queue`, `remote/remote_store`, `remote/stream`, `remote/write_stream`) | persistent queues of writes per account; handlers, write pipeline, stream and timers in memory | setData; stream opened, handshake, response, error, idle, backoff; connectivity; account changed; restart | the server over gRPC |
| Firestore read path (`api/query_core`, `api/document_reference`, `core/event_manager`, `core/query_listener`, `core/view`, `remote/remote_store`, `remote/remote_event`, `remote/online_state_tracker`, `remote/watch_stream`) | listeners, views, online state with its timer and failures, targets, watch stream, what the aggregator has heard of each target | getDocument(s); listener added, removed, told; stream opened, broken, idle, backoff; messages of the server; timer | the server over gRPC; completions on the main queue |
| Firestore local store (`local/local_store`, `local/local_documents_view`, `model/set_mutation`, `model/patch_mutation`, `local/leveldb_lru_reference_delegate`) | cached documents with their versions, the account whose queue is laid over them | local write, acknowledgement, refusal, watch snapshot, account changed, garbage collection, local read | both streams; the queries of the read path |
| Nuke image loading (`ImageViewExtensions`, `ImagePipeline`, `Task`, `DataLoader`, `ImageCache`) | the outstanding task of each view, shared loads, operations, memory cache, resumable data | load into a view, cancel; data, end, failure of a download; decoding, decompression; trimming | Article screen; URLSession |
| Firestore credentials (`auth/firebase_credentials_provider_apple.mm`, `core/firestore_client.cc`) | current user, token counter | account change, get token | Firebase Auth, streams |
| Firebase Auth (`FIRAuth.m`) | current user, in the keychain and in memory | createUser | notifications on the main queue |
| Firebase Storage (`FIRStorageReference.m`, `FIRStorageUploadTask.m`) | one upload task | putData, downloadURL | completion on the main queue |

Four queues of execution meet: the main queue (taps and completions), the
Firestore worker queue (all SDK state above), Auth's work queue and the queue of Nuke's pipeline.  Handlers are
always dispatched to the main queue, later than the step that calls them.

### What is hard

* An article is two writes and an upload in between, chained by closures:
  `setData(title, text)`, `putData`, `downloadURL`, `setData(imageURL, merge: true)`.
  Nothing makes them one: the account may change between them, the process may die,
  each may fail alone, and either write may be sent to the server more than once.
* Firestore keeps one persistent queue per account and drains only that of the
  signed-in account, and the app's only way in is to create another account.
* Responses on the write stream carry no id.  Their meaning depends on the position
  in a pipeline that is refilled, cut at its limit, dropped and sent again.
* Batch ids are computed from what is on disk, so that they are used again.
* A one-shot read is a listener that removes itself at its first event, over two queues: more events
  may be on their way to it, and the next read of the same query is the same target on the same
  stream, where answers to the earlier one are still under way.
* A read without connection is answered from the cache, and whether there is none is decided by a
  timer and a count of failures that answers, errors, restarts and the end of other reads all reset.
* An article's document reaches the device twice, as the acknowledgement of what was written and as
  what the watch stream says, in either order; versions alone decide.
* The Article screen loads its picture twice in a row into one view: a cancellation and an answer
  cross between two queues, the download is shared, and it may break and be resumed.
* Idle timer, backoff timer, connectivity callbacks, token renewal and account change
  all stop or start the same stream.

`PROJECT.json` lists each hazard at its line, with the properties that would catch
it.  What makes each component correct:

* *write path*: writes of an account reach the server in order and none is skipped,
  doubled or lost as long as the disk survives; a handler tells the truth and is
  called once; nothing of another account is sent; the queue drains while the
  account stays signed in.
* *publishing*: an `imageURL` names a picture that exists; success is shown only for what
  is saved and stays saved; a document without text can only come from a refusal
  or an account change; what is released is stored; a release comes to an end.
* *read path*: every read is answered, and once; an answer that claims to be the server's is not older
  than the call; what is watched is what somebody listens to; the online state agrees with stream,
  timer and failures.
* *local store*: what watch says prevails over what the client has guessed; what an account sees are
  its own pending writes and nobody else's; what its author sees of an article does not go away again.
* *image loading*: a view shows the picture of its article in its ratio; nothing is delivered after a
  cancellation; a download is made once, for somebody, and put together right; every load ends.
* *feeds, pickers, onboarding*: every reachable tap is handled; what is published is what is shown.

## 2. The modules

| Module | Models | Kind |
|---|---|---|
| `WriteQueue.tla` | what the SDK promises about writes | abstract specification |
| `WritePipeline.tla` | the SDK's write path | detailed; implements `WriteQueue` |
| `Publishing.tla` | Login, Writing, WritingAdd, Auth, Storage, servers, composed with `WriteQueue` | the core of the app |
| `Credentials.tla` | FIRAuth's tokens, the credentials provider, the start of the write stream | detailed, on its own |
| `ReadPath.tla` | one-shot reads, from the call to the completion, and the watch stream | detailed, on its own |
| `LocalView.tla` | the cache of documents with the queued writes over it, composed with `WriteQueue` | detailed |
| `ImageLoading.tla` | Nuke, from the view to the connection and back | detailed, on its own |
| `WriteQueueProofs.tla`, `WritePipelineProofs.tla`, `PublishingProofs.tla`, `CredentialsProofs.tla`, `ReadPathProofs.tla`, `LocalViewProofs.tla`, `ImageLoadingProofs.tla` | the proofs about the module of that name | TLAPS |
| `SequenceFacts.tla` | facts about sequences that the proofs share | TLAPS |
| `MCWriteQueue`, `MCWritePipeline`, `MCPublishing`, `MCCredentials`, `MCReadPath`, `MCLocalView`, `MCImageLoading` | symmetry sets for TLC | model checking |

Definitions whose comment starts with *Fault:* are not part of any specification.
Each one is a plausible bug; put in the place of the definition that follows it, it
makes the property named in `PROJECT.json` ("mutants") fail.  They show that the
properties depend on the code.

### WriteQueue

`queue[u]` is the FIFO of account `u` on disk, `cursor` counts what the server has
committed on the present connection and the client has not seen acknowledged, `committed`
and `refused` are histories, `completion[w]` says what became of a write's handler.
Seven operations: `Issue` (setData), `Commit`, `Acknowledge`, `Reject`, `Disconnect`,
`SwitchUser`, `Restart`.  A write can be committed again after a broken connection,
but never out of order.

### WritePipeline

| Variable | Code |
|---|---|
| `current` | `SyncEngine::current_user_` |
| `mutationQueue` | the LevelDB rows of `LevelDbMutationQueue`, keyed by user and batch id |
| `nextBatchId` | `LevelDbMutationQueue::next_batch_id_` |
| `callbacks` | `SyncEngine::mutation_callbacks_` |
| `pipeline` | `RemoteStore::write_pipeline_` |
| `stream`, `handshake`, `idle` | `Stream::state_`, `WriteStream::handshake_complete_`, `idleness_timer_` |
| `wire`, `responses` | requests and responses of the present gRPC stream |

Every client action is one task of the worker queue and contains all the calls it makes:
`WriteMutations` persists the batch, registers the handler and refills the pipeline;
`OnWriteStreamMutationResult` pops the pipeline, calls the handler, deletes the row
and refills; `HandleWriteError` drops the first write and restarts the stream;
`UserChanged` opens the other queue, recomputes the batch id and restarts the streams.
A stream that is closed takes its messages with it, as the stream's
`close_count_` and the gRPC layer see to.  The handler of a rejected write is called
before the row is deleted or after it depending on the code path; within a step the
order cannot be seen.

The refinement maps `queue[u]` to the writes of `mutationQueue[u]` and `cursor` to the number
of unread positive responses (`Acked`).

### Publishing

The navigation stack of the Home tab is a sequence of screens with identities, since
closures capture screens: `release[a]` remembers the WritingAdd screen whose closure is
under way, `signUps` the Login screens.  Popped screens keep being captured;
`HasNavigation` is what `self.navigationController?` tests.  Identities are recycled once
nothing refers to them, which keeps the state finite.  `docs` is the collection and
`storage` the folder `posts/`, `handlers` the completions on the main queue.

`TapRelease` is `tapReleaseButton` up to `putData` with `createToFirestore` inside: the set
is issued even if `jpegData` fails afterwards.  `AuthStateChanged` is the step of the
worker queue that follows FIRAuth's notification; it is queued before the completion
runs, so the completion (`SignUpSucceeds`) comes after it for every write.  `WriteAcknowledged`
and `WriteRefused` are the SDK's steps, of which only the merge has a handler.
`Restart` keeps what is on disk: Firestore's queues and the keychain's account, which
may already be one that Firestore has not been told of.

`SignedOutByAuth` is the one way an account goes away: FIRAuth signs out by itself when a token
cannot be renewed (`FIRUser.signOutIfTokenIsInvalidWithError`).  Screens and closures stay, and
writes then go into the queue of the signed-out user.  With it the resend of a set from one queue
can follow the merge sent from another, so the properties on lost pictures are stated for articles
whose two writes have the same author (`SameAuthor`); without that condition TLC finds a published
picture taken off for good.

The picture is never missing: the storyboard gives `writingImageView` an image and no
code clears it, so the last `else` of `tapReleaseButton` is dead.  The encoder of
`createToFirestore` cannot fail on an `Article` of strings and a timestamp, so its `catch`
is not modelled.

### Credentials

`WritePipeline` starts its stream in one step.  `Credentials` opens that step up: the stream asks
the provider for a token, the provider asks FIRAuth, and the answer comes back over the main queue.

| Variable | Code |
|---|---|
| `authUser`, `raw`, `lastNotified`, `autoRefresh` | `_currentUser`, `_accessToken`, `_lastNotifiedUserToken`, `_autoRefreshTokens` |
| `authQueue`, `fetches[u]` | calls of `getTokenForcingRefresh` on Auth's work queue, the serial task queue of an account's token service |
| `mainQueue` | notifications and token callbacks, in the order in which Auth dispatched them |
| `providerUser`, `forceRefresh` | `contents_->current_user`, `force_refresh` |
| `workQueue` | credential changes and tokens on Firestore's worker queue |
| `current`, `stream`, `channel` | `current_user_`, `state_`, the token of `grpc_stream_` |
| `awaited`, `steady` | what `close_count_` and `token_counter` are compared for |

The two counters only ever answer the question whether something has happened since a request was
made, so a request has an identity: `awaited` is the request made since the last close, `steady`
the requests made since the last notification.  This keeps the state finite without a bound on
breaks.  `force_refresh` is written by two threads without the mutex; the thread in `clearing` has
read it and not yet reset it, and the other one may run in between.  What the stream carries is
abstracted to `pending`, the accounts that have writes.

### ReadPath

| Variable | Code |
|---|---|
| `query`, `muted`, `answer` | calls of `getDocuments` and `getDocument`; `AsyncEventListener::muted_`; their completions |
| `mainQueue`, `workQueue` | events on the user's executor, `ListenToQuery` and `RemoveListener` on the worker queue |
| `listening`, `raised` | `EventManager::queries_`, `QueryListener::raised_initial_event_` |
| `synced`, `cache` | `View::sync_state_`, the documents of `LocalStore` |
| `online`, `failures`, `timer` | `OnlineStateTracker`: `state_`, `watch_stream_failures_`, `online_state_timer_` |
| `targets`, `stream`, `idle` | `RemoteStore::listen_targets_`, `Stream::state_`, `idleness_timer_` of the watch stream |
| `outstanding`, `current`, `changed`, `docs` | `TargetState` and `pending_document_updates_` of `WatchChangeAggregator` |
| `requests`, `responses` | what is on the present gRPC stream |
| `watched`, `version`, `forbidden` | the server: targets of the stream, version of the data, what its rules refuse |

The result set of a query is abstracted to the version of the data it was made of, and a query is its
own target id, since the local store gives a query the same id as long as it is known.  `Deliver` is
one event on the main queue: it mutes the listener, puts its removal on the worker queue and calls the
completion; `DropMuted` is the event of a muted listener.  A task of the worker queue contains all the
calls it makes: `UpdateState` broadcasts an online state that has changed, and the broadcast raises an event
for every listener that has had none.  Events that one step raises for several listeners come in any
order.  `Receive...` are `OnWatchStreamChange` for each kind of message.

The server acknowledges each request in order, sends a snapshot only when every target it watches is
current, and its snapshot versions never go back, so that the guard on them (`remote_store.cc:283`) is always
true.  `Starting` includes the token, which `Credentials` opens up.  Failures are counted up to one, which
is where the client goes offline.  Left out: limbo documents and existence filters, which need deleted
documents, as the app never deletes any; the overlay of local writes on results and garbage
collection, which `LocalView` has; `Shutdown` and `DisableNetwork`, which the app never calls.  The completion waits for the
listener's registration, which cannot block, as the call that fulfils it ran on the same queue before.

### LocalView

| Variable | Code |
|---|---|
| `queue`, `cursor`, ... | `WriteQueue`, by INSTANCE: the operations below are its operations and more |
| `cache` | `remote_document_cache_`: version, fields and `DocumentState` of a document |
| `viewUser` | the account of the `mutation_queue_` that `local_documents_` was made with |
| `lastRemote` | the last snapshot version of the target cache |
| `history`, `acks` | the server's collection at each version; the versions in acknowledgements under way |

A document is the set of its fields.  `GetDocument` lays the queued writes over the cache,
`AcknowledgeBatch` applies the result of a write and deletes it in one transaction, `ApplyRemoteEvent` takes
in a snapshot, as of any version not older than the last one (the assertion at `local_store.cc:360`),
for any articles: which targets are listened to is `ReadPath`'s concern.  `LoseAccess` is the manufactured
NoDocument, the one way to lose a document that versions do not guard.  `CollectGarbage` respects pending
writes of all accounts, and since targets are left out, it may take a document that the code would keep.
The article a garbage collection takes between the acknowledgement of its set and that of its merge is
afterwards guessed to consist of a picture only, until watch sends the document with that very
version; `WatchHasTheLastWord` says so, and `PublishedIsVisible` and `NothingFlickers` except `forgotten` articles.
`author`, `acked`, `seen` and `forgotten` are history variables.

### ImageLoading

| Variable | Code |
|---|---|
| `article`, `shown`, `rated` | the screen's document, the image in its view, `imageRateLayoutConstraint` set for it |
| `task`, `tasks` | `ImageViewController.task`; all `ImageTask`s with `isCancelled` |
| `calling` | the block of the main queue that is between its two calls |
| `main` | what `startImageTask` has dispatched to the main queue |
| `queue` | the blocks on the pipeline's queue, in order |
| `subscription` | `ImagePipeline.tasks`: the subscription of an image task |
| `loads` | the chains of `Task`s: disposed or not, the download's `Operation`, its session task, the operation of decoder or decompressor, the `OriginalImageDataTaskContext`, and what the server sends |
| `imageCache`, `resumable` | the memory cache, `ResumableData.cache` |

A load is a chain of four `Task`s of which only the first is shared; the others have one subscriber and end with
it, so the chain is one record.  `LoadImage` is `ImageViewController.loadImage`: cancel, look into the memory cache,
else clear the view and start a task.  The two calls of `ArticleViewController` (58, 60) are one block of the
main queue, but the cache can change in between.  Each block of the pipeline's queue is one action; what is
on its way from other threads (`OperationStarts`, `Network`, `Decoded`, `Decompressed`) posts the next block.
A download is counted in pieces, which is what a resumed download can get wrong.  `CloseArticle` asks for a
load that has ended: the completion handler of the second call holds the screen, so that leaving it does not
cancel anything.  The server supports ranges and an image does not change under its URL.  Images are
not previews, requests have the default options, and there is no disk cache, as in the app's configuration.

The library's interface is modelled, with any number of views; the app itself gets to the Article screen only after
a release (`WritingAddViewController.swift:213`): tapping
the row of a feed pushes an Article screen made without storyboard and article id, which crashes
(`FirstViewController.swift:103`).

## 3. The runs

| Run | Instance | Shows |
|---|---|---|
| `write_queue` | 2 accounts, 3 writes | order, no copies, truthful handlers |
| `write_pipeline` | 2 accounts, 3 writes, pipeline of 2, 2 breaks | internal invariants of the write path; refinement of `WriteQueue`; queues drain |
| `local_view` | 2 accounts, 1 article, 6 versions | watch prevails; what is published is visible, stays visible and is nobody else's before |
| `publishing` | 2 accounts, 1 article, stack of 4, 2 forced sign-outs | pictures, resent writes, nobody publishes signed out; what a document can lose when the account changes between its writes; writes are resolved and releases end while the account stays |
| `credentials` | 1 account, 2 tokens, 1 forced sign-out | tokens and streams stay with their account; a starting stream gets its answer; Firestore follows Auth; writes go out |
| `read_path` | 2 reads of 1 query, 2 versions, 1 break, 1 change of rules | acknowledgements are counted, answers are fresh and given once; listeners, targets and online state agree; every read is answered |
| `image_loading` | 2 views, 1 image of 2 pieces, 1 connection, 4 tasks | the right picture in its ratio; cancellations, shared and resumed downloads; every load ends |
| `success_means_saved` | 2 accounts, 1 article | violated: success shown, first write refused |
| `invalidation` | 2 accounts, 2 tokens | violated: a mark of `InvalidateToken` is lost |
| `waiting` | 2 reads of 1 query | violated: a read waits without the timer of the online state |
| `acknowledgements` | 2 reads of 1 query | violated: a refusal is not counted as an acknowledgement |
| `resumable_data` | 2 views, 1 image | violated: a load that ends early loses what was kept of the image |

Several properties are conjunctions of parts that have names of their own: `PipelineAgrees` and `HandlersFindTheirRows`
of `WritePipeline`, `StartsWithItsToken` of `Credentials`, `StaysSignedIn` of `Publishing`.

Bounds.  Two accounts are what an account switch needs, and a third write overflows a
pipeline of two, so that refilling behind a full pipeline, skipping and reordering
are all possible.  `MaxBreaks` bounds stream errors, connectivity changes and process
deaths together: two of them let a resend be interrupted again.  A stack of four is Main, Login, Writing, WritingAdd, the
longest path before the Article screen goes on top of it (pushes by callbacks are
not bounded by `MaxDepth`); six screen identities are more than that stack and all
closures can hold.  `MaxDrops` bounds the forced sign-outs; two of them let both writes of an article
go through the signed-out queue, or either one.  In `Credentials`,
`Requests` names the calls of `GetToken` that are under way, more than there ever are (with four for one
account, one is always free); the last of the `MaxSerial` tokens of an account is
never rejected, and a refresh then returns it again.  One account and the signed-out user are
the two users that a token or a stream can pass between.
In `ReadPath` two reads listen, remove and listen again behind each other on one target, which the server may
refuse; a second version of the data makes an old answer differ from a new one; `MaxBreaks` bounds failures
of an open stream and restarts of the network, and failing attempts to connect are not bounded.
In `LocalView` the server commits five times, which is enough for both writes of an article to be sent again
between snapshots of any age.  In `ImageLoading` an image of two pieces is the smallest that can be resumed, and
one connection for two views makes loads wait; four tasks are one article on each of two screens, or one after
the other on the same.

Larger instances have been checked once and are too large to be repeated: `Publishing` with two articles, whose
chains of closures overlap (1.25 million states up to symmetry, no forced sign-outs); `Credentials` with two accounts
(866 000 states up to symmetry, safety, and 142 000 with one token each, liveness) and with two accounts, two tokens and three
requests (21 million, safety); `ReadPath` with three reads (6.8 million) and with two queries (20 million, safety); `ImageLoading`
with two images (11 million, safety).

Symmetry (accounts, writes, articles, reads) is used for safety only.

Fairness.  `WritePipeline`: weak fairness of `Progress`, the disjunction of what the worker
queue runs by itself (its timers and callbacks) and the answers of a reachable server;
none for taps, breaks, account changes or deaths, and `MaxBreaks` makes breaks stop.
`Publishing`: weak fairness for the server's commits and for main queue completions; strong
fairness for the acknowledgement, since `ConnectionBreaks` may happen again and again and the
assumption is that a connection lasts long enough now and then.  An upload ends one way
or the other.

`Credentials`: weak fairness for queues, timers and the existence of an answer; strong fairness for a
fetch that succeeds, for acknowledgements and for the rejection of a token, all of which a broken
network may put off any number of times.

`ImageLoading`: weak fairness of the pipeline's queue and of each load's operations and connection (a session
task answers or times out), strong fairness of what has been dispatched to the main queue: it is the main queue's turn
again and again, also between the taps of a reader who opens and closes screens all the time.

`ReadPath`: weak fairness of both queues, the timers, the server and the delivery of what is on an
open stream (`Runs`).  `LiveSpec` adds that an attempt to connect ends, one way or the other;
`HangingSpec`, for `waiting`, does not.  Whoever asks, breaks a stream or changes rules is free not to.
`EveryReadIsAnswered` and `AnswersAreFresh` are stated for rules that do not change: finding 4 tells why.

### Findings

1. **Success is shown for an article that was not saved** (`success_means_saved`). The first
   `setData` (`WritingAddViewController.swift:157`) has no completion; the success
   branch that line 211 comments as "when saving to Firestore has succeeded" depends on the second
   write alone.
2. **InvalidateToken may have no effect** (`invalidation`).  `GetToken` resets `force_refresh` after the
   call, without the mutex; repeated on the main queue it resets a mark that the worker queue has just
   set, against `credentials_provider.h:53`.  The next rejection sets it again.
3. **A read may wait without a timeout** (`waiting`).  When the last target goes while the stream is being
   connected, `StopListening` (`remote_store.cc:187`) sets the online state back to Unknown, which
   cancels its timer.  The next `Listen` finds the stream started and sets none: against
   `online_state_tracker.cc:44-46` its read waits for as long as the attempt hangs.
4. **A refusal may not count as an acknowledgement** (`acknowledgements`).  `ProcessTargetError` ignores the error of a target
   that has been removed (`remote_store.cc:360`), although it answers a counted request; the number of "pending
   responses" stays one too high until the stream ends.  If the same query is then allowed and read again on
   that stream, whatever the server sends for it is ignored, and the read is never answered.
   The refusal of a target that is listened to errs the other way: it forgets the count together with the target (`remote_store.cc:362`), although
   answers to requests after the refused one may still be due.  If the rules change while they are, a later listen takes
   the acknowledgement and the documents of an earlier one for its own, and a read may be answered "from the server" with data older than
   its call.  This takes four reads and one change of rules (TLC finds it in 30 steps on an instance that is too large to be repeated); it came up as a
   step of the proof of `AnswersAreFresh` that fails, and it is why that property is stated for rules that do not change.

5. **Resumable data may be lost** (`resumable_data`).  `loadImageData` takes what was kept of an image out of its cache; the
   comment there says that it is put back if the request fails again.  `tryToSaveResumableData` (`ImagePipeline.swift:840`) saves what
   the new load has received, and nothing before its first response: cancelled or failed before that, it starts from zero the next time.

Facts about Nuke that the model has and no promise speaks about: a download that is cancelled between its last piece and its completion is
kept whole, the next load asks for an empty range, is refused (416) and fails, and only the one after that works; a refused response
completes a load twice, against `DataLoader.swift:13`, without harm (`CallbacksAreCurrent`); an image that has been decompressed is
cached even if nobody waits for it any more.

Two more facts that the model of publishing has and no comment of the code speaks about: the
writing button opens the sign-up screen even for a signed-in user, and a new account leaves the old
one's pending writes on disk with no sign-in to get back to them; and a failed upload or URL falls into
empty branches, so that a release may end without a word.  The properties are stated with the exceptions
this makes necessary (`current = u` for good; `PictureFails` ends a release).

What holds, and is less obvious: although a resent set takes the picture off a published
article, it comes back (`PictureLossIsTransient`) and never after the success message
(`CongratulatedKeepsPicture`), which both rest on the queue's order.  On the device of its author
it never goes away at all (`NothingFlickers`), as long as the account stays and the cache is not trimmed: the
pending writes and the comparison of versions cover for each other.

## 4. The proofs

`WriteQueueProofs.tla` proves, for any accounts and writes and with no assumption
on them, that `WriteQueue` satisfies its type invariant (`TypeCorrect`), `NoGaps`
(`NeverAGap`), `PendingOnce` (`NeverTwice`) and `HandlersTellTheTruth`
(`TruthfulHandlers`).

The last three are not inductive.  That a commit leaves no gap depends on everything in
front of the cursor being committed already (`CursorCommitted`); that a new write leaves
none, and is nowhere else in the queues, depends on a write that was never made being
neither queued nor committed (`UnissuedIsNowhere`).  `Inv` is the conjunction.  There is a lemma
per action; `Acknowledge` and `Reject` share `PopInv`, the three ways of losing the
connection share `ResetInv`.

`ReadPathProofs.tla` proves about `ReadPath`, from `ReadPathAssumption` (finite sets of reads and queries,
`None` distinct from queries and events, natural bounds, at least one version), for any number of reads, queries,
breaks and changes: `TypeCorrect`, `WatchedIsListened` (`ListenedIsWatched`), `TrackerConsistent`
(`TrackerIsConsistent`) and the action property `NeverAnsweredTwice` (`AnsweredOnce`).

That a completion is called once is not a matter of muting alone: an error does not mute the listener, since
the event manager has forgotten it already, and only the order of the queues rules out that anything
follows the error.  `OneLife` says what the life of a read is: it is asked for, waits once in
the worker queue, listens, is answered; an error is the last event it is sent; who is removed has been
answered.  `ListenedIsWatched` needs it, too, since a removal has to find its listener
or a target that was refused.  `TrackerIsConsistent` needs `ListenedIsWatched` (a timer is set only by a stream that has
targets), and `WireIsOpen` that no message arrives on a stream that is not open.  `Inv` is the conjunction.
The events of one step are an arbitrary enumeration of a finite set; `OrderOfImage` and `RaiseFacts` say
what such an enumeration puts on the main queue.

A second invariant, `SteadyInv`, holds while the server's rules do not change and proves `OwedIsOutstanding` (`OutstandingIsOwed`) and `FreshAnswers`
(`AnswersAreFresh`).  That the count of pending responses is right (`CountsAreRight`) takes that nothing but
refusals is heard of what is refused and of nothing else (`RefusalsAreKnown`); each step on the connection then moves one
acknowledgement or none.  A message is `Settled` when no acknowledgement for its target is due behind it: only such
messages can count for the client in the end, since it ignores a target that has responses pending.  `FreshAt` says that what is
settled, on the stream or already in the aggregator, is not older than the call of the one read that listens: its documents (`DocumentsFit`), a
target that is marked current has documents in front of the mark (`CurrentFits`), what the next snapshot will apply
(`ChangesFit`) and a view in sync (`SyncedFits`).  A new listen has it because its own acknowledgement is still due and nothing is settled; the server's
answer keeps it since it sends the version it has, which is never older than a call (`AskedInTime`).  From there it goes
with the event (`EventsAreFresh`) into the answer (`AnswersAreYoung`).

`ImageLoadingProofs.tla` proves about `ImageLoading`, from `ImageLoadingAssumption` (`None` is neither a view nor an image nor a
number, positive bounds), for any views, images, connections and calls: `NoCallbackAfterCancel` (`CallbacksAreCurrent`) and
`RightPicture` (`PictureFits`).  An ImageTask waits in three places one after the other, the pipeline's queue, its load's subscribers and the
main queue, at most once each (`OneLife`); whoever waits anywhere is the outstanding task of its view or has been
cancelled (`WaitingIsOutstanding`), which a call keeps up by cancelling on the main queue, before the pipeline hears of it.  The outstanding
task is for the image of the view's article (`OutstandingFits`), so that what `Deliver` shows fits.  `LoadsShape`
is what the subscriptions need of the loads: whoever names a load, names one that was made.  `QuietStep` and `FinishStep`
cover the pipeline's blocks and the other threads: they start nobody, and at most move a load's subscribers to the main queue.

The loads themselves are the subject of `LoadsInv`, which proves `TypeCorrect`, `OneDownloadEach` (`DownloadsAreWanted`) and `NothingIsMissing`
(`DecodedIsWhole`).  The blocks of a load are on the pipeline's queue in the order of its life (`BlocksInOrder`); an operation executes, and a
connection is taken, only while somebody waits for the load, but for the one block that has not noticed yet (`Occupied`); the report of an end finds the
load as it was left (`Reported`); and the pieces received, those in blocks that wait on the queue and those the server has still to send
make an image, together with what was kept if the server agreed to resume (`PiecesFit`).  The number of blocks that carry a piece is
a cardinality; `CountAppend`, `CountTail` and `CountConcat` of `SequenceFacts` say what queues do to it.

`WritePipelineProofs.tla` proves about `WritePipeline`, for any accounts and writes, from `kMaxPendingWrites` positive and `MaxBreaks` natural:
`TypeCorrect`, `PipelineAlwaysAgrees` (`PipelineAgrees`), `HandlersAlwaysFindTheirRows` (`HandlersFindTheirRows`) and
`Refinement`, that it implements `WriteQueue` (`ImplementsWriteQueue`).  The two invariants are nearly inductive together: what is
missing is that a stream is opened, and its handshake awaited, only with writes in the pipeline (`StreamIsWanted`, without
which a graceful stop could meet a write), that a handshake is an open stream's, and that ids start at one.  What
is missing for handlers is a fact about the abstract queue, that a write waits in one row only; so the invariant is `PipelineInv` together with that of
`WriteQueueProofs` under the refinement mapping, and each step is shown to keep the first and to be a step of
`WriteQueue`, which keeps the second by the theorems proved there.  `PositionIs` and `PutLast` say what finding and
writing rows by key amounts to.

`CredentialsProofs.tla` proves about `Credentials`, for any accounts, requests, token numbers and sign-outs, `TypeCorrect`, `TokensNameTheirOwners`
(`TokenNamesItsOwner`), `StreamAlwaysSpeaksForCurrent` (`StreamSpeaksForCurrent`) and `StartsAlwaysWithItsToken` (`StartsWithItsToken`).
That a token and the user it is handed out for agree has a history that spans three threads.  A request is held in one place only
(`HeldOnce`); the last notification, or change of user, in a queue carries the latest user, and without one its reader knows that
user (`ProviderFollows`, `WorkerFollows`); hence an answer that no notification will outdate is for the provider's user
(`SteadyIsForProvider`: this is what the comparison of `token_counter` is worth), and one that no change will outdate is for the
user of the stream (`AwaitedIsForCurrent`: what `close_count_` is worth).  It takes `CredentialsAssumption`, and `NoneAssumption`, that a stream without token can be told from one with.

`LocalViewProofs.tla` proves about `LocalView`, for any accounts, articles and versions, `TypeCorrect`, `WatchAlwaysHasTheLastWord`
(`WatchHasTheLastWord`), `PublishedStaysVisible` (`PublishedIsVisible`), `ViewAlwaysEarned` (`ViewIsEarned`) and the action property
`NeverFlickers` (`NothingFlickers`).  The server's history is orderly: a version identifies contents, and a text that is there stays
(`HistoryIsOrderly`); an acknowledgement under way is about a document that keeps its field from that version on
(`AcksAreTrue`); so every entry of the cache is sound at its version (`CacheIsSound`) and one that is acknowledged is there (`AcknowledgedIsCached`).  The last
needs the order of the queue (`TextGoesFirst`): a picture acknowledged while the text was still pending would be a guess
without text.  With all of it, what its author sees of an article is exactly what was written and not refused
(`InvOwnView`), from which nothing flickers.  `GetDocument` folds over the whole queue; `DocumentIsShown` proves its closed form, by the first position
at which the two would differ.

`PublishingProofs.tla` proves about `Publishing`, from `PublishingAssumption` (the markers `None`, `Empty` and `SignedOut` are
none of the things they stand beside), for any accounts, articles, texts, screens and bounds, all its safety properties: `TypeCorrect`, `PicturesNeverDangle`
(`NoDanglingPicture`), `NobodyWritesSignedOut` (`SignedOutNeverWrites`), `HeadlessIsExplained` (`HeadlessOnlyIfRefusedOrSwitched`),
`LostPicturesReturn` (`PictureLossIsTransient`) and `CongratulationsHold` (`CongratulatedKeepsPicture`); and `UsesTheQueue`, that the app's
steps are those of `WriteQueue`, so that the theorems about the queue hold for its writes.  Only `TypeOK`, `NoDanglingPicture` and `PictureLossIsTransient` are
part of the invariant themselves.  What the closures know is in `ReleaseIsOrderly` (how far the writes of an article are in each
phase) and `NobodyYet` (nothing is under way before the first account).  What they do not know, the queue does for them: the
text is in front of the picture, and while it is pending the picture of the same account is (`TextGoesFirst`), a picture served on the present connection has
not been taken off again (`ServedIsThere`), a committed picture has had a text before it or a refusal (`PictureFollowsText`).  The
success message then is about a picture that is neither queued nor refused, which leaves no text that could take it off.

Only model-checked: liveness (`QueueDrains`, `StaysSignedIn`, `FollowsAuth`, `WritesGoOut`, `EveryLoadEnds`, `EveryReadIsAnswered`), as liveness under
fairness and ENABLED are out of the prover's reach.  Every safety property of the passing runs is a theorem.

## 5. Assumptions and limits

* Servers and UIKit are external.  A server looks at the token of a stream before anything else
  on it.  It handles the requests of one write stream in order, ends the stream at the first one it refuses, and never handles a request of an older stream after
  one of a newer stream.  It does not end a write stream with status OK while writes are pending.
* Picture names come from the clock and are taken as unique; document ids are random
  and taken as unique.
* Each account is created once (`tried`), each document is released once (`Articles`): both
  are identities, not limits of the program.
* Category, style, `createdAt` and the bytes of pictures are abstracted.
* gRPC, LevelDB, the keychain and the upload fetcher are taken to do what their interface says.
* Nuke's server honours ranges, and a picture does not change under its URL.

Not modelled:

* The pager, layout, delegates with empty bodies, the splash screen's timer and the wheels of category and style: they have
  no state that another part reads back.
* Reading the feed once and the crash at a tap on its row: one statement each, with nothing to interleave.
* gRPC, BoringSSL, abseil, nanopb, LevelDB, Google's analytics and utilities: third-party libraries of more than half a million lines
  below the interfaces that are modelled.  The repository vendors them in source form, so that the modelled lines, nearly
  all of the app's own logic and the SDKs' part of it, are a small share of all lines.
* Of the SDKs, what the app never calls: transactions, listeners that stay, queries with conditions, deletions,
  transforms, `DisableNetwork`, sign-in, Storage's downloads, Nuke's processors, disk cache, previews and prefetching.

## 6. Plan

1. A composition of `Credentials` with `WritePipeline`, whose step `Starting` to `Open` it refines.
2. A composition of `ReadPath` with `LocalView`: the result sets that reads are given.
