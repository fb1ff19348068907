--------------------------- MODULE WritePipeline ---------------------------
(***************************************************************************)
(* The write path of the Firestore SDK inside the app: LocalStore and its *)
(* LevelDB mutation queues (persistent, one per account), SyncEngine (the *)
(* completion handlers), RemoteStore (the write pipeline) and WriteStream *)
(* (the gRPC stream with its handshake, backoff and idle timer).          *)
(*                                                                         *)
(* All client steps run on the SDK's worker queue, so each one is a       *)
(* single action, with every call it makes.  The server and the network   *)
(* are external: they may answer, refuse or break at any point.  The app  *)
(* never disables the network, so is_network_enabled_ is TRUE between     *)
(* steps.  Every write of the app is one setData call, hence one batch.   *)
(***************************************************************************)
EXTENDS Naturals, Integers, Sequences, FiniteSets

CONSTANTS Users,             \* the accounts
          Writes,            \* the writes the app can issue
          kMaxPendingWrites, \* capacity of the write pipeline (10 in the code)
          MaxBreaks          \* bound: how often a stream breaks or the process dies

ASSUME PipelineAssumption == kMaxPendingWrites \in Nat \ {0}
ASSUME BreaksAssumption == MaxBreaks \in Nat

VARIABLES
  current,       \* SyncEngine::current_user_
  mutationQueue, \* persisted: mutationQueue[u], the rows of u in key order
  nextBatchId,   \* LevelDbMutationQueue::next_batch_id_ of the open queue
  callbacks,     \* SyncEngine::mutation_callbacks_: account, batch id and handler
  pipeline,      \* RemoteStore::write_pipeline_
  stream,        \* Stream::state_
  handshake,     \* WriteStream::handshake_complete_
  idle,          \* Stream::idleness_timer_ is armed
  wire,          \* batches sent on this stream, not processed by the server
  responses,     \* results sent by the server on this stream, not yet read
  committed,     \* history: the writes the server has ever committed
  refused,       \* history: the writes dropped because the server refused them
  completion,    \* history: what became of each write's completion handler
  breaks         \* how many breaks so far (bounded by MaxBreaks)

vars == <<current, mutationQueue, nextBatchId, callbacks, pipeline, stream,
          handshake, idle, wire, responses, committed, refused, completion, breaks>>

Batch == [id : Nat, write : Writes]
Handler == [user : Users, id : Nat, write : Writes]
Response == [batch : Batch, ok : BOOLEAN]
StreamState == {"Initial", "Starting", "Open", "Error", "Backoff"}

kBatchIdUnknown == -1

-----------------------------------------------------------------------------
\* Tables of rows ordered by batch id.

\* The first position whose batch id is above id; past the end if there is none.
PositionAfter(rows, id) ==
  CHOOSE p \in 1 .. Len(rows) + 1 :
    /\ \A i \in 1 .. p - 1 : rows[i].id <= id
    /\ p <= Len(rows) => rows[p].id > id

\* LevelDB Put: a row with the same key is overwritten.
Put(rows, row) ==
  SubSeq(rows, 1, PositionAfter(rows, row.id - 1) - 1)
    \o <<row>>
    \o SubSeq(rows, PositionAfter(rows, row.id), Len(rows))

\* Fault: a range delete whose end is one key too far.
DeleteOneTooMany(rows, id) ==
  SubSeq(rows, 1, PositionAfter(rows, id - 1) - 1)
    \o SubSeq(rows, PositionAfter(rows, id + 1), Len(rows))

\* LevelDB Delete of the row with this key.
Delete(rows, id) ==
  SubSeq(rows, 1, PositionAfter(rows, id - 1) - 1)
    \o SubSeq(rows, PositionAfter(rows, id), Len(rows))

\* The ids of the rows of all accounts.
BatchIds(tables) == UNION {{tables[u][i].id : i \in DOMAIN tables[u]} : u \in Users}

\* Fault: the largest id itself, kBatchIdUnknown if there is none.
LoadHighestBatchId(tables) ==
  CHOOSE n \in BatchIds(tables) \cup {kBatchIdUnknown} :
    \A m \in BatchIds(tables) : m <= n

\* Fault: the rows on disk are not looked at.
LoadFirstBatchId(tables) == 1

\* LoadNextBatchIdFromDb: one more than the largest id of any account.
LoadNextBatchId(tables) ==
  1 + (CHOOSE n \in BatchIds(tables) \cup {0} :
         \A m \in BatchIds(tables) : m <= n)

-----------------------------------------------------------------------------
\* RemoteStore.

MinOf(a, b) == IF a <= b THEN a ELSE b

\* FillWritePipeline's loop: take the rows after the last one in the pipeline,
\* in order, until the pipeline is full.
Refilled(pipe, rows) ==
  LET last  == IF pipe = <<>> THEN kBatchIdUnknown ELSE pipe[Len(pipe)].id
      first == PositionAfter(rows, last)
      room  == kMaxPendingWrites - Len(pipe)
  IN  pipe \o SubSeq(rows, first, MinOf(first + room - 1, Len(rows)))

\* Fault: a stream in error is taken for one that needs no start.
StartedUnlessError(state, pipe) ==
  IF pipe # <<>> /\ state = "Initial" THEN "Starting" ELSE state

\* Stream::Start, as FillWritePipeline and OnWriteStreamClose call it when
\* ShouldStartWriteStream: a stream in error backs off first.
Started(state, pipe) ==
  CASE pipe # <<>> /\ state = "Initial" -> "Starting"
    [] pipe # <<>> /\ state = "Error"   -> "Backoff"
    [] OTHER                            -> state

\* FillWritePipeline on an account's rows, from the given pipeline, stream
\* state and handshake flag.  New batches go out at once on a stream whose
\* handshake is done; sending cancels the idle timer, an empty pipeline on an
\* open stream arms it.
FillWritePipeline(pipe, rows, state, shaken, sent, timer) ==
  LET filled == Refilled(pipe, rows)
      new    == SubSeq(filled, Len(pipe) + 1, Len(filled))
      ready  == state = "Open" /\ shaken
  IN  /\ pipeline' = filled
      /\ stream' = Started(state, filled)
      /\ handshake' = shaken
      /\ wire' = IF ready THEN sent \o new ELSE sent
      /\ idle' = IF ready /\ new # <<>> THEN FALSE
                 ELSE timer \/ (filled = <<>> /\ state = "Open")

\* Fault: the pipeline is refilled without being dropped first.
RestartNetworkKeepsPipeline(rows) ==
  /\ FillWritePipeline(pipeline, rows, "Initial", FALSE, <<>>, FALSE)
  /\ responses' = <<>>

\* RestartNetwork: stop the stream, drop the pipeline, clear the error state
\* and fill the pipeline again from the given rows.
RestartNetwork(rows) ==
  /\ FillWritePipeline(<<>>, rows, "Initial", FALSE, <<>>, FALSE)
  /\ responses' = <<>>

\* The stream closes with an error: what was in flight is lost, the handshake
\* has to be done again, and the stream backs off if it is still needed.
CloseWithError ==
  /\ stream' = Started("Error", pipeline)
  /\ handshake' = FALSE
  /\ idle' = FALSE
  /\ wire' = <<>>
  /\ responses' = <<>>

\* SyncEngine::NotifyUser: call and erase the current account's handler, if any.
NotifyUser(id, outcome) ==
  LET called == {h \in callbacks : h.user = current /\ h.id = id}
  IN  /\ callbacks' = callbacks \ called
      /\ completion' = [w \in Writes |->
                          IF \E h \in called : h.write = w THEN outcome
                                                           ELSE completion[w]]

-----------------------------------------------------------------------------
Init ==
  /\ current \in Users
  /\ mutationQueue = [u \in Users |-> <<>>]
  /\ nextBatchId = 1
  /\ callbacks = {}
  /\ pipeline = <<>>
  /\ stream = "Initial"
  /\ handshake = FALSE
  /\ idle = FALSE
  /\ wire = <<>>
  /\ responses = <<>>
  /\ committed = {}
  /\ refused = {}
  /\ completion = [w \in Writes |-> "unissued"]
  /\ breaks = 0

Break == breaks < MaxBreaks /\ breaks' = breaks + 1

\* The app calls setData: persist the batch, register the handler, refill.
\* unordered_map::insert keeps a handler that is already there.
WriteMutations(w) ==
  LET row  == [id |-> nextBatchId, write |-> w]
      rows == Put(mutationQueue[current], row)
  IN  /\ completion[w] = "unissued"
      /\ mutationQueue' = [mutationQueue EXCEPT ![current] = rows]
      /\ nextBatchId' = nextBatchId + 1
      /\ callbacks' =
           IF \E h \in callbacks : h.user = current /\ h.id = row.id
           THEN callbacks
           ELSE callbacks \cup {[user |-> current, id |-> row.id, write |-> w]}
      /\ completion' = [completion EXCEPT ![w] = "waiting"]
      /\ FillWritePipeline(pipeline, rows, stream, handshake, wire, idle)
      /\ UNCHANGED <<current, responses, committed, refused, breaks>>

\* The backoff timer fires: Start() again.
BackoffElapsed ==
  /\ stream = "Backoff"
  /\ stream' = "Starting"
  /\ UNCHANGED <<current, mutationQueue, nextBatchId, callbacks, pipeline,
                 handshake, idle, wire, responses, committed, refused, completion, breaks>>

\* The token has arrived, the stream opens and the handshake request goes out.
OnWriteStreamOpen ==
  /\ stream = "Starting"
  /\ stream' = "Open"
  /\ idle' = FALSE
  /\ UNCHANGED <<current, mutationQueue, nextBatchId, callbacks, pipeline,
                 handshake, wire, responses, committed, refused, completion, breaks>>

\* The first response: every write of the pipeline is sent (again).
OnWriteStreamHandshakeComplete ==
  /\ stream = "Open"
  /\ ~handshake
  /\ handshake' = TRUE
  /\ wire' = wire \o pipeline
  /\ idle' = (idle /\ pipeline = <<>>)
  /\ UNCHANGED <<current, mutationQueue, nextBatchId, callbacks, pipeline,
                 stream, responses, committed, refused, completion, breaks>>

\* A later response.  It carries no batch id: it stands for the first write of
\* the pipeline.
OnWriteStreamMutationResult ==
  /\ responses # <<>>
  /\ Head(responses).ok
  /\ LET batch == Head(pipeline)
         rows  == Delete(mutationQueue[current], batch.id)
     IN  /\ NotifyUser(batch.id, "ok")
         /\ mutationQueue' = [mutationQueue EXCEPT ![current] = rows]
         /\ FillWritePipeline(Tail(pipeline), rows, stream, handshake, wire, idle)
  /\ responses' = Tail(responses)
  /\ UNCHANGED <<current, nextBatchId, committed, refused, breaks>>

\* The stream closes with a permanent error after the handshake: the first
\* write of the pipeline is dropped and the stream restarts without backoff.
HandleWriteError ==
  /\ responses # <<>>
  /\ ~Head(responses).ok
  /\ LET batch == Head(pipeline)
         rows  == Delete(mutationQueue[current], batch.id)
     IN  /\ NotifyUser(batch.id, "error")
         /\ refused' = refused \cup {batch.write}
         /\ mutationQueue' = [mutationQueue EXCEPT ![current] = rows]
         /\ FillWritePipeline(Tail(pipeline), rows, "Initial", FALSE, <<>>, FALSE)
  /\ responses' = <<>>
  /\ UNCHANGED <<current, nextBatchId, committed, breaks>>

\* The stream fails to open, breaks, or ends with a transient error (before the
\* handshake: with any error).
OnWriteStreamError ==
  /\ stream \in {"Starting", "Open"}
  /\ Break
  /\ CloseWithError
  /\ UNCHANGED <<current, mutationQueue, nextBatchId, callbacks, pipeline,
                 committed, refused, completion>>

\* The idle timer fires and stops the stream gracefully.
IdleTimeout ==
  /\ idle
  /\ stream' = Started("Initial", pipeline)
  /\ handshake' = FALSE
  /\ idle' = FALSE
  /\ wire' = <<>>
  /\ responses' = <<>>
  /\ UNCHANGED <<current, mutationQueue, nextBatchId, callbacks, pipeline,
                 committed, refused, completion, breaks>>

\* The connectivity monitor reports a new network, or the account's token is
\* renewed: the streams restart under the same account.
StreamsRestarted ==
  /\ Break
  /\ RestartNetwork(mutationQueue[current])
  /\ UNCHANGED <<current, mutationQueue, nextBatchId, callbacks, committed,
                 refused, completion>>

\* Another account signs in: open its mutation queue and restart the streams.
UserChanged(u) ==
  /\ u # current
  /\ current' = u
  /\ nextBatchId' = LoadNextBatchId(mutationQueue)
  /\ RestartNetwork(mutationQueue[u])
  /\ UNCHANGED <<mutationQueue, callbacks, committed, refused, completion, breaks>>

\* The process dies and the client is initialised again, for the account that
\* FIRAuth has read from the keychain by then.
Restart(u) ==
  /\ Break
  /\ current' = u
  /\ nextBatchId' = LoadNextBatchId(mutationQueue)
  /\ callbacks' = {}
  /\ completion' = [w \in Writes |-> IF completion[w] = "waiting"
                                     THEN "lost" ELSE completion[w]]
  /\ RestartNetwork(mutationQueue[u])
  /\ UNCHANGED <<mutationQueue, committed, refused>>

-----------------------------------------------------------------------------
\* The server (external).  It takes the writes of a stream in order and ends the
\* stream at the first one it refuses.
StreamAlive == \A i \in DOMAIN responses : responses[i].ok

ServerCommits ==
  /\ wire # <<>>
  /\ StreamAlive
  /\ committed' = committed \cup {Head(wire).write}
  /\ wire' = Tail(wire)
  /\ responses' = Append(responses, [batch |-> Head(wire), ok |-> TRUE])
  /\ UNCHANGED <<current, mutationQueue, nextBatchId, callbacks, pipeline,
                 stream, handshake, idle, refused, completion, breaks>>

ServerRefuses ==
  /\ wire # <<>>
  /\ StreamAlive
  /\ responses' = Append(responses, [batch |-> Head(wire), ok |-> FALSE])
  /\ UNCHANGED <<current, mutationQueue, nextBatchId, callbacks, pipeline,
                 stream, handshake, idle, wire, committed, refused, completion, breaks>>

-----------------------------------------------------------------------------
\* What the network and the server do when nothing breaks.
Progress ==
  \/ BackoffElapsed
  \/ OnWriteStreamOpen
  \/ OnWriteStreamHandshakeComplete
  \/ OnWriteStreamMutationResult
  \/ HandleWriteError
  \/ ServerCommits
  \/ ServerRefuses

Next ==
  \/ \E w \in Writes : WriteMutations(w)
  \/ Progress
  \/ OnWriteStreamError
  \/ IdleTimeout
  \/ StreamsRestarted
  \/ \E u \in Users : UserChanged(u) \/ Restart(u)

Spec == Init /\ [][Next]_vars

\* The worker queue runs its timers and callbacks, and a server that is reached
\* answers.  Nothing is assumed of the users, of breaks or of process deaths.
FairSpec == Spec /\ WF_vars(Progress)

-----------------------------------------------------------------------------
(***************************************************************************)
(* Properties.                                                             *)
(***************************************************************************)

\* Every variable has the type its C++ declaration gives it.
TypeOK ==
  /\ current \in Users
  /\ mutationQueue \in [Users -> Seq(Batch)]
  /\ nextBatchId \in Nat
  /\ callbacks \subseteq Handler
  /\ pipeline \in Seq(Batch)
  /\ stream \in StreamState
  /\ handshake \in BOOLEAN
  /\ idle \in BOOLEAN
  /\ wire \in Seq(Batch)
  /\ responses \in Seq(Response)
  /\ committed \subseteq Writes
  /\ refused \subseteq Writes
  /\ completion \in [Writes -> {"unissued", "waiting", "ok", "error", "lost"}]
  /\ breaks \in 0 .. MaxBreaks

\* The pipeline holds the oldest writes of the signed-in account, in order,
\* whatever refills, user changes and restarts have happened: nothing of another
\* account is ever sent and no write is skipped.
PipelineIsQueuePrefix ==
  /\ Len(pipeline) <= kMaxPendingWrites
  /\ Len(pipeline) <= Len(mutationQueue[current])
  /\ \A i \in DOMAIN pipeline : pipeline[i] = mutationQueue[current][i]

\* How many unread responses report a commit.
Acked == IF StreamAlive THEN Len(responses) ELSE Len(responses) - 1

\* A response carries no id, yet it is always about the write the code takes it
\* for: the commits not yet read and the writes on the wire are, in this order,
\* exactly the pipeline, and a refusal is about the first write after them.
ResponsesMatchPipeline ==
  /\ responses # <<>> \/ wire # <<>> => stream = "Open" /\ handshake
  /\ handshake => /\ Acked + Len(wire) = Len(pipeline)
                  /\ \A i \in 1 .. Acked : /\ responses[i].ok
                                           /\ responses[i].batch = pipeline[i]
                  /\ \A i \in 1 .. Len(wire) : wire[i] = pipeline[Acked + i]
  /\ ~StreamAlive => /\ wire # <<>>
                     /\ responses[Len(responses)] = [batch |-> wire[1], ok |-> FALSE]

\* Batch ids are reused once a queue has drained and the client restarts or the
\* account changes, but never while a row with that id is pending: no write
\* overwrites another one, and keys keep the order in which writes were made.
BatchIdsFresh ==
  /\ \A u \in Users : \A i \in DOMAIN mutationQueue[u] :
       mutationQueue[u][i].id \in 1 .. nextBatchId - 1
  /\ \A u \in Users : \A i, j \in DOMAIN mutationQueue[u] :
       i < j => mutationQueue[u][i].id < mutationQueue[u][j].id

\* A registered handler belongs to a pending write: to the row with its id, and
\* that row holds the very write the handler was given with.  Its account may
\* have been replaced in the meantime.  No handler is forgotten while the
\* process lives.
HandlersArePending ==
  /\ \A h \in callbacks :
       /\ completion[h.write] = "waiting"
       /\ \E i \in DOMAIN mutationQueue[h.user] :
            mutationQueue[h.user][i] = [id |-> h.id, write |-> h.write]
  /\ \A w \in Writes : completion[w] = "waiting" => \E h \in callbacks : h.write = w

\* The HARD_ASSERT of OnWriteStreamClose: a graceful stop never hits a stream
\* that still has writes to send.
GracefulStopIsUnneeded == idle => stream = "Open" /\ pipeline = <<>>

\* What RemoteStore holds in memory, the oldest writes of the account on disk and
\* what is under way on the stream agree at the end of every task of the worker
\* queue (remote_store.cc, FillWritePipeline to OnWriteStreamClose).
PipelineAgrees == PipelineIsQueuePrefix /\ ResponsesMatchPipeline /\ GracefulStopIsUnneeded

\* What the handlers are registered for and what is on disk agree: the ids that
\* leveldb_mutation_queue.cc computes afresh lead every handler to its write.
HandlersFindTheirRows == BatchIdsFresh /\ HandlersArePending

\* The pipeline implements the queue of WriteQueue.tla.
WQ == INSTANCE WriteQueue WITH
        queue  <- [u \in Users |-> [i \in DOMAIN mutationQueue[u] |->
                                      mutationQueue[u][i].write]],
        cursor <- Acked

ImplementsWriteQueue == WQ!Spec

\* If breaks stop and an account stays signed in, all its writes are resolved.
Pending(u, w) == \E i \in DOMAIN mutationQueue[u] : mutationQueue[u][i].write = w

QueueDrains ==
  \A u \in Users : \A w \in Writes :
    <>[](current = u) => [](Pending(u, w) => <>~Pending(u, w))

=============================================================================
