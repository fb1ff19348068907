------------------------------ MODULE ReadPath ------------------------------
(***************************************************************************)
(* How the Firestore SDK answers a one-shot read (getDocuments of the      *)
(* feeds, getDocument of the Article screen).                              *)
(*                                                                         *)
(* A read is a listener that removes itself at its first event.  The main  *)
(* queue asks and gets events, the worker queue adds and removes the       *)
(* listener, keeps one watch stream for all queries and decides, with a    *)
(* timer and a count of failures, whether the client is offline, in which  *)
(* case reads are answered from the cache.  A query that is listened to    *)
(* again is the same target on the same stream, so that answers to the     *)
(* earlier listen are still on their way when the later one begins.        *)
(*                                                                         *)
(* A result set is abstracted to the version of the data it was made of.   *)
(***************************************************************************)
EXTENDS Integers, Sequences, FiniteSets, SequencesExt

CONSTANTS Reads,      \* the calls of getDocuments and getDocument
          Queries,    \* what can be read
          Documents,  \* the queries that ask for one document by its id
          None,
          MaxVersion,     \* bound: how often the server's data changes
          MaxBreaks,      \* bound: failures of an open stream, restarts of the
                          \* network and changes of the server's rules, together
          MaxRuleChanges  \* bound: how often the server changes what it refuses

\* What a listener is told, and a completion is called with.
Versions == 0..MaxVersion
EventType == [read : Reads, from : {"server", "cache", "error"}, version : Versions]

ASSUME ReadPathAssumption ==
  /\ IsFiniteSet(Reads)
  /\ IsFiniteSet(Queries)
  /\ Documents \subseteq Queries
  /\ None \notin Queries \cup EventType
  /\ MaxVersion \in Nat \ {0}
  /\ {MaxBreaks, MaxRuleChanges} \subseteq Nat

VARIABLES
  \* the main queue
  query,      \* query[r]: what read r asks for, None before it is made
  mainQueue,  \* events of listeners on their way to their reads
  muted,      \* reads whose listener has been removed by ListenOnce
  answer,     \* answer[r]: what the completion of r was called with
  \* from the main queue to the worker queue
  workQueue,
  \* EventManager and SyncEngine
  listening,  \* reads whose listener is registered
  raised,     \* reads whose listener has had its initial event
  synced,     \* queries whose view is in sync with the server
  cache,      \* cache[q]: version of the data in the local store, 0 for none
  \* OnlineStateTracker
  online, failures, timer,
  \* RemoteStore, WatchStream, WatchChangeAggregator
  targets,     \* listen_targets_
  stream,      \* state_ of the watch stream
  idle,        \* the idle timer runs
  outstanding, \* outstanding[q]: acknowledgements the aggregator waits for
  current,     \* targets the aggregator has been told to be current
  changed,     \* targets with changes for the next snapshot
  docs,        \* docs[q]: version of the documents received for it, 0 for none
  \* the present connection and the server
  requests, responses, watched, version, forbidden,
  \* bounds and history
  breaks, ruleChanges,
  askedAt,    \* askedAt[r]: the server's version when r was made
  alone       \* reads that found no other listener on their query

mainVars   == <<query, muted, answer, askedAt>>
trackVars  == <<online, failures, timer>>
aggVars    == <<outstanding, current, changed, docs>>
serverVars == <<version, forbidden, ruleChanges>>
wire       == <<requests, responses, watched>>
vars == <<query, mainQueue, muted, answer, workQueue, listening, raised, synced,
          cache, online, failures, timer, targets, stream, idle, outstanding,
          current, changed, docs, requests, responses, watched, version,
          forbidden, breaks, ruleChanges, askedAt, alone>>

-----------------------------------------------------------------------------
Task(kind, r) == [kind |-> kind, read |-> r]
Event(r, from, v) == [read |-> r, from |-> from, version |-> v]
Message(kind, q, v) == [kind |-> kind, target |-> q, version |-> v]

Listeners(q) == {r \in listening : query[r] = q}
IsStarted == stream \in {"Starting", "Backoff", "Open"}

\* Events for the listeners in R.  Those of one query are in the order of its
\* listeners, the queries in no order; the model takes any order.
Raise(R, from, data) ==
  \E events \in SetToSeqs({Event(r, from[query[r]], data[query[r]]) : r \in R}) :
    mainQueue' = mainQueue \o events

FromCache == [q \in Queries |-> "cache"]
Failed == [q \in Queries |-> "error"]
NoData == [q \in Queries |-> 0]

\* TargetDataForActiveTarget: messages for a target count as long as it is
\* listened to and no acknowledgement for it is missing.
IsActive(q) == q \in targets /\ outstanding[q] = 0

Init ==
  /\ query = [r \in Reads |-> None]
  /\ mainQueue = <<>>
  /\ muted = {}
  /\ answer = [r \in Reads |-> None]
  /\ workQueue = <<>>
  /\ listening = {}
  /\ raised = {}
  /\ synced = {}
  /\ cache \in [Queries -> {0, 1}]
  /\ online = "Unknown"
  /\ failures = 0
  /\ timer = FALSE
  /\ targets = {}
  /\ stream = "Initial"
  /\ idle = FALSE
  /\ outstanding = [q \in Queries |-> 0]
  /\ current = {}
  /\ changed = {}
  /\ docs = [q \in Queries |-> 0]
  /\ requests = <<>>
  /\ responses = <<>>
  /\ watched = {}
  /\ version = 1
  /\ forbidden \in SUBSET Queries
  /\ breaks = 0
  /\ ruleChanges = 0
  /\ askedAt = [r \in Reads |-> 0]
  /\ alone = {}

-----------------------------------------------------------------------------
\* OnlineStateTracker.

\* Fault: listeners that wait for their first event are forgotten.
BroadcastToViewsOnly(state) ==
  /\ online' = state
  /\ IF state = "Offline" /\ online # "Offline"
     THEN LET told == {r \in listening : r \in raised /\ query[r] \in synced}
          IN  /\ synced' = {}
              /\ Raise(told, FromCache, cache)
     ELSE UNCHANGED <<synced, mainQueue>>
  /\ UNCHANGED raised

\* SetAndBroadcast.  When the client goes offline a synced view becomes a view
\* of the cache, which its listeners are told, and listeners that wait for
\* their first event get it from the cache (ShouldRaiseInitialEvent).
Broadcast(state) ==
  /\ online' = state
  /\ IF state = "Offline" /\ online # "Offline"
     THEN LET told == {r \in listening : r \notin raised \/ query[r] \in synced}
          IN  /\ synced' = {}
              /\ raised' = raised \cup told
              /\ Raise(told, FromCache, cache)
     ELSE UNCHANGED <<synced, raised, mainQueue>>

\* Fault: the timer is not cleared.
UpdateStateOnly(state) ==
  /\ failures' = 0
  /\ online' = state
  /\ UNCHANGED timer

\* Fault: one failure is taken off instead of all.
UpdateStateByOne(state) ==
  /\ timer' = FALSE
  /\ failures' = failures - 1
  /\ online' = state

\* UpdateState with a state other than Offline, which raises no event.
UpdateState(state) ==
  /\ timer' = FALSE
  /\ failures' = 0
  /\ online' = state

\* HandleWatchStreamStart: the first attempt is timed.
WatchStreamStarts ==
  IF failures # 0
  THEN UNCHANGED trackVars
  ELSE /\ online' = "Unknown"
       /\ timer' = TRUE
       /\ UNCHANGED failures

\* HandleWatchStreamFailure followed by HandleWatchStreamStart.  The code goes
\* on counting failures, of which only the first makes a difference.
WatchStreamFailsAndStarts ==
  IF online = "Online"
  THEN /\ Broadcast("Unknown")
       /\ timer' = TRUE
       /\ UNCHANGED failures
  ELSE /\ Broadcast("Offline")
       /\ timer' = FALSE
       /\ failures' = 1

\* The online state timer: no answer within 10 seconds.
OnlineStateTimeout ==
  /\ timer
  /\ timer' = FALSE
  /\ Broadcast("Offline")
  /\ UNCHANGED <<mainVars, workQueue, listening, cache, failures, targets,
                 stream, idle, aggVars, wire, serverVars, breaks, alone>>

-----------------------------------------------------------------------------
\* The main queue.

\* getDocuments or getDocument.
Ask(r, q) ==
  /\ query[r] = None
  /\ query' = [query EXCEPT ![r] = q]
  /\ askedAt' = [askedAt EXCEPT ![r] = version]
  /\ workQueue' = Append(workQueue, Task("add", r))
  /\ UNCHANGED <<mainQueue, muted, answer, listening, raised, synced, cache,
                 trackVars, targets, stream, idle, aggVars, wire, serverVars,
                 breaks, alone>>

\* Fault: the listener is removed without being muted.
DeliverWithoutMute ==
  /\ mainQueue # <<>>
  /\ LET e == Head(mainQueue)
     IN  /\ e.read \notin muted
         /\ answer' = [answer EXCEPT ![e.read] = e]
         /\ workQueue' = IF e.from = "error" THEN workQueue
                         ELSE Append(workQueue, Task("remove", e.read))
  /\ mainQueue' = Tail(mainQueue)
  /\ UNCHANGED <<query, muted, askedAt, listening, raised, synced, cache,
                 trackVars, targets, stream, idle, aggVars, wire, serverVars,
                 breaks, alone>>

\* ListenOnce.OnEvent.  A snapshot removes and mutes the listener first; an
\* error has removed it already.  A document that is not in the cache cannot
\* be answered from there.
Deliver ==
  /\ mainQueue # <<>>
  /\ LET e == Head(mainQueue)
         unavailable == query[e.read] \in Documents /\ e.from = "cache"
                          /\ e.version = 0
     IN  /\ e.read \notin muted
         /\ answer' = [answer EXCEPT ![e.read] =
                         IF unavailable THEN Event(e.read, "error", 0) ELSE e]
         /\ IF e.from = "error"
            THEN UNCHANGED <<muted, workQueue>>
            ELSE /\ muted' = muted \cup {e.read}
                 /\ workQueue' = Append(workQueue, Task("remove", e.read))
  /\ mainQueue' = Tail(mainQueue)
  /\ UNCHANGED <<query, askedAt, listening, raised, synced, cache, trackVars,
                 targets, stream, idle, aggVars, wire, serverVars, breaks, alone>>

\* AsyncEventListener drops the events of a muted listener.
DropMuted ==
  /\ mainQueue # <<>>
  /\ Head(mainQueue).read \in muted
  /\ mainQueue' = Tail(mainQueue)
  /\ UNCHANGED <<mainVars, workQueue, listening, raised, synced, cache,
                 trackVars, targets, stream, idle, aggVars, wire, serverVars,
                 breaks, alone>>

-----------------------------------------------------------------------------
\* The worker queue: listeners come and go.

\* Fault: a request is not counted.
SendUncounted(kind, q) ==
  /\ requests' = Append(requests, Message(kind, q, 0))
  /\ UNCHANGED outstanding

\* SendWatchRequest and SendUnwatchRequest: the request and the
\* acknowledgement that is due for it.
Send(kind, q) ==
  /\ requests' = Append(requests, Message(kind, q, 0))
  /\ outstanding' = [outstanding EXCEPT ![q] = @ + 1]

\* RemoteStore.Listen and, when the stream has to be started, StartWatchStream
\* with a new aggregator.  A stream that has failed backs off first.
ListenRemotely(q) ==
  /\ targets' = targets \cup {q}
  /\ IF ~IsStarted
     THEN /\ stream' = IF stream = "Error" THEN "Backoff" ELSE "Starting"
          /\ WatchStreamStarts
          /\ UNCHANGED <<requests, outstanding, idle>>
     ELSE /\ UNCHANGED <<stream, trackVars>>
          /\ IF stream = "Open"
             THEN Send("watch", q) /\ idle' = FALSE
             ELSE UNCHANGED <<requests, outstanding, idle>>

\* EventManager.AddQueryListener, with SyncEngine.Listen for the first listener
\* of a query, whose view is that of the cache.
AddListener ==
  /\ workQueue # <<>>
  /\ Head(workQueue).kind = "add"
  /\ workQueue' = Tail(workQueue)
  /\ LET r == Head(workQueue).read
         q == query[r]
         from == IF q \in synced THEN "server" ELSE "cache"
     IN  /\ listening' = listening \cup {r}
         /\ IF from = "server" \/ online = "Offline"
            THEN /\ raised' = raised \cup {r}
                 /\ mainQueue' = Append(mainQueue, Event(r, from, cache[q]))
            ELSE UNCHANGED <<raised, mainQueue>>
         /\ IF Listeners(q) = {}
            THEN ListenRemotely(q) /\ alone' = alone \cup {r}
            ELSE UNCHANGED <<targets, stream, idle, outstanding, requests,
                             trackVars, alone>>
  /\ UNCHANGED <<mainVars, synced, cache, current, changed, docs, responses,
                 watched, serverVars, breaks>>

\* Fault: the target is erased only where an unwatch request is sent.
StopListeningIfOpen(q) ==
  IF stream = "Open"
  THEN /\ targets' = targets \ {q}
       /\ Send("unwatch", q)
       /\ idle' = (targets = {q})
       /\ UNCHANGED trackVars
  ELSE UNCHANGED <<targets, requests, outstanding, idle, trackVars>>

\* RemoteStore.StopListening: without targets an open stream becomes idle, and
\* otherwise nobody can tell whether the client is online.
StopListening(q) ==
  /\ targets' = targets \ {q}
  /\ IF stream = "Open"
     THEN /\ Send("unwatch", q)
          /\ idle' = (targets = {q})
          /\ UNCHANGED trackVars
     ELSE /\ UNCHANGED <<requests, outstanding, idle>>
          /\ IF targets = {q} THEN UpdateState("Unknown") ELSE UNCHANGED trackVars

\* EventManager.RemoveQueryListener, with SyncEngine.StopListening for the last
\* listener of a query.  After an error the listener is not there any more.
RemoveListener ==
  /\ workQueue # <<>>
  /\ Head(workQueue).kind = "remove"
  /\ workQueue' = Tail(workQueue)
  /\ LET r == Head(workQueue).read
         q == query[r]
     IN  /\ listening' = listening \ {r}
         /\ IF r \in listening /\ Listeners(q) = {r}
            THEN StopListening(q) /\ synced' = synced \ {q}
            ELSE UNCHANGED <<targets, requests, outstanding, idle, trackVars, synced>>
  /\ UNCHANGED <<mainVars, mainQueue, raised, cache, stream, current, changed,
                 docs, responses, watched, serverVars, breaks, alone>>

-----------------------------------------------------------------------------
\* The worker queue: the watch stream.

\* Fault: the aggregator is kept for the next stream.
AggregatorKept ==
  /\ UNCHANGED aggVars
  /\ requests' = <<>>
  /\ responses' = <<>>
  /\ watched' = {}
  /\ idle' = FALSE

\* The aggregator and the messages of a stream go with it.
Disconnected ==
  /\ outstanding' = [q \in Queries |-> 0]
  /\ current' = {}
  /\ changed' = {}
  /\ docs' = [q \in Queries |-> 0]
  /\ requests' = <<>>
  /\ responses' = <<>>
  /\ watched' = {}
  /\ idle' = FALSE

\* OnWatchStreamOpen: every target is asked for again.
WatchStreamOpens ==
  /\ stream = "Starting"
  /\ stream' = "Open"
  /\ requests' \in SetToSeqs({Message("watch", q, 0) : q \in targets})
  /\ outstanding' = [q \in Queries |-> IF q \in targets THEN outstanding[q] + 1
                                      ELSE outstanding[q]]
  /\ UNCHANGED <<mainVars, mainQueue, workQueue, listening, raised, synced,
                 cache, trackVars, targets, idle, current, changed, docs,
                 responses, watched, serverVars, breaks, alone>>

\* OnWatchStreamClose with an error: the attempt to connect fails, or the
\* stream breaks.  It is started again, after a pause, if it is needed.
WatchStreamFails ==
  /\ \/ stream = "Starting" /\ UNCHANGED breaks
     \/ stream = "Open" /\ breaks + ruleChanges < MaxBreaks /\ breaks' = breaks + 1
  /\ Disconnected
  /\ IF targets # {}
     THEN stream' = "Backoff" /\ WatchStreamFailsAndStarts
     ELSE /\ stream' = "Error"
          /\ UpdateState("Unknown")
          /\ UNCHANGED <<synced, raised, mainQueue>>
  /\ UNCHANGED <<mainVars, workQueue, listening, cache, targets, serverVars, alone>>

BackoffElapsed ==
  /\ stream = "Backoff"
  /\ stream' = "Starting"
  /\ UNCHANGED <<mainVars, mainQueue, workQueue, listening, raised, synced,
                 cache, trackVars, targets, idle, aggVars, wire, serverVars,
                 breaks, alone>>

\* The idle timer: a graceful stop, after which the stream is not needed.
IdleTimeout ==
  /\ idle
  /\ stream' = "Initial"
  /\ Disconnected
  /\ UpdateState("Unknown")
  /\ UNCHANGED <<mainVars, mainQueue, workQueue, listening, raised, synced,
                 cache, targets, serverVars, breaks, alone>>

\* RestartNetwork: the connectivity has changed, or the account.
RestartNetwork ==
  /\ breaks + ruleChanges < MaxBreaks
  /\ breaks' = breaks + 1
  /\ Disconnected
  /\ online' = "Unknown"
  /\ failures' = 0
  /\ timer' = (targets # {})
  /\ stream' = IF targets # {} THEN "Starting" ELSE "Initial"
  /\ UNCHANGED <<mainVars, mainQueue, workQueue, listening, raised, synced,
                 cache, targets, serverVars, alone>>

-----------------------------------------------------------------------------
\* The worker queue: OnWatchStreamChange.  Any message shows that the client is
\* online.
Receive(kind) ==
  /\ responses # <<>>
  /\ Head(responses).kind = kind
  /\ responses' = Tail(responses)
  /\ UpdateState("Online")
  /\ UNCHANGED <<mainVars, workQueue, stream, idle, requests, watched,
                 serverVars, breaks, alone>>

Received == Head(responses).target

\* HandleTargetChange, Added: a request has been acknowledged.
ReceiveAdded ==
  /\ Receive("added")
  /\ outstanding' = [outstanding EXCEPT ![Received] = @ - 1]
  /\ changed' = IF outstanding'[Received] = 0 THEN changed \ {Received} ELSE changed
  /\ UNCHANGED <<mainQueue, listening, raised, synced, cache, targets, current, docs>>

\* HandleTargetChange, Removed without a cause.  RemoveTarget forgets what has
\* been said about the target.
ReceiveRemoved ==
  /\ Receive("removed")
  /\ outstanding' = [outstanding EXCEPT ![Received] = @ - 1]
  /\ IF outstanding'[Received] = 0
     THEN /\ changed' = changed \ {Received}
          /\ current' = current \ {Received}
     ELSE UNCHANGED <<changed, current>>
  /\ UNCHANGED <<mainQueue, listening, raised, synced, cache, targets, docs>>

\* HandleDocumentChange.
ReceiveDocuments ==
  /\ Receive("docs")
  /\ IF IsActive(Received)
     THEN /\ changed' = changed \cup {Received}
          /\ docs' = [docs EXCEPT ![Received] = Head(responses).version]
     ELSE UNCHANGED <<changed, docs>>
  /\ UNCHANGED <<mainQueue, listening, raised, synced, cache, targets,
                 outstanding, current>>

\* HandleTargetChange, Current: the server has sent all there was.
ReceiveCurrent ==
  /\ Receive("current")
  /\ IF IsActive(Received)
     THEN /\ changed' = changed \cup {Received}
          /\ current' = current \cup {Received}
     ELSE UNCHANGED <<changed, current>>
  /\ UNCHANGED <<mainQueue, listening, raised, synced, cache, targets,
                 outstanding, docs>>

\* RaiseWatchSnapshot: CreateRemoteEvent takes the active targets with changes,
\* and all documents; LocalStore.ApplyRemoteEvent updates the cache, and the
\* listeners of views that differ are told, for the first time if the view is
\* synced.
ReceiveSnapshot ==
  /\ Receive("snapshot")
  /\ LET event == {q \in changed : IsActive(q)}
         newSynced == (synced \ event) \cup (event \cap current)
         Newer(q) == docs[q] > cache[q]
         Differs(q) == Newer(q) \/ (q \in synced) # (q \in newSynced)
         source == [q \in Queries |-> IF q \in newSynced THEN "server" ELSE "cache"]
         told == {r \in listening : /\ Differs(query[r])
                                    /\ r \in raised \/ query[r] \in newSynced}
     IN  /\ cache' = [q \in Queries |-> IF Newer(q) THEN docs[q] ELSE cache[q]]
         /\ synced' = newSynced
         /\ raised' = raised \cup told
         /\ Raise(told, source, cache')
         /\ changed' = changed \ event
         /\ docs' = [q \in Queries |-> 0]
  /\ UNCHANGED <<listening, targets, outstanding, current>>

\* ProcessTargetError: the listen is over, and its listeners with it, unless
\* it was over before.
ReceiveRefused ==
  /\ Receive("refused")
  /\ LET q == Received
         told == Listeners(q)
     IN  IF q \in targets
         THEN /\ targets' = targets \ {q}
              /\ listening' = listening \ told
              /\ synced' = synced \ {q}
              /\ Raise(told, Failed, NoData)
              /\ outstanding' = [outstanding EXCEPT ![q] = 0]
              /\ current' = current \ {q}
              /\ changed' = changed \ {q}
         ELSE UNCHANGED <<targets, listening, synced, mainQueue, outstanding,
                          current, changed>>
  /\ UNCHANGED <<raised, cache, docs>>

-----------------------------------------------------------------------------
\* The server (external).  It handles the requests of a stream in order,
\* acknowledges each one, and sends a snapshot when everything it watches is
\* current.

Answered(q) == <<Message("added", q, 0), Message("docs", q, version),
                 Message("current", q, 0), Message("snapshot", None, 0)>>

ServerHandlesRequest ==
  /\ requests # <<>>
  /\ requests' = Tail(requests)
  /\ LET q == Head(requests).target
     IN  CASE Head(requests).kind = "unwatch" ->
                /\ watched' = watched \ {q}
                /\ responses' = Append(responses, Message("removed", q, 0))
           [] Head(requests).kind = "watch" /\ q \in forbidden ->
                /\ responses' = Append(responses, Message("refused", q, 0))
                /\ UNCHANGED watched
           [] Head(requests).kind = "watch" /\ q \notin forbidden ->
                /\ watched' = watched \cup {q}
                /\ responses' = responses \o Answered(q)
  /\ UNCHANGED <<mainVars, mainQueue, workQueue, listening, raised, synced,
                 cache, trackVars, targets, stream, idle, aggVars, serverVars,
                 breaks, alone>>

\* Somebody publishes.
ServerDataChanges ==
  /\ version < MaxVersion
  /\ version' = version + 1
  /\ IF watched = {}
     THEN UNCHANGED responses
     ELSE \E news \in SetToSeqs({Message("docs", q, version') : q \in watched}) :
            responses' = responses \o news \o <<Message("snapshot", None, 0)>>
  /\ UNCHANGED <<mainVars, mainQueue, workQueue, listening, raised, synced,
                 cache, trackVars, targets, stream, idle, aggVars, requests,
                 watched, forbidden, ruleChanges, breaks, alone>>

\* What may be read depends on rules and on data and can change under way.
ServerChangesRules(q) ==
  /\ ruleChanges < MaxRuleChanges
  /\ breaks + ruleChanges < MaxBreaks
  /\ ruleChanges' = ruleChanges + 1
  /\ IF q \in forbidden
     THEN /\ forbidden' = forbidden \ {q}
          /\ UNCHANGED <<watched, responses>>
     ELSE /\ forbidden' = forbidden \cup {q}
          /\ watched' = watched \ {q}
          /\ responses' = IF q \in watched
                          THEN Append(responses, Message("refused", q, 0)) ELSE responses
  /\ UNCHANGED <<mainVars, mainQueue, workQueue, listening, raised, synced,
                 cache, trackVars, targets, stream, idle, aggVars, requests,
                 version, breaks, alone>>

-----------------------------------------------------------------------------
MainQueue == Deliver \/ DropMuted
WorkQueue == AddListener \/ RemoveListener
ReceiveAny == \/ ReceiveAdded \/ ReceiveRemoved \/ ReceiveDocuments
              \/ ReceiveCurrent \/ ReceiveSnapshot \/ ReceiveRefused

Next ==
  \/ \E r \in Reads, q \in Queries : Ask(r, q)
  \/ MainQueue
  \/ WorkQueue
  \/ OnlineStateTimeout
  \/ WatchStreamOpens
  \/ WatchStreamFails
  \/ BackoffElapsed
  \/ IdleTimeout
  \/ RestartNetwork
  \/ ReceiveAny
  \/ ServerHandlesRequest
  \/ ServerDataChanges
  \/ \E q \in Queries : ServerChangesRules(q)

Spec == Init /\ [][Next]_vars

\* Queues and timers run; a connection delivers what is on it.
Runs == /\ WF_vars(MainQueue)
        /\ WF_vars(WorkQueue)
        /\ WF_vars(OnlineStateTimeout)
        /\ WF_vars(BackoffElapsed)
        /\ WF_vars(ServerHandlesRequest)
        /\ WF_vars(ReceiveAny)

\* An attempt to connect may hang for good.
HangingSpec == Spec /\ Runs

\* An attempt to connect ends, one way or the other.
LiveSpec == Spec /\ Runs /\ WF_vars(WatchStreamOpens \/ (WatchStreamFails /\ stream = "Starting"))

-----------------------------------------------------------------------------
\* Types.
TypeOK ==
  /\ query \in [Reads -> Queries \cup {None}]
  /\ mainQueue \in Seq(EventType)
  /\ {muted, listening, raised, alone} \subseteq SUBSET Reads
  /\ answer \in [Reads -> EventType \cup {None}]
  /\ workQueue \in Seq([kind : {"add", "remove"}, read : Reads])
  /\ {synced, targets, current, changed, watched, forbidden} \subseteq SUBSET Queries
  /\ cache \in [Queries -> Versions]
  /\ docs \in [Queries -> Versions]
  /\ askedAt \in [Reads -> Versions]
  /\ online \in {"Unknown", "Online", "Offline"}
  /\ failures \in 0..1
  /\ {timer, idle} \subseteq BOOLEAN
  /\ stream \in {"Initial", "Starting", "Open", "Backoff", "Error"}
  /\ outstanding \in [Queries -> Int]
  /\ requests \in Seq([kind : {"watch", "unwatch"}, target : Queries, version : {0}])
  /\ responses \in Seq([kind : {"added", "removed", "docs", "current", "snapshot", "refused"},
                        target : Queries \cup {None}, version : Versions])
  /\ version \in Versions
  /\ breaks \in 0..MaxBreaks
  /\ ruleChanges \in 0..MaxRuleChanges

\* A completion is called at most once, however many events its listener is
\* sent before it has been removed.
AnsweredOnce == [][\A r \in Reads : answer[r] # None => answer'[r] = answer[r]]_vars

TargetsAreListened == targets = {query[r] : r \in listening}

NobodyIsForgotten ==
  \A r \in Reads : query[r] # None /\ answer[r] = None =>
    \/ r \in listening
    \/ \E i \in DOMAIN workQueue : workQueue[i] = Task("add", r)
    \/ \E i \in DOMAIN mainQueue : mainQueue[i].read = r

\* The EventManager listens to what the RemoteStore watches and nothing else:
\* StopListening finds its target (remote_store.cc:173), and no read waits for
\* a target that nobody asks the server for.
ListenedIsWatched == TargetsAreListened /\ NobodyIsForgotten

\* What the assertions of OnlineStateTracker say of its callers: the timer is
\* set only while a stream is being connected and the state is not known
\* (online_state_tracker.cc:62, 68, 88, 90), and an online client has no failures
\* on its account and an open stream; remote_store.cc:236: only a stream that
\* is not needed becomes idle.
TrackerIsConsistent ==
  /\ timer => online = "Unknown" /\ failures = 0 /\ IsStarted
  /\ online = "Online" => failures = 0 /\ stream = "Open"
  /\ failures # 0 => online = "Offline" /\ IsStarted
  /\ idle => targets = {} /\ stream = "Open"

\* Acknowledgements under way for a target.
Owed(q) ==
  Cardinality({i \in DOMAIN requests : requests[i].target = q})
    + Cardinality({i \in DOMAIN responses :
                     responses[i].target = q /\ responses[i].kind \in {"added", "removed", "refused"}})

\* "the expected number of pending responses we're due from watch"
\* (remote_store.cc:193, 200) is just that, as long as nothing is refused and what
\* is refused does not change.
OutstandingIsOwed ==
  stream = "Open" /\ ruleChanges = 0 =>
    \A q \in Queries \ forbidden : outstanding[q] = Owed(q)

\* The same for what the server refuses, too.
OutstandingIsAlwaysOwed ==
  stream = "Open" => \A q \in Queries : outstanding[q] = Owed(q)

\* A read that shares its query with no other is answered "from the server"
\* with data that is not older than the call, although answers to an earlier
\* listen of the same target may still be on the stream.  It takes that what is
\* refused does not change: a refusal makes the client forget what else is owed,
\* and a later listen then takes an earlier one's acknowledgement for its own.
AnswersAreFresh ==
  ruleChanges = 0 =>
    \A r \in alone : answer[r] # None /\ answer[r].from = "server" =>
                       answer[r].version >= askedAt[r]

\* Every read is answered, as long as what the server refuses does not change:
\* OutstandingIsAlwaysOwed tells how a read can then be lost.
EveryReadIsAnswered ==
  \A r \in Reads : query[r] # None ~> answer[r] # None \/ ruleChanges # 0

\* online_state_tracker.cc:44-46: "we have a timeout for OnlineState to reach
\* Online or Offline. If the timeout is reached, we transition to Offline rather
\* than waiting indefinitely."
NobodyWaitsIndefinitely ==
  (stream = "Starting" /\ online = "Unknown" /\ targets # {})
    ~> (online # "Unknown" \/ targets = {})

=============================================================================
