---------------------------- MODULE Credentials ----------------------------
(***************************************************************************)
(* How the write stream comes by its auth token.  Three queues take part:  *)
(* FIRAuth's work queue (accounts, tokens), the main queue (notifications  *)
(* and token callbacks, run by FirebaseCredentialsProvider) and the SDK's  *)
(* worker queue (SyncEngine, RemoteStore, Stream).  Each hands over to the *)
(* next by appending a task; an account may change while a token for the   *)
(* previous one is on its way.                                             *)
(*                                                                         *)
(* close_count_ and token_counter only serve to tell whether a request has *)
(* been outdated.  Here a request has an identity instead: awaited is the  *)
(* request made since the last Close (initial_close_count = close_count_), *)
(* steady the requests made since the last notification                    *)
(* (initial_token_counter = token_counter).                                *)
(***************************************************************************)
EXTENDS Naturals, Sequences

CONSTANTS Accounts,   \* the accounts that can be created
          SignedOut,  \* the user of a client without account
          None,       \* no token, no request
          Requests,   \* bound: identities of calls of GetToken under way
          MaxSerial,  \* bound: tokens per account
          MaxDrops    \* bound: how often FIRAuth signs an account out by itself

ASSUME CredentialsAssumption ==
  /\ SignedOut \notin Accounts
  /\ None \notin Requests
  /\ MaxSerial \in Nat \ {0}
  /\ MaxDrops \in Nat

VARIABLES
  authUser,      \* FIRAuth._currentUser
  raw,           \* FIRSecureTokenService._accessToken: serial, 0 if no account yet
  lastNotified,  \* FIRAuth._lastNotifiedUserToken
  autoRefresh,   \* FIRAuth._autoRefreshTokens
  authQueue,     \* the provider's requests on FIRAuth's work queue
  fetches,       \* FIRSecureTokenService._taskQueue of each account
  mainQueue,     \* notifications and token callbacks on the main queue
  providerUser,  \* FirebaseCredentialsProvider contents_->current_user
  steady,        \* requests whose initial_token_counter is still token_counter
  forceRefresh,  \* contents_->force_refresh
  invalid,       \* history: InvalidateToken called, no GetToken since
  clearing,      \* threads inside GetToken, before force_refresh = false
  workQueue,     \* the SDK's worker queue: credential changes and tokens
  current,       \* SyncEngine::current_user_
  pending,       \* accounts with writes in the mutation queue
  stream,        \* Stream::state_ of the write stream
  awaited,       \* the request whose initial_close_count is still close_count_
  channel,       \* the token grpc_stream_ was created with
  rejected,      \* server: tokens up to this serial are rejected
  dropped        \* how often FIRAuth has signed out (bounded by MaxDrops)

auth == <<authUser, raw, lastNotified, autoRefresh, fetches>>
sdk == <<current, pending, stream, awaited, channel>>
vars == <<auth, authQueue, mainQueue, providerUser, steady, forceRefresh,
          invalid, clearing, workQueue, sdk, rejected, dropped>>

Users == Accounts \cup {SignedOut}
Token == [owner : Accounts, serial : 1 .. MaxSerial]
NoToken == [owner |-> SignedOut, serial |-> 0]
Failed == [owner |-> None, serial |-> 0]
Answer == Token \cup {NoToken, Failed}

ASSUME NoneAssumption == None \notin Token \cup {NoToken}

Thread == {"main", "worker"}
StreamState == {"Initial", "Starting", "Open", "Error", "Backoff"}

AuthCall == [request : Requests, force : BOOLEAN]
Fetch == [request : Requests \cup {None}, force : BOOLEAN]
Notification == [kind : {"notification"}, user : Users]
TokenCallback == [kind : {"token"}, request : Requests, token : Answer]
CredentialChange == [kind : {"change"}, user : Users]
\* Token{token, user}, or an error.
Resume == [kind : {"resume"}, request : Requests, token : Answer, user : Users]

-----------------------------------------------------------------------------
\* The tasks that hold request r: its completion will be called by them.

TasksOf(q, r) ==
  {i \in DOMAIN q : "request" \in DOMAIN q[i] /\ q[i].request = r}

Holders(r) ==
  ({"auth"} \X TasksOf(authQueue, r))
    \cup ({"main"} \X TasksOf(mainQueue, r))
    \cup ({"worker"} \X TasksOf(workQueue, r))
    \cup UNION {{u} \X TasksOf(fetches[u], r) : u \in Accounts}

Unused == {r \in Requests : Holders(r) = {}}

Rejected(token) ==
  /\ token \in Token
  /\ token.serial <= rejected[token.owner]

\* The app starts with the account u, or signed out; FIRAuth has loaded it, the
\* notification may still be on the main queue.  (An account that is loaded after
\* Firestore has started is one that signs in.)
Init ==
  \E u \in Users :
    /\ authUser = u
    /\ raw = [a \in Accounts |-> IF a = u THEN 1 ELSE 0]
    /\ lastNotified = IF u = SignedOut THEN NoToken ELSE [owner |-> u, serial |-> 1]
    /\ mainQueue \in {<<>>} \cup
         {<<[kind |-> "notification", user |-> a]>> : a \in {u} \ {SignedOut}}
    /\ providerUser = u
    /\ current = u
    /\ autoRefresh = FALSE
    /\ authQueue = <<>>
    /\ fetches = [a \in Accounts |-> <<>>]
    /\ steady = {}
    /\ forceRefresh = FALSE
    /\ invalid = FALSE
    /\ clearing = {}
    /\ workQueue = <<>>
    /\ pending = {}
    /\ stream = "Initial"
    /\ awaited = None
    /\ channel = None
    /\ rejected = [a \in Accounts |-> 0]
    /\ dropped = 0

-----------------------------------------------------------------------------
\* FIRAuth: every step runs on its work queue.

\* Fault: the announced user is remembered instead of its token.
PostUser(u, token) ==
  IF lastNotified = u
  THEN UNCHANGED <<lastNotified, mainQueue>>
  ELSE /\ lastNotified' = u
       /\ mainQueue' = Append(mainQueue, [kind |-> "notification", user |-> u])

\* FIRAuth.possiblyPostAuthStateChangeNotification, for user u with its token.
Post(u, token) ==
  IF lastNotified = token
  THEN UNCHANGED <<lastNotified, mainQueue>>
  ELSE /\ lastNotified' = token
       /\ mainQueue' = Append(mainQueue, [kind |-> "notification", user |-> u])

\* createUser has succeeded: updateCurrentUser.
SignIn(u) ==
  /\ raw[u] = 0
  /\ raw' = [raw EXCEPT ![u] = 1]
  /\ authUser' = u
  /\ Post(u, [owner |-> u, serial |-> 1])
  /\ UNCHANGED <<autoRefresh, fetches, authQueue, providerUser, steady,
                 forceRefresh, invalid, clearing, workQueue, sdk, rejected, dropped>>

Callback(r, token) == [kind |-> "token", request |-> r, token |-> token]

\* FIRAuth.getTokenForcingRefresh:withCallback:, its block on the work queue.
RunGetToken ==
  /\ authQueue # <<>>
  /\ authQueue' = Tail(authQueue)
  /\ autoRefresh' = TRUE
  /\ IF authUser = SignedOut
     THEN /\ mainQueue' = Append(mainQueue, Callback(Head(authQueue).request, NoToken))
          /\ UNCHANGED fetches
     ELSE /\ fetches' = [fetches EXCEPT ![authUser] = Append(@, Head(authQueue))]
          /\ UNCHANGED mainQueue
  /\ UNCHANGED <<authUser, raw, lastNotified, providerUser, steady, forceRefresh,
                 invalid, clearing, workQueue, sdk, rejected, dropped>>

\* scheduleAutoTokenRefreshWithDelay: one forced refresh at a time.
AutoRefresh ==
  /\ autoRefresh
  /\ authUser # SignedOut
  /\ \A i \in DOMAIN fetches[authUser] : fetches[authUser][i].request # None
  /\ fetches' = [fetches EXCEPT ![authUser] =
                   Append(@, [request |-> None, force |-> TRUE])]
  /\ UNCHANGED <<authUser, raw, lastNotified, autoRefresh, authQueue, mainQueue,
                 providerUser, steady, forceRefresh, invalid, clearing, workQueue, sdk,
                 rejected, dropped>>

\* The callback of the fetch at the head of u's task queue; an automatic refresh
\* only looks at the error.
Answered(u, queue, token) ==
  LET r == Head(fetches[u]).request
  IN  mainQueue' = IF r = None THEN queue ELSE Append(queue, Callback(r, token))

FetchDone(u) ==
  /\ fetches[u] # <<>>
  /\ fetches' = [fetches EXCEPT ![u] = Tail(@)]
  /\ UNCHANGED <<autoRefresh, authQueue, providerUser, steady, forceRefresh,
                 invalid, clearing, workQueue, sdk, rejected>>

\* hasValidAccessToken, by the client's clock.
FetchValid(u) ==
  /\ FetchDone(u)
  /\ ~Head(fetches[u]).force
  /\ Answered(u, mainQueue, [owner |-> u, serial |-> raw[u]])
  /\ UNCHANGED <<authUser, raw, lastNotified, dropped>>

\* requestAccessToken succeeds with another token, or with the same one when the
\* bound is reached.  FIRUser saves it and FIRAuth announces it if u is still
\* the current user; the callback comes after the announcement.
FetchRefreshed(u) ==
  LET serial == IF raw[u] < MaxSerial THEN raw[u] + 1 ELSE raw[u]
      token == [owner |-> u, serial |-> serial]
      news == authUser = u /\ serial # raw[u] /\ lastNotified # token
  IN  /\ FetchDone(u)
      /\ raw' = [raw EXCEPT ![u] = serial]
      /\ lastNotified' = IF news THEN token ELSE lastNotified
      /\ Answered(u, IF news
                     THEN Append(mainQueue, [kind |-> "notification", user |-> u])
                     ELSE mainQueue, token)
      /\ UNCHANGED <<authUser, dropped>>

\* The new token cannot be written to the keychain: an error, and no
\* notification although the token has changed.
FetchUnsaved(u) ==
  /\ FetchDone(u)
  /\ authUser = u
  /\ raw[u] < MaxSerial
  /\ raw' = [raw EXCEPT ![u] = @ + 1]
  /\ Answered(u, mainQueue, Failed)
  /\ UNCHANGED <<authUser, lastNotified, dropped>>

\* requestAccessToken fails, for a reason that may go away.
FetchFails(u) ==
  /\ FetchDone(u)
  /\ Answered(u, mainQueue, Failed)
  /\ UNCHANGED <<authUser, raw, lastNotified, dropped>>

\* requestAccessToken fails because the account is disabled, deleted or its
\* session revoked: signOutByForceWithUserID, unless another account is current.
FetchInvalid(u) ==
  /\ FetchDone(u)
  /\ dropped < MaxDrops
  /\ dropped' = dropped + 1
  /\ IF authUser = u
     THEN /\ authUser' = SignedOut
          /\ lastNotified' = NoToken
          /\ Answered(u, Append(mainQueue,
                                [kind |-> "notification", user |-> SignedOut]), Failed)
     ELSE /\ UNCHANGED <<authUser, lastNotified>>
          /\ Answered(u, mainQueue, Failed)
  /\ UNCHANGED raw

-----------------------------------------------------------------------------
\* FirebaseCredentialsProvider: called on the main queue and on the worker queue.

\* GetToken: takes note of token_counter and of force_refresh, which it resets
\* only after the call.
GetToken(r, thread) ==
  /\ steady' = steady \cup {r}
  /\ authQueue' = Append(authQueue, [request |-> r, force |-> forceRefresh])
  /\ invalid' = FALSE
  /\ clearing' = clearing \cup {thread}

\* The last statement of GetToken, without the lock.
ClearForceRefresh(thread) ==
  /\ thread \in clearing
  /\ clearing' = clearing \ {thread}
  /\ forceRefresh' = FALSE
  /\ UNCHANGED <<auth, authQueue, mainQueue, providerUser, steady, invalid, workQueue,
                 sdk, rejected, dropped>>

\* Fault: only a change of account counts, and only in the provider.
AuthStateDidChangeQuietly ==
  /\ "main" \notin clearing
  /\ mainQueue # <<>>
  /\ Head(mainQueue).kind = "notification"
  /\ providerUser' = Head(mainQueue).user
  /\ steady' = {}
  /\ mainQueue' = Tail(mainQueue)
  /\ UNCHANGED <<auth, authQueue, forceRefresh, invalid, clearing, workQueue, sdk,
                 rejected, dropped>>

\* The observer of FIRAuthStateDidChangeInternalNotification, and
\* FirestoreClient's listener.
AuthStateDidChange ==
  /\ "main" \notin clearing
  /\ mainQueue # <<>>
  /\ LET u == Head(mainQueue).user
     IN  /\ Head(mainQueue).kind = "notification"
         /\ providerUser' = u
         /\ steady' = {}
         /\ workQueue' = Append(workQueue, [kind |-> "change", user |-> u])
  /\ mainQueue' = Tail(mainQueue)
  /\ UNCHANGED <<auth, authQueue, forceRefresh, invalid, clearing, sdk, rejected, dropped>>

ResumeTask(callback) ==
  [kind |-> "resume", request |-> callback.request, token |-> callback.token,
   user |-> IF callback.token \in Token THEN providerUser ELSE SignedOut]

\* Fault: the answer is taken whatever has happened since the request.
GotTokenUnchecked ==
  /\ "main" \notin clearing
  /\ mainQueue # <<>>
  /\ Head(mainQueue).kind = "token"
  /\ workQueue' = Append(workQueue, ResumeTask(Head(mainQueue)))
  /\ steady' = steady \ {Head(mainQueue).request}
  /\ mainQueue' = Tail(mainQueue)
  /\ UNCHANGED <<auth, authQueue, providerUser, forceRefresh, invalid, clearing, sdk,
                 rejected, dropped>>

\* get_token_callback: asks again if the user or the token has changed since.
GotToken ==
  /\ "main" \notin clearing
  /\ mainQueue # <<>>
  /\ LET callback == Head(mainQueue)
     IN  /\ callback.kind = "token"
         /\ IF callback.request \in steady
            THEN /\ workQueue' = Append(workQueue, ResumeTask(callback))
                 /\ steady' = steady \ {callback.request}
                 /\ UNCHANGED <<authQueue, invalid, clearing>>
            ELSE /\ GetToken(callback.request, "main")
                 /\ UNCHANGED workQueue
  /\ mainQueue' = Tail(mainQueue)
  /\ UNCHANGED <<auth, providerUser, forceRefresh, sdk, rejected, dropped>>

-----------------------------------------------------------------------------
\* The SDK's worker queue.

WorkerFree == "worker" \notin clearing

asking == <<steady, authQueue, invalid, clearing>>

\* Stream::Start in state Initial, with a new request.
RequestCredentials ==
  /\ Unused # {}
  /\ stream' = "Starting"
  /\ awaited' = CHOOSE r \in Unused : TRUE
  /\ GetToken(awaited', "worker")

\* The stream is stopped, or its error is forgotten; it starts again if the
\* account has writes (ShouldStartWriteStream).
Restart ==
  /\ channel' = None
  /\ IF current' \in pending'
     THEN RequestCredentials
     ELSE stream' = "Initial" /\ awaited' = None /\ UNCHANGED asking

\* Stream::Close with an error, and OnWriteStreamClose.
CloseWithError ==
  /\ channel' = None
  /\ awaited' = None
  /\ stream' = IF current \in pending THEN "Backoff" ELSE "Error"
  /\ UNCHANGED <<current, pending, steady, authQueue>>

\* Fault: the streams are restarted only if there are writes to be sent.
HandleCredentialChangeIfPending ==
  /\ WorkerFree
  /\ workQueue # <<>>
  /\ Head(workQueue).kind = "change"
  /\ current' = Head(workQueue).user
  /\ IF current' \in pending
     THEN UNCHANGED pending /\ Restart
     ELSE UNCHANGED <<pending, stream, awaited, channel, asking>>
  /\ workQueue' = Tail(workQueue)
  /\ UNCHANGED <<auth, mainQueue, providerUser, forceRefresh, rejected, dropped>>

\* SyncEngine and RemoteStore::HandleCredentialChange: open the user's mutation
\* queue, stop the stream, forget its error and start it again.
HandleCredentialChange ==
  /\ WorkerFree
  /\ workQueue # <<>>
  /\ Head(workQueue).kind = "change"
  /\ current' = Head(workQueue).user
  /\ UNCHANGED pending
  /\ Restart
  /\ workQueue' = Tail(workQueue)
  /\ UNCHANGED <<auth, mainQueue, providerUser, forceRefresh, rejected, dropped>>

\* Fault: close_count_ is not compared.
ResumeStartWithAnyCredentials ==
  /\ WorkerFree
  /\ workQueue # <<>>
  /\ Head(workQueue).kind = "resume"
  /\ LET token == Head(workQueue).token
     IN  IF token = Failed
         THEN CloseWithError /\ UNCHANGED <<invalid, clearing>>
         ELSE /\ stream' = "Open"
              /\ channel' = token
              /\ UNCHANGED <<current, pending, awaited, asking>>
  /\ workQueue' = Tail(workQueue)
  /\ UNCHANGED <<auth, mainQueue, providerUser, forceRefresh, rejected, dropped>>

\* ResumeStartWithCredentials, unless the stream has been closed since; the gRPC
\* stream reports its start at once.
ResumeStartWithCredentials ==
  /\ WorkerFree
  /\ workQueue # <<>>
  /\ Head(workQueue).kind = "resume"
  /\ LET token == Head(workQueue).token
     IN  \/ /\ awaited # Head(workQueue).request
            /\ UNCHANGED <<sdk, asking>>
         \/ /\ awaited = Head(workQueue).request
            /\ token = Failed
            /\ CloseWithError
            /\ UNCHANGED <<invalid, clearing>>
         \/ /\ awaited = Head(workQueue).request
            /\ token # Failed
            /\ stream' = "Open"
            /\ channel' = token
            /\ UNCHANGED <<current, pending, awaited, asking>>
  /\ workQueue' = Tail(workQueue)
  /\ UNCHANGED <<auth, mainQueue, providerUser, forceRefresh, rejected, dropped>>

-----------------------------------------------------------------------------
\* Other tasks of the worker queue: the app's writes, timers, the gRPC stream.

quiet == <<auth, mainQueue, providerUser, workQueue, rejected, dropped>>

\* A write is queued; the stream is started unless it is.
SetData ==
  /\ WorkerFree
  /\ pending' = pending \cup {current}
  /\ CASE stream = "Initial" -> RequestCredentials
       [] stream = "Error"   -> stream' = "Backoff" /\ UNCHANGED <<awaited, asking>>
       [] OTHER              -> UNCHANGED <<stream, awaited, asking>>
  /\ UNCHANGED <<current, channel, forceRefresh, quiet>>

\* The backoff timer: Start without looking at the pipeline.
BackoffElapsed ==
  /\ WorkerFree
  /\ stream = "Backoff"
  /\ RequestCredentials
  /\ UNCHANGED <<current, pending, channel, forceRefresh, quiet>>

\* The idle timer: Stop.
IdleTimeout ==
  /\ WorkerFree
  /\ stream = "Open"
  /\ current \notin pending
  /\ UNCHANGED <<current, pending, forceRefresh, quiet>>
  /\ Restart

\* The server has acknowledged the last write of the queue.
WritesAcknowledged ==
  /\ WorkerFree
  /\ stream = "Open"
  /\ ~Rejected(channel)
  /\ pending' = pending \ {current}
  /\ UNCHANGED <<current, stream, awaited, channel, asking, forceRefresh, quiet>>

\* A permanent error: the write is dropped and backoff inhibited.
WriteRefused ==
  /\ WorkerFree
  /\ stream = "Open"
  /\ ~Rejected(channel)
  /\ current \in pending
  /\ pending' \in {pending, pending \ {current}}
  /\ UNCHANGED <<current, forceRefresh, quiet>>
  /\ Restart

\* Any other error of the stream.
StreamBreaks ==
  /\ WorkerFree
  /\ stream = "Open"
  /\ CloseWithError
  /\ UNCHANGED <<forceRefresh, invalid, clearing, quiet>>

\* Fault: a rejected token is used again.
UnauthenticatedKeepsToken ==
  /\ WorkerFree
  /\ stream = "Open"
  /\ Rejected(channel)
  /\ CloseWithError
  /\ UNCHANGED <<forceRefresh, invalid, clearing, quiet>>

\* The server rejects the token: HandleErrorStatus calls InvalidateToken, also
\* without the lock.
Unauthenticated ==
  /\ WorkerFree
  /\ stream = "Open"
  /\ Rejected(channel)
  /\ forceRefresh' = TRUE
  /\ invalid' = TRUE
  /\ CloseWithError
  /\ UNCHANGED <<clearing, quiet>>

\* The server stops accepting the tokens of u that it has issued so far.
TokenExpires(u) ==
  /\ raw[u] \in 1 .. MaxSerial - 1
  /\ rejected' = [rejected EXCEPT ![u] = raw[u]]
  /\ UNCHANGED <<auth, authQueue, mainQueue, providerUser, steady, forceRefresh,
                 invalid, clearing, workQueue, sdk, dropped>>

-----------------------------------------------------------------------------
FetchSucceeds(u) == FetchValid(u) \/ FetchRefreshed(u)
FetchEnds(u) ==
  FetchSucceeds(u) \/ FetchUnsaved(u) \/ FetchFails(u) \/ FetchInvalid(u)

FIRAuth ==
  \/ RunGetToken
  \/ AutoRefresh
  \/ \E u \in Accounts : SignIn(u) \/ FetchEnds(u)

Provider ==
  \/ AuthStateDidChange
  \/ GotToken
  \/ \E t \in Thread : ClearForceRefresh(t)

Worker ==
  \/ HandleCredentialChange
  \/ ResumeStartWithCredentials
  \/ SetData
  \/ BackoffElapsed
  \/ IdleTimeout
  \/ WritesAcknowledged
  \/ WriteRefused
  \/ StreamBreaks
  \/ Unauthenticated

Next == FIRAuth \/ Provider \/ Worker \/ \E u \in Accounts : TokenExpires(u)

Spec == Init /\ [][Next]_vars

-----------------------------------------------------------------------------
(***************************************************************************)
(* Properties.                                                             *)
(***************************************************************************)

\* The types of the state.
TypeOK ==
  /\ authUser \in Users
  /\ raw \in [Accounts -> 0 .. MaxSerial]
  /\ lastNotified \in Token \cup {NoToken}
  /\ autoRefresh \in BOOLEAN
  /\ authQueue \in Seq(AuthCall)
  /\ fetches \in [Accounts -> Seq(Fetch)]
  /\ mainQueue \in Seq(Notification \cup TokenCallback)
  /\ providerUser \in Users
  /\ steady \subseteq Requests
  /\ forceRefresh \in BOOLEAN
  /\ invalid \in BOOLEAN
  /\ clearing \subseteq Thread
  /\ workQueue \in Seq(CredentialChange \cup Resume)
  /\ current \in Users
  /\ pending \subseteq Users
  /\ stream \in StreamState
  /\ awaited \in Requests \cup {None}
  /\ channel \in Token \cup {NoToken, None}
  /\ rejected \in [Accounts -> 0 .. MaxSerial]
  /\ dropped \in 0 .. MaxDrops

\* The Token that the provider hands out names the account the raw token was
\* issued for: the answer to a request made for another account is never passed
\* on under the present one's name (credentials_provider_apple.mm, line 81).
TokenNamesItsOwner ==
  \A i \in DOMAIN workQueue :
    /\ workQueue[i].kind = "resume"
    /\ workQueue[i].token # Failed
    => workQueue[i].user = workQueue[i].token.owner

\* An open stream authenticates as the account whose writes it sends, whatever
\* changes of account are on their way.
StreamSpeaksForCurrent ==
  stream = "Open" => channel # None /\ channel.owner = current

\* The assertion of ResumeStartWithCredentials, stream.cc line 130: "State should
\* still be 'Starting'".
ResumeFindsStarting ==
  workQueue # <<>> /\ Head(workQueue).kind = "resume"
    /\ Head(workQueue).request = awaited => stream = "Starting"

\* A stream that is starting waits for a request that is under way, exactly once.
StartingIsAnswered ==
  stream = "Starting" =>
    awaited # None /\ \E h \in Holders(awaited) : Holders(awaited) = {h}

\* From RequestCredentials to ResumeStartWithCredentials (stream.cc) a start and the
\* request it waits for belong to each other, whatever stops come in between.
StartsWithItsToken == ResumeFindsStarting /\ StartingIsAnswered

\* Fairness.  Queues and timers run, a fetch is answered, and now and then the
\* network lasts long enough for a token to arrive and for the writes of a stream
\* whose token is accepted to be acknowledged, or the rejection of it to arrive.
Fairness ==
  /\ WF_vars(RunGetToken)
  /\ WF_vars(AuthStateDidChange \/ GotToken)
  /\ \A t \in Thread : WF_vars(ClearForceRefresh(t))
  /\ WF_vars(HandleCredentialChange \/ ResumeStartWithCredentials)
  /\ WF_vars(BackoffElapsed)
  /\ SF_vars(Unauthenticated)
  /\ \A u \in Accounts :
       /\ WF_vars(FetchEnds(u))
       /\ \A force \in BOOLEAN :
            SF_vars(/\ FetchSucceeds(u)
                    /\ Head(fetches[u]).force = force
                    /\ Head(fetches[u]).request # None)
  /\ SF_vars(WritesAcknowledged /\ current \in pending)

FairSpec == Spec /\ Fairness

\* FIRAuth's account changes finitely often (an account is created once, and
\* FIRAuth's own sign-outs are bounded), and from some time on Firestore has the
\* same account for good.
FollowsAuth == <>[](current = authUser)

\* The writes of the account that is signed in are resolved, whatever becomes of
\* its tokens, unless the account changes.
WritesGoOut == authUser \in pending ~> authUser \notin pending

-----------------------------------------------------------------------------
(***************************************************************************)
(* What a comment of the SDK says.                                         *)
(***************************************************************************)

\* credentials_provider.h, lines 53-54, of InvalidateToken: "making the next
\* GetToken request force refresh the token".  The mark stays until then.
InvalidationReachesGetToken == invalid => forceRefresh

=============================================================================
