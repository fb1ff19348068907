-------------------------- MODULE CredentialsProofs --------------------------
(***************************************************************************)
(* Proofs about Credentials.tla, for any accounts, requests and bounds.    *)
(*                                                                         *)
(* A stream ends up with the right token although FIRAuth, the provider    *)
(* and the SDK learn of a change of account one after the other.  What     *)
(* makes it so: a queue that still holds a notification will correct the   *)
(* provider, one that still holds a change will correct the SDK, and an    *)
(* answer that overtakes neither is an answer for the account the provider *)
(* knows.  For that a request must be held by one task only, wherever it   *)
(* is on its way.                                                          *)
(***************************************************************************)
EXTENDS Credentials, SequenceFacts

\* Task t belongs to request r.
Names(t, r) == "request" \in DOMAIN t /\ t.request = r

\* A request waits in queue q, and in one place of it at most.
HeldIn(q, r) == TasksOf(q, r) # {}
OnceIn(q, r) == \A i, j \in TasksOf(q, r) : i = j

\* Request r is held by one task at most, in queues a, m, w and those of f.
OneHolder(a, m, w, f, r) ==
  /\ OnceIn(a, r) /\ OnceIn(m, r) /\ OnceIn(w, r)
  /\ ~(HeldIn(a, r) /\ HeldIn(m, r))
  /\ ~(HeldIn(a, r) /\ HeldIn(w, r))
  /\ ~(HeldIn(m, r) /\ HeldIn(w, r))
  /\ \A u \in Accounts :
       /\ OnceIn(f[u], r)
       /\ HeldIn(f[u], r) =>
            /\ ~HeldIn(a, r) /\ ~HeldIn(m, r) /\ ~HeldIn(w, r)
            /\ \A v \in Accounts : HeldIn(f[v], r) => u = v

HeldOnce == \A r \in Requests : OneHolder(authQueue, mainQueue, workQueue, fetches, r)

\* A request is on its way.
Underway(a, m, w, f, r) ==
  HeldIn(a, r) \/ HeldIn(m, r) \/ HeldIn(w, r) \/ \E u \in Accounts : HeldIn(f[u], r)

Held(r) == Underway(authQueue, mainQueue, workQueue, fetches, r)

\* The stream is starting as long as the request it waits for is on its way.
StartingIsHeld ==
  /\ stream = "Starting" => awaited # None
  /\ awaited # None => (stream = "Starting" <=> Held(awaited))

\* Nothing of kind k in queue q, before position i of it, or behind that.
NoneIn(q, k)        == \A j \in DOMAIN q : q[j].kind # k
NoneBefore(q, k, i) == \A j \in DOMAIN q : j < i => q[j].kind # k
NoneBehind(q, k, i) == \A j \in DOMAIN q : j > i => q[j].kind # k

\* The last task of kind k in queue q carries the latest user; without one the
\* reader of the queue knows that user.
Follows(q, k, known, latest) ==
  /\ NoneIn(q, k) => known = latest
  /\ \A i \in DOMAIN q : q[i].kind = k /\ NoneBehind(q, k, i) => q[i].user = latest

\* Every change of FIRAuth's user is announced to the provider, and every change
\* of the provider's user to the SDK.
ProviderFollows == Follows(mainQueue, "notification", providerUser, authUser)
WorkerFollows   == Follows(workQueue, "change", current, providerUser)

\* A token that FIRAuth has announced is not newer than the account's, and an
\* account that is signed in or asked for its token has one.
TokensExist ==
  /\ lastNotified # NoToken => lastNotified.serial <= raw[lastNotified.owner]
  /\ authUser # SignedOut => raw[authUser] # 0
  /\ \A u \in Accounts : fetches[u] # <<>> => raw[u] # 0

\* The answers in queue q to requests of S that no notification will outdate are
\* answers for user p.
CallbacksFor(S, q, p) ==
  \A r \in S : \A i \in TasksOf(q, r) :
    NoneBefore(q, "notification", i) /\ q[i].token # Failed => q[i].token.owner = p

\* So will be those to the requests of S that FIRAuth is working on.
FetchesFor(S, q, f, p) ==
  NoneIn(q, "notification") => \A r \in S : \A u \in Accounts : HeldIn(f[u], r) => u = p

\* A request whose answer the provider will accept is being answered, or has been
\* answered, for the provider's user.
SteadyIsForProvider ==
  /\ CallbacksFor(steady, mainQueue, providerUser)
  /\ FetchesFor(steady, mainQueue, fetches, providerUser)

\* An answer to request x in queue q that no change will outdate is for user c.
ResumesFor(q, x, c) ==
  \A i \in DOMAIN q :
    /\ q[i].kind = "resume" /\ q[i].request = x
    /\ NoneBefore(q, "change", i) /\ q[i].token # Failed
    => q[i].user = c

\* The stream will get the token of the account whose writes it will send.
AwaitedIsForCurrent == ResumesFor(workQueue, awaited, current)

Inv ==
  /\ TypeOK
  /\ HeldOnce
  /\ StartingIsHeld
  /\ TokensExist
  /\ ProviderFollows
  /\ SteadyIsForProvider
  /\ WorkerFollows
  /\ TokenNamesItsOwner
  /\ AwaitedIsForCurrent
  /\ StreamSpeaksForCurrent

-----------------------------------------------------------------------------
\* Which tasks belong to a request.
LEMMA NamesFacts ==
  ASSUME NEW r
  PROVE  /\ \A t \in AuthCall \cup Fetch : Names(t, r) <=> t.request = r
         /\ \A t \in TokenCallback \cup Resume : Names(t, r) <=> t.request = r
         /\ \A t \in Notification \cup CredentialChange : ~Names(t, r)
<1>1. ASSUME NEW t \in AuthCall PROVE Names(t, r) <=> t.request = r
  BY DEF AuthCall, Names
<1>2. ASSUME NEW t \in Fetch PROVE Names(t, r) <=> t.request = r
  BY DEF Fetch, Names
<1>3. ASSUME NEW t \in TokenCallback PROVE Names(t, r) <=> t.request = r
  BY DEF TokenCallback, Names
<1>4. ASSUME NEW t \in Resume PROVE Names(t, r) <=> t.request = r
  BY DEF Resume, Names
<1>5. ASSUME NEW t \in Notification PROVE ~Names(t, r)
  BY DEF Notification, Names
<1>6. ASSUME NEW t \in CredentialChange PROVE ~Names(t, r)
  BY DEF CredentialChange, Names
<1> QED
  BY <1>1, <1>2, <1>3, <1>4, <1>5, <1>6

\* The kinds of the tasks on the two queues.
LEMMA KindFacts ==
  /\ \A t \in Notification : t.kind = "notification" /\ t.user \in Users
  /\ \A t \in TokenCallback : t.kind = "token" /\ t.request \in Requests /\ t.token \in Answer
  /\ \A t \in CredentialChange : t.kind = "change" /\ t.user \in Users
  /\ \A t \in Resume : /\ t.kind = "resume" /\ t.request \in Requests
                       /\ t.token \in Answer /\ t.user \in Users
  /\ \A t \in Notification \cup TokenCallback :
       /\ t.kind \in {"notification", "token"}
       /\ t.kind = "notification" => t \in Notification
       /\ t.kind = "token" => t \in TokenCallback
  /\ \A t \in CredentialChange \cup Resume :
       /\ t.kind \in {"change", "resume"}
       /\ t.kind = "change" => t \in CredentialChange
       /\ t.kind = "resume" => t \in Resume
<1>1. \A t \in Notification : t.kind = "notification" /\ t.user \in Users
  BY DEF Notification
<1>2. \A t \in TokenCallback : t.kind = "token" /\ t.request \in Requests /\ t.token \in Answer
  BY DEF TokenCallback
<1>3. \A t \in CredentialChange : t.kind = "change" /\ t.user \in Users
  BY DEF CredentialChange
<1>4. \A t \in Resume : /\ t.kind = "resume" /\ t.request \in Requests
                        /\ t.token \in Answer /\ t.user \in Users
  BY DEF Resume
<1> QED
  BY <1>1, <1>2, <1>3, <1>4

\* A task is put at the end of a queue.
LEMMA AppendTasks ==
  ASSUME NEW S, NEW q \in Seq(S), NEW t \in S, NEW r
  PROVE  /\ HeldIn(Append(q, t), r) <=> HeldIn(q, r) \/ Names(t, r)
         /\ OnceIn(q, r) /\ (Names(t, r) => ~HeldIn(q, r)) => OnceIn(Append(q, t), r)
         /\ TasksOf(q, r) \subseteq DOMAIN q
         /\ ~Names(t, r) => TasksOf(Append(q, t), r) = TasksOf(q, r)
<1>1. PICK a : a = Append(q, t)
  OBVIOUS
<1>2. /\ Len(q) \in Nat /\ DOMAIN q = 1 .. Len(q) /\ DOMAIN a = 1 .. Len(q) + 1
      /\ \A i \in DOMAIN q : a[i] = q[i]
      /\ a[Len(q) + 1] = t
  BY <1>1, AppendFacts
<1>3. /\ TasksOf(q, r) = {i \in DOMAIN q : Names(q[i], r)}
      /\ TasksOf(a, r) = {i \in DOMAIN a : Names(a[i], r)}
  BY DEF TasksOf, Names
<1>4. \A i \in DOMAIN a : i \in DOMAIN q \/ i = Len(q) + 1
  BY <1>2
<1>5. \A i : i \in TasksOf(a, r) <=>
               i \in TasksOf(q, r) \/ (i = Len(q) + 1 /\ Names(t, r))
  BY <1>2, <1>3, <1>4
<1>6. Len(q) + 1 \notin TasksOf(q, r)
  BY <1>2, <1>3
<1>7. HeldIn(a, r) <=> HeldIn(q, r) \/ Names(t, r)
  BY <1>5 DEF HeldIn
<1>8. OnceIn(q, r) /\ (Names(t, r) => ~HeldIn(q, r)) => OnceIn(a, r)
  BY <1>5 DEF HeldIn, OnceIn
<1>9. ~Names(t, r) => TasksOf(a, r) = TasksOf(q, r)
  BY <1>5
<1> QED
  BY <1>1, <1>3, <1>7, <1>8, <1>9

\* The first task of a queue is taken.
LEMMA TailTasks ==
  ASSUME NEW S, NEW q \in Seq(S), q # <<>>, NEW r
  PROVE  /\ Names(Head(q), r) => HeldIn(q, r)
         /\ HeldIn(Tail(q), r) => HeldIn(q, r)
         /\ ~Names(Head(q), r) => (HeldIn(Tail(q), r) <=> HeldIn(q, r))
         /\ OnceIn(q, r) => OnceIn(Tail(q), r)
         /\ OnceIn(q, r) /\ Names(Head(q), r) => ~HeldIn(Tail(q), r)
         /\ \A i \in TasksOf(Tail(q), r) : i + 1 \in TasksOf(q, r)
<1>1. PICK a : a = Tail(q)
  OBVIOUS
<1>2. /\ Len(q) \in Nat /\ DOMAIN q = 1 .. Len(q) /\ 1 \in DOMAIN q
      /\ DOMAIN a = 1 .. Len(q) - 1 /\ Head(q) = q[1]
      /\ \A i \in DOMAIN a : a[i] = q[i + 1] /\ i + 1 \in DOMAIN q
  BY <1>1, TailFacts
<1>3. /\ TasksOf(q, r) = {i \in DOMAIN q : Names(q[i], r)}
      /\ TasksOf(a, r) = {i \in DOMAIN a : Names(a[i], r)}
  BY DEF TasksOf, Names
<1>4. \A i \in TasksOf(a, r) : i \in Nat /\ i # 0 /\ i + 1 \in TasksOf(q, r)
  BY <1>2, <1>3
<1>5. \A i \in TasksOf(q, r) : i = 1 \/ i - 1 \in TasksOf(a, r)
  <2> TAKE i \in TasksOf(q, r)
  <2>1. i \in DOMAIN q /\ Names(q[i], r)
    BY <1>3
  <2>2. i # 1 => i - 1 \in DOMAIN a /\ (i - 1) + 1 = i
    BY <2>1, <1>2
  <2> QED
    BY <2>1, <2>2, <1>2, <1>3
<1>6. Names(Head(q), r) <=> 1 \in TasksOf(q, r)
  BY <1>2, <1>3
<1>7. Names(Head(q), r) => HeldIn(q, r)
  BY <1>6 DEF HeldIn
<1>8. HeldIn(a, r) => HeldIn(q, r)
  BY <1>4 DEF HeldIn
<1>9. ~Names(Head(q), r) /\ HeldIn(q, r) => HeldIn(a, r)
  BY <1>5, <1>6 DEF HeldIn
<1>10. OnceIn(q, r) => OnceIn(a, r)
  <2> SUFFICES ASSUME OnceIn(q, r), NEW i \in TasksOf(a, r), NEW j \in TasksOf(a, r)
               PROVE  i = j
    BY DEF OnceIn
  <2>1. i + 1 = j + 1 /\ i \in Nat /\ j \in Nat
    BY <1>4 DEF OnceIn
  <2> QED
    BY <2>1
<1>11. OnceIn(q, r) /\ Names(Head(q), r) => ~HeldIn(a, r)
  <2> SUFFICES ASSUME OnceIn(q, r), Names(Head(q), r), NEW i \in TasksOf(a, r) PROVE FALSE
    BY DEF HeldIn
  <2>1. i + 1 = 1 /\ i \in Nat /\ i # 0
    BY <1>4, <1>6 DEF OnceIn
  <2> QED
    BY <2>1
<1> QED
  BY <1>1, <1>4, <1>7, <1>8, <1>9, <1>10, <1>11

-----------------------------------------------------------------------------
\* A task is put at the end of a queue: what the queue says about the latest user.
LEMMA FollowsAppend ==
  ASSUME NEW S, NEW q \in Seq(S), NEW t \in S, NEW k, NEW known, NEW latest
  PROVE  /\ t.kind # k /\ Follows(q, k, known, latest)
              => Follows(Append(q, t), k, known, latest)
         /\ t.kind = k => Follows(Append(q, t), k, known, t.user)
         /\ t.kind # k => (NoneIn(Append(q, t), k) <=> NoneIn(q, k))
         /\ t.kind = k => ~NoneIn(Append(q, t), k)
<1>1. PICK a : a = Append(q, t)
  OBVIOUS
<1>2. /\ Len(q) \in Nat /\ DOMAIN q = 1 .. Len(q) /\ DOMAIN a = 1 .. Len(q) + 1
      /\ \A i \in DOMAIN q : a[i] = q[i]
      /\ a[Len(q) + 1] = t
  BY <1>1, AppendFacts
<1>3. /\ \A i \in DOMAIN q : i \in DOMAIN a
      /\ \A i \in DOMAIN a : i \in DOMAIN q \/ i = Len(q) + 1
      /\ Len(q) + 1 \in DOMAIN a
      /\ \A i \in DOMAIN q : Len(q) + 1 > i
      /\ \A i \in DOMAIN a : ~(i > Len(q) + 1)
  BY <1>2
<1>4. t.kind # k => (NoneIn(a, k) <=> NoneIn(q, k))
  BY <1>2, <1>3 DEF NoneIn
<1>5. t.kind = k => ~NoneIn(a, k)
  BY <1>2, <1>3 DEF NoneIn
<1>6. ASSUME t.kind # k, Follows(q, k, known, latest)
      PROVE  Follows(a, k, known, latest)
  <2>1. NoneIn(a, k) => known = latest
    BY <1>4, <1>6 DEF Follows
  <2>2. ASSUME NEW i \in DOMAIN a, a[i].kind = k, NoneBehind(a, k, i)
        PROVE  a[i].user = latest
    <3>1. i \in DOMAIN q /\ a[i] = q[i]
      BY <1>2, <1>3, <1>6, <2>2
    <3>2. NoneBehind(q, k, i)
      BY <1>2, <1>3, <2>2 DEF NoneBehind
    <3> QED
      BY <1>6, <2>2, <3>1, <3>2 DEF Follows
  <2> QED
    BY <2>1, <2>2 DEF Follows
<1>7. ASSUME t.kind = k
      PROVE  Follows(a, k, known, t.user)
  <2>1. ASSUME NEW i \in DOMAIN a, a[i].kind = k, NoneBehind(a, k, i)
        PROVE  a[i].user = t.user
    <3>1. i \notin DOMAIN q
      BY <1>2, <1>3, <1>7, <2>1 DEF NoneBehind
    <3> QED
      BY <1>2, <1>3, <3>1
  <2> QED
    BY <1>5, <1>7, <2>1 DEF Follows
<1> QED
  BY <1>1, <1>4, <1>5, <1>6, <1>7

\* The first task of a queue is taken; its reader learns of the user it carries.
LEMMA FollowsTail ==
  ASSUME NEW S, NEW q \in Seq(S), q # <<>>, NEW k, NEW known, NEW latest,
         Follows(q, k, known, latest)
  PROVE  /\ Head(q).kind # k => Follows(Tail(q), k, known, latest)
         /\ Head(q).kind = k => Follows(Tail(q), k, Head(q).user, latest)
         /\ Head(q).kind # k => (NoneIn(Tail(q), k) <=> NoneIn(q, k))
<1>1. PICK a : a = Tail(q)
  OBVIOUS
<1>2. /\ Len(q) \in Nat /\ DOMAIN q = 1 .. Len(q) /\ 1 \in DOMAIN q
      /\ DOMAIN a = 1 .. Len(q) - 1 /\ Head(q) = q[1]
      /\ \A i \in DOMAIN a : a[i] = q[i + 1] /\ i + 1 \in DOMAIN q
  BY <1>1, TailFacts
<1>3. \A j \in DOMAIN q : j = 1 \/ (j - 1 \in DOMAIN a /\ a[j - 1] = q[j])
  <2> TAKE j \in DOMAIN q
  <2>1. j # 1 => j - 1 \in DOMAIN a /\ (j - 1) + 1 = j
    BY <1>2
  <2> QED
    BY <1>2, <2>1
<1>4. NoneIn(a, k) /\ Head(q).kind # k => NoneIn(q, k)
  BY <1>2, <1>3 DEF NoneIn
<1>5. NoneIn(q, k) => NoneIn(a, k)
  BY <1>2 DEF NoneIn
<1>6. \A i \in DOMAIN a : a[i].kind = k /\ NoneBehind(a, k, i) => a[i].user = latest
  <2> SUFFICES ASSUME NEW i \in DOMAIN a, a[i].kind = k, NoneBehind(a, k, i)
               PROVE  a[i].user = latest
    OBVIOUS
  <2>1. NoneBehind(q, k, i + 1)
    <3> SUFFICES ASSUME NEW j \in DOMAIN q, j > i + 1 PROVE q[j].kind # k
      BY DEF NoneBehind
    <3>1. j # 1 /\ j - 1 > i
      BY <1>2
    <3>2. j - 1 \in DOMAIN a /\ a[j - 1] = q[j]
      BY <1>3, <3>1
    <3> QED
      BY <3>1, <3>2 DEF NoneBehind
  <2> QED
    BY <1>2, <2>1 DEF Follows
<1>7. Head(q).kind = k /\ NoneIn(a, k) => Head(q).user = latest
  <2> SUFFICES ASSUME Head(q).kind = k, NoneIn(a, k) PROVE Head(q).user = latest
    OBVIOUS
  <2>1. NoneBehind(q, k, 1)
    <3> SUFFICES ASSUME NEW j \in DOMAIN q, j > 1 PROVE q[j].kind # k
      BY DEF NoneBehind
    <3> QED
      BY <1>3 DEF NoneIn
  <2> QED
    BY <1>2, <2>1 DEF Follows
<1>8. Head(q).kind # k => Follows(a, k, known, latest)
  BY <1>4, <1>6 DEF Follows
<1>9. Head(q).kind = k => Follows(a, k, Head(q).user, latest)
  BY <1>6, <1>7 DEF Follows
<1> QED
  BY <1>1, <1>4, <1>5, <1>8, <1>9

\* A task is put at the end of the main queue: a notification, or an answer that is
\* for user p unless a notification comes before it.
LEMMA CallbacksAppend ==
  ASSUME NEW q \in Seq(Notification \cup TokenCallback),
         NEW t \in Notification \cup TokenCallback, NEW S, NEW p, CallbacksFor(S, q, p),
         /\ t \in TokenCallback /\ t.request \in S
         /\ NoneIn(q, "notification") /\ t.token # Failed
         => t.token.owner = p
  PROVE  CallbacksFor(S, Append(q, t), p)
<1>1. PICK a : a = Append(q, t)
  OBVIOUS
<1>2. /\ Len(q) \in Nat /\ DOMAIN q = 1 .. Len(q) /\ DOMAIN a = 1 .. Len(q) + 1
      /\ \A i \in DOMAIN q : a[i] = q[i]
      /\ a[Len(q) + 1] = t
  BY <1>1, AppendFacts
<1>3. /\ \A i \in DOMAIN q : i \in DOMAIN a
      /\ \A i \in DOMAIN a : i \in DOMAIN q \/ i = Len(q) + 1
      /\ \A i \in DOMAIN q : i < Len(q) + 1
  BY <1>2
<1>4. \A r : /\ TasksOf(q, r) = {i \in DOMAIN q : Names(q[i], r)}
             /\ TasksOf(a, r) = {i \in DOMAIN a : Names(a[i], r)}
  BY DEF TasksOf, Names
<1>5. SUFFICES ASSUME NEW r \in S, NEW i \in TasksOf(a, r),
                      NoneBefore(a, "notification", i), a[i].token # Failed
               PROVE  a[i].token.owner = p
  BY <1>1 DEF CallbacksFor
<1>6. i \in DOMAIN a /\ Names(a[i], r)
  BY <1>4
<1>7. CASE i \in DOMAIN q
  <2>1. i \in TasksOf(q, r)
    BY <1>2, <1>4, <1>6, <1>7
  <2>2. NoneBefore(q, "notification", i)
    BY <1>2, <1>3, <1>5 DEF NoneBefore
  <2>3. a[i] = q[i]
    BY <1>2, <1>7
  <2>4. q[i].token # Failed
    BY <1>5, <2>3
  <2>5. q[i].token.owner = p
    BY <2>1, <2>2, <2>4 DEF CallbacksFor
  <2> QED
    BY <2>3, <2>5
<1>8. CASE i \notin DOMAIN q
  <2>1. i = Len(q) + 1 /\ a[i] = t
    BY <1>2, <1>3, <1>6, <1>8
  <2>2. t \in TokenCallback /\ t.request \in S
    BY <1>6, <2>1, NamesFacts
  <2>3. NoneIn(q, "notification")
    <3> SUFFICES ASSUME NEW j \in DOMAIN q PROVE q[j].kind # "notification"
      BY DEF NoneIn
    <3> QED
      BY <1>2, <1>3, <1>5, <2>1 DEF NoneBefore
  <2> QED
    BY <1>5, <2>1, <2>2, <2>3
<1> QED
  BY <1>7, <1>8

\* A callback is taken from the main queue.
LEMMA CallbacksTail ==
  ASSUME NEW T, NEW q \in Seq(T), q # <<>>, Head(q).kind # "notification",
         NEW S, NEW p, CallbacksFor(S, q, p)
  PROVE  CallbacksFor(S, Tail(q), p)
<1>1. PICK a : a = Tail(q)
  OBVIOUS
<1>2. /\ Len(q) \in Nat /\ DOMAIN q = 1 .. Len(q)
      /\ DOMAIN a = 1 .. Len(q) - 1 /\ Head(q) = q[1]
      /\ \A i \in DOMAIN a : a[i] = q[i + 1] /\ i + 1 \in DOMAIN q
  BY <1>1, TailFacts
<1>3. SUFFICES ASSUME NEW r \in S, NEW i \in TasksOf(a, r),
                      NoneBefore(a, "notification", i), a[i].token # Failed
               PROVE  a[i].token.owner = p
  BY <1>1 DEF CallbacksFor
<1>4. i \in DOMAIN a
  BY DEF TasksOf
<1>5. i + 1 \in TasksOf(q, r)
  BY <1>1, TailTasks
<1>6. NoneBefore(q, "notification", i + 1)
  <2> SUFFICES ASSUME NEW j \in DOMAIN q, j < i + 1 PROVE q[j].kind # "notification"
    BY DEF NoneBefore
  <2>1. j # 1 => j - 1 \in DOMAIN a /\ (j - 1) + 1 = j /\ j - 1 < i
    BY <1>2, <1>4
  <2>2. j # 1 => a[j - 1] = q[j]
    BY <1>2, <2>1
  <2> QED
    BY <1>2, <1>3, <2>1, <2>2 DEF NoneBefore
<1>7. a[i] = q[i + 1]
  BY <1>2, <1>4
<1>8. q[i + 1].token # Failed
  BY <1>3, <1>7
<1>9. q[i + 1].token.owner = p
  BY <1>5, <1>6, <1>8 DEF CallbacksFor
<1> QED
  BY <1>7, <1>9

\* Only the requests that wait in the main queue matter.
LEMMA CallbacksOfOthers ==
  ASSUME NEW S, NEW q, NEW p, CallbacksFor(S, q, p),
         NEW S2, \A r \in S2 : r \in S \/ ~HeldIn(q, r)
  PROVE  CallbacksFor(S2, q, p)
BY DEF CallbacksFor, HeldIn

\* A task is put at the end of the worker queue: a change, or an answer that is for
\* user c unless it answers another request or a change comes before it.
LEMMA ResumesAppend ==
  ASSUME NEW q \in Seq(CredentialChange \cup Resume),
         NEW t \in CredentialChange \cup Resume, NEW x, NEW c, ResumesFor(q, x, c),
         /\ t \in Resume /\ t.request = x
         /\ NoneIn(q, "change") /\ t.token # Failed
         => t.user = c
  PROVE  ResumesFor(Append(q, t), x, c)
<1>1. PICK a : a = Append(q, t)
  OBVIOUS
<1>2. /\ Len(q) \in Nat /\ DOMAIN q = 1 .. Len(q) /\ DOMAIN a = 1 .. Len(q) + 1
      /\ \A i \in DOMAIN q : a[i] = q[i]
      /\ a[Len(q) + 1] = t
  BY <1>1, AppendFacts
<1>3. /\ \A i \in DOMAIN q : i \in DOMAIN a
      /\ \A i \in DOMAIN a : i \in DOMAIN q \/ i = Len(q) + 1
      /\ \A i \in DOMAIN q : i < Len(q) + 1
  BY <1>2
<1>4. SUFFICES ASSUME NEW i \in DOMAIN a, a[i].kind = "resume", a[i].request = x,
                      NoneBefore(a, "change", i), a[i].token # Failed
               PROVE  a[i].user = c
  BY <1>1 DEF ResumesFor
<1>5. CASE i \in DOMAIN q
  <2>1. NoneBefore(q, "change", i)
    BY <1>2, <1>3, <1>4 DEF NoneBefore
  <2>2. a[i] = q[i]
    BY <1>2, <1>5
  <2>3. q[i].kind = "resume" /\ q[i].request = x /\ q[i].token # Failed
    BY <1>4, <2>2
  <2>4. q[i].user = c
    BY <1>5, <2>1, <2>3 DEF ResumesFor
  <2> QED
    BY <2>2, <2>4
<1>6. CASE i \notin DOMAIN q
  <2>1. i = Len(q) + 1 /\ a[i] = t
    BY <1>2, <1>3, <1>6
  <2>2. t \in Resume
    BY <1>4, <2>1, KindFacts
  <2>3. NoneIn(q, "change")
    <3> SUFFICES ASSUME NEW j \in DOMAIN q PROVE q[j].kind # "change"
      BY DEF NoneIn
    <3> QED
      BY <1>2, <1>3, <1>4, <2>1 DEF NoneBefore
  <2> QED
    BY <1>4, <2>1, <2>2, <2>3
<1> QED
  BY <1>5, <1>6

\* An answer is taken from the worker queue.
LEMMA ResumesTail ==
  ASSUME NEW T, NEW q \in Seq(T), q # <<>>, Head(q).kind # "change",
         NEW x, NEW c, ResumesFor(q, x, c)
  PROVE  ResumesFor(Tail(q), x, c)
<1>1. PICK a : a = Tail(q)
  OBVIOUS
<1>2. /\ Len(q) \in Nat /\ DOMAIN q = 1 .. Len(q)
      /\ DOMAIN a = 1 .. Len(q) - 1 /\ Head(q) = q[1]
      /\ \A i \in DOMAIN a : a[i] = q[i + 1] /\ i + 1 \in DOMAIN q
  BY <1>1, TailFacts
<1>3. SUFFICES ASSUME NEW i \in DOMAIN a, a[i].kind = "resume", a[i].request = x,
                      NoneBefore(a, "change", i), a[i].token # Failed
               PROVE  a[i].user = c
  BY <1>1 DEF ResumesFor
<1>4. NoneBefore(q, "change", i + 1)
  <2> SUFFICES ASSUME NEW j \in DOMAIN q, j < i + 1 PROVE q[j].kind # "change"
    BY DEF NoneBefore
  <2>1. j # 1 => j - 1 \in DOMAIN a /\ (j - 1) + 1 = j /\ j - 1 < i
    BY <1>2
  <2>2. j # 1 => a[j - 1] = q[j]
    BY <1>2, <2>1
  <2> QED
    BY <1>2, <1>3, <2>1, <2>2 DEF NoneBefore
<1>5. a[i] = q[i + 1] /\ i + 1 \in DOMAIN q
  BY <1>2
<1>6. q[i + 1].kind = "resume" /\ q[i + 1].request = x /\ q[i + 1].token # Failed
  BY <1>3, <1>5
<1>7. q[i + 1].user = c
  BY <1>4, <1>5, <1>6 DEF ResumesFor
<1> QED
  BY <1>5, <1>7

\* There is no answer to a request that the worker queue does not hold.
LEMMA ResumesOfOthers ==
  ASSUME NEW q \in Seq(CredentialChange \cup Resume), NEW x, ~HeldIn(q, x), NEW c
  PROVE  ResumesFor(q, x, c)
<1>1. ASSUME NEW i \in DOMAIN q, q[i].kind = "resume", q[i].request = x
      PROVE  FALSE
  <2>1. q[i] \in CredentialChange \cup Resume
    OBVIOUS
  <2>2. q[i] \in Resume
    BY <1>1, <2>1, KindFacts
  <2>3. Names(q[i], x)
    BY <1>1, <2>2, NamesFacts
  <2> QED
    BY <2>3 DEF HeldIn, TasksOf, Names
<1> QED
  BY <1>1 DEF ResumesFor

\* The tokens of queue q are for the users they are said to be for.
AllNamed(q) ==
  \A i \in DOMAIN q : q[i].kind = "resume" /\ q[i].token # Failed => q[i].user = q[i].token.owner

\* What a step of a queue does to that.
LEMMA NamedFacts ==
  ASSUME NEW q \in Seq(CredentialChange \cup Resume), AllNamed(q)
  PROVE  /\ q # <<>> => AllNamed(Tail(q))
         /\ \A t \in CredentialChange \cup Resume :
              (t \in Resume /\ t.token # Failed => t.user = t.token.owner) => AllNamed(Append(q, t))
<1>1. ASSUME q # <<>>
      PROVE  AllNamed(Tail(q))
  <2>1. PICK a : a = Tail(q)
    OBVIOUS
  <2>2. \A i \in DOMAIN a : a[i] = q[i + 1] /\ i + 1 \in DOMAIN q
    BY <1>1, <2>1, TailFacts
  <2> QED
    BY <2>1, <2>2 DEF AllNamed
<1>2. ASSUME NEW t \in CredentialChange \cup Resume,
             t \in Resume /\ t.token # Failed => t.user = t.token.owner
      PROVE  AllNamed(Append(q, t))
  <2>1. PICK a : a = Append(q, t)
    OBVIOUS
  <2>2. /\ Len(q) \in Nat /\ DOMAIN q = 1 .. Len(q) /\ DOMAIN a = 1 .. Len(q) + 1
        /\ \A i \in DOMAIN q : a[i] = q[i]
        /\ a[Len(q) + 1] = t
    BY <2>1, AppendFacts
  <2>3. \A i \in DOMAIN a : i \in DOMAIN q \/ i = Len(q) + 1
    BY <2>2
  <2>4. t.kind = "resume" => t \in Resume
    BY KindFacts
  <2> QED
    BY <1>2, <2>1, <2>2, <2>3, <2>4 DEF AllNamed
<1> QED
  BY <1>1, <1>2

-----------------------------------------------------------------------------
\* From queue q to queue q2: request r stays where it is, leaves, or arrives.
KeptIn(q, q2, r)  == (HeldIn(q2, r) <=> HeldIn(q, r)) /\ (OnceIn(q, r) => OnceIn(q2, r))
LeavesIn(q, q2, r) == /\ HeldIn(q, r)
                      /\ OnceIn(q, r) => ~HeldIn(q2, r) /\ OnceIn(q2, r)
ArrivesIn(q, q2, r) == HeldIn(q2, r) /\ (OnceIn(q, r) /\ ~HeldIn(q, r) => OnceIn(q2, r))

\* A queue that does not change keeps its requests.
LEMMA KeptUnchanged == ASSUME NEW q, NEW r PROVE KeptIn(q, q, r)
BY DEF KeptIn

\* A task brings its request to the queue it is put in.
LEMMA ArrivesFacts ==
  ASSUME NEW S, NEW q \in Seq(S), NEW t \in S, NEW r
  PROVE  IF Names(t, r) THEN ArrivesIn(q, Append(q, t), r) ELSE KeptIn(q, Append(q, t), r)
BY AppendTasks DEF ArrivesIn, KeptIn

\* A task takes its request from the queue it is taken of.
LEMMA LeavesFacts ==
  ASSUME NEW S, NEW q \in Seq(S), q # <<>>, NEW r
  PROVE  IF Names(Head(q), r) THEN LeavesIn(q, Tail(q), r) ELSE KeptIn(q, Tail(q), r)
BY TailTasks DEF LeavesIn, KeptIn

\* Two steps of a queue.
LEMMA KeptTwice ==
  ASSUME NEW p, NEW q, NEW q2, NEW r, KeptIn(p, q, r)
  PROVE  /\ KeptIn(q, q2, r) => KeptIn(p, q2, r)
         /\ ArrivesIn(q, q2, r) => ArrivesIn(p, q2, r)
BY DEF KeptIn, ArrivesIn

\* A request that stays where it is keeps its holder.
LEMMA HolderStays ==
  ASSUME NEW a, NEW m, NEW w, NEW f, NEW a2, NEW m2, NEW w2, NEW f2, NEW r,
         OneHolder(a, m, w, f, r),
         KeptIn(a, a2, r), KeptIn(m, m2, r), KeptIn(w, w2, r),
         \A u \in Accounts : KeptIn(f[u], f2[u], r)
  PROVE  OneHolder(a2, m2, w2, f2, r) /\ (Underway(a2, m2, w2, f2, r) <=> Underway(a, m, w, f, r))
BY DEF OneHolder, Underway, KeptIn

\* FIRAuth starts on a request of the account v.
LEMMA HolderStarts ==
  ASSUME NEW a, NEW m, NEW w, NEW f, NEW a2, NEW f2, NEW r, NEW v \in Accounts,
         OneHolder(a, m, w, f, r), LeavesIn(a, a2, r), ArrivesIn(f[v], f2[v], r),
         \A u \in Accounts \ {v} : KeptIn(f[u], f2[u], r)
  PROVE  OneHolder(a2, m, w, f2, r) /\ Underway(a, m, w, f, r) /\ Underway(a2, m, w, f2, r)
BY DEF OneHolder, Underway, KeptIn, LeavesIn, ArrivesIn

\* FIRAuth answers a request at once when no one is signed in.
LEMMA HolderIsTurnedAway ==
  ASSUME NEW a, NEW m, NEW w, NEW f, NEW a2, NEW m2, NEW r,
         OneHolder(a, m, w, f, r), LeavesIn(a, a2, r), ArrivesIn(m, m2, r)
  PROVE  OneHolder(a2, m2, w, f, r) /\ Underway(a, m, w, f, r) /\ Underway(a2, m2, w, f, r)
BY DEF OneHolder, Underway, KeptIn, LeavesIn, ArrivesIn

\* A fetch of account v ends.
LEMMA HolderIsAnswered ==
  ASSUME NEW a, NEW m, NEW w, NEW f, NEW m2, NEW f2, NEW r, NEW v \in Accounts,
         OneHolder(a, m, w, f, r), ArrivesIn(m, m2, r), LeavesIn(f[v], f2[v], r),
         \A u \in Accounts \ {v} : KeptIn(f[u], f2[u], r)
  PROVE  OneHolder(a, m2, w, f2, r) /\ Underway(a, m, w, f, r) /\ Underway(a, m2, w, f2, r)
BY DEF OneHolder, Underway, KeptIn, LeavesIn, ArrivesIn

\* The provider passes an answer on, or asks again.
LEMMA HolderPasses ==
  ASSUME NEW a, NEW m, NEW w, NEW f, NEW a2, NEW m2, NEW w2, NEW r,
         OneHolder(a, m, w, f, r), LeavesIn(m, m2, r),
         \/ KeptIn(a, a2, r) /\ ArrivesIn(w, w2, r)
         \/ ArrivesIn(a, a2, r) /\ KeptIn(w, w2, r)
  PROVE  OneHolder(a2, m2, w2, f, r) /\ Underway(a, m, w, f, r) /\ Underway(a2, m2, w2, f, r)
BY DEF OneHolder, Underway, KeptIn, LeavesIn, ArrivesIn

\* The SDK makes a new request.
LEMMA HolderBegins ==
  ASSUME NEW a, NEW m, NEW w, NEW f, NEW a2, NEW w2, NEW r,
         OneHolder(a, m, w, f, r), ~Underway(a, m, w, f, r),
         ArrivesIn(a, a2, r), KeptIn(w, w2, r)
  PROVE  OneHolder(a2, m, w2, f, r) /\ Underway(a2, m, w2, f, r)
BY DEF OneHolder, Underway, KeptIn, ArrivesIn

\* The SDK takes an answer.
LEMMA HolderEnds ==
  ASSUME NEW a, NEW m, NEW w, NEW f, NEW w2, NEW r,
         OneHolder(a, m, w, f, r), LeavesIn(w, w2, r)
  PROVE  OneHolder(a, m, w2, f, r) /\ ~Underway(a, m, w2, f, r)
BY DEF OneHolder, Underway, LeavesIn

-----------------------------------------------------------------------------
\* Queue b is queue q with the notification of user v.
Notifies(q, v, b) == b = Append(q, [kind |-> "notification", user |-> v])

\* FIRAuth announces user v to the provider.
LEMMA NotifyFacts ==
  ASSUME NEW q \in Seq(Notification \cup TokenCallback), NEW v \in Users,
         NEW b, Notifies(q, v, b)
  PROVE  /\ b \in Seq(Notification \cup TokenCallback)
         /\ \A r : KeptIn(q, b, r)
         /\ \A S, p : CallbacksFor(S, q, p) => CallbacksFor(S, b, p)
         /\ \A known : Follows(b, "notification", known, v)
         /\ ~NoneIn(b, "notification")
<1>1. PICK t : t = [kind |-> "notification", user |-> v]
  OBVIOUS
<1>2. t \in Notification /\ t.kind = "notification" /\ t.user = v
  BY <1>1 DEF Notification
<1>3. t \in Notification \cup TokenCallback /\ b = Append(q, t)
  BY <1>1, <1>2 DEF Notifies
<1>4. b \in Seq(Notification \cup TokenCallback)
  BY <1>3, AppendFacts
<1>5. \A r : KeptIn(q, b, r)
  BY <1>2, <1>3, ArrivesFacts, NamesFacts
<1>6. \A S, p : CallbacksFor(S, q, p) => CallbacksFor(S, b, p)
  <2> SUFFICES ASSUME NEW S, NEW p, CallbacksFor(S, q, p) PROVE CallbacksFor(S, b, p)
    OBVIOUS
  <2>1. t \notin TokenCallback
    BY <1>2, KindFacts
  <2> QED
    BY <1>3, <2>1, CallbacksAppend
<1>7. (\A known : Follows(b, "notification", known, v)) /\ ~NoneIn(b, "notification")
  BY <1>2, <1>3, FollowsAppend
<1> QED
  BY <1>4, <1>5, <1>6, <1>7

\* Queue b is queue q with the answer to request r.
Answers(q, r, token, b) == b = Append(q, Callback(r, token))

\* FIRAuth answers request r.
LEMMA AnswerFacts ==
  ASSUME NEW q \in Seq(Notification \cup TokenCallback), NEW r \in Requests,
         NEW token \in Answer, NEW b, Answers(q, r, token, b)
  PROVE  /\ b \in Seq(Notification \cup TokenCallback)
         /\ ArrivesIn(q, b, r)
         /\ \A s : s # r => KeptIn(q, b, s)
         /\ \A S, p : /\ CallbacksFor(S, q, p)
                      /\ r \in S /\ NoneIn(q, "notification") /\ token # Failed => token.owner = p
                      => CallbacksFor(S, b, p)
         /\ \A known, latest : Follows(q, "notification", known, latest)
                                => Follows(b, "notification", known, latest)
         /\ NoneIn(b, "notification") <=> NoneIn(q, "notification")
<1>1. PICK t : t = Callback(r, token)
  OBVIOUS
<1>2. t \in TokenCallback /\ t.kind = "token" /\ t.request = r /\ t.token = token
  BY <1>1 DEF TokenCallback, Callback
<1>3. t \in Notification \cup TokenCallback /\ b = Append(q, t)
  BY <1>1, <1>2 DEF Answers
<1>4. b \in Seq(Notification \cup TokenCallback)
  BY <1>3, AppendFacts
<1>5. \A s : Names(t, s) <=> s = r
  BY <1>2, NamesFacts
<1>6. ArrivesIn(q, b, r) /\ \A s : s # r => KeptIn(q, b, s)
  BY <1>3, <1>5, ArrivesFacts
<1>7. \A S, p : /\ CallbacksFor(S, q, p)
                /\ r \in S /\ NoneIn(q, "notification") /\ token # Failed => token.owner = p
                => CallbacksFor(S, b, p)
  BY <1>2, <1>3, CallbacksAppend
<1>8. /\ \A known, latest : Follows(q, "notification", known, latest)
                              => Follows(b, "notification", known, latest)
      /\ NoneIn(b, "notification") <=> NoneIn(q, "notification")
  BY <1>2, <1>3, FollowsAppend
<1> QED
  BY <1>4, <1>6, <1>7, <1>8

\* The kinds of tokens.
LEMMA TokenFacts ==
  /\ \A t \in Token : /\ t.owner \in Accounts /\ t.serial \in 1 .. MaxSerial
                      /\ t # NoToken /\ t # Failed /\ t # None
  /\ NoToken.owner = SignedOut /\ NoToken.serial = 0 /\ NoToken # None
  /\ NoToken \notin Token /\ Failed \notin Token
  /\ \A u \in Accounts, n \in 1 .. MaxSerial :
       LET t == [owner |-> u, serial |-> n]
       IN  t \in Token /\ t.owner = u /\ t.serial = n
<1>1. MaxSerial \in Nat
  BY CredentialsAssumption
<1>2. 0 \notin 1 .. MaxSerial
  BY <1>1
<1>3. \A t \in Token : t.owner \in Accounts /\ t.serial \in 1 .. MaxSerial
  BY DEF Token
<1>4. NoToken.serial = 0 /\ Failed.serial = 0 /\ NoToken.owner = SignedOut
  BY DEF NoToken, Failed
<1>5. \A u \in Accounts, n \in 1 .. MaxSerial :
        LET t == [owner |-> u, serial |-> n]
        IN  t \in Token /\ t.owner = u /\ t.serial = n
  BY DEF Token
<1> QED
  BY <1>2, <1>3, <1>4, <1>5, NoneAssumption

\* What FIRAuth does leaves the worker queue and the SDK alone.
LEMMA SDKUnchanged ==
  ASSUME Inv, UNCHANGED <<workQueue, providerUser, sdk>>
  PROVE  WorkerFollows' /\ TokenNamesItsOwner' /\ AwaitedIsForCurrent' /\ StreamSpeaksForCurrent'
<1>1. WorkerFollows'
  BY DEF Inv, WorkerFollows, Follows, NoneIn, NoneBehind, sdk
<1>2. TokenNamesItsOwner'
  BY DEF Inv, TokenNamesItsOwner
<1>3. AwaitedIsForCurrent'
  BY DEF Inv, AwaitedIsForCurrent, ResumesFor, NoneBefore, sdk
<1>4. StreamSpeaksForCurrent'
  BY DEF Inv, StreamSpeaksForCurrent, sdk
<1> QED
  BY <1>1, <1>2, <1>3, <1>4

\* Requests may move as long as those that are held still are.
LEMMA HoldersMove ==
  ASSUME Inv, awaited' = awaited, stream' = stream,
         \A r \in Requests :
           /\ OneHolder(authQueue', mainQueue', workQueue', fetches', r)
           /\ Underway(authQueue', mainQueue', workQueue', fetches', r)
                <=> Underway(authQueue, mainQueue, workQueue, fetches, r)
  PROVE  HeldOnce' /\ StartingIsHeld'
<1>1. HeldOnce'
  BY DEF HeldOnce
<1>2. awaited \in Requests \cup {None}
  BY DEF Inv, TypeOK
<1>3. \A r \in Requests : Held(r)' <=> Held(r)
  BY DEF Held
<1>4. StartingIsHeld'
  BY <1>2, <1>3 DEF Inv, StartingIsHeld, Held
<1> QED
  BY <1>1, <1>4

\* Functions g and f of the accounts: in g, the queue of v has lost its first task,
\* or has task t more.
Taken(f, v, g)  == g = [f EXCEPT ![v] = Tail(@)]
Put(f, v, t, g) == g = [f EXCEPT ![v] = Append(@, t)]

\* FIRAuth remembers one request less of an account.
LEMMA FetchTaken ==
  ASSUME NEW f \in [Accounts -> Seq(Fetch)], NEW v \in Accounts, f[v] # <<>>,
         NEW g, Taken(f, v, g)
  PROVE  /\ g \in [Accounts -> Seq(Fetch)]
         /\ Head(f[v]) \in Fetch
         /\ \A r : IF r = Head(f[v]).request THEN LeavesIn(f[v], g[v], r) ELSE KeptIn(f[v], g[v], r)
         /\ \A u \in Accounts \ {v} : \A r : KeptIn(f[u], g[u], r)
         /\ \A u \in Accounts : \A r : HeldIn(g[u], r) => HeldIn(f[u], r)
         /\ \A u \in Accounts : g[u] # <<>> => f[u] # <<>>
<1>1. PICK q \in Seq(Fetch) : q = f[v]
  OBVIOUS
<1>2. q # <<>> /\ Tail(q) \in Seq(Fetch) /\ Head(q) \in Fetch
  BY <1>1, TailFacts
<1>3. g[v] = Tail(q) /\ \A u \in Accounts \ {v} : g[u] = f[u]
  BY <1>1 DEF Taken
<1>4. \A r : IF r = Head(q).request THEN LeavesIn(q, Tail(q), r) ELSE KeptIn(q, Tail(q), r)
  BY <1>2, LeavesFacts, NamesFacts
<1>5. \A r : HeldIn(Tail(q), r) => HeldIn(q, r)
  BY <1>2, TailTasks
<1>6. g \in [Accounts -> Seq(Fetch)]
  BY <1>1, <1>2 DEF Taken
<1>7. \A u \in Accounts \ {v} : \A r : KeptIn(f[u], g[u], r)
  BY <1>3, KeptUnchanged
<1> QED
  BY <1>1, <1>2, <1>3, <1>4, <1>5, <1>6, <1>7

\* FIRAuth remembers one request more of an account.
LEMMA FetchPut ==
  ASSUME NEW f \in [Accounts -> Seq(Fetch)], NEW v \in Accounts, NEW t \in Fetch,
         NEW g, Put(f, v, t, g)
  PROVE  /\ g \in [Accounts -> Seq(Fetch)]
         /\ \A r : IF r = t.request THEN ArrivesIn(f[v], g[v], r) ELSE KeptIn(f[v], g[v], r)
         /\ \A u \in Accounts \ {v} : \A r : KeptIn(f[u], g[u], r)
         /\ \A u \in Accounts : u # v => g[u] = f[u]
<1>1. PICK q \in Seq(Fetch) : q = f[v]
  OBVIOUS
<1>2. Append(q, t) \in Seq(Fetch)
  BY AppendFacts
<1>3. g[v] = Append(q, t) /\ \A u \in Accounts \ {v} : g[u] = f[u]
  BY <1>1 DEF Put
<1>4. \A r : IF r = t.request THEN ArrivesIn(q, Append(q, t), r) ELSE KeptIn(q, Append(q, t), r)
  BY ArrivesFacts, NamesFacts
<1>5. g \in [Accounts -> Seq(Fetch)]
  BY <1>1, <1>2 DEF Put
<1>6. \A u \in Accounts \ {v} : \A r : KeptIn(f[u], g[u], r)
  BY <1>3, KeptUnchanged
<1> QED
  BY <1>1, <1>3, <1>4, <1>5, <1>6

-----------------------------------------------------------------------------
\* An account signs in: its first token is news, because FIRAuth cannot have
\* announced a token of it before.
LEMMA SignInStep ==
  ASSUME Inv, NEW u \in Accounts, SignIn(u)
  PROVE  Inv'
<1> USE CredentialsAssumption
<1>1. TypeOK
  BY DEF Inv
<1>2. u \in Users /\ 1 \in 0 .. MaxSerial /\ 1 \in 1 .. MaxSerial
  BY DEF Users
<1>3. PICK token : token = [owner |-> u, serial |-> 1]
  OBVIOUS
<1>4. token \in Token /\ token.owner = u /\ token.serial = 1 /\ token # NoToken
  BY <1>2, <1>3, TokenFacts
<1>5. lastNotified # token
  <2> SUFFICES ASSUME lastNotified = token PROVE FALSE
    OBVIOUS
  <2>1. 1 <= raw[u]
    BY <1>4 DEF Inv, TokensExist
  <2> QED
    BY <2>1 DEF SignIn
<1>6. /\ raw' = [raw EXCEPT ![u] = 1] /\ authUser' = u /\ lastNotified' = token
      /\ mainQueue' = Append(mainQueue, [kind |-> "notification", user |-> u])
      /\ UNCHANGED <<autoRefresh, fetches, authQueue, providerUser, steady, forceRefresh, invalid,
                     clearing, workQueue, sdk, rejected, dropped>>
  BY <1>3, <1>5 DEF SignIn, Post
<1>7. /\ mainQueue' \in Seq(Notification \cup TokenCallback)
      /\ \A r : KeptIn(mainQueue, mainQueue', r)
      /\ CallbacksFor(steady, mainQueue', providerUser)
      /\ Follows(mainQueue', "notification", providerUser, u)
      /\ ~NoneIn(mainQueue', "notification")
  <2>1. mainQueue \in Seq(Notification \cup TokenCallback)
    BY <1>1 DEF TypeOK
  <2>2. CallbacksFor(steady, mainQueue, providerUser)
    BY DEF Inv, SteadyIsForProvider
  <2>3. Notifies(mainQueue, u, mainQueue')
    BY <1>6 DEF Notifies
  <2> QED
    BY <1>2, <2>1, <2>2, <2>3, NotifyFacts
<1>8. TypeOK'
  <2>1. raw' \in [Accounts -> 0 .. MaxSerial]
    BY <1>1, <1>2, <1>6 DEF TypeOK
  <2> QED
    BY <1>1, <1>2, <1>4, <1>6, <1>7, <2>1 DEF TypeOK, sdk
<1>9. HeldOnce' /\ StartingIsHeld'
  <2>1. \A r \in Requests :
          /\ OneHolder(authQueue', mainQueue', workQueue', fetches', r)
          /\ Underway(authQueue', mainQueue', workQueue', fetches', r)
               <=> Underway(authQueue, mainQueue, workQueue, fetches, r)
    BY <1>6, <1>7, HolderStays, KeptUnchanged, SMTT(30) DEF Inv, HeldOnce
  <2> QED
    BY <1>6, <2>1, HoldersMove DEF sdk
<1>10. TokensExist'
  <2>1. raw'[u] = 1 /\ \A a \in Accounts : raw'[a] # 0 \/ raw'[a] = raw[a]
    BY <1>1, <1>6 DEF TypeOK
  <2>2. \A a \in Accounts : fetches[a] # <<>> => raw[a] # 0
    BY DEF Inv, TokensExist
  <2> QED
    BY <1>4, <1>6, <2>1, <2>2 DEF TokensExist
<1>11. ProviderFollows'
  BY <1>6, <1>7 DEF ProviderFollows
<1>12. SteadyIsForProvider'
  BY <1>6, <1>7 DEF SteadyIsForProvider, FetchesFor
<1>13. WorkerFollows' /\ TokenNamesItsOwner' /\ AwaitedIsForCurrent' /\ StreamSpeaksForCurrent'
  BY <1>6, SDKUnchanged
<1> QED
  BY <1>8, <1>9, <1>10, <1>11, <1>12, <1>13 DEF Inv

\* FIRAuth starts on a request: for its present user, who is the provider's user
\* unless a notification is on its way.
LEMMA RunGetTokenStep ==
  ASSUME Inv, RunGetToken
  PROVE  Inv'
<1> USE CredentialsAssumption
<1>1. TypeOK
  BY DEF Inv
<1>2. PICK t : t = Head(authQueue)
  OBVIOUS
<1>3. t \in AuthCall /\ authQueue' \in Seq(AuthCall)
  BY <1>1, <1>2, TailFacts DEF TypeOK, RunGetToken
<1>4. t.request \in Requests /\ t \in Fetch
  BY <1>3 DEF AuthCall, Fetch
<1>5. \A r : IF r = t.request THEN LeavesIn(authQueue, authQueue', r)
                              ELSE KeptIn(authQueue, authQueue', r)
  BY <1>1, <1>2, <1>3, LeavesFacts, NamesFacts DEF TypeOK, RunGetToken
<1>6. /\ autoRefresh' = TRUE /\ autoRefresh' \in BOOLEAN
      /\ UNCHANGED <<authUser, raw, lastNotified, providerUser, steady, forceRefresh,
                     invalid, clearing, workQueue, sdk, rejected, dropped>>
  BY DEF RunGetToken
<1>7. WorkerFollows' /\ TokenNamesItsOwner' /\ AwaitedIsForCurrent' /\ StreamSpeaksForCurrent'
  BY <1>6, SDKUnchanged
<1>8. NoneIn(mainQueue, "notification") => providerUser = authUser
  BY DEF Inv, ProviderFollows, Follows
<1>9. CASE authUser = SignedOut
  <2>1. Answers(mainQueue, t.request, NoToken, mainQueue') /\ fetches' = fetches
    BY <1>2, <1>9 DEF RunGetToken, Answers
  <2>2. NoToken \in Answer /\ NoToken.owner = SignedOut
    BY TokenFacts DEF Answer
  <2>3. /\ mainQueue' \in Seq(Notification \cup TokenCallback)
        /\ ArrivesIn(mainQueue, mainQueue', t.request)
        /\ \A s : s # t.request => KeptIn(mainQueue, mainQueue', s)
        /\ CallbacksFor(steady, mainQueue', providerUser)
        /\ Follows(mainQueue', "notification", providerUser, authUser)
        /\ NoneIn(mainQueue', "notification") <=> NoneIn(mainQueue, "notification")
    <3>1. mainQueue \in Seq(Notification \cup TokenCallback)
      BY <1>1 DEF TypeOK
    <3>2. /\ CallbacksFor(steady, mainQueue, providerUser)
          /\ Follows(mainQueue, "notification", providerUser, authUser)
      BY DEF Inv, SteadyIsForProvider, ProviderFollows
    <3> QED
      BY <1>4, <1>8, <1>9, <2>1, <2>2, <3>1, <3>2, AnswerFacts
  <2>4. TypeOK'
    BY <1>1, <1>3, <1>6, <2>1, <2>3 DEF TypeOK, sdk
  <2>5. HeldOnce' /\ StartingIsHeld'
    <3>1. ASSUME NEW r \in Requests
          PROVE  /\ OneHolder(authQueue', mainQueue', workQueue', fetches', r)
                 /\ Underway(authQueue', mainQueue', workQueue', fetches', r)
                      <=> Underway(authQueue, mainQueue, workQueue, fetches, r)
      <4>1. OneHolder(authQueue, mainQueue, workQueue, fetches, r)
        BY DEF Inv, HeldOnce
      <4>2. CASE r = t.request
        <5>1. LeavesIn(authQueue, authQueue', r) /\ ArrivesIn(mainQueue, mainQueue', r)
          BY <1>5, <2>3, <4>2
        <5> QED
          BY <1>6, <2>1, <4>1, <5>1, HolderIsTurnedAway
      <4>3. CASE r # t.request
        <5>1. KeptIn(authQueue, authQueue', r) /\ KeptIn(mainQueue, mainQueue', r)
          BY <1>5, <2>3, <4>3
        <5>2. KeptIn(workQueue, workQueue', r) /\ \A u \in Accounts : KeptIn(fetches[u], fetches'[u], r)
          BY <1>6, <2>1, KeptUnchanged
        <5> QED
          BY <4>1, <5>1, <5>2, HolderStays
      <4> QED
        BY <4>2, <4>3
    <3> QED
      BY <1>6, <3>1, HoldersMove DEF sdk
  <2>6. TokensExist'
    BY <1>6, <2>1 DEF Inv, TokensExist
  <2>7. ProviderFollows'
    BY <1>6, <2>3 DEF ProviderFollows
  <2>8. SteadyIsForProvider'
    BY <1>6, <2>1, <2>3 DEF Inv, SteadyIsForProvider, FetchesFor
  <2> QED
    BY <1>7, <2>4, <2>5, <2>6, <2>7, <2>8 DEF Inv
<1>10. CASE authUser # SignedOut
  <2>1. authUser \in Accounts
    BY <1>1, <1>10 DEF TypeOK, Users
  <2>2. Put(fetches, authUser, t, fetches') /\ mainQueue' = mainQueue
    BY <1>2, <1>10 DEF RunGetToken, Put
  <2>3. /\ fetches' \in [Accounts -> Seq(Fetch)]
        /\ \A r : IF r = t.request THEN ArrivesIn(fetches[authUser], fetches'[authUser], r)
                                   ELSE KeptIn(fetches[authUser], fetches'[authUser], r)
        /\ \A u \in Accounts \ {authUser} : \A r : KeptIn(fetches[u], fetches'[u], r)
        /\ \A u \in Accounts : u # authUser => fetches'[u] = fetches[u]
    <3>1. fetches \in [Accounts -> Seq(Fetch)]
      BY <1>1 DEF TypeOK
    <3> QED
      BY <1>4, <2>1, <2>2, <3>1, FetchPut, ZenonT(30)
  <2>4. TypeOK'
    BY <1>1, <1>3, <1>6, <2>2, <2>3 DEF TypeOK, sdk
  <2>5. HeldOnce' /\ StartingIsHeld'
    <3>1. ASSUME NEW r \in Requests
          PROVE  /\ OneHolder(authQueue', mainQueue', workQueue', fetches', r)
                 /\ Underway(authQueue', mainQueue', workQueue', fetches', r)
                      <=> Underway(authQueue, mainQueue, workQueue, fetches, r)
      <4>1. OneHolder(authQueue, mainQueue, workQueue, fetches, r)
        BY DEF Inv, HeldOnce
      <4>2. CASE r = t.request
        BY <1>5, <1>6, <2>1, <2>2, <2>3, <4>1, <4>2, HolderStarts
      <4>3. CASE r # t.request
        <5>1. \A u \in Accounts : KeptIn(fetches[u], fetches'[u], r)
          BY <2>3, <4>3
        <5>2. /\ KeptIn(authQueue, authQueue', r) /\ KeptIn(mainQueue, mainQueue', r)
              /\ KeptIn(workQueue, workQueue', r)
          BY <1>5, <1>6, <2>2, <4>3, KeptUnchanged
        <5> QED
          BY <4>1, <5>1, <5>2, HolderStays
      <4> QED
        BY <4>2, <4>3
    <3> QED
      BY <1>6, <3>1, HoldersMove DEF sdk
  <2>6. TokensExist'
    <3>1. raw[authUser] # 0
      BY <1>10 DEF Inv, TokensExist
    <3> QED
      BY <1>6, <2>3, <3>1 DEF Inv, TokensExist
  <2>7. ProviderFollows'
    BY <1>6, <2>2 DEF Inv, ProviderFollows
  <2>8. SteadyIsForProvider'
    <3>1. FetchesFor(steady, mainQueue, fetches', providerUser)
      <4> SUFFICES ASSUME NoneIn(mainQueue, "notification"), NEW r \in steady,
                          NEW u \in Accounts, HeldIn(fetches'[u], r)
                   PROVE  u = providerUser
        BY DEF FetchesFor
      <4>1. CASE u = authUser
        BY <1>8, <4>1
      <4>2. CASE u # authUser
        <5>1. HeldIn(fetches[u], r)
          BY <2>3, <4>2
        <5> QED
          BY <5>1 DEF Inv, SteadyIsForProvider, FetchesFor
      <4> QED
        BY <4>1, <4>2
    <3> QED
      BY <1>6, <2>2, <3>1 DEF Inv, SteadyIsForProvider
  <2> QED
    BY <1>7, <2>4, <2>5, <2>6, <2>7, <2>8 DEF Inv
<1> QED
  BY <1>9, <1>10

\* A refresh on FIRAuth's own account belongs to no request.
LEMMA AutoRefreshStep ==
  ASSUME Inv, AutoRefresh
  PROVE  Inv'
<1> USE CredentialsAssumption
<1>1. TypeOK
  BY DEF Inv
<1>2. authUser \in Accounts
  BY <1>1 DEF TypeOK, Users, AutoRefresh
<1>3. PICK t : t = [request |-> None, force |-> TRUE]
  OBVIOUS
<1>4. t \in Fetch /\ t.request = None
  BY <1>3 DEF Fetch
<1>5. /\ Put(fetches, authUser, t, fetches')
      /\ UNCHANGED <<authUser, raw, lastNotified, autoRefresh, authQueue, mainQueue, providerUser,
                     steady, forceRefresh, invalid, clearing, workQueue, sdk, rejected, dropped>>
  BY <1>3 DEF AutoRefresh, Put
<1>6. /\ fetches' \in [Accounts -> Seq(Fetch)]
      /\ \A r : IF r = t.request THEN ArrivesIn(fetches[authUser], fetches'[authUser], r)
                                 ELSE KeptIn(fetches[authUser], fetches'[authUser], r)
      /\ \A u \in Accounts \ {authUser} : \A r : KeptIn(fetches[u], fetches'[u], r)
      /\ \A u \in Accounts : u # authUser => fetches'[u] = fetches[u]
  <2>1. fetches \in [Accounts -> Seq(Fetch)]
    BY <1>1 DEF TypeOK
  <2> QED
    BY <1>2, <1>4, <1>5, <2>1, FetchPut, ZenonT(30)
<1>7. \A r \in Requests, u \in Accounts : KeptIn(fetches[u], fetches'[u], r)
  BY <1>4, <1>6
<1>8. TypeOK'
  BY <1>1, <1>5, <1>6 DEF TypeOK, sdk
<1>9. HeldOnce' /\ StartingIsHeld'
  <2>1. \A r \in Requests :
          /\ OneHolder(authQueue', mainQueue', workQueue', fetches', r)
          /\ Underway(authQueue', mainQueue', workQueue', fetches', r)
               <=> Underway(authQueue, mainQueue, workQueue, fetches, r)
    BY <1>5, <1>7, HolderStays, KeptUnchanged DEF Inv, HeldOnce
  <2> QED
    BY <1>5, <2>1, HoldersMove DEF sdk
<1>10. TokensExist'
  BY <1>5, <1>6 DEF Inv, TokensExist, AutoRefresh
<1>11. ProviderFollows'
  BY <1>5 DEF Inv, ProviderFollows
<1>12. SteadyIsForProvider'
  <2>1. steady \subseteq Requests
    BY <1>1 DEF TypeOK
  <2>2. \A r \in steady, u \in Accounts : HeldIn(fetches'[u], r) => HeldIn(fetches[u], r)
    BY <1>7, <2>1 DEF KeptIn
  <2> QED
    BY <1>5, <2>2 DEF Inv, SteadyIsForProvider, FetchesFor
<1>13. WorkerFollows' /\ TokenNamesItsOwner' /\ AwaitedIsForCurrent' /\ StreamSpeaksForCurrent'
  BY <1>5, SDKUnchanged
<1> QED
  BY <1>8, <1>9, <1>10, <1>11, <1>12, <1>13 DEF Inv

-----------------------------------------------------------------------------
\* The main queue once FIRAuth has announced its user, if that is news.
Announced(news) ==
  IF news THEN Append(mainQueue, [kind |-> "notification", user |-> authUser']) ELSE mainQueue

\* A fetch ends: the answer to the request names the account it was made for, and
\* a change of user is announced before.
LEMMA FetchStep ==
  ASSUME Inv, NEW u \in Accounts, FetchDone(u), NEW news \in BOOLEAN, NEW token \in Answer,
         token # Failed => token.owner = u,
         Answered(u, Announced(news), token),
         authUser' \in Users, ~news => authUser' = authUser
  PROVE  /\ mainQueue' \in Seq(Notification \cup TokenCallback)
         /\ fetches' \in [Accounts -> Seq(Fetch)]
         /\ \A a \in Accounts : fetches'[a] # <<>> => fetches[a] # <<>>
         /\ HeldOnce' /\ StartingIsHeld'
         /\ ProviderFollows' /\ SteadyIsForProvider'
         /\ WorkerFollows' /\ TokenNamesItsOwner' /\ AwaitedIsForCurrent' /\ StreamSpeaksForCurrent'
<1> USE CredentialsAssumption
<1>1. TypeOK
  BY DEF Inv
<1>2. /\ fetches \in [Accounts -> Seq(Fetch)]
      /\ mainQueue \in Seq(Notification \cup TokenCallback)
      /\ steady \subseteq Requests
  BY <1>1 DEF TypeOK
<1>3. /\ fetches[u] # <<>> /\ Taken(fetches, u, fetches')
      /\ UNCHANGED <<autoRefresh, authQueue, providerUser, steady, forceRefresh,
                     invalid, clearing, workQueue, sdk, rejected>>
  BY DEF FetchDone, Taken
<1>4. PICK t : t = Head(fetches[u])
  OBVIOUS
<1>5. /\ fetches' \in [Accounts -> Seq(Fetch)]
      /\ t \in Fetch
      /\ \A r : IF r = t.request THEN LeavesIn(fetches[u], fetches'[u], r)
                                 ELSE KeptIn(fetches[u], fetches'[u], r)
      /\ \A a \in Accounts \ {u} : \A r : KeptIn(fetches[a], fetches'[a], r)
      /\ \A a \in Accounts : \A r : HeldIn(fetches'[a], r) => HeldIn(fetches[a], r)
      /\ \A a \in Accounts : fetches'[a] # <<>> => fetches[a] # <<>>
  BY <1>2, <1>3, <1>4, FetchTaken
<1>6. t.request \in Requests \cup {None}
  BY <1>5 DEF Fetch
<1>7. PICK q : q = Announced(news)
  OBVIOUS
<1>8. /\ q \in Seq(Notification \cup TokenCallback)
      /\ \A r : KeptIn(mainQueue, q, r)
      /\ CallbacksFor(steady, q, providerUser)
      /\ Follows(q, "notification", providerUser, authUser')
      /\ NoneIn(q, "notification") => NoneIn(mainQueue, "notification")
  <2>1. /\ CallbacksFor(steady, mainQueue, providerUser)
        /\ Follows(mainQueue, "notification", providerUser, authUser)
    BY DEF Inv, SteadyIsForProvider, ProviderFollows
  <2>2. CASE news
    <3>1. Notifies(mainQueue, authUser', q)
      BY <1>7, <2>2 DEF Announced, Notifies
    <3> QED
      BY <1>2, <2>1, <3>1, NotifyFacts
  <2>3. CASE ~news
    <3>1. q = mainQueue /\ authUser' = authUser
      BY <1>7, <2>3 DEF Announced
    <3> QED
      BY <1>2, <2>1, <3>1, KeptUnchanged
  <2> QED
    BY <2>2, <2>3
<1>9. NoneIn(mainQueue, "notification") =>
        \A r \in steady : \A a \in Accounts : HeldIn(fetches[a], r) => a = providerUser
  BY DEF Inv, SteadyIsForProvider, FetchesFor
<1>10. ASSUME t.request \in Requests
       PROVE  /\ mainQueue' \in Seq(Notification \cup TokenCallback)
              /\ ArrivesIn(mainQueue, mainQueue', t.request)
              /\ \A s : s # t.request => KeptIn(mainQueue, mainQueue', s)
              /\ CallbacksFor(steady, mainQueue', providerUser)
              /\ Follows(mainQueue', "notification", providerUser, authUser')
              /\ NoneIn(mainQueue', "notification") => NoneIn(q, "notification")
  <2>1. Answers(q, t.request, token, mainQueue')
    BY <1>4, <1>7, <1>10 DEF Answered, Answers
  <2>2. /\ t.request \in steady /\ NoneIn(q, "notification") /\ token # Failed
        => token.owner = providerUser
    <3>1. HeldIn(fetches[u], t.request)
      BY <1>5 DEF LeavesIn
    <3> QED
      BY <1>8, <1>9, <3>1
  <2>3. /\ mainQueue' \in Seq(Notification \cup TokenCallback)
        /\ ArrivesIn(q, mainQueue', t.request)
        /\ \A s : s # t.request => KeptIn(q, mainQueue', s)
        /\ CallbacksFor(steady, mainQueue', providerUser)
        /\ Follows(mainQueue', "notification", providerUser, authUser')
        /\ NoneIn(mainQueue', "notification") <=> NoneIn(q, "notification")
    BY <1>8, <1>10, <2>1, <2>2, AnswerFacts
  <2> QED
    BY <1>8, <2>3, KeptTwice
<1>11. t.request = None => mainQueue' = q
  BY <1>4, <1>7 DEF Answered
<1>12. /\ mainQueue' \in Seq(Notification \cup TokenCallback)
       /\ CallbacksFor(steady, mainQueue', providerUser)
       /\ Follows(mainQueue', "notification", providerUser, authUser')
       /\ NoneIn(mainQueue', "notification") => NoneIn(mainQueue, "notification")
       /\ \A r \in Requests : IF r = t.request THEN ArrivesIn(mainQueue, mainQueue', r)
                                               ELSE KeptIn(mainQueue, mainQueue', r)
  BY <1>6, <1>8, <1>10, <1>11
<1>13. HeldOnce' /\ StartingIsHeld'
  <2>1. ASSUME NEW r \in Requests
        PROVE  /\ OneHolder(authQueue', mainQueue', workQueue', fetches', r)
               /\ Underway(authQueue', mainQueue', workQueue', fetches', r)
                    <=> Underway(authQueue, mainQueue, workQueue, fetches, r)
    <3>1. OneHolder(authQueue, mainQueue, workQueue, fetches, r)
      BY DEF Inv, HeldOnce
    <3>2. KeptIn(authQueue, authQueue', r) /\ KeptIn(workQueue, workQueue', r)
      BY <1>3, KeptUnchanged
    <3>3. \A a \in Accounts \ {u} : KeptIn(fetches[a], fetches'[a], r)
      BY <1>5
    <3>4. CASE r = t.request
      <4>1. ArrivesIn(mainQueue, mainQueue', r) /\ LeavesIn(fetches[u], fetches'[u], r)
        BY <1>5, <1>12, <3>4
      <4> QED
        BY <1>3, <3>1, <3>3, <4>1, HolderIsAnswered
    <3>5. CASE r # t.request
      <4>1. KeptIn(mainQueue, mainQueue', r) /\ KeptIn(fetches[u], fetches'[u], r)
        BY <1>5, <1>12, <3>5
      <4>2. \A a \in Accounts : KeptIn(fetches[a], fetches'[a], r)
        BY <3>3, <4>1
      <4> QED
        BY <3>1, <3>2, <4>1, <4>2, HolderStays
    <3> QED
      BY <3>4, <3>5
  <2> QED
    BY <1>3, <2>1, HoldersMove DEF sdk
<1>14. ProviderFollows'
  BY <1>3, <1>12 DEF ProviderFollows
<1>15. SteadyIsForProvider'
  <2>1. FetchesFor(steady, mainQueue', fetches', providerUser)
    BY <1>5, <1>9, <1>12 DEF FetchesFor
  <2> QED
    BY <1>3, <1>12, <2>1 DEF SteadyIsForProvider
<1>16. WorkerFollows' /\ TokenNamesItsOwner' /\ AwaitedIsForCurrent' /\ StreamSpeaksForCurrent'
  BY <1>3, SDKUnchanged
<1> QED
  BY <1>5, <1>12, <1>13, <1>14, <1>15, <1>16

\* The rest of the state when a fetch ends.
LEMMA FetchTypes ==
  ASSUME Inv, NEW u \in Accounts, FetchDone(u),
         mainQueue' \in Seq(Notification \cup TokenCallback),
         fetches' \in [Accounts -> Seq(Fetch)],
         authUser' \in Users, raw' \in [Accounts -> 0 .. MaxSerial],
         lastNotified' \in Token \cup {NoToken}, dropped' \in 0 .. MaxDrops
  PROVE  TypeOK'
BY DEF Inv, TypeOK, FetchDone, sdk

\* Tokens only get newer.
LEMMA TokensStay ==
  ASSUME Inv, NEW u \in Accounts, raw' \in [Accounts -> 0 .. MaxSerial],
         \A a \in Accounts : raw[a] <= raw'[a],
         \A a \in Accounts : fetches'[a] # <<>> => fetches[a] # <<>>,
         authUser' \in {authUser, SignedOut},
         \/ lastNotified' \in {lastNotified, NoToken}
         \/ lastNotified' = [owner |-> u, serial |-> raw'[u]]
  PROVE  TokensExist'
<1> USE CredentialsAssumption
<1>1. /\ raw \in [Accounts -> 0 .. MaxSerial] /\ authUser \in Users
      /\ lastNotified \in Token \cup {NoToken}
  BY DEF Inv, TypeOK
<1>2. \A a \in Accounts : raw[a] \in Nat /\ raw'[a] \in Nat /\ (raw[a] # 0 => raw'[a] # 0)
  BY <1>1
<1>3. authUser' # SignedOut => raw'[authUser'] # 0
  <2> SUFFICES ASSUME authUser' # SignedOut PROVE raw'[authUser'] # 0
    OBVIOUS
  <2>1. authUser' = authUser /\ authUser \in Accounts
    BY <1>1 DEF Users
  <2>2. raw[authUser] # 0
    BY <2>1 DEF Inv, TokensExist
  <2> QED
    BY <1>2, <2>1, <2>2
<1>4. \A a \in Accounts : fetches'[a] # <<>> => raw'[a] # 0
  BY <1>2 DEF Inv, TokensExist
<1>5. lastNotified' # NoToken => lastNotified'.serial <= raw'[lastNotified'.owner]
  <2>1. CASE lastNotified' = NoToken
    BY <2>1
  <2>2. CASE lastNotified' = lastNotified /\ lastNotified # NoToken
    <3>1. lastNotified \in Token
      BY <1>1, <2>2
    <3>2. lastNotified.owner \in Accounts /\ lastNotified.serial \in Nat
      BY <3>1, TokenFacts
    <3>3. lastNotified.serial <= raw[lastNotified.owner]
      BY <2>2 DEF Inv, TokensExist
    <3> QED
      BY <1>2, <2>2, <3>2, <3>3
  <2>3. CASE lastNotified' = [owner |-> u, serial |-> raw'[u]]
    BY <1>2, <2>3
  <2> QED
    BY <2>1, <2>2, <2>3
<1> QED
  BY <1>3, <1>4, <1>5 DEF TokensExist

\* A fetch ends, one way or another.
LEMMA FetchEndsStep ==
  ASSUME Inv, NEW u \in Accounts, FetchEnds(u)
  PROVE  Inv'
<1> USE CredentialsAssumption
<1>1. /\ raw \in [Accounts -> 0 .. MaxSerial] /\ authUser \in Users /\ SignedOut \in Users
      /\ lastNotified \in Token \cup {NoToken} /\ dropped \in 0 .. MaxDrops
      /\ raw[u] \in Nat /\ raw[u] <= MaxSerial
  BY DEF Inv, TypeOK, Users
<1>2. FetchDone(u) /\ fetches[u] # <<>>
  BY DEF FetchEnds, FetchSucceeds, FetchValid, FetchRefreshed, FetchUnsaved, FetchFails,
         FetchInvalid, FetchDone
<1>3. raw[u] # 0
  BY <1>2 DEF Inv, TokensExist
<1>4. Failed \in Answer /\ Token \subseteq Answer
  BY DEF Answer
<1>5. \A a \in Accounts : raw[a] \in Nat /\ raw[a] <= raw[a]
  BY <1>1
<1>6. SUFFICES \E news \in BOOLEAN, token \in Answer :
        /\ token # Failed => token.owner = u
        /\ Answered(u, Announced(news), token)
        /\ authUser' \in Users /\ (~news => authUser' = authUser)
        /\ raw' \in [Accounts -> 0 .. MaxSerial]
        /\ \A a \in Accounts : raw[a] <= raw'[a]
        /\ authUser' \in {authUser, SignedOut}
        /\ \/ lastNotified' \in {lastNotified, NoToken}
           \/ lastNotified' = [owner |-> u, serial |-> raw'[u]]
        /\ lastNotified' \in Token \cup {NoToken}
        /\ dropped' \in 0 .. MaxDrops
  BY <1>2, FetchStep, FetchTypes, TokensStay DEF Inv
<1>7. CASE FetchValid(u)
  <2>1. PICK token : token = [owner |-> u, serial |-> raw[u]]
    OBVIOUS
  <2>2. token \in Answer /\ token.owner = u
    BY <1>1, <1>3, <1>4, <2>1, TokenFacts
  <2>3. Answered(u, Announced(FALSE), token)
    BY <1>7, <2>1 DEF FetchValid, Announced
  <2> QED
    BY <1>1, <1>5, <1>7, <2>2, <2>3 DEF FetchValid
<1>8. CASE FetchRefreshed(u)
  <2>1. PICK serial : serial = IF raw[u] < MaxSerial THEN raw[u] + 1 ELSE raw[u]
    OBVIOUS
  <2>2. PICK token : token = [owner |-> u, serial |-> serial]
    OBVIOUS
  <2>3. serial \in 1 .. MaxSerial /\ serial \in 0 .. MaxSerial /\ raw[u] <= serial
    BY <1>1, <1>3, <2>1
  <2>4. token \in Token /\ token.owner = u
    BY <2>2, <2>3, TokenFacts
  <2>5. PICK news \in BOOLEAN : news <=> authUser = u /\ serial # raw[u] /\ lastNotified # token
    OBVIOUS
  <2>6. /\ raw' = [raw EXCEPT ![u] = serial]
        /\ lastNotified' = IF news THEN token ELSE lastNotified
        /\ Answered(u, IF news THEN Append(mainQueue, [kind |-> "notification", user |-> u])
                               ELSE mainQueue, token)
        /\ UNCHANGED <<authUser, dropped>>
    BY <1>8, <2>1, <2>2, <2>5 DEF FetchRefreshed
  <2>7. Answered(u, Announced(news), token)
    BY <2>5, <2>6 DEF Announced
  <2>8. /\ raw' \in [Accounts -> 0 .. MaxSerial] /\ raw'[u] = serial
        /\ \A a \in Accounts : raw[a] <= raw'[a]
    BY <1>1, <1>5, <2>3, <2>6
  <2>9. lastNotified' = [owner |-> u, serial |-> raw'[u]] \/ lastNotified' = lastNotified
    BY <2>2, <2>6, <2>8
  <2> QED
    BY <1>1, <1>4, <2>4, <2>6, <2>7, <2>8, <2>9
<1>9. CASE FetchUnsaved(u)
  <2>1. /\ raw' = [raw EXCEPT ![u] = @ + 1] /\ raw[u] < MaxSerial
        /\ UNCHANGED <<authUser, lastNotified, dropped>>
    BY <1>9 DEF FetchUnsaved
  <2>2. Answered(u, Announced(FALSE), Failed)
    BY <1>9 DEF FetchUnsaved, Announced
  <2>3. raw' \in [Accounts -> 0 .. MaxSerial] /\ \A a \in Accounts : raw[a] <= raw'[a]
    BY <1>1, <1>5, <2>1
  <2> QED
    BY <1>1, <1>4, <2>1, <2>2, <2>3
<1>10. CASE FetchFails(u)
  <2>1. UNCHANGED <<authUser, raw, lastNotified, dropped>>
    BY <1>10 DEF FetchFails
  <2>2. Answered(u, Announced(FALSE), Failed)
    BY <1>10 DEF FetchFails, Announced
  <2> QED
    BY <1>1, <1>4, <1>5, <2>1, <2>2
<1>11. CASE FetchInvalid(u)
  <2>1. raw' = raw /\ dropped' \in 0 .. MaxDrops
    BY <1>1, <1>11 DEF FetchInvalid
  <2>2. CASE authUser = u
    <3>1. authUser' = SignedOut /\ lastNotified' = NoToken
      BY <1>11, <2>2 DEF FetchInvalid
    <3>2. Answered(u, Announced(TRUE), Failed)
      BY <1>11, <2>2, <3>1 DEF FetchInvalid, Announced
    <3> QED
      BY <1>1, <1>4, <1>5, <2>1, <3>1, <3>2
  <2>3. CASE authUser # u
    <3>1. UNCHANGED <<authUser, lastNotified>>
      BY <1>11, <2>3 DEF FetchInvalid
    <3>2. Answered(u, Announced(FALSE), Failed)
      BY <1>11, <2>3 DEF FetchInvalid, Announced
    <3> QED
      BY <1>1, <1>4, <1>5, <2>1, <3>1, <3>2
  <2> QED
    BY <2>2, <2>3
<1> QED
  BY <1>7, <1>8, <1>9, <1>10, <1>11 DEF FetchEnds, FetchSucceeds

\* Expiry only concerns the server.
LEMMA TokenExpiresStep ==
  ASSUME Inv, NEW u \in Accounts, TokenExpires(u)
  PROVE  Inv'
<1>1. /\ rejected' = [rejected EXCEPT ![u] = raw[u]]
      /\ UNCHANGED <<auth, authQueue, mainQueue, providerUser, steady, forceRefresh,
                     invalid, clearing, workQueue, sdk, dropped>>
  BY DEF TokenExpires
<1>2. rejected' \in [Accounts -> 0 .. MaxSerial]
  BY <1>1 DEF Inv, TypeOK
<1>3. TypeOK'
  BY <1>1, <1>2 DEF Inv, TypeOK, auth, sdk
<1>4. HeldOnce' /\ StartingIsHeld' /\ TokensExist' /\ ProviderFollows' /\ SteadyIsForProvider'
  BY <1>1 DEF Inv, HeldOnce, StartingIsHeld, Held, TokensExist, ProviderFollows,
              SteadyIsForProvider, auth, sdk
<1>5. WorkerFollows' /\ TokenNamesItsOwner' /\ AwaitedIsForCurrent' /\ StreamSpeaksForCurrent'
  BY <1>1, SDKUnchanged
<1> QED
  BY <1>3, <1>4, <1>5 DEF Inv

\* The provider forgets force_refresh.
LEMMA ClearForceRefreshStep ==
  ASSUME Inv, NEW t \in Thread, ClearForceRefresh(t)
  PROVE  Inv'
<1>1. /\ clearing' = clearing \ {t} /\ forceRefresh' = FALSE
      /\ UNCHANGED <<auth, authQueue, mainQueue, providerUser, steady, invalid, workQueue,
                     sdk, rejected, dropped>>
  BY DEF ClearForceRefresh
<1>2. TypeOK'
  BY <1>1 DEF Inv, TypeOK, auth, sdk
<1>3. HeldOnce' /\ StartingIsHeld' /\ TokensExist' /\ ProviderFollows' /\ SteadyIsForProvider'
  BY <1>1 DEF Inv, HeldOnce, StartingIsHeld, Held, TokensExist, ProviderFollows,
              SteadyIsForProvider, auth, sdk
<1>4. WorkerFollows' /\ TokenNamesItsOwner' /\ AwaitedIsForCurrent' /\ StreamSpeaksForCurrent'
  BY <1>1, SDKUnchanged
<1> QED
  BY <1>2, <1>3, <1>4 DEF Inv

-----------------------------------------------------------------------------
\* The provider takes a notification: from now on the answers to earlier requests
\* do not count, and the SDK is told.
LEMMA AuthStateDidChangeStep ==
  ASSUME Inv, AuthStateDidChange
  PROVE  Inv'
<1>1. TypeOK
  BY DEF Inv
<1>2. /\ mainQueue \in Seq(Notification \cup TokenCallback) /\ mainQueue # <<>>
      /\ workQueue \in Seq(CredentialChange \cup Resume)
  BY <1>1 DEF TypeOK, AuthStateDidChange
<1>3. PICK n : n = Head(mainQueue)
  OBVIOUS
<1>4. n \in Notification /\ n.kind = "notification" /\ n.user \in Users
      /\ mainQueue' \in Seq(Notification \cup TokenCallback)
  BY <1>2, <1>3, TailFacts, KindFacts DEF AuthStateDidChange
<1>5. PICK t : t = [kind |-> "change", user |-> n.user]
  OBVIOUS
<1>6. t \in CredentialChange /\ t.kind = "change" /\ t.user = n.user
  BY <1>4, <1>5 DEF CredentialChange
<1>7. /\ providerUser' = n.user /\ steady' = {} /\ mainQueue' = Tail(mainQueue)
      /\ workQueue' = Append(workQueue, t)
      /\ UNCHANGED <<auth, authQueue, forceRefresh, invalid, clearing, sdk, rejected, dropped>>
  BY <1>3, <1>5 DEF AuthStateDidChange
<1>8. workQueue' \in Seq(CredentialChange \cup Resume)
  BY <1>2, <1>6, <1>7, AppendFacts
<1>9. TypeOK'
  BY <1>1, <1>4, <1>7, <1>8 DEF TypeOK, auth, sdk
<1>10. HeldOnce' /\ StartingIsHeld'
  <2>1. ASSUME NEW r \in Requests
        PROVE  /\ OneHolder(authQueue', mainQueue', workQueue', fetches', r)
               /\ Underway(authQueue', mainQueue', workQueue', fetches', r)
                    <=> Underway(authQueue, mainQueue, workQueue, fetches, r)
    <3>1. OneHolder(authQueue, mainQueue, workQueue, fetches, r)
      BY DEF Inv, HeldOnce
    <3>2. KeptIn(mainQueue, mainQueue', r)
      BY <1>2, <1>3, <1>4, <1>7, LeavesFacts, NamesFacts
    <3>3. KeptIn(workQueue, workQueue', r)
      BY <1>2, <1>6, <1>7, ArrivesFacts, NamesFacts
    <3>4. KeptIn(authQueue, authQueue', r) /\ \A u \in Accounts : KeptIn(fetches[u], fetches'[u], r)
      BY <1>7, KeptUnchanged DEF auth
    <3> QED
      BY <3>1, <3>2, <3>3, <3>4, HolderStays
  <2> QED
    BY <1>7, <2>1, HoldersMove DEF sdk
<1>11. TokensExist'
  BY <1>7 DEF Inv, TokensExist, auth
<1>12. ProviderFollows'
  <2>1. Follows(mainQueue, "notification", providerUser, authUser)
    BY DEF Inv, ProviderFollows
  <2>2. Follows(mainQueue', "notification", n.user, authUser)
    BY <1>2, <1>3, <1>4, <1>7, <2>1, FollowsTail
  <2> QED
    BY <1>7, <2>2 DEF ProviderFollows, auth
<1>13. SteadyIsForProvider'
  BY <1>7 DEF SteadyIsForProvider, CallbacksFor, FetchesFor
<1>14. WorkerFollows'
  <2>1. Follows(workQueue', "change", current, n.user)
    BY <1>2, <1>6, <1>7, FollowsAppend
  <2> QED
    BY <1>7, <2>1 DEF WorkerFollows, sdk
<1>15. TokenNamesItsOwner'
  <2>1. AllNamed(workQueue)
    BY DEF Inv, TokenNamesItsOwner, AllNamed
  <2>2. t \notin Resume
    BY <1>6, KindFacts
  <2>3. AllNamed(workQueue')
    BY <1>2, <1>6, <1>7, <2>1, <2>2, NamedFacts
  <2> QED
    BY <2>3 DEF TokenNamesItsOwner, AllNamed
<1>16. AwaitedIsForCurrent'
  <2>1. ResumesFor(workQueue, awaited, current)
    BY DEF Inv, AwaitedIsForCurrent
  <2>2. t \notin Resume
    BY <1>6, KindFacts
  <2>3. ResumesFor(workQueue', awaited, current)
    BY <1>2, <1>6, <1>7, <2>1, <2>2, ResumesAppend
  <2> QED
    BY <1>7, <2>3 DEF AwaitedIsForCurrent, sdk
<1>17. StreamSpeaksForCurrent'
  BY <1>7 DEF Inv, StreamSpeaksForCurrent, sdk
<1> QED
  BY <1>9, <1>10, <1>11, <1>12, <1>13, <1>14, <1>15, <1>16, <1>17 DEF Inv

\* The answer the provider takes, if its request is steady, is for the provider's user.
LEMMA HeadCallback ==
  ASSUME NEW q \in Seq(Notification \cup TokenCallback), q # <<>>,
         Head(q).kind = "token", NEW S, NEW p, CallbacksFor(S, q, p), Head(q).request \in S,
         Head(q).token # Failed
  PROVE  Head(q).token.owner = p
<1>1. /\ Len(q) \in Nat /\ DOMAIN q = 1 .. Len(q) /\ 1 \in DOMAIN q
      /\ Head(q) = q[1] /\ Head(q) \in Notification \cup TokenCallback
  BY TailFacts
<1>2. Names(q[1], Head(q).request)
  BY <1>1, KindFacts, NamesFacts
<1>3. 1 \in TasksOf(q, Head(q).request)
  BY <1>1, <1>2 DEF TasksOf, Names
<1>4. NoneBefore(q, "notification", 1)
  BY <1>1 DEF NoneBefore
<1> QED
  BY <1>1, <1>3, <1>4 DEF CallbacksFor

\* The provider takes an answer: it passes on what counts and asks again otherwise.
LEMMA GotTokenStep ==
  ASSUME Inv, GotToken
  PROVE  Inv'
<1>1. TypeOK
  BY DEF Inv
<1>2. /\ mainQueue \in Seq(Notification \cup TokenCallback) /\ mainQueue # <<>>
      /\ workQueue \in Seq(CredentialChange \cup Resume) /\ authQueue \in Seq(AuthCall)
      /\ providerUser \in Users /\ steady \subseteq Requests /\ forceRefresh \in BOOLEAN
      /\ Head(mainQueue).kind = "token"
  BY <1>1 DEF TypeOK, GotToken
<1>3. PICK c : c = Head(mainQueue)
  OBVIOUS
<1>4. PICK x : x = c.request
  OBVIOUS
<1>5. c \in TokenCallback /\ x \in Requests /\ c.token \in Answer
  BY <1>2, <1>3, <1>4, TailFacts, KindFacts
<1>6. /\ mainQueue' = Tail(mainQueue)
      /\ UNCHANGED <<auth, providerUser, forceRefresh, sdk, rejected, dropped>>
  BY DEF GotToken
<1>7. mainQueue' \in Seq(Notification \cup TokenCallback)
  BY <1>2, <1>6, TailFacts
<1>8. \A r : IF r = x THEN LeavesIn(mainQueue, mainQueue', r)
                      ELSE KeptIn(mainQueue, mainQueue', r)
  BY <1>2, <1>3, <1>4, <1>5, <1>6, LeavesFacts, NamesFacts
<1>9. CallbacksFor(steady, mainQueue', providerUser)
  BY <1>2, <1>6, CallbacksTail DEF Inv, SteadyIsForProvider
<1>10. /\ Follows(mainQueue', "notification", providerUser, authUser)
       /\ NoneIn(mainQueue', "notification") <=> NoneIn(mainQueue, "notification")
  BY <1>2, <1>6, FollowsTail DEF Inv, ProviderFollows
<1>11. ProviderFollows'
  BY <1>6, <1>10 DEF ProviderFollows, auth
<1>12. TokensExist'
  BY <1>6 DEF Inv, TokensExist, auth
<1>13. StreamSpeaksForCurrent'
  BY <1>6 DEF Inv, StreamSpeaksForCurrent, sdk
<1>14. FetchesFor(steady, mainQueue', fetches, providerUser)
  BY <1>10 DEF Inv, SteadyIsForProvider, FetchesFor
<1>15. CASE x \in steady
  <2>1. PICK t : t = ResumeTask(c)
    OBVIOUS
  <2>2. /\ workQueue' = Append(workQueue, t) /\ steady' = steady \ {x}
        /\ UNCHANGED <<authQueue, invalid, clearing>>
    BY <1>3, <1>4, <1>15, <2>1 DEF GotToken
  <2>3. /\ t \in Resume /\ t.kind = "resume" /\ t.request = x /\ t.token = c.token
        /\ t.user = IF c.token \in Token THEN providerUser ELSE SignedOut
    BY <1>2, <1>4, <1>5, <2>1 DEF ResumeTask, Resume, Users
  <2>4. t.token # Failed => t.token.owner = providerUser /\ t.user = providerUser
    <3> SUFFICES ASSUME t.token # Failed
                 PROVE  t.token.owner = providerUser /\ t.user = providerUser
      OBVIOUS
    <3>1. c.token.owner = providerUser
      BY <1>2, <1>3, <1>4, <1>15, <2>3, HeadCallback DEF Inv, SteadyIsForProvider
    <3>2. c.token \in Token \/ c.token = NoToken
      BY <1>5, <2>3 DEF Answer
    <3> QED
      BY <2>3, <3>1, <3>2, TokenFacts
  <2>5. workQueue' \in Seq(CredentialChange \cup Resume)
    BY <1>2, <2>2, <2>3, AppendFacts
  <2>6. TypeOK'
    BY <1>1, <1>6, <1>7, <2>2, <2>5 DEF TypeOK, auth, sdk
  <2>7. HeldOnce' /\ StartingIsHeld'
    <3>1. ASSUME NEW r \in Requests
          PROVE  /\ OneHolder(authQueue', mainQueue', workQueue', fetches', r)
                 /\ Underway(authQueue', mainQueue', workQueue', fetches', r)
                      <=> Underway(authQueue, mainQueue, workQueue, fetches, r)
      <4>1. OneHolder(authQueue, mainQueue, workQueue, fetches, r)
        BY DEF Inv, HeldOnce
      <4>2. /\ KeptIn(authQueue, authQueue', r)
            /\ \A u \in Accounts : KeptIn(fetches[u], fetches'[u], r)
            /\ fetches' = fetches
        BY <1>6, <2>2, KeptUnchanged DEF auth
      <4>3. IF r = x THEN ArrivesIn(workQueue, workQueue', r) ELSE KeptIn(workQueue, workQueue', r)
        BY <1>2, <2>2, <2>3, ArrivesFacts, NamesFacts
      <4>4. CASE r = x
        <5>1. LeavesIn(mainQueue, mainQueue', r) /\ ArrivesIn(workQueue, workQueue', r)
          BY <1>8, <4>3, <4>4
        <5> QED
          BY <4>1, <4>2, <5>1, HolderPasses
      <4>5. CASE r # x
        <5>1. KeptIn(mainQueue, mainQueue', r) /\ KeptIn(workQueue, workQueue', r)
          BY <1>8, <4>3, <4>5
        <5> QED
          BY <4>1, <4>2, <5>1, HolderStays
      <4> QED
        BY <4>4, <4>5
    <3> QED
      BY <1>6, <3>1, HoldersMove DEF sdk
  <2>8. SteadyIsForProvider'
    <3>1. CallbacksFor(steady', mainQueue', providerUser)
      BY <1>9, <2>2, CallbacksOfOthers
    <3>2. FetchesFor(steady', mainQueue', fetches, providerUser)
      BY <1>14, <2>2 DEF FetchesFor
    <3> QED
      BY <1>6, <3>1, <3>2 DEF SteadyIsForProvider, auth
  <2>9. WorkerFollows'
    <3>1. Follows(workQueue', "change", current, providerUser)
      BY <1>2, <2>2, <2>3, FollowsAppend DEF Inv, WorkerFollows
    <3> QED
      BY <1>6, <3>1 DEF WorkerFollows, sdk
  <2>10. TokenNamesItsOwner'
    <3>1. AllNamed(workQueue)
      BY DEF Inv, TokenNamesItsOwner, AllNamed
    <3>2. AllNamed(workQueue')
      BY <1>2, <2>2, <2>3, <2>4, <3>1, NamedFacts
    <3> QED
      BY <3>2 DEF TokenNamesItsOwner, AllNamed
  <2>11. AwaitedIsForCurrent'
    <3>1. NoneIn(workQueue, "change") => current = providerUser
      BY DEF Inv, WorkerFollows, Follows
    <3>2. ResumesFor(workQueue, awaited, current)
      BY DEF Inv, AwaitedIsForCurrent
    <3>3. ResumesFor(workQueue', awaited, current)
      BY <1>2, <2>2, <2>3, <2>4, <3>1, <3>2, ResumesAppend
    <3> QED
      BY <1>6, <3>3 DEF AwaitedIsForCurrent, sdk
  <2> QED
    BY <1>11, <1>12, <1>13, <2>6, <2>7, <2>8, <2>9, <2>10, <2>11 DEF Inv
<1>16. CASE x \notin steady
  <2>1. PICK t : t = [request |-> x, force |-> forceRefresh]
    OBVIOUS
  <2>2. /\ authQueue' = Append(authQueue, t) /\ steady' = steady \cup {x}
        /\ invalid' = FALSE /\ clearing' = clearing \cup {"main"}
        /\ UNCHANGED workQueue
    BY <1>3, <1>4, <1>16, <2>1 DEF GotToken, GetToken
  <2>3. t \in AuthCall /\ t.request = x
    BY <1>2, <1>5, <2>1 DEF AuthCall
  <2>4. authQueue' \in Seq(AuthCall)
    BY <1>2, <2>2, <2>3, AppendFacts
  <2>5. TypeOK'
    <3>1. clearing' \subseteq Thread /\ steady' \subseteq Requests /\ invalid' \in BOOLEAN
      BY <1>1, <1>5, <2>2 DEF TypeOK, Thread
    <3> QED
      BY <1>1, <1>6, <1>7, <2>2, <2>4, <3>1 DEF TypeOK, auth, sdk
  <2>6. OneHolder(authQueue, mainQueue, workQueue, fetches, x)
    BY <1>5 DEF Inv, HeldOnce
  <2>7. HeldOnce' /\ StartingIsHeld'
    <3>1. ASSUME NEW r \in Requests
          PROVE  /\ OneHolder(authQueue', mainQueue', workQueue', fetches', r)
                 /\ Underway(authQueue', mainQueue', workQueue', fetches', r)
                      <=> Underway(authQueue, mainQueue, workQueue, fetches, r)
      <4>1. OneHolder(authQueue, mainQueue, workQueue, fetches, r)
        BY DEF Inv, HeldOnce
      <4>2. /\ KeptIn(workQueue, workQueue', r)
            /\ \A u \in Accounts : KeptIn(fetches[u], fetches'[u], r)
            /\ fetches' = fetches
        BY <1>6, <2>2, KeptUnchanged DEF auth
      <4>3. IF r = x THEN ArrivesIn(authQueue, authQueue', r) ELSE KeptIn(authQueue, authQueue', r)
        BY <1>2, <2>2, <2>3, ArrivesFacts, NamesFacts
      <4>4. CASE r = x
        <5>1. LeavesIn(mainQueue, mainQueue', r) /\ ArrivesIn(authQueue, authQueue', r)
          BY <1>8, <4>3, <4>4
        <5> QED
          BY <4>1, <4>2, <5>1, HolderPasses
      <4>5. CASE r # x
        <5>1. KeptIn(mainQueue, mainQueue', r) /\ KeptIn(authQueue, authQueue', r)
          BY <1>8, <4>3, <4>5
        <5> QED
          BY <4>1, <4>2, <5>1, HolderStays
      <4> QED
        BY <4>4, <4>5
    <3> QED
      BY <1>6, <3>1, HoldersMove DEF sdk
  <2>8. SteadyIsForProvider'
    <3>1. ~HeldIn(mainQueue', x) /\ \A u \in Accounts : ~HeldIn(fetches[u], x)
      BY <1>8, <2>6 DEF LeavesIn, OneHolder
    <3>2. CallbacksFor(steady', mainQueue', providerUser)
      BY <1>9, <2>2, <3>1, CallbacksOfOthers
    <3>3. FetchesFor(steady', mainQueue', fetches, providerUser)
      BY <1>14, <2>2, <3>1 DEF FetchesFor
    <3> QED
      BY <1>6, <3>2, <3>3 DEF SteadyIsForProvider, auth
  <2>9. WorkerFollows' /\ TokenNamesItsOwner' /\ AwaitedIsForCurrent'
    BY <1>6, <2>2, SDKUnchanged
  <2> QED
    BY <1>11, <1>12, <1>13, <2>5, <2>7, <2>8, <2>9 DEF Inv
<1> QED
  BY <1>15, <1>16

-----------------------------------------------------------------------------
\* A request that is unused is on its way nowhere.
LEMMA UnusedFacts ==
  ASSUME NEW r \in Unused
  PROVE  r \in Requests /\ ~Underway(authQueue, mainQueue, workQueue, fetches, r)
<1>1. r \in Requests /\ Holders(r) = {}
  BY DEF Unused
<1>2. \A q, k : ({k} \X TasksOf(q, r)) \subseteq Holders(r) => ~HeldIn(q, r)
  <2> SUFFICES ASSUME NEW q, NEW k, ({k} \X TasksOf(q, r)) \subseteq Holders(r),
                      NEW i \in TasksOf(q, r)
               PROVE  FALSE
    BY DEF HeldIn
  <2>1. <<k, i>> \in {k} \X TasksOf(q, r)
    OBVIOUS
  <2> QED
    BY <1>1, <2>1
<1>3. /\ ({"auth"} \X TasksOf(authQueue, r)) \subseteq Holders(r)
      /\ ({"main"} \X TasksOf(mainQueue, r)) \subseteq Holders(r)
      /\ ({"worker"} \X TasksOf(workQueue, r)) \subseteq Holders(r)
      /\ \A u \in Accounts : ({u} \X TasksOf(fetches[u], r)) \subseteq Holders(r)
  BY DEF Holders
<1> QED
  BY <1>1, <1>2, <1>3 DEF Underway

\* The worker queue is left alone, or a change is taken from it.
Reads ==
  \/ UNCHANGED <<workQueue, current>>
  \/ /\ workQueue # <<>>
     /\ Head(workQueue).kind = "change"
     /\ current' = Head(workQueue).user
     /\ workQueue' = Tail(workQueue)

\* The SDK keeps following the provider.
LEMMA ReadFacts ==
  ASSUME Inv, Reads, providerUser' = providerUser
  PROVE  /\ workQueue' \in Seq(CredentialChange \cup Resume) /\ current' \in Users
         /\ \A r : KeptIn(workQueue, workQueue', r)
         /\ WorkerFollows' /\ TokenNamesItsOwner'
<1>1. workQueue \in Seq(CredentialChange \cup Resume) /\ current \in Users
  BY DEF Inv, TypeOK
<1>2. AllNamed(workQueue) /\ Follows(workQueue, "change", current, providerUser)
  BY DEF Inv, TokenNamesItsOwner, AllNamed, WorkerFollows
<1>3. /\ workQueue' \in Seq(CredentialChange \cup Resume) /\ current' \in Users
      /\ \A r : KeptIn(workQueue, workQueue', r)
      /\ Follows(workQueue', "change", current', providerUser)
      /\ AllNamed(workQueue')
  <2>1. CASE UNCHANGED <<workQueue, current>>
    BY <1>1, <1>2, <2>1, KeptUnchanged
  <2>2. CASE /\ workQueue # <<>> /\ Head(workQueue).kind = "change"
             /\ current' = Head(workQueue).user /\ workQueue' = Tail(workQueue)
    <3>1. Head(workQueue) \in CredentialChange /\ Head(workQueue).user \in Users
      BY <1>1, <2>2, TailFacts, KindFacts
    <3>2. \A r : KeptIn(workQueue, workQueue', r)
      BY <1>1, <2>2, <3>1, LeavesFacts, NamesFacts
    <3>3. workQueue' \in Seq(CredentialChange \cup Resume)
      BY <1>1, <2>2, TailFacts
    <3>4. Follows(workQueue', "change", current', providerUser)
      BY <1>1, <1>2, <2>2, FollowsTail
    <3>5. AllNamed(workQueue')
      BY <1>1, <1>2, <2>2, NamedFacts
    <3> QED
      BY <2>2, <3>1, <3>2, <3>3, <3>4, <3>5
  <2> QED
    BY <2>1, <2>2 DEF Reads
<1>4. WorkerFollows'
  BY <1>3 DEF WorkerFollows
<1>5. TokenNamesItsOwner'
  BY <1>3 DEF TokenNamesItsOwner, AllNamed
<1> QED
  BY <1>3, <1>4, <1>5

\* The stream asks for the token of request r.
Asks(r) ==
  /\ r \in Unused
  /\ stream' = "Starting"
  /\ awaited' = r
  /\ GetToken(r, "worker")

\* A new request is held by FIRAuth's work queue; nothing answers it yet.
LEMMA AsksStep ==
  ASSUME Inv, NEW r, Asks(r), Reads, UNCHANGED <<auth, mainQueue, providerUser>>
  PROVE  /\ authQueue' \in Seq(AuthCall) /\ steady' \subseteq Requests
         /\ r \in Requests /\ invalid' \in BOOLEAN /\ (clearing \subseteq Thread => clearing' \subseteq Thread)
         /\ HeldOnce' /\ StartingIsHeld' /\ TokensExist' /\ ProviderFollows'
         /\ SteadyIsForProvider' /\ AwaitedIsForCurrent' /\ StreamSpeaksForCurrent'
<1>1. /\ authQueue \in Seq(AuthCall) /\ steady \subseteq Requests /\ forceRefresh \in BOOLEAN
  BY DEF Inv, TypeOK
<1>2. r \in Requests /\ ~Underway(authQueue, mainQueue, workQueue, fetches, r)
  BY UnusedFacts DEF Asks
<1>3. PICK t : t = [request |-> r, force |-> forceRefresh]
  OBVIOUS
<1>4. t \in AuthCall /\ t.request = r
  BY <1>1, <1>2, <1>3 DEF AuthCall
<1>5. /\ authQueue' = Append(authQueue, t) /\ steady' = steady \cup {r}
      /\ invalid' = FALSE /\ clearing' = clearing \cup {"worker"}
      /\ stream' = "Starting" /\ awaited' = r
      /\ UNCHANGED <<fetches, mainQueue, providerUser>>
  BY <1>3 DEF Asks, GetToken, auth
<1>6. authQueue' \in Seq(AuthCall)
  BY <1>1, <1>4, <1>5, AppendFacts
<1>7. steady' \subseteq Requests
  BY <1>1, <1>2, <1>5
<1>8. invalid' \in BOOLEAN /\ (clearing \subseteq Thread => clearing' \subseteq Thread)
  BY <1>5 DEF Thread
<1>9. /\ workQueue' \in Seq(CredentialChange \cup Resume)
      /\ \A s : KeptIn(workQueue, workQueue', s)
  BY ReadFacts
<1>10. \A s : IF s = r THEN ArrivesIn(authQueue, authQueue', s) ELSE KeptIn(authQueue, authQueue', s)
  BY <1>1, <1>4, <1>5, ArrivesFacts, NamesFacts
<1>11. OneHolder(authQueue', mainQueue', workQueue', fetches', r)
         /\ Underway(authQueue', mainQueue', workQueue', fetches', r)
  <2>1. OneHolder(authQueue, mainQueue, workQueue, fetches, r)
    BY <1>2 DEF Inv, HeldOnce
  <2>2. ArrivesIn(authQueue, authQueue', r) /\ KeptIn(workQueue, workQueue', r)
    BY <1>9, <1>10
  <2> QED
    BY <1>2, <1>5, <2>1, <2>2, HolderBegins
<1>12. HeldOnce'
  <2>1. ASSUME NEW s \in Requests, s # r
        PROVE  OneHolder(authQueue', mainQueue', workQueue', fetches', s)
    <3>1. OneHolder(authQueue, mainQueue, workQueue, fetches, s)
      BY DEF Inv, HeldOnce
    <3>2. /\ KeptIn(authQueue, authQueue', s) /\ KeptIn(mainQueue, mainQueue', s)
          /\ KeptIn(workQueue, workQueue', s)
          /\ \A u \in Accounts : KeptIn(fetches[u], fetches'[u], s)
      BY <1>5, <1>9, <1>10, <2>1, KeptUnchanged
    <3> QED
      BY <3>1, <3>2, HolderStays
  <2> QED
    BY <1>11, <2>1 DEF HeldOnce
<1>13. StartingIsHeld'
  <2>1. r # None
    BY <1>2, CredentialsAssumption
  <2> QED
    BY <1>5, <1>11, <2>1 DEF StartingIsHeld, Held
<1>14. TokensExist' /\ ProviderFollows'
  BY DEF Inv, TokensExist, ProviderFollows, auth
<1>15. SteadyIsForProvider'
  <2>1. ~HeldIn(mainQueue, r) /\ \A u \in Accounts : ~HeldIn(fetches[u], r)
    BY <1>2 DEF Underway
  <2>2. CallbacksFor(steady', mainQueue, providerUser)
    BY <1>5, <2>1, CallbacksOfOthers DEF Inv, SteadyIsForProvider
  <2>3. FetchesFor(steady', mainQueue, fetches, providerUser)
    BY <1>5, <2>1 DEF Inv, SteadyIsForProvider, FetchesFor
  <2> QED
    BY <1>5, <2>2, <2>3 DEF SteadyIsForProvider
<1>16. AwaitedIsForCurrent'
  <2>1. ~HeldIn(workQueue', r)
    BY <1>2, <1>9 DEF Underway, KeptIn
  <2>2. ResumesFor(workQueue', r, current')
    BY <1>9, <2>1, ResumesOfOthers
  <2> QED
    BY <1>5, <2>2 DEF AwaitedIsForCurrent
<1>17. StreamSpeaksForCurrent'
  BY <1>5 DEF StreamSpeaksForCurrent
<1> QED
  BY <1>2, <1>6, <1>7, <1>8, <1>12, <1>13, <1>14, <1>15, <1>16, <1>17

\* The SDK does something else: the stream is closed, or goes on as before.
LEMMA RestsStep ==
  ASSUME Inv, Reads, UNCHANGED <<auth, authQueue, mainQueue, providerUser, steady>>,
         \/ awaited' = None /\ stream' # "Starting"
         \/ /\ UNCHANGED <<awaited, workQueue, current>>
            /\ stream' = "Starting" <=> stream = "Starting",
         stream' = "Open" => stream = "Open" /\ UNCHANGED <<channel, current>>
  PROVE  /\ HeldOnce' /\ StartingIsHeld' /\ TokensExist' /\ ProviderFollows'
         /\ SteadyIsForProvider' /\ AwaitedIsForCurrent' /\ StreamSpeaksForCurrent'
<1>1. /\ workQueue' \in Seq(CredentialChange \cup Resume)
      /\ \A r : KeptIn(workQueue, workQueue', r)
  BY ReadFacts
<1>2. ASSUME NEW r \in Requests
      PROVE  /\ OneHolder(authQueue', mainQueue', workQueue', fetches', r)
             /\ Underway(authQueue', mainQueue', workQueue', fetches', r)
                  <=> Underway(authQueue, mainQueue, workQueue, fetches, r)
  <2>1. OneHolder(authQueue, mainQueue, workQueue, fetches, r)
    BY DEF Inv, HeldOnce
  <2>2. /\ KeptIn(authQueue, authQueue', r) /\ KeptIn(mainQueue, mainQueue', r)
        /\ KeptIn(workQueue, workQueue', r)
        /\ \A u \in Accounts : KeptIn(fetches[u], fetches'[u], r)
    BY <1>1, KeptUnchanged DEF auth
  <2> QED
    BY <2>1, <2>2, HolderStays
<1>3. HeldOnce'
  BY <1>2 DEF HeldOnce
<1>4. awaited \in Requests \cup {None}
  BY DEF Inv, TypeOK
<1>5. StartingIsHeld'
  <2>1. \A r \in Requests : Held(r)' <=> Held(r)
    BY <1>2 DEF Held
  <2>2. CASE awaited' = None /\ stream' # "Starting"
    BY <2>2 DEF StartingIsHeld
  <2>3. CASE awaited' = awaited /\ (stream' = "Starting" <=> stream = "Starting")
    BY <1>4, <2>1, <2>3 DEF Inv, StartingIsHeld, Held
  <2> QED
    BY <2>2, <2>3
<1>6. TokensExist' /\ ProviderFollows' /\ SteadyIsForProvider'
  BY DEF Inv, TokensExist, ProviderFollows, SteadyIsForProvider, auth
<1>7. AwaitedIsForCurrent'
  <2>1. CASE awaited' = None
    <3>1. ~HeldIn(workQueue', None)
      <4> SUFFICES ASSUME NEW i \in TasksOf(workQueue', None) PROVE FALSE
        BY DEF HeldIn
      <4>1. i \in DOMAIN workQueue' /\ Names(workQueue'[i], None)
        BY DEF TasksOf, Names
      <4>2. workQueue'[i] \in CredentialChange \cup Resume
        BY <1>1, <4>1
      <4>3. workQueue'[i] \in Resume /\ workQueue'[i].request = None
        BY <4>1, <4>2, NamesFacts
      <4> QED
        BY <4>3, KindFacts, CredentialsAssumption
    <3>2. ResumesFor(workQueue', None, current')
      BY <1>1, <3>1, ResumesOfOthers
    <3> QED
      BY <2>1, <3>2 DEF AwaitedIsForCurrent
  <2>2. CASE UNCHANGED <<awaited, workQueue, current>>
    BY <2>2 DEF Inv, AwaitedIsForCurrent
  <2> QED
    BY <2>1, <2>2
<1>8. StreamSpeaksForCurrent'
  BY DEF Inv, StreamSpeaksForCurrent
<1> QED
  BY <1>3, <1>5, <1>6, <1>7, <1>8

\* The rest of the state when the SDK has done something.
LEMMA WorkerTypes ==
  ASSUME Inv, UNCHANGED <<auth, mainQueue, providerUser, rejected, dropped>>,
         workQueue' \in Seq(CredentialChange \cup Resume), authQueue' \in Seq(AuthCall),
         steady' \subseteq Requests, forceRefresh' \in BOOLEAN, invalid' \in BOOLEAN,
         clearing' \subseteq Thread, current' \in Users, pending' \subseteq Users,
         stream' \in StreamState, awaited' \in Requests \cup {None},
         channel' \in Token \cup {NoToken, None}
  PROVE  TypeOK'
BY DEF Inv, TypeOK, auth

\* The stream is stopped, and starts again if there are writes to be sent.
LEMMA RestartStep ==
  ASSUME Inv, Reads, Restart, pending' \subseteq Users,
         UNCHANGED <<auth, mainQueue, providerUser, forceRefresh, rejected, dropped>>
  PROVE  Inv'
<1>1. /\ authQueue \in Seq(AuthCall) /\ steady \subseteq Requests /\ forceRefresh \in BOOLEAN
      /\ invalid \in BOOLEAN /\ clearing \subseteq Thread
  BY DEF Inv, TypeOK
<1>2. /\ workQueue' \in Seq(CredentialChange \cup Resume) /\ current' \in Users
      /\ WorkerFollows' /\ TokenNamesItsOwner'
  BY ReadFacts
<1>3. channel' = None /\ {"Starting", "Initial"} \subseteq StreamState
  BY DEF Restart, StreamState
<1>4. CASE \E r : Asks(r)
  <2>1. PICK r : Asks(r)
    BY <1>4
  <2>2. /\ authQueue' \in Seq(AuthCall) /\ steady' \subseteq Requests
        /\ r \in Requests /\ invalid' \in BOOLEAN /\ (clearing \subseteq Thread => clearing' \subseteq Thread)
        /\ HeldOnce' /\ StartingIsHeld' /\ TokensExist' /\ ProviderFollows'
        /\ SteadyIsForProvider' /\ AwaitedIsForCurrent' /\ StreamSpeaksForCurrent'
    BY <2>1, AsksStep
  <2>3. stream' = "Starting" /\ awaited' = r
    BY <2>1 DEF Asks
  <2>4. TypeOK'
    BY <1>1, <1>2, <1>3, <2>2, <2>3, WorkerTypes
  <2> QED
    BY <1>2, <2>2, <2>4 DEF Inv
<1>5. CASE stream' = "Initial" /\ awaited' = None /\ UNCHANGED asking
  <2>1. UNCHANGED <<steady, authQueue, invalid, clearing>>
    BY <1>5 DEF asking
  <2>2. TypeOK'
    BY <1>1, <1>2, <1>3, <1>5, <2>1, WorkerTypes
  <2>3. /\ HeldOnce' /\ StartingIsHeld' /\ TokensExist' /\ ProviderFollows'
        /\ SteadyIsForProvider' /\ AwaitedIsForCurrent' /\ StreamSpeaksForCurrent'
    BY <1>5, <2>1, RestsStep
  <2> QED
    BY <1>2, <2>2, <2>3 DEF Inv
<1>6. RequestCredentials => \E r : Asks(r)
  BY DEF RequestCredentials, Asks
<1> QED
  BY <1>4, <1>5, <1>6 DEF Restart

\* The stream is closed with an error.
LEMMA CloseStep ==
  ASSUME Inv, CloseWithError, forceRefresh' \in BOOLEAN, invalid' \in BOOLEAN,
         UNCHANGED <<auth, mainQueue, providerUser, workQueue, clearing, rejected, dropped>>
  PROVE  Inv'
<1>1. /\ authQueue \in Seq(AuthCall) /\ steady \subseteq Requests /\ clearing \subseteq Thread
      /\ pending \subseteq Users
  BY DEF Inv, TypeOK
<1>2. /\ channel' = None /\ awaited' = None /\ stream' \in {"Backoff", "Error"}
      /\ UNCHANGED <<current, pending, steady, authQueue>>
  BY DEF CloseWithError
<1>3. Reads
  BY <1>2 DEF Reads
<1>4. /\ workQueue' \in Seq(CredentialChange \cup Resume) /\ current' \in Users
      /\ WorkerFollows' /\ TokenNamesItsOwner'
  BY <1>3, ReadFacts
<1>5. TypeOK'
  BY <1>1, <1>2, <1>4, WorkerTypes DEF StreamState
<1>6. /\ HeldOnce' /\ StartingIsHeld' /\ TokensExist' /\ ProviderFollows'
      /\ SteadyIsForProvider' /\ AwaitedIsForCurrent' /\ StreamSpeaksForCurrent'
  BY <1>2, <1>3, RestsStep
<1> QED
  BY <1>4, <1>5, <1>6 DEF Inv

\* The stream asks, and the SDK's user and worker queue stay.
LEMMA RequestStep ==
  ASSUME Inv, RequestCredentials, pending' \subseteq Users,
         UNCHANGED <<auth, mainQueue, providerUser, workQueue, current, channel, forceRefresh,
                     rejected, dropped>>
  PROVE  Inv'
<1>1. /\ forceRefresh \in BOOLEAN /\ clearing \subseteq Thread
      /\ channel \in Token \cup {NoToken, None}
  BY DEF Inv, TypeOK
<1>2. Reads
  BY DEF Reads
<1>3. /\ workQueue' \in Seq(CredentialChange \cup Resume) /\ current' \in Users
      /\ WorkerFollows' /\ TokenNamesItsOwner'
  BY <1>2, ReadFacts
<1>4. PICK r : Asks(r)
  BY DEF RequestCredentials, Asks
<1>5. /\ authQueue' \in Seq(AuthCall) /\ steady' \subseteq Requests
      /\ r \in Requests /\ invalid' \in BOOLEAN /\ (clearing \subseteq Thread => clearing' \subseteq Thread)
      /\ HeldOnce' /\ StartingIsHeld' /\ TokensExist' /\ ProviderFollows'
      /\ SteadyIsForProvider' /\ AwaitedIsForCurrent' /\ StreamSpeaksForCurrent'
  BY <1>2, <1>4, AsksStep
<1>6. stream' = "Starting" /\ awaited' = r /\ stream' \in StreamState
  BY <1>4 DEF Asks, StreamState
<1>7. TypeOK'
  BY <1>1, <1>3, <1>5, <1>6, WorkerTypes
<1> QED
  BY <1>3, <1>5, <1>7 DEF Inv

\* The stream goes on as before, or waits a while before it asks.
LEMMA QuietStep ==
  ASSUME Inv, pending' \subseteq Users,
         stream' = stream \/ (stream = "Error" /\ stream' = "Backoff"),
         UNCHANGED <<current, channel, awaited, asking, forceRefresh, quiet>>
  PROVE  Inv'
<1>1. /\ authQueue \in Seq(AuthCall) /\ steady \subseteq Requests /\ clearing \subseteq Thread
      /\ forceRefresh \in BOOLEAN /\ invalid \in BOOLEAN
      /\ channel \in Token \cup {NoToken, None} /\ awaited \in Requests \cup {None}
      /\ stream \in StreamState
  BY DEF Inv, TypeOK
<1>2. /\ UNCHANGED <<steady, authQueue, invalid, clearing>>
      /\ UNCHANGED <<auth, mainQueue, providerUser, workQueue, rejected, dropped>>
  BY DEF asking, quiet
<1>3. Reads
  BY <1>2 DEF Reads
<1>4. /\ workQueue' \in Seq(CredentialChange \cup Resume) /\ current' \in Users
      /\ WorkerFollows' /\ TokenNamesItsOwner'
  BY <1>2, <1>3, ReadFacts
<1>5. stream' \in StreamState
  BY <1>1 DEF StreamState
<1>6. TypeOK'
  BY <1>1, <1>2, <1>4, <1>5, WorkerTypes
<1>7. /\ HeldOnce' /\ StartingIsHeld' /\ TokensExist' /\ ProviderFollows'
      /\ SteadyIsForProvider' /\ AwaitedIsForCurrent' /\ StreamSpeaksForCurrent'
  BY <1>2, <1>3, RestsStep
<1> QED
  BY <1>4, <1>6, <1>7 DEF Inv

-----------------------------------------------------------------------------
\* The answer at the head of the worker queue, if the stream waits for it, is for the
\* account whose writes the stream will send.
LEMMA HeadResume ==
  ASSUME NEW q \in Seq(CredentialChange \cup Resume), q # <<>>, Head(q).kind = "resume",
         NEW x, NEW c, ResumesFor(q, x, c), AllNamed(q), Head(q).request = x,
         Head(q).token # Failed
  PROVE  Head(q).token.owner = c
<1>1. /\ Len(q) \in Nat /\ DOMAIN q = 1 .. Len(q) /\ 1 \in DOMAIN q /\ Head(q) = q[1]
  BY TailFacts
<1>2. NoneBefore(q, "change", 1)
  BY <1>1 DEF NoneBefore
<1>3. Head(q).user = c
  BY <1>1, <1>2 DEF ResumesFor
<1>4. Head(q).user = Head(q).token.owner
  BY <1>1 DEF AllNamed
<1> QED
  BY <1>3, <1>4

\* An answer arrives at the stream: taken only by the start that waits for it.
LEMMA ResumeStep ==
  ASSUME Inv, ResumeStartWithCredentials
  PROVE  Inv'
<1>1. TypeOK
  BY DEF Inv
<1>2. /\ workQueue \in Seq(CredentialChange \cup Resume) /\ workQueue # <<>>
      /\ awaited \in Requests \cup {None} /\ steady \subseteq Requests
      /\ authQueue \in Seq(AuthCall) /\ clearing \subseteq Thread
      /\ forceRefresh \in BOOLEAN /\ invalid \in BOOLEAN
      /\ Head(workQueue).kind = "resume"
  BY <1>1 DEF TypeOK, ResumeStartWithCredentials
<1>3. PICK h : h = Head(workQueue)
  OBVIOUS
<1>4. h \in Resume /\ h.request \in Requests /\ h.token \in Answer
  BY <1>2, <1>3, TailFacts, KindFacts
<1>5. /\ workQueue' = Tail(workQueue)
      /\ UNCHANGED <<auth, mainQueue, providerUser, forceRefresh, rejected, dropped>>
  BY DEF ResumeStartWithCredentials
<1>6. /\ UNCHANGED <<steady, authQueue, invalid, clearing, current, pending>>
      /\ \/ awaited # h.request /\ UNCHANGED <<stream, awaited, channel>>
         \/ /\ awaited = h.request /\ h.token = Failed
            /\ channel' = None /\ awaited' = None /\ stream' \in {"Backoff", "Error"}
         \/ /\ awaited = h.request /\ h.token # Failed
            /\ stream' = "Open" /\ channel' = h.token /\ awaited' = awaited
  BY <1>3 DEF ResumeStartWithCredentials, CloseWithError, asking, sdk
<1>7. workQueue' \in Seq(CredentialChange \cup Resume)
  BY <1>2, <1>5, TailFacts
<1>8. \A r : IF r = h.request THEN LeavesIn(workQueue, workQueue', r)
                              ELSE KeptIn(workQueue, workQueue', r)
  BY <1>2, <1>3, <1>4, <1>5, LeavesFacts, NamesFacts
<1>9. /\ AllNamed(workQueue) /\ ResumesFor(workQueue, awaited, current)
      /\ Follows(workQueue, "change", current, providerUser)
  BY DEF Inv, TokenNamesItsOwner, AllNamed, AwaitedIsForCurrent, WorkerFollows
<1>10. TypeOK'
  <2>1. current \in Users /\ pending \subseteq Users /\ stream \in StreamState
        /\ channel \in Token \cup {NoToken, None}
    BY <1>1 DEF TypeOK
  <2>2. stream' \in StreamState /\ awaited' \in Requests \cup {None}
    BY <1>2, <1>6, <2>1 DEF StreamState
  <2>3. channel' \in Token \cup {NoToken, None}
    BY <1>4, <1>6, <2>1 DEF Answer
  <2> QED
    BY <1>2, <1>5, <1>6, <1>7, <2>1, <2>2, <2>3, WorkerTypes
<1>11. HeldOnce' /\ StartingIsHeld'
  <2>1. ASSUME NEW r \in Requests
        PROVE  /\ OneHolder(authQueue', mainQueue', workQueue', fetches', r)
               /\ r = h.request => ~Underway(authQueue', mainQueue', workQueue', fetches', r)
               /\ r # h.request =>
                    (Underway(authQueue', mainQueue', workQueue', fetches', r)
                       <=> Underway(authQueue, mainQueue, workQueue, fetches, r))
    <3>1. OneHolder(authQueue, mainQueue, workQueue, fetches, r)
      BY DEF Inv, HeldOnce
    <3>2. /\ UNCHANGED <<authQueue, mainQueue, fetches>>
          /\ KeptIn(authQueue, authQueue', r) /\ KeptIn(mainQueue, mainQueue', r)
          /\ \A u \in Accounts : KeptIn(fetches[u], fetches'[u], r)
      BY <1>5, <1>6, KeptUnchanged DEF auth
    <3>3. CASE r = h.request
      <4>1. LeavesIn(workQueue, workQueue', r)
        BY <1>8, <3>3
      <4> QED
        BY <3>1, <3>2, <3>3, <4>1, HolderEnds
    <3>4. CASE r # h.request
      <4>1. KeptIn(workQueue, workQueue', r)
        BY <1>8, <3>4
      <4> QED
        BY <3>1, <3>2, <3>4, <4>1, HolderStays
    <3> QED
      BY <3>3, <3>4
  <2>2. HeldOnce'
    BY <2>1 DEF HeldOnce
  <2>3. \A r \in Requests : IF r = h.request THEN ~Held(r)' ELSE Held(r)' <=> Held(r)
    BY <2>1 DEF Held
  <2>4. StartingIsHeld'
    <3>1. stream = "Starting" => awaited # None
      BY DEF Inv, StartingIsHeld
    <3>2. awaited # None => (stream = "Starting" <=> Held(awaited))
      BY DEF Inv, StartingIsHeld
    <3>3. CASE awaited # h.request
      BY <1>2, <1>4, <1>6, <2>3, <3>1, <3>2, <3>3 DEF StartingIsHeld, Held
    <3>4. CASE awaited = h.request
      <4>1. stream' # "Starting" /\ awaited' \in {None, h.request}
        BY <1>6, <3>4
      <4>2. ~Held(h.request)'
        BY <1>4, <2>3
      <4> QED
        BY <4>1, <4>2 DEF StartingIsHeld, Held
    <3> QED
      BY <3>3, <3>4
  <2> QED
    BY <2>2, <2>4
<1>12. TokensExist' /\ ProviderFollows' /\ SteadyIsForProvider'
  BY <1>5, <1>6 DEF Inv, TokensExist, ProviderFollows, SteadyIsForProvider, auth
<1>13. WorkerFollows'
  <2>1. Follows(workQueue', "change", current, providerUser)
    BY <1>2, <1>5, <1>9, FollowsTail
  <2> QED
    BY <1>5, <1>6, <2>1 DEF WorkerFollows
<1>14. TokenNamesItsOwner'
  <2>1. AllNamed(workQueue')
    BY <1>2, <1>5, <1>9, NamedFacts
  <2> QED
    BY <2>1 DEF TokenNamesItsOwner, AllNamed
<1>15. AwaitedIsForCurrent'
  <2>1. CASE awaited' = awaited
    <3>1. ResumesFor(workQueue', awaited, current)
      BY <1>2, <1>5, <1>9, ResumesTail
    <3> QED
      BY <1>6, <2>1, <3>1 DEF AwaitedIsForCurrent
  <2>2. CASE awaited # h.request
    BY <1>6, <2>1, <2>2
  <2>3. CASE awaited = h.request
    <3>1. ~HeldIn(workQueue', None)
      <4> SUFFICES ASSUME NEW i \in TasksOf(workQueue', None) PROVE FALSE
        BY DEF HeldIn
      <4>1. i \in DOMAIN workQueue' /\ Names(workQueue'[i], None)
        BY DEF TasksOf, Names
      <4>2. workQueue'[i] \in CredentialChange \cup Resume
        BY <1>7, <4>1
      <4>3. workQueue'[i] \in Resume /\ workQueue'[i].request = None
        BY <4>1, <4>2, NamesFacts
      <4> QED
        BY <4>3, KindFacts, CredentialsAssumption
    <3>2. ResumesFor(workQueue', None, current)
      BY <1>7, <3>1, ResumesOfOthers
    <3> QED
      BY <1>6, <2>1, <3>2 DEF AwaitedIsForCurrent
  <2> QED
    BY <2>2, <2>3
<1>16. StreamSpeaksForCurrent'
  <2>1. CASE stream' = stream /\ channel' = channel
    BY <1>6, <2>1 DEF Inv, StreamSpeaksForCurrent
  <2>2. CASE stream' \in {"Backoff", "Error"}
    BY <2>2 DEF StreamSpeaksForCurrent
  <2>3. CASE awaited = h.request /\ h.token # Failed /\ channel' = h.token
    <3>1. h.token.owner = current
      BY <1>2, <1>3, <1>9, <2>3, HeadResume
    <3>2. h.token # None
      BY <1>4, <2>3, TokenFacts DEF Answer
    <3> QED
      BY <1>6, <2>3, <3>1, <3>2 DEF StreamSpeaksForCurrent
  <2> QED
    BY <1>6, <2>1, <2>2, <2>3
<1> QED
  BY <1>10, <1>11, <1>12, <1>13, <1>14, <1>15, <1>16 DEF Inv

-----------------------------------------------------------------------------
\* The SDK's other tasks.
LEMMA WorkerStep ==
  ASSUME Inv, Worker
  PROVE  Inv'
<1>1. /\ pending \subseteq Users /\ current \in Users
      /\ forceRefresh \in BOOLEAN /\ invalid \in BOOLEAN
      /\ TRUE \in BOOLEAN
  BY DEF Inv, TypeOK
<1>2. CASE HandleCredentialChange
  <2>1. Reads
    BY <1>2 DEF HandleCredentialChange, Reads
  <2>2. /\ Restart /\ pending' \subseteq Users
        /\ UNCHANGED <<auth, mainQueue, providerUser, forceRefresh, rejected, dropped>>
    BY <1>1, <1>2 DEF HandleCredentialChange
  <2> QED
    BY <2>1, <2>2, RestartStep
<1>3. CASE ResumeStartWithCredentials
  BY <1>3, ResumeStep
<1>4. CASE SetData
  <2>1. pending' \subseteq Users
    BY <1>1, <1>4 DEF SetData
  <2>2. CASE stream = "Initial"
    BY <1>4, <2>1, <2>2, RequestStep DEF SetData, quiet
  <2>3. CASE stream = "Error"
    BY <1>4, <2>1, <2>3, QuietStep DEF SetData
  <2>4. CASE stream # "Initial" /\ stream # "Error"
    BY <1>4, <2>1, <2>4, QuietStep DEF SetData
  <2> QED
    BY <2>2, <2>3, <2>4
<1>5. CASE BackoffElapsed
  BY <1>1, <1>5, RequestStep DEF BackoffElapsed, quiet
<1>6. CASE IdleTimeout
  <2>1. Reads
    BY <1>6 DEF IdleTimeout, Reads, quiet
  <2> QED
    BY <1>1, <1>6, <2>1, RestartStep DEF IdleTimeout, quiet
<1>7. CASE WritesAcknowledged
  BY <1>1, <1>7, QuietStep DEF WritesAcknowledged
<1>8. CASE WriteRefused
  <2>1. Reads
    BY <1>8 DEF WriteRefused, Reads, quiet
  <2> QED
    BY <1>1, <1>8, <2>1, RestartStep DEF WriteRefused, quiet
<1>9. CASE StreamBreaks
  BY <1>1, <1>9, CloseStep DEF StreamBreaks, quiet
<1>10. CASE Unauthenticated
  BY <1>1, <1>10, CloseStep DEF Unauthenticated, quiet
<1> QED
  BY <1>2, <1>3, <1>4, <1>5, <1>6, <1>7, <1>8, <1>9, <1>10 DEF Worker

\* The app starts with everybody agreeing on the user, who may still be announced.
LEMMA InitInv == Init => Inv
<1> USE CredentialsAssumption
<1>1. SUFFICES ASSUME NEW u \in Users,
        /\ authUser = u
        /\ raw = [a \in Accounts |-> IF a = u THEN 1 ELSE 0]
        /\ lastNotified = IF u = SignedOut THEN NoToken ELSE [owner |-> u, serial |-> 1]
        /\ mainQueue \in {<<>>} \cup
             {<<[kind |-> "notification", user |-> a]>> : a \in {u} \ {SignedOut}}
        /\ providerUser = u /\ current = u /\ autoRefresh = FALSE /\ authQueue = <<>>
        /\ fetches = [a \in Accounts |-> <<>>]
        /\ steady = {} /\ forceRefresh = FALSE /\ invalid = FALSE /\ clearing = {}
        /\ workQueue = <<>> /\ pending = {} /\ stream = "Initial" /\ awaited = None
        /\ channel = None /\ rejected = [a \in Accounts |-> 0] /\ dropped = 0
      PROVE  Inv
  BY DEF Init
<1>2. 0 \in 0 .. MaxSerial /\ 1 \in 0 .. MaxSerial /\ 1 \in 1 .. MaxSerial /\ 0 \in 0 .. MaxDrops
  OBVIOUS
<1>3. /\ \A r : ~HeldIn(<<>>, r) /\ OnceIn(<<>>, r)
      /\ \A k : NoneIn(<<>>, k)
      /\ \A k, v : Follows(<<>>, k, v, v)
      /\ \A S : <<>> \in Seq(S)
  BY DEF HeldIn, OnceIn, TasksOf, NoneIn, Follows
<1>4. u # SignedOut => u \in Accounts
  BY DEF Users
<1>5. /\ mainQueue \in Seq(Notification \cup TokenCallback)
      /\ \A r : KeptIn(<<>>, mainQueue, r)
      /\ Follows(mainQueue, "notification", u, u)
  <2>1. CASE mainQueue = <<>>
    BY <1>3, <2>1 DEF KeptIn
  <2>2. CASE mainQueue = <<[kind |-> "notification", user |-> u]>>
    <3>1. PICK q \in Seq(Notification \cup TokenCallback) : q = <<>>
      BY <1>3
    <3>2. Notifies(q, u, mainQueue)
      BY <2>2, <3>1 DEF Notifies
    <3>3. /\ mainQueue \in Seq(Notification \cup TokenCallback)
          /\ \A r : KeptIn(q, mainQueue, r)
          /\ \A known : Follows(mainQueue, "notification", known, u)
      BY <3>2, NotifyFacts
    <3> QED
      BY <3>1, <3>3
  <2> QED
    BY <1>1, <2>1, <2>2
<1>6. TypeOK
  <2>1. raw \in [Accounts -> 0 .. MaxSerial] /\ rejected \in [Accounts -> 0 .. MaxSerial]
    BY <1>1, <1>2
  <2>2. lastNotified \in Token \cup {NoToken}
    BY <1>1, <1>2, <1>4, TokenFacts
  <2>3. fetches \in [Accounts -> Seq(Fetch)]
    BY <1>1, <1>3
  <2>4. authQueue \in Seq(AuthCall) /\ workQueue \in Seq(CredentialChange \cup Resume)
    BY <1>1, <1>3
  <2> QED
    BY <1>1, <1>2, <1>5, <2>1, <2>2, <2>3, <2>4 DEF TypeOK, StreamState
<1>7. HeldOnce
  BY <1>1, <1>3, <1>5 DEF HeldOnce, OneHolder, KeptIn
<1>8. StartingIsHeld
  BY <1>1 DEF StartingIsHeld
<1>9. TokensExist
  <2>1. \A a \in Accounts : raw[a] = (IF a = u THEN 1 ELSE 0) /\ fetches[a] = <<>>
    BY <1>1
  <2>2. u # SignedOut => lastNotified.owner = u /\ lastNotified.serial = 1
    BY <1>1
  <2> QED
    BY <1>1, <1>4, <2>1, <2>2 DEF TokensExist
<1>10. ProviderFollows
  BY <1>1, <1>5 DEF ProviderFollows
<1>11. SteadyIsForProvider
  BY <1>1 DEF SteadyIsForProvider, CallbacksFor, FetchesFor
<1>12. WorkerFollows
  BY <1>1, <1>3 DEF WorkerFollows
<1>13. TokenNamesItsOwner /\ AwaitedIsForCurrent /\ StreamSpeaksForCurrent
  BY <1>1 DEF TokenNamesItsOwner, AwaitedIsForCurrent, ResumesFor, StreamSpeaksForCurrent
<1> QED
  BY <1>6, <1>7, <1>8, <1>9, <1>10, <1>11, <1>12, <1>13 DEF Inv

\* Every step of FIRAuth, the provider, the SDK and the server.
LEMMA NextInv == Inv /\ [Next]_vars => Inv'
<1> SUFFICES ASSUME Inv, [Next]_vars PROVE Inv'
  OBVIOUS
<1>1. CASE RunGetToken
  BY <1>1, RunGetTokenStep
<1>2. CASE AutoRefresh
  BY <1>2, AutoRefreshStep
<1>3. CASE \E u \in Accounts : SignIn(u) \/ FetchEnds(u)
  BY <1>3, SignInStep, FetchEndsStep
<1>4. CASE AuthStateDidChange
  BY <1>4, AuthStateDidChangeStep
<1>5. CASE GotToken
  BY <1>5, GotTokenStep
<1>6. CASE \E t \in Thread : ClearForceRefresh(t)
  BY <1>6, ClearForceRefreshStep
<1>7. CASE Worker
  BY <1>7, WorkerStep
<1>8. CASE \E u \in Accounts : TokenExpires(u)
  BY <1>8, TokenExpiresStep
<1>9. CASE UNCHANGED vars
  <2>1. TypeOK'
    BY <1>9 DEF Inv, TypeOK, vars, auth, sdk
  <2>2. HeldOnce' /\ StartingIsHeld' /\ TokensExist' /\ ProviderFollows' /\ SteadyIsForProvider'
    BY <1>9 DEF Inv, HeldOnce, StartingIsHeld, Held, TokensExist, ProviderFollows,
                SteadyIsForProvider, vars, auth, sdk
  <2>3. WorkerFollows' /\ TokenNamesItsOwner' /\ AwaitedIsForCurrent' /\ StreamSpeaksForCurrent'
    BY <1>9, SDKUnchanged DEF vars
  <2> QED
    BY <2>1, <2>2, <2>3 DEF Inv
<1> QED
  BY <1>1, <1>2, <1>3, <1>4, <1>5, <1>6, <1>7, <1>8, <1>9 DEF Next, FIRAuth, Provider

\* Everything stays as the invariant says.
THEOREM Invariance == Spec => []Inv
BY InitInv, NextInv, PTL DEF Spec

\* The state of FIRAuth, the provider and the SDK keeps its types.
THEOREM TypeCorrect == Spec => []TypeOK
<1>1. Inv => TypeOK
  BY DEF Inv
<1> QED
  BY <1>1, Invariance, PTL

\* The Token the provider hands to the SDK is for the account it is said to be for,
\* however many changes of account and refreshes are on their way
\* (credentials_provider_apple.mm, the comparison of token_counter).
THEOREM TokensNameTheirOwners == Spec => []TokenNamesItsOwner
<1>1. Inv => TokenNamesItsOwner
  BY DEF Inv
<1> QED
  BY <1>1, Invariance, PTL

\* An open write stream authenticates as the account whose writes it sends (stream.cc,
\* the comparison of close_count_, and RemoteStore::HandleCredentialChange).
THEOREM StreamAlwaysSpeaksForCurrent == Spec => []StreamSpeaksForCurrent
<1>1. Inv => StreamSpeaksForCurrent
  BY DEF Inv
<1> QED
  BY <1>1, Invariance, PTL

-----------------------------------------------------------------------------
\* What holds a request is one task.
LEMMA HolderIsUnique ==
  ASSUME NEW r, OneHolder(authQueue, mainQueue, workQueue, fetches, r),
         Underway(authQueue, mainQueue, workQueue, fetches, r)
  PROVE  \E h \in Holders(r) : Holders(r) = {h}
<1>1. \A q : HeldIn(q, r) /\ OnceIn(q, r) => \E i : TasksOf(q, r) = {i}
  BY DEF HeldIn, OnceIn
<1>2. \A q : ~HeldIn(q, r) => TasksOf(q, r) = {}
  BY DEF HeldIn
<1>3. CASE HeldIn(authQueue, r)
  <2>1. PICK i : TasksOf(authQueue, r) = {i}
    BY <1>1, <1>3 DEF OneHolder
  <2>2. /\ TasksOf(mainQueue, r) = {} /\ TasksOf(workQueue, r) = {}
        /\ \A u \in Accounts : TasksOf(fetches[u], r) = {}
    BY <1>2, <1>3 DEF OneHolder
  <2>3. Holders(r) = {<<"auth", i>>}
    BY <2>1, <2>2 DEF Holders
  <2> QED
    BY <2>3
<1>4. CASE HeldIn(mainQueue, r)
  <2>1. PICK i : TasksOf(mainQueue, r) = {i}
    BY <1>1, <1>4 DEF OneHolder
  <2>2. /\ TasksOf(authQueue, r) = {} /\ TasksOf(workQueue, r) = {}
        /\ \A u \in Accounts : TasksOf(fetches[u], r) = {}
    BY <1>2, <1>4 DEF OneHolder
  <2>3. Holders(r) = {<<"main", i>>}
    BY <2>1, <2>2 DEF Holders
  <2> QED
    BY <2>3
<1>5. CASE HeldIn(workQueue, r)
  <2>1. PICK i : TasksOf(workQueue, r) = {i}
    BY <1>1, <1>5 DEF OneHolder
  <2>2. /\ TasksOf(authQueue, r) = {} /\ TasksOf(mainQueue, r) = {}
        /\ \A u \in Accounts : TasksOf(fetches[u], r) = {}
    BY <1>2, <1>5 DEF OneHolder
  <2>3. Holders(r) = {<<"worker", i>>}
    BY <2>1, <2>2 DEF Holders
  <2> QED
    BY <2>3
<1>6. CASE \E u \in Accounts : HeldIn(fetches[u], r)
  <2>1. PICK u \in Accounts : HeldIn(fetches[u], r)
    BY <1>6
  <2>2. PICK i : TasksOf(fetches[u], r) = {i}
    BY <1>1, <2>1 DEF OneHolder
  <2>3. /\ TasksOf(authQueue, r) = {} /\ TasksOf(mainQueue, r) = {}
        /\ TasksOf(workQueue, r) = {}
        /\ \A v \in Accounts \ {u} : TasksOf(fetches[v], r) = {}
    BY <1>2, <2>1 DEF OneHolder
  <2>4. Holders(r) = {<<u, i>>}
    BY <2>2, <2>3 DEF Holders
  <2> QED
    BY <2>4
<1> QED
  BY <1>3, <1>4, <1>5, <1>6 DEF Underway

\* The assertion of ResumeStartWithCredentials never fails, and a stream that is
\* starting waits for exactly one request that is under way.
THEOREM StartsAlwaysWithItsToken == Spec => []StartsWithItsToken
<1>1. Inv => ResumeFindsStarting
  <2> SUFFICES ASSUME Inv, workQueue # <<>>, Head(workQueue).kind = "resume",
                      Head(workQueue).request = awaited
               PROVE  stream = "Starting"
    BY DEF ResumeFindsStarting
  <2>1. workQueue \in Seq(CredentialChange \cup Resume)
    BY DEF Inv, TypeOK
  <2>2. Head(workQueue) \in Resume /\ awaited \in Requests
    BY <2>1, TailFacts, KindFacts
  <2>3. HeldIn(workQueue, awaited)
    BY <2>1, <2>2, TailTasks, NamesFacts
  <2>4. awaited # None
    BY <2>2, CredentialsAssumption
  <2> QED
    BY <2>3, <2>4 DEF Inv, StartingIsHeld, Held, Underway
<1>2. Inv => StartingIsAnswered
  <2> SUFFICES ASSUME Inv, stream = "Starting"
               PROVE  awaited # None /\ \E h \in Holders(awaited) : Holders(awaited) = {h}
    BY DEF StartingIsAnswered
  <2>1. awaited # None /\ awaited \in Requests /\ Held(awaited)
    BY DEF Inv, StartingIsHeld, TypeOK
  <2> QED
    BY <2>1, HolderIsUnique DEF Inv, HeldOnce, Held
<1>3. Inv => StartsWithItsToken
  BY <1>1, <1>2 DEF StartsWithItsToken
<1> QED
  BY <1>3, Invariance, PTL

=============================================================================
