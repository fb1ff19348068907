-------------------------- MODULE PublishingProofs --------------------------
(***************************************************************************)
(* Proofs about Publishing.tla, for any accounts, articles, screens, texts *)
(* and bounds.                                                             *)
(*                                                                         *)
(* Nothing in the app ties the two writes of an article together: the      *)
(* second is made by a closure that knows neither what became of the first *)
(* nor who is signed in by then.  What documents keep, they keep because   *)
(* the SDK's queue of one account is a FIFO: the text goes before the      *)
(* picture, is resolved before it, and whenever the text is sent again the *)
(* picture is sent again behind it.                                        *)
(***************************************************************************)
EXTENDS Publishing, SequenceFacts, SequenceTheorems

\* The theorems about the mutation queues.
QueueProofs == INSTANCE WriteQueueProofs

-----------------------------------------------------------------------------
\* What the screens on the stack are: taps find what they refer to.
ScreenIsWhole(s) ==
  /\ s.kind \in {"Login", "Writing", "WritingAdd"} => s.id \in Screens
  /\ s.kind = "WritingAdd" => s.ref \in Screens

StackIsWhole ==
  /\ stack # <<>> /\ stack[1] = Main
  /\ \A i \in DOMAIN stack : ScreenIsWhole(stack[i])

\* How far an article's writes are when its closures have come to some phase.
ReleaseIsOrderly ==
  \A a \in Articles :
    /\ release[a].phase = "unused" => \A t \in Texts : completion[Set(a, t)] = "unissued"
    /\ release[a].phase \in {"unused", "uploading", "uploaded"} =>
         completion[Merge(a)] = "unissued"
    /\ release[a].phase # "unused" => \E t \in Texts : completion[Set(a, t)] # "unissued"
    /\ release[a].phase = "uploaded" => a \in storage
    /\ completion[Merge(a)] # "unissued" => a \in storage

\* Handlers that wait on the main queue, or have run, were told the truth.
HandlersAreDone ==
  /\ \A i \in DOMAIN handlers : completion[Merge(handlers[i])] = "ok"
  /\ \A a \in congratulated : completion[Merge(a)] = "ok"

\* As long as nobody has signed up and no account was signed out, nothing is under way.
NobodyYet ==
  dropped = 0 /\ current = SignedOut =>
    /\ \A i \in DOMAIN stack : stack[i].kind \in {"Main", "Login"}
    /\ \A p \in signUps : ~p.created
    /\ \A a \in Articles : release[a].phase = "unused"
    /\ handlers = <<>>

DeviceInv ==
  /\ StackIsWhole
  /\ ReleaseIsOrderly
  /\ HandlersAreDone
  /\ NobodyYet
  /\ dropped = 0 => queue[SignedOut] = <<>>

-----------------------------------------------------------------------------
\* What became of a write.
WritesAreKnown ==
  /\ \A w \in Writes : author[w] = None <=> completion[w] = "unissued"
  /\ \A u \in Users : \A i \in DOMAIN queue[u] : author[queue[u][i]] = u
  /\ \A w \in Writes : completion[w] = "unissued" \/ Pending(w) \/ w \in committed \/ w \in refused
  /\ \A w \in refused : ~Pending(w) /\ completion[w] \notin {"unissued", "ok"}
  /\ \A w \in Writes : completion[w] = "ok" => ~Pending(w)

\* The text of an article goes before its picture.
TextGoesFirst ==
  \A a \in Articles, t \in Texts :
    /\ \A u \in Users : \A i, j \in DOMAIN queue[u] :
         queue[u][i] = Set(a, t) /\ queue[u][j] = Merge(a) => i < j
    /\ Pending(Set(a, t)) /\ author[Set(a, t)] = author[Merge(a)] => Pending(Merge(a))

QueueInv ==
  /\ QueueProofs!Inv
  /\ WritesAreKnown
  /\ TextGoesFirst

-----------------------------------------------------------------------------
\* What is in a document was written, and committed.
DocsAreEarned ==
  \A a \in Articles :
    /\ docs[a].imageURL # None => Merge(a) \in committed
    /\ (\E t \in Texts : Set(a, t) \in committed) => docs[a].text # None

\* A picture committed on the present connection has not been taken off again.
ServedIsThere ==
  \A a \in Articles : \A i \in 1 .. cursor :
    queue[current][i] = Merge(a) => docs[a].imageURL = a

\* A committed picture has had a text before it, or a refusal.
PictureFollowsText ==
  \A a \in Articles :
    Merge(a) \in committed /\ SameAuthor(a) =>
      \E t \in Texts : Set(a, t) \in committed \cup refused

DocsInv ==
  /\ NoDanglingPicture
  /\ DocsAreEarned
  /\ ServedIsThere
  /\ PictureFollowsText
  /\ PictureLossIsTransient

\* The inductive invariant.
Inv ==
  /\ TypeOK
  /\ QueueInv
  /\ DocsInv
  /\ DeviceInv

-----------------------------------------------------------------------------
\* The writes of an article.
LEMMA WriteFacts ==
  /\ \A a \in Articles :
       /\ Merge(a) \in Writes /\ Merge(a).kind = "merge" /\ Merge(a).article = a
       /\ \A t \in Texts : /\ Set(a, t) \in Writes /\ Set(a, t).kind = "set"
                           /\ Set(a, t).article = a /\ Set(a, t).text = t
                           /\ \A b \in Articles : Set(a, t) # Merge(b)
  /\ \A w \in Writes :
       /\ w.article \in Articles
       /\ w.kind = "set" => w.text \in Texts /\ w = Set(w.article, w.text)
       /\ w.kind # "set" => w.kind = "merge" /\ w = Merge(w.article)
<1>1. ASSUME NEW a \in Articles
      PROVE  Merge(a) \in Writes /\ Merge(a).kind = "merge" /\ Merge(a).article = a
  BY DEF Writes, Merges, Merge
<1>2. ASSUME NEW a \in Articles, NEW t \in Texts
      PROVE  /\ Set(a, t) \in Writes /\ Set(a, t).kind = "set"
             /\ Set(a, t).article = a /\ Set(a, t).text = t
  BY DEF Writes, Sets, Set
<1>3. ASSUME NEW w \in Writes
      PROVE  /\ w.article \in Articles
             /\ w.kind = "set" => w.text \in Texts /\ w = Set(w.article, w.text)
             /\ w.kind # "set" => w.kind = "merge" /\ w = Merge(w.article)
  <2>1. \/ \E a \in Articles, t \in Texts : w = Set(a, t)
        \/ \E a \in Articles : w = Merge(a)
    BY DEF Writes, Sets, Merges
  <2>2. CASE \E a \in Articles, t \in Texts : w = Set(a, t)
    BY <1>2, <2>2
  <2>3. CASE \E a \in Articles : w = Merge(a)
    BY <1>1, <2>3
  <2> QED
    BY <2>1, <2>2, <2>3
<1>4. ASSUME NEW a \in Articles, NEW t \in Texts, NEW b \in Articles
      PROVE  Set(a, t) # Merge(b)
  BY <1>1, <1>2
<1> QED
  BY <1>1, <1>2, <1>3, <1>4

\* The markers are nobody and nothing.
LEMMA NoneFacts ==
  /\ None \notin Users /\ None \notin Articles /\ None \notin Texts /\ None \notin Screens
  /\ SignedOut \in Users /\ Accounts \subseteq Users /\ SignedOut \notin Accounts
BY PublishingAssumption DEF Users

\* What the type invariant says of the pieces.
LEMMA Typed ==
  ASSUME TypeOK
  PROVE  /\ current \in Users /\ queue \in [Users -> Seq(Writes)]
         /\ cursor \in Nat /\ cursor <= Len(queue[current])
         /\ committed \subseteq Writes /\ refused \subseteq Writes
         /\ completion \in [Writes -> Queue!CompletionState]
         /\ stack \in Seq([kind : Kinds, id : Screens \cup {None},
                           ref : Screens \cup Articles \cup {None}])
         /\ typed \in [Screens -> Texts \cup {Empty}]
         /\ signUps \subseteq [login : Screens, account : Accounts, created : BOOLEAN]
         /\ tried \subseteq Accounts
         /\ release \in [Articles -> [phase : Phases, screen : Screens \cup {None}]]
         /\ handlers \in Seq(Articles) /\ congratulated \subseteq Articles
         /\ docs \in [Articles -> [text : Texts \cup {None}, imageURL : Articles \cup {None}]]
         /\ storage \subseteq Articles
         /\ author \in [Writes -> Users \cup {None}]
         /\ dropped \in 0 .. MaxDrops /\ dropped \in Nat /\ MaxDrops \in Nat
<1>1. dropped \in 0 .. MaxDrops /\ MaxDrops \in Nat
  BY PublishingAssumption DEF TypeOK
<1> QED
  BY <1>1 DEF TypeOK, Queue!TypeOK

\* The abstract queue's steps by their other name.
LEMMA SameQueue == Queue!Next \/ UNCHANGED sdk => [QueueProofs!Next]_QueueProofs!vars
<1>1. UNCHANGED sdk => UNCHANGED QueueProofs!vars
  BY DEF sdk, QueueProofs!vars
<1>2. Queue!Next => QueueProofs!Next
  BY DEF Queue!Next, QueueProofs!Next, Queue!Issue, QueueProofs!Issue,
         Queue!Commit, QueueProofs!Commit, Queue!Acknowledge, QueueProofs!Acknowledge,
         Queue!Reject, QueueProofs!Reject, Queue!Disconnect, QueueProofs!Disconnect,
         Queue!SwitchUser, QueueProofs!SwitchUser, Queue!Restart, QueueProofs!Restart,
         Queue!Notify, QueueProofs!Notify
<1> QED
  BY <1>1, <1>2

\* What the app, the server and the connection do to the queues is one of
\* WriteQueue's steps.
LEMMA QueueStep ==
  ASSUME Inv, Queue!Next \/ UNCHANGED sdk
  PROVE  QueueProofs!Inv' /\ Queue!TypeOK'
<1>1. QueueProofs!Inv'
  BY SameQueue, QueueProofs!NextInv DEF Inv, QueueInv
<1>2. QueueProofs!TypeOK'
  BY <1>1 DEF QueueProofs!Inv
<1>3. Queue!TypeOK'
  BY <1>2 DEF QueueProofs!TypeOK, Queue!TypeOK, QueueProofs!CompletionState, Queue!CompletionState
<1> QED
  BY <1>1, <1>3

\* What the theorems about the queues say here.
LEMMA QueueFacts ==
  ASSUME QueueProofs!Inv
  PROVE  /\ \A u, v \in Users : \A i \in DOMAIN queue[u], j \in DOMAIN queue[v] :
              queue[u][i] = queue[v][j] => u = v /\ i = j
         /\ \A i \in 1 .. cursor : queue[current][i] \in committed
         /\ \A w \in Writes : completion[w] = "unissued" => w \notin committed /\ ~Pending(w)
         /\ \A w \in Writes : completion[w] = "ok" => w \in committed
<1> QED
  BY DEF QueueProofs!Inv, QueueProofs!PendingOnce, QueueProofs!CursorCommitted,
         QueueProofs!UnissuedIsNowhere, QueueProofs!HandlersTellTheTruth,
         QueueProofs!Pending, Pending

-----------------------------------------------------------------------------
\* Steps that leave a part of the state alone.

\* The queues and what became of the writes.
LEMMA QueuesKept ==
  ASSUME Inv, UNCHANGED <<queue, author, refused>>, committed \subseteq committed',
         \A w \in Writes : /\ completion'[w] = "unissued" <=> completion[w] = "unissued"
                           /\ completion'[w] = "ok" <=> completion[w] = "ok"
  PROVE  WritesAreKnown' /\ TextGoesFirst'
<1>1. \A w : Pending(w)' <=> Pending(w)
  BY DEF Pending
<1>2. refused \subseteq Writes
  BY Typed DEF Inv
<1>3. WritesAreKnown'
  BY <1>1, <1>2 DEF Inv, QueueInv, WritesAreKnown
<1>4. TextGoesFirst'
  BY <1>1 DEF Inv, QueueInv, TextGoesFirst
<1> QED
  BY <1>3, <1>4

\* The documents, when no write is committed, and the promises about them.
LEMMA DocsKept ==
  ASSUME Inv, UNCHANGED <<docs, author, queue, committed, refused>>, storage \subseteq storage',
         cursor' = 0 \/ (cursor' = cursor /\ current' = current)
  PROVE  DocsInv'
<1>1. NoDanglingPicture'
  BY DEF Inv, DocsInv, NoDanglingPicture
<1>2. DocsAreEarned'
  BY DEF Inv, DocsInv, DocsAreEarned
<1>3. ServedIsThere'
  <2>1. CASE cursor' = 0
    BY <2>1 DEF ServedIsThere
  <2>2. CASE cursor' = cursor /\ current' = current
    BY <2>2 DEF Inv, DocsInv, ServedIsThere
  <2> QED
    BY <2>1, <2>2
<1>4. PictureFollowsText'
  BY DEF Inv, DocsInv, PictureFollowsText, SameAuthor
<1>5. PictureLossIsTransient'
  BY DEF Inv, DocsInv, PictureLossIsTransient, SameAuthor, Pending
<1> QED
  BY <1>1, <1>2, <1>3, <1>4, <1>5 DEF DocsInv

-----------------------------------------------------------------------------
\* The steps of the device that write nothing.

Entries == [kind : Kinds, id : Screens \cup {None}, ref : Screens \cup Articles \cup {None}]

\* A step that leaves queues and documents alone keeps what depends on them.
LEMMA QuietStep ==
  ASSUME Inv, UNCHANGED <<sdk, docs, author, dropped>>,
         storage \subseteq storage', storage' \subseteq Articles,
         stack' \in Seq(Entries), typed' \in [Screens -> Texts \cup {Empty}],
         signUps' \subseteq [login : Screens, account : Accounts, created : BOOLEAN],
         tried' \subseteq Accounts,
         release' \in [Articles -> [phase : Phases, screen : Screens \cup {None}]],
         handlers' \in Seq(Articles), congratulated' \subseteq Articles,
         StackIsWhole', ReleaseIsOrderly', HandlersAreDone', NobodyYet'
  PROVE  Inv'
<1>1. UNCHANGED <<current, queue, cursor, committed, refused, completion>>
  BY DEF sdk
<1>2. QueueProofs!Inv' /\ Queue!TypeOK'
  BY QueueStep
<1>3. TypeOK'
  BY <1>2 DEF Inv, TypeOK, Entries
<1>4. WritesAreKnown' /\ TextGoesFirst'
  BY <1>1, QueuesKept
<1>5. DocsInv'
  BY <1>1, DocsKept
<1>6. (dropped = 0 => queue[SignedOut] = <<>>)'
  BY <1>1 DEF Inv, DeviceInv
<1> QED
  BY <1>2, <1>3, <1>4, <1>5, <1>6 DEF Inv, QueueInv, DeviceInv

\* A screen is pushed.
LEMMA PushStep ==
  ASSUME Inv, NEW screen \in Entries, ScreenIsWhole(screen), Push(screen)
  PROVE  /\ stack' \in Seq(Entries) /\ StackIsWhole'
         /\ \A i \in DOMAIN stack' : (i \in DOMAIN stack /\ stack'[i] = stack[i]) \/ stack'[i] = screen
<1>1. stack \in Seq(Entries) /\ stack # <<>> /\ stack[1] = Main
  BY Typed DEF Inv, DeviceInv, StackIsWhole, Entries
<1>2. /\ stack' \in Seq(Entries) /\ Len(stack) \in Nat
      /\ DOMAIN stack = 1 .. Len(stack) /\ DOMAIN stack' = 1 .. Len(stack) + 1
      /\ \A i \in DOMAIN stack : stack'[i] = stack[i]
      /\ stack'[Len(stack) + 1] = screen
  BY <1>1, AppendFacts DEF Push
<1>3. \A i \in DOMAIN stack' : i \in DOMAIN stack \/ i = Len(stack) + 1
  BY <1>2
<1>4. 1 \in DOMAIN stack
  BY <1>1
<1>5. \A i \in DOMAIN stack : ScreenIsWhole(stack[i])
  BY DEF Inv, DeviceInv, StackIsWhole
<1>6. \A i \in DOMAIN stack' : ScreenIsWhole(stack'[i])
  BY <1>2, <1>3, <1>5
<1>7. stack' # <<>> /\ stack'[1] = Main
  BY <1>1, <1>2, <1>4
<1>8. StackIsWhole'
  BY <1>6, <1>7 DEF StackIsWhole, ScreenIsWhole
<1> QED
  BY <1>2, <1>3, <1>8

\* The screen that can be tapped.
LEMMA TopFacts ==
  ASSUME Inv
  PROVE  /\ stack \in Seq(Entries) /\ stack # <<>> /\ Len(stack) \in Nat
         /\ Len(stack) \in DOMAIN stack /\ Top \in Entries /\ ScreenIsWhole(Top)
<1>1. stack \in Seq(Entries) /\ stack # <<>>
  BY Typed DEF Inv, DeviceInv, StackIsWhole, Entries
<1>2. Len(stack) \in Nat /\ Len(stack) \in DOMAIN stack
  BY <1>1
<1>3. stack[Len(stack)] \in Entries
  BY <1>1, <1>2
<1>4. ScreenIsWhole(stack[Len(stack)])
  BY <1>2 DEF Inv, DeviceInv, StackIsWhole
<1> QED
  BY <1>1, <1>2, <1>3, <1>4 DEF Top

\* Only Main and Login are there as long as nobody has signed up.
LEMMA NobodyTaps ==
  ASSUME Inv, Top.kind \notin {"Main", "Login"}
  PROVE  ~(dropped = 0 /\ current = SignedOut)
BY TopFacts DEF Inv, DeviceInv, NobodyYet, Top

\* What is not touched remains orderly.
LEMMA ReleasesKept ==
  ASSUME Inv, UNCHANGED <<release, completion>>, storage \subseteq storage'
  PROVE  ReleaseIsOrderly'
BY DEF Inv, DeviceInv, ReleaseIsOrderly

\* Handlers that have been told keep what they were told.
LEMMA HandlersKept ==
  ASSUME Inv, UNCHANGED <<handlers, congratulated, completion>>
  PROVE  HandlersAreDone'
BY DEF Inv, DeviceInv, HandlersAreDone

\* The writing button, Next, typing and the ways back.
LEMMA TapWritingButtonStep == ASSUME Inv, NEW s \in New, TapWritingButton(s) PROVE Inv'
<1>1. /\ Push(Screen("Login", s, None))
      /\ UNCHANGED <<sdk, typed, signUps, tried, release, handlers, congratulated,
                     docs, storage, author, dropped>>
  BY DEF TapWritingButton
<1>2. s \in Screens
  BY DEF New, Fresh
<1>3. PICK x : x = Screen("Login", s, None)
  OBVIOUS
<1>4. x \in Entries /\ ScreenIsWhole(x) /\ x.kind = "Login"
  BY <1>2, <1>3 DEF Screen, Entries, Kinds, ScreenIsWhole
<1>5. /\ stack' \in Seq(Entries) /\ StackIsWhole'
      /\ \A i \in DOMAIN stack' : (i \in DOMAIN stack /\ stack'[i] = stack[i]) \/ stack'[i] = x
  BY <1>1, <1>3, <1>4, PushStep
<1>6. UNCHANGED <<current, completion>>
  BY <1>1 DEF sdk
<1>7. NobodyYet'
  BY <1>1, <1>4, <1>5, <1>6 DEF Inv, DeviceInv, NobodyYet
<1>8. ReleaseIsOrderly' /\ HandlersAreDone'
  BY <1>1, <1>6, ReleasesKept, HandlersKept
<1> QED
  BY <1>1, <1>5, <1>7, <1>8, Typed, QuietStep DEF Inv

\* Next.
LEMMA TapNextStep == ASSUME Inv, NEW s \in New, TapNext(s) PROVE Inv'
<1>1. /\ Push(Screen("WritingAdd", s, Top.id)) /\ Top.kind = "Writing"
      /\ UNCHANGED <<sdk, typed, signUps, tried, release, handlers, congratulated,
                     docs, storage, author, dropped>>
  BY DEF TapNext
<1>2. s \in Screens
  BY DEF New, Fresh
<1>3. PICK x : x = Screen("WritingAdd", s, Top.id)
  OBVIOUS
<1>4. Top.id \in Screens
  BY <1>1, TopFacts DEF ScreenIsWhole
<1>5. x \in Entries /\ ScreenIsWhole(x)
  BY <1>2, <1>3, <1>4 DEF Screen, Entries, Kinds, ScreenIsWhole
<1>6. stack' \in Seq(Entries) /\ StackIsWhole'
  BY <1>1, <1>3, <1>5, PushStep
<1>7. UNCHANGED <<current, completion>>
  BY <1>1 DEF sdk
<1>8. NobodyYet'
  <2>1. ~(dropped = 0 /\ current = SignedOut)
    BY <1>1, NobodyTaps
  <2> QED
    BY <1>1, <1>7, <2>1 DEF NobodyYet
<1>9. ReleaseIsOrderly' /\ HandlersAreDone'
  BY <1>1, <1>7, ReleasesKept, HandlersKept
<1> QED
  BY <1>1, <1>6, <1>8, <1>9, Typed, QuietStep DEF Inv

\* Signing up only calls Firebase Auth.
LEMMA TapSignUpStep == ASSUME Inv, NEW u \in Accounts, TapSignUp(u) PROVE Inv'
<1>1. /\ Top.kind = "Login" /\ tried' = tried \cup {u}
      /\ signUps' = signUps \cup {[login |-> Top.id, account |-> u, created |-> FALSE]}
      /\ UNCHANGED <<sdk, stack, typed, release, handlers, congratulated, docs,
                     storage, author, dropped>>
  BY DEF TapSignUp
<1>2. Top.id \in Screens
  BY <1>1, TopFacts DEF ScreenIsWhole
<1>3. FALSE \in BOOLEAN
  OBVIOUS
<1>4. [login |-> Top.id, account |-> u, created |-> FALSE]
        \in [login : Screens, account : Accounts, created : BOOLEAN]
  BY <1>2, <1>3
<1>5. signUps' \subseteq [login : Screens, account : Accounts, created : BOOLEAN]
  BY <1>1, <1>4, Typed DEF Inv
<1>6. UNCHANGED <<current, completion>>
  BY <1>1 DEF sdk
<1>7. NobodyYet'
  <2>1. \A p \in signUps' : p \in signUps \/ ~p.created
    BY <1>1
  <2> QED
    BY <1>1, <1>6, <2>1 DEF Inv, DeviceInv, NobodyYet
<1>8. StackIsWhole'
  BY <1>1 DEF Inv, DeviceInv, StackIsWhole
<1>9. ReleaseIsOrderly' /\ HandlersAreDone'
  BY <1>1, <1>6, ReleasesKept, HandlersKept
<1>10. tried' \subseteq Accounts /\ stack' \in Seq(Entries)
  BY <1>1, Typed DEF Inv, Entries
<1> QED
  BY <1>1, <1>5, <1>7, <1>8, <1>9, <1>10, Typed, QuietStep DEF Inv

\* Typing.
LEMMA TypeStep == ASSUME Inv, NEW t \in Texts \cup {Empty}, Type(t) PROVE Inv'
<1>1. /\ Top.kind = "Writing" /\ typed' = [typed EXCEPT ![Top.id] = t]
      /\ UNCHANGED <<sdk, stack, signUps, tried, release, handlers, congratulated,
                     docs, storage, author, dropped>>
  BY DEF Type
<1>2. typed' \in [Screens -> Texts \cup {Empty}]
  BY <1>1, Typed DEF Inv
<1>3. UNCHANGED <<current, completion>>
  BY <1>1 DEF sdk
<1>4. NobodyYet'
  BY <1>1, <1>3 DEF Inv, DeviceInv, NobodyYet
<1>5. StackIsWhole'
  BY <1>1 DEF Inv, DeviceInv, StackIsWhole
<1>6. ReleaseIsOrderly' /\ HandlersAreDone'
  BY <1>1, <1>3, ReleasesKept, HandlersKept
<1>7. stack' \in Seq(Entries)
  BY <1>1, Typed DEF Inv, Entries
<1> QED
  BY <1>1, <1>2, <1>4, <1>5, <1>6, <1>7, Typed, QuietStep DEF Inv

\* Back.
LEMMA TapBackStep == ASSUME Inv, TapBack PROVE Inv'
<1>1. /\ Top.kind \in {"Login", "WritingAdd"} /\ stack' = SubSeq(stack, 1, Len(stack) - 1)
      /\ UNCHANGED <<sdk, typed, signUps, tried, release, handlers, congratulated,
                     docs, storage, author, dropped>>
  BY DEF TapBack
<1>2. stack \in Seq(Entries) /\ stack # <<>> /\ Len(stack) \in Nat /\ stack[1] = Main
  BY TopFacts DEF Inv, DeviceInv, StackIsWhole
<1>3. Len(stack) # 1
  <2>1. Main.kind = "Main"
    BY DEF Main, Screen
  <2> QED
    BY <1>1, <1>2, <2>1 DEF Top
<1>4. PICK n \in Nat : n = Len(stack) - 1 /\ n >= 1
  <2>1. Len(stack) >= 1 /\ Len(stack) \in Nat
    BY <1>2
  <2>2. PICK m \in Nat : m = Len(stack) /\ m >= 1 /\ m # 1
    BY <1>3, <2>1
  <2>3. m - 1 \in Nat /\ m - 1 >= 1
    BY <2>2
  <2> QED
    BY <2>2, <2>3
<1>5. /\ stack' \in Seq(Entries) /\ Len(stack') = n
      /\ \A i \in 1 .. n : stack'[i] = stack[i]
  <2>1. \A i \in 1 .. n : stack[i] \in Entries
    BY <1>2, <1>4
  <2>2. /\ SubSeq(stack, 1, n) \in Seq(Entries)
        /\ Len(SubSeq(stack, 1, n)) = IF 1 <= n THEN n - 1 + 1 ELSE 0
        /\ \A i \in 1 .. n - 1 + 1 : SubSeq(stack, 1, n)[i] = stack[1 + i - 1]
    BY <1>2, <1>4, <2>1, SubSeqProperties
  <2>3. n - 1 + 1 = n /\ \A i \in 1 .. n : 1 + i - 1 = i
    OBVIOUS
  <2> QED
    BY <1>1, <1>4, <2>2, <2>3
<1>6. \A i \in DOMAIN stack' : i \in DOMAIN stack /\ stack'[i] = stack[i]
  BY <1>2, <1>4, <1>5
<1>7. StackIsWhole'
  <2>1. 1 \in DOMAIN stack' /\ stack' # <<>>
    BY <1>4, <1>5
  <2> QED
    BY <1>2, <1>6, <2>1 DEF Inv, DeviceInv, StackIsWhole
<1>8. UNCHANGED <<current, completion>>
  BY <1>1 DEF sdk
<1>9. NobodyYet'
  BY <1>1, <1>6, <1>8 DEF Inv, DeviceInv, NobodyYet
<1>10. ReleaseIsOrderly' /\ HandlersAreDone'
  BY <1>1, <1>8, ReleasesKept, HandlersKept
<1> QED
  BY <1>1, <1>5, <1>7, <1>9, <1>10, Typed, QuietStep DEF Inv

\* Where the app starts.
LEMMA MainFacts == /\ <<Main>> \in Seq(Entries) /\ DOMAIN <<Main>> = {1} /\ <<Main>>[1] = Main
                   /\ <<Main>> # <<>> /\ ScreenIsWhole(Main) /\ Main.kind = "Main"
<1>1. Main \in Entries /\ ScreenIsWhole(Main) /\ Main.kind = "Main"
  BY DEF Main, Screen, Entries, Kinds, ScreenIsWhole
<1> QED
  BY <1>1

\* The Home tab.
LEMMA TapHomeStep == ASSUME Inv, TapHome PROVE Inv'
<1>1. /\ stack' = <<Main>> /\ typed' = [s \in Screens |-> Empty]
      /\ UNCHANGED <<sdk, signUps, tried, release, handlers, congratulated, docs,
                     storage, author, dropped>>
  BY DEF TapHome
<1>2. stack' \in Seq(Entries) /\ StackIsWhole'
  BY <1>1, MainFacts DEF StackIsWhole
<1>3. UNCHANGED <<current, completion>>
  BY <1>1 DEF sdk
<1>4. NobodyYet'
  BY <1>1, <1>3, MainFacts DEF Inv, DeviceInv, NobodyYet
<1>5. ReleaseIsOrderly' /\ HandlersAreDone'
  BY <1>1, <1>3, ReleasesKept, HandlersKept
<1> QED
  BY <1>1, <1>2, <1>4, <1>5, Typed, QuietStep DEF Inv

\* createUser fails.
LEMMA SignUpFailsStep == ASSUME Inv, NEW p \in signUps, SignUpFails(p) PROVE Inv'
<1>1. /\ signUps' = signUps \ {p}
      /\ UNCHANGED <<sdk, stack, typed, tried, release, handlers, congratulated,
                     docs, storage, author, dropped>>
  BY DEF SignUpFails
<1>2. signUps' \subseteq signUps
  BY <1>1
<1>3. UNCHANGED <<current, completion>>
  BY <1>1 DEF sdk
<1>4. NobodyYet'
  BY <1>1, <1>2, <1>3 DEF Inv, DeviceInv, NobodyYet
<1>5. StackIsWhole'
  BY <1>1 DEF Inv, DeviceInv, StackIsWhole
<1>6. ReleaseIsOrderly' /\ HandlersAreDone'
  BY <1>1, <1>3, ReleasesKept, HandlersKept
<1>7. stack' \in Seq(Entries)
  BY <1>1, Typed DEF Inv, Entries
<1> QED
  BY <1>1, <1>2, <1>4, <1>5, <1>6, <1>7, Typed, QuietStep DEF Inv

\* createUser succeeds: by now the account is Firestore's, too, or was signed out.
LEMMA SignUpSucceedsStep ==
  ASSUME Inv, NEW p \in signUps, NEW s \in New, SignUpSucceeds(p, s)
  PROVE  Inv'
<1>1. /\ p.created /\ signUps' = signUps \ {p}
      /\ Push(Screen("Writing", s, None)) \/ UNCHANGED stack
      /\ UNCHANGED <<sdk, typed, tried, release, handlers, congratulated, docs,
                     storage, author, dropped>>
  BY DEF SignUpSucceeds
<1>2. PICK x : x = Screen("Writing", s, None)
  OBVIOUS
<1>3. s \in Screens
  BY DEF New, Fresh
<1>4. x \in Entries /\ ScreenIsWhole(x)
  BY <1>2, <1>3 DEF Screen, Entries, Kinds, ScreenIsWhole
<1>5. stack' \in Seq(Entries) /\ StackIsWhole'
  <2>1. CASE Push(Screen("Writing", s, None))
    BY <1>2, <1>4, <2>1, PushStep
  <2>2. CASE UNCHANGED stack
    BY <2>2, Typed DEF Inv, DeviceInv, StackIsWhole, Entries
  <2> QED
    BY <1>1, <2>1, <2>2
<1>6. signUps' \subseteq signUps /\ UNCHANGED <<current, completion>>
  BY <1>1 DEF sdk
<1>7. NobodyYet'
  BY <1>1, <1>6 DEF Inv, DeviceInv, NobodyYet
<1>8. ReleaseIsOrderly' /\ HandlersAreDone'
  BY <1>1, <1>6, ReleasesKept, HandlersKept
<1> QED
  BY <1>1, <1>5, <1>6, <1>7, <1>8, Typed, QuietStep DEF Inv

\* The picture is in Storage.
LEMMA UploadSucceedsStep == ASSUME Inv, NEW a \in Articles, UploadSucceeds(a) PROVE Inv'
<1>1. /\ release[a].phase = "uploading" /\ storage' = storage \cup {a}
      /\ release' = [release EXCEPT ![a].phase = "uploaded"]
      /\ UNCHANGED <<sdk, stack, typed, signUps, tried, handlers, congratulated, docs,
                     author, dropped>>
  BY DEF UploadSucceeds
<1>2. UNCHANGED <<current, completion>>
  BY <1>1 DEF sdk
<1>3. /\ release' \in [Articles -> [phase : Phases, screen : Screens \cup {None}]]
      /\ release'[a].phase = "uploaded"
      /\ \A b \in Articles : b # a => release'[b] = release[b]
  BY <1>1, Typed DEF Inv, Phases
<1>4. storage \subseteq storage' /\ storage' \subseteq Articles /\ a \in storage'
  BY <1>1, Typed DEF Inv
<1>5. ReleaseIsOrderly'
  BY <1>1, <1>2, <1>3, <1>4 DEF Inv, DeviceInv, ReleaseIsOrderly
<1>6. NobodyYet'
  BY <1>1, <1>2, <1>3 DEF Inv, DeviceInv, NobodyYet
<1>7. HandlersAreDone' /\ StackIsWhole'
  BY <1>1, <1>2 DEF Inv, DeviceInv, HandlersAreDone, StackIsWhole
<1>8. stack' \in Seq(Entries)
  BY <1>1, Typed DEF Inv, Entries
<1> QED
  BY <1>1, <1>3, <1>4, <1>5, <1>6, <1>7, <1>8, Typed, QuietStep DEF Inv

\* The picture is not, or its URL is not to be had.
LEMMA PictureFailsStep == ASSUME Inv, NEW a \in Articles, PictureFails(a) PROVE Inv'
<1>1. /\ release[a].phase \in {"uploading", "uploaded"}
      /\ storage' \in {storage, storage \cup {a}}
      /\ release' = [release EXCEPT ![a] = Over]
      /\ UNCHANGED <<sdk, stack, typed, signUps, tried, handlers, congratulated, docs,
                     author, dropped>>
  BY DEF PictureFails
<1>2. UNCHANGED <<current, completion>>
  BY <1>1 DEF sdk
<1>3. /\ release' \in [Articles -> [phase : Phases, screen : Screens \cup {None}]]
      /\ release'[a].phase = "over"
      /\ \A b \in Articles : b # a => release'[b] = release[b]
  <2>1. Over \in [phase : Phases, screen : Screens \cup {None}] /\ Over.phase = "over"
    BY DEF Over, Chain, Phases
  <2> QED
    BY <1>1, <2>1, Typed DEF Inv
<1>4. storage \subseteq storage' /\ storage' \subseteq Articles
  BY <1>1, Typed DEF Inv
<1>5. ReleaseIsOrderly'
  BY <1>1, <1>2, <1>3, <1>4 DEF Inv, DeviceInv, ReleaseIsOrderly
<1>6. NobodyYet'
  BY <1>1, <1>2, <1>3 DEF Inv, DeviceInv, NobodyYet
<1>7. HandlersAreDone' /\ StackIsWhole'
  BY <1>1, <1>2 DEF Inv, DeviceInv, HandlersAreDone, StackIsWhole
<1>8. stack' \in Seq(Entries)
  BY <1>1, Typed DEF Inv, Entries
<1> QED
  BY <1>1, <1>3, <1>4, <1>5, <1>6, <1>7, <1>8, Typed, QuietStep DEF Inv

\* The success message.
LEMMA MergeSucceededStep == ASSUME Inv, MergeSucceeded PROVE Inv'
<1>1. PICK a : a = Head(handlers)
  OBVIOUS
<1>2. /\ handlers # <<>> /\ handlers' = Tail(handlers)
      /\ congratulated' = congratulated \cup {a}
      /\ release' = [release EXCEPT ![a] = Over]
      /\ Push(Screen("Article", None, a)) \/ UNCHANGED stack
      /\ UNCHANGED <<sdk, typed, signUps, tried, docs, storage, author, dropped>>
  BY <1>1 DEF MergeSucceeded
<1>3. /\ handlers \in Seq(Articles) /\ 1 \in DOMAIN handlers /\ a = handlers[1]
      /\ a \in Articles
  BY <1>1, <1>2, Typed DEF Inv
<1>4. completion[Merge(a)] = "ok"
  BY <1>3 DEF Inv, DeviceInv, HandlersAreDone
<1>5. /\ handlers' \in Seq(Articles)
      /\ \A i \in DOMAIN handlers' : i + 1 \in DOMAIN handlers /\ handlers'[i] = handlers[i + 1]
  BY <1>2, <1>3, TailFacts
<1>6. UNCHANGED <<current, completion>>
  BY <1>2 DEF sdk
<1>7. HandlersAreDone'
  BY <1>2, <1>4, <1>5, <1>6 DEF Inv, DeviceInv, HandlersAreDone
<1>8. PICK x : x = Screen("Article", None, a)
  OBVIOUS
<1>9. x \in Entries /\ ScreenIsWhole(x)
  BY <1>3, <1>8 DEF Screen, Entries, Kinds, ScreenIsWhole
<1>10. stack' \in Seq(Entries) /\ StackIsWhole'
  <2>1. CASE Push(Screen("Article", None, a))
    BY <1>8, <1>9, <2>1, PushStep
  <2>2. CASE UNCHANGED stack
    BY <2>2, Typed DEF Inv, DeviceInv, StackIsWhole, Entries
  <2> QED
    BY <1>2, <2>1, <2>2
<1>11. /\ release' \in [Articles -> [phase : Phases, screen : Screens \cup {None}]]
       /\ release'[a].phase = "over"
       /\ \A b \in Articles : b # a => release'[b] = release[b]
  <2>1. Over \in [phase : Phases, screen : Screens \cup {None}] /\ Over.phase = "over"
    BY DEF Over, Chain, Phases
  <2> QED
    BY <1>2, <1>3, <2>1, Typed DEF Inv
<1>12. release[a].phase # "unused"
  BY <1>3, <1>4 DEF Inv, DeviceInv, ReleaseIsOrderly
<1>13. ReleaseIsOrderly'
  BY <1>2, <1>3, <1>6, <1>11, <1>12 DEF Inv, DeviceInv, ReleaseIsOrderly
<1>14. NobodyYet'
  BY <1>2, <1>6 DEF Inv, DeviceInv, NobodyYet
<1>15. congratulated' \subseteq Articles
  BY <1>2, <1>3, Typed DEF Inv
<1> QED
  BY <1>2, <1>5, <1>7, <1>10, <1>11, <1>13, <1>14, <1>15, Typed, QuietStep DEF Inv

-----------------------------------------------------------------------------
\* The steps that break the connection and leave the queues as they are.

LEMMA ResetStep ==
  ASSUME Inv, Queue!Next, cursor' = 0, current' \in Users,
         UNCHANGED <<queue, author, committed, refused, docs, storage, tried, congratulated>>,
         \A w \in Writes : /\ completion'[w] = "unissued" <=> completion[w] = "unissued"
                           /\ completion'[w] = "ok" <=> completion[w] = "ok",
         stack' \in Seq(Entries), typed' \in [Screens -> Texts \cup {Empty}],
         signUps' \subseteq [login : Screens, account : Accounts, created : BOOLEAN],
         release' \in [Articles -> [phase : Phases, screen : Screens \cup {None}]],
         handlers' \in Seq(Articles), dropped' \in 0 .. MaxDrops, dropped' = 0 => dropped = 0,
         StackIsWhole', ReleaseIsOrderly', HandlersAreDone', NobodyYet'
  PROVE  Inv'
<1>1. QueueProofs!Inv' /\ Queue!TypeOK'
  BY QueueStep
<1>2. TypeOK'
  BY <1>1 DEF Inv, TypeOK, Entries
<1>3. WritesAreKnown' /\ TextGoesFirst'
  BY QueuesKept
<1>4. DocsInv'
  BY DocsKept
<1>5. (dropped = 0 => queue[SignedOut] = <<>>)'
  BY DEF Inv, DeviceInv
<1> QED
  BY <1>1, <1>2, <1>3, <1>4, <1>5 DEF Inv, QueueInv, DeviceInv

\* What is orderly does not depend on who is told.
LEMMA ReleasesReset ==
  ASSUME Inv, UNCHANGED <<release, storage, handlers, congratulated>>,
         \A w \in Writes : /\ completion'[w] = "unissued" <=> completion[w] = "unissued"
                           /\ completion'[w] = "ok" <=> completion[w] = "ok"
  PROVE  ReleaseIsOrderly' /\ HandlersAreDone'
<1>1. ReleaseIsOrderly'
  BY WriteFacts DEF Inv, DeviceInv, ReleaseIsOrderly
<1>2. /\ \A i \in DOMAIN handlers : handlers[i] \in Articles
      /\ congratulated \subseteq Articles
  BY Typed DEF Inv
<1>3. HandlersAreDone'
  BY <1>2, WriteFacts DEF Inv, DeviceInv, HandlersAreDone
<1> QED
  BY <1>1, <1>3

\* A new account is the current one.
LEMMA AuthStateChangedStep == ASSUME Inv, NEW p \in signUps, AuthStateChanged(p) PROVE Inv'
<1>1. /\ Queue!SwitchUser(p.account)
      /\ signUps' = (signUps \ {p}) \cup {[p EXCEPT !.created = TRUE]}
      /\ UNCHANGED <<stack, typed, tried, release, handlers, congratulated, docs,
                     storage, author, dropped>>
  BY DEF AuthStateChanged
<1>2. p \in [login : Screens, account : Accounts, created : BOOLEAN]
  BY Typed DEF Inv
<1>3. p.account \in Accounts /\ p.account \in Users /\ p.account # SignedOut
  BY <1>2, NoneFacts
<1>4. /\ cursor' = 0 /\ current' = p.account
      /\ UNCHANGED <<queue, committed, refused, completion>>
  BY <1>1 DEF Queue!SwitchUser
<1>5. Queue!Next
  BY <1>1, <1>3 DEF Queue!Next
<1>6. [p EXCEPT !.created = TRUE] \in [login : Screens, account : Accounts, created : BOOLEAN]
  BY <1>2
<1>7. signUps' \subseteq [login : Screens, account : Accounts, created : BOOLEAN]
  BY <1>1, <1>6, Typed DEF Inv
<1>8. NobodyYet'
  BY <1>3, <1>4 DEF NobodyYet
<1>9. ReleaseIsOrderly' /\ HandlersAreDone'
  BY <1>1, <1>4, ReleasesReset
<1>10. StackIsWhole'
  BY <1>1 DEF Inv, DeviceInv, StackIsWhole
<1>11. stack' \in Seq(Entries) /\ dropped' \in 0 .. MaxDrops
  BY <1>1, Typed DEF Inv, Entries
<1> QED
  BY <1>1, <1>3, <1>4, <1>5, <1>7, <1>8, <1>9, <1>10, <1>11, Typed, ResetStep DEF Inv

\* Firebase Auth signs the account out.
LEMMA SignedOutByAuthStep == ASSUME Inv, SignedOutByAuth PROVE Inv'
<1>1. /\ Queue!SwitchUser(SignedOut) /\ dropped < MaxDrops /\ dropped' = dropped + 1
      /\ UNCHANGED <<stack, typed, signUps, tried, release, handlers, congratulated, docs,
                     storage, author>>
  BY DEF SignedOutByAuth, device
<1>2. /\ cursor' = 0 /\ current' = SignedOut
      /\ UNCHANGED <<queue, committed, refused, completion>>
  BY <1>1 DEF Queue!SwitchUser
<1>3. Queue!Next /\ current' \in Users
  BY <1>1, <1>2, NoneFacts DEF Queue!Next
<1>4. dropped' \in 0 .. MaxDrops /\ dropped' # 0
  BY <1>1, Typed DEF Inv
<1>5. NobodyYet'
  BY <1>4 DEF NobodyYet
<1>6. ReleaseIsOrderly' /\ HandlersAreDone'
  BY <1>1, <1>2, ReleasesReset
<1>7. StackIsWhole'
  BY <1>1 DEF Inv, DeviceInv, StackIsWhole
<1>8. stack' \in Seq(Entries)
  BY <1>1, Typed DEF Inv, Entries
<1> QED
  BY <1>1, <1>2, <1>3, <1>4, <1>5, <1>6, <1>7, <1>8, Typed, ResetStep DEF Inv

\* The connection breaks.
LEMMA ConnectionBreaksStep == ASSUME Inv, ConnectionBreaks PROVE Inv'
<1>1. /\ Queue!Disconnect
      /\ UNCHANGED <<stack, typed, signUps, tried, release, handlers, congratulated, docs,
                     storage, author, dropped>>
  BY DEF ConnectionBreaks, device
<1>2. cursor' = 0 /\ UNCHANGED <<current, queue, committed, refused, completion>>
  BY <1>1 DEF Queue!Disconnect
<1>3. Queue!Next /\ current' \in Users
  BY <1>1, <1>2, Typed DEF Queue!Next, Inv
<1>4. NobodyYet'
  BY <1>1, <1>2 DEF Inv, DeviceInv, NobodyYet
<1>5. ReleaseIsOrderly' /\ HandlersAreDone'
  BY <1>1, <1>2, ReleasesReset
<1>6. StackIsWhole'
  BY <1>1 DEF Inv, DeviceInv, StackIsWhole
<1>7. stack' \in Seq(Entries) /\ dropped' \in 0 .. MaxDrops
  BY <1>1, Typed DEF Inv, Entries
<1> QED
  BY <1>1, <1>2, <1>3, <1>4, <1>5, <1>6, <1>7, Typed, ResetStep DEF Inv

\* The process dies: closures, screens and texts are gone, queues are not.
LEMMA RestartStep == ASSUME Inv, Restart PROVE Inv'
<1>1. PICK u \in {current} \cup {p.account : p \in {q \in signUps : ~q.created}} :
        Queue!Restart(u)
  BY DEF Restart
<1>2. /\ stack' = <<Main>> /\ typed' = [s \in Screens |-> Empty] /\ signUps' = {}
      /\ release' = [a \in Articles |-> IF release[a].phase \in InFlight
                                        THEN Chain("lost", None) ELSE release[a]]
      /\ handlers' = <<>>
      /\ UNCHANGED <<tried, congratulated, docs, storage, author, dropped>>
  BY DEF Restart
<1>3. /\ cursor' = 0 /\ current' = u
      /\ completion' = [w \in Writes |-> IF completion[w] = "waiting"
                                         THEN "lost" ELSE completion[w]]
      /\ UNCHANGED <<queue, committed, refused>>
  BY <1>1 DEF Queue!Restart
<1>4. u \in Users /\ (u = SignedOut => current = SignedOut)
  <2>1. \A p \in signUps : p.account \in Accounts
    BY Typed DEF Inv
  <2>2. u = current \/ u \in Accounts
    BY <2>1
  <2> QED
    BY <2>2, NoneFacts, Typed DEF Inv
<1>5. Queue!Next
  BY <1>1, <1>4 DEF Queue!Next
<1>6. \A w \in Writes : /\ completion'[w] = "unissued" <=> completion[w] = "unissued"
                        /\ completion'[w] = "ok" <=> completion[w] = "ok"
  BY <1>3
<1>7. /\ release' \in [Articles -> [phase : Phases, screen : Screens \cup {None}]]
      /\ \A a \in Articles : release'[a] = release[a] \/ release'[a].phase = "lost"
      /\ \A a \in Articles : release'[a].phase = "unused" <=> release[a].phase = "unused"
  <2>1. /\ Chain("lost", None) \in [phase : Phases, screen : Screens \cup {None}]
        /\ Chain("lost", None).phase = "lost"
    BY DEF Chain, Phases
  <2>2. release \in [Articles -> [phase : Phases, screen : Screens \cup {None}]]
    BY Typed DEF Inv
  <2> QED
    BY <1>2, <2>1, <2>2 DEF InFlight
<1>8. ReleaseIsOrderly'
  <2>1. ASSUME NEW a \in Articles
        PROVE  /\ release'[a].phase = "unused" =>
                    \A t \in Texts : completion'[Set(a, t)] = "unissued"
               /\ release'[a].phase \in {"unused", "uploading", "uploaded"} =>
                    completion'[Merge(a)] = "unissued"
               /\ release'[a].phase # "unused" =>
                    \E t \in Texts : completion'[Set(a, t)] # "unissued"
               /\ release'[a].phase = "uploaded" => a \in storage'
               /\ completion'[Merge(a)] # "unissued" => a \in storage'
    BY <1>2, <1>6, <1>7, WriteFacts DEF Inv, DeviceInv, ReleaseIsOrderly
  <2> QED
    BY <2>1 DEF ReleaseIsOrderly
<1>9. HandlersAreDone'
  <2>1. congratulated \subseteq Articles
    BY Typed DEF Inv
  <2>2. \A a \in congratulated' : completion'[Merge(a)] = "ok"
    BY <1>2, <1>6, <2>1, WriteFacts DEF Inv, DeviceInv, HandlersAreDone
  <2>3. DOMAIN handlers' = {}
    BY <1>2
  <2> QED
    BY <2>2, <2>3 DEF HandlersAreDone
<1>10. NobodyYet'
  BY <1>2, <1>3, <1>4, <1>7, MainFacts DEF Inv, DeviceInv, NobodyYet
<1>11. stack' \in Seq(Entries) /\ StackIsWhole'
  BY <1>2, MainFacts DEF StackIsWhole
<1>12. /\ handlers' \in Seq(Articles) /\ typed' \in [Screens -> Texts \cup {Empty}]
       /\ signUps' \subseteq [login : Screens, account : Accounts, created : BOOLEAN]
       /\ dropped' \in 0 .. MaxDrops
  BY <1>2, Typed DEF Inv
<1> QED
  BY <1>2, <1>3, <1>4, <1>5, <1>6, <1>7, <1>8, <1>9, <1>10, <1>11, <1>12, ResetStep

-----------------------------------------------------------------------------
\* The app writes.

\* A write goes behind all others of the account.
LEMMA IssueFacts ==
  ASSUME Inv, NEW w \in Writes, Queue!Issue(w), author' = [author EXCEPT ![w] = current]
  PROVE  /\ QueueProofs!Inv' /\ Queue!TypeOK'
         /\ author' \in [Writes -> Users \cup {None}]
         /\ UNCHANGED <<current, cursor, committed, refused>>
         /\ completion[w] = "unissued" /\ completion'[w] = "waiting" /\ author'[w] = current
         /\ \A x \in Writes \ {w} : completion'[x] = completion[x] /\ author'[x] = author[x]
         /\ \A v \in Users \ {current} : queue'[v] = queue[v]
         /\ \A i \in DOMAIN queue[current] :
              i \in DOMAIN queue'[current] /\ queue'[current][i] = queue[current][i]
         /\ \E n \in DOMAIN queue'[current] :
              /\ queue'[current][n] = w /\ n \in Nat
              /\ \A i \in DOMAIN queue[current] : i \in Nat /\ i < n
              /\ \A i \in DOMAIN queue'[current] : i = n \/ i \in DOMAIN queue[current]
         /\ \A x : Pending(x)' <=> Pending(x) \/ x = w
<1>1. QueueProofs!Inv' /\ Queue!TypeOK'
  BY QueueStep DEF Queue!Next
<1>2. /\ completion[w] = "unissued"
      /\ queue' = [queue EXCEPT ![current] = Append(@, w)]
      /\ completion' = [completion EXCEPT ![w] = "waiting"]
      /\ UNCHANGED <<current, cursor, committed, refused>>
  BY DEF Queue!Issue
<1>3. /\ current \in Users /\ queue \in [Users -> Seq(Writes)]
      /\ completion \in [Writes -> Queue!CompletionState]
      /\ author \in [Writes -> Users \cup {None}]
  BY Typed DEF Inv
<1>4. /\ completion'[w] = "waiting" /\ author'[w] = current
      /\ \A x \in Writes \ {w} : completion'[x] = completion[x] /\ author'[x] = author[x]
      /\ author' \in [Writes -> Users \cup {None}]
  BY <1>2, <1>3
<1>5. \A v \in Users \ {current} : queue'[v] = queue[v]
  BY <1>2, <1>3
<1>6. /\ Len(queue[current]) \in Nat
      /\ DOMAIN queue[current] = 1 .. Len(queue[current])
      /\ DOMAIN queue'[current] = 1 .. Len(queue[current]) + 1
      /\ \A i \in DOMAIN queue[current] : queue'[current][i] = queue[current][i]
      /\ queue'[current][Len(queue[current]) + 1] = w
  <2>1. queue'[current] = Append(queue[current], w) /\ queue[current] \in Seq(Writes)
    BY <1>2, <1>3
  <2> QED
    BY <2>1, AppendFacts
<1>7. PICK n : n = Len(queue[current]) + 1
  OBVIOUS
<1>8. /\ n \in Nat /\ n \in DOMAIN queue'[current]
      /\ \A i \in DOMAIN queue'[current] : i = n \/ i \in DOMAIN queue[current]
      /\ \A i \in DOMAIN queue[current] : i \in Nat /\ i < n /\ i \in DOMAIN queue'[current]
      /\ queue'[current][n] = w
  BY <1>6, <1>7
<1>9. \A x : Pending(x)' <=> Pending(x) \/ x = w
  <2>1. ASSUME NEW x, Pending(x)'
        PROVE  Pending(x) \/ x = w
    BY <1>3, <1>5, <1>6, <1>8, <2>1 DEF Pending
  <2>2. ASSUME NEW x, Pending(x)
        PROVE  Pending(x)'
    BY <1>3, <1>5, <1>6, <1>8, <2>2 DEF Pending
  <2>3. Pending(w)'
    BY <1>3, <1>8 DEF Pending
  <2> QED
    BY <2>1, <2>2, <2>3
<1> QED
  BY <1>1, <1>2, <1>4, <1>5, <1>6, <1>8, <1>9

\* What has been written is known.
LEMMA IssueKnown ==
  ASSUME Inv, NEW w \in Writes, Queue!Issue(w), author' = [author EXCEPT ![w] = current]
  PROVE  WritesAreKnown'
<1>1. /\ UNCHANGED <<current, committed, refused>>
      /\ completion[w] = "unissued" /\ completion'[w] = "waiting" /\ author'[w] = current
      /\ \A x \in Writes \ {w} : completion'[x] = completion[x] /\ author'[x] = author[x]
      /\ \A v \in Users \ {current} : queue'[v] = queue[v]
      /\ \A i \in DOMAIN queue[current] :
           i \in DOMAIN queue'[current] /\ queue'[current][i] = queue[current][i]
      /\ \A x : Pending(x)' <=> Pending(x) \/ x = w
  BY IssueFacts
<1>2. PICK n \in DOMAIN queue'[current] :
        /\ queue'[current][n] = w
        /\ \A i \in DOMAIN queue'[current] : i = n \/ i \in DOMAIN queue[current]
  BY IssueFacts
<1>3. /\ \A x \in Writes : author[x] = None <=> completion[x] = "unissued"
      /\ \A u \in Users : \A i \in DOMAIN queue[u] : author[queue[u][i]] = u
      /\ \A x \in Writes : completion[x] = "unissued" \/ Pending(x) \/ x \in committed \/ x \in refused
      /\ \A x \in refused : ~Pending(x) /\ completion[x] \notin {"unissued", "ok"}
      /\ \A x \in Writes : completion[x] = "ok" => ~Pending(x)
  BY DEF Inv, QueueInv, WritesAreKnown
<1>4. /\ current \in Users /\ queue \in [Users -> Seq(Writes)] /\ refused \subseteq Writes
      /\ current # None
  BY Typed, NoneFacts DEF Inv
<1>5. \A u \in Users : \A i \in DOMAIN queue[u] : queue[u][i] \in Writes /\ queue[u][i] # w
  <2>1. ~Pending(w)
    BY <1>1, QueueFacts DEF Inv, QueueInv
  <2>2. \A u \in Users : \A i \in DOMAIN queue[u] : queue[u][i] \in Writes
    BY <1>4
  <2> QED
    BY <2>1, <2>2 DEF Pending
<1>6. \A x \in Writes : author'[x] = None <=> completion'[x] = "unissued"
  BY <1>1, <1>3, <1>4
<1>7. ASSUME NEW u \in Users, NEW i \in DOMAIN queue'[u]
      PROVE  author'[queue'[u][i]] = u
  <2>1. CASE u = current /\ i = n
    BY <1>1, <1>2, <2>1
  <2>2. CASE u # current \/ i # n
    <3>1. i \in DOMAIN queue[u] /\ queue'[u][i] = queue[u][i]
      BY <1>1, <1>2, <1>7, <2>2
    <3> QED
      BY <1>1, <1>3, <1>5, <3>1
  <2> QED
    BY <2>1, <2>2
<1>8. \A x \in Writes : completion'[x] = "unissued" \/ Pending(x)' \/ x \in committed' \/ x \in refused'
  BY <1>1, <1>3
<1>9. \A x \in refused' : ~Pending(x)' /\ completion'[x] \notin {"unissued", "ok"}
  BY <1>1, <1>3, <1>4
<1>10. \A x \in Writes : completion'[x] = "ok" => ~Pending(x)'
  BY <1>1, <1>3
<1> QED
  BY <1>6, <1>7, <1>8, <1>9, <1>10 DEF WritesAreKnown

\* The picture is written after the text.
LEMMA IssueOrder ==
  ASSUME Inv, NEW w \in Writes, Queue!Issue(w), author' = [author EXCEPT ![w] = current],
         w.kind = "set" => completion[Merge(w.article)] = "unissued"
  PROVE  TextGoesFirst'
<1>1. /\ UNCHANGED current /\ author'[w] = current
      /\ \A x \in Writes \ {w} : author'[x] = author[x]
      /\ \A v \in Users \ {current} : queue'[v] = queue[v]
      /\ \A i \in DOMAIN queue[current] :
           i \in DOMAIN queue'[current] /\ queue'[current][i] = queue[current][i]
      /\ \A x : Pending(x)' <=> Pending(x) \/ x = w
  BY IssueFacts
<1>2. PICK n \in DOMAIN queue'[current] :
        /\ queue'[current][n] = w /\ n \in Nat
        /\ \A i \in DOMAIN queue[current] : i \in Nat /\ i < n
        /\ \A i \in DOMAIN queue'[current] : i = n \/ i \in DOMAIN queue[current]
  BY IssueFacts
<1>3. current \in Users /\ current # None
  BY Typed, NoneFacts DEF Inv
<1>4. ASSUME NEW a \in Articles, NEW t \in Texts
      PROVE  /\ \A u \in Users : \A i, j \in DOMAIN queue'[u] :
                  queue'[u][i] = Set(a, t) /\ queue'[u][j] = Merge(a) => i < j
             /\ Pending(Set(a, t))' /\ author'[Set(a, t)] = author'[Merge(a)] => Pending(Merge(a))'
  <2>1. /\ Set(a, t) \in Writes /\ Merge(a) \in Writes /\ Set(a, t) # Merge(a)
        /\ Set(a, t).kind = "set" /\ Set(a, t).article = a
    BY WriteFacts
  <2>2. /\ \A u \in Users : \A i, j \in DOMAIN queue[u] :
             queue[u][i] = Set(a, t) /\ queue[u][j] = Merge(a) => i < j
        /\ Pending(Set(a, t)) /\ author[Set(a, t)] = author[Merge(a)] => Pending(Merge(a))
    BY DEF Inv, QueueInv, TextGoesFirst
  <2>3. w = Set(a, t) => author[Merge(a)] = None /\ ~Pending(Merge(a))
    BY <2>1, QueueFacts DEF Inv, QueueInv, WritesAreKnown
  <2>4. ASSUME NEW u \in Users, NEW i \in DOMAIN queue'[u], NEW j \in DOMAIN queue'[u],
               queue'[u][i] = Set(a, t), queue'[u][j] = Merge(a)
        PROVE  i < j
    <3>1. CASE u # current
      BY <1>1, <2>2, <2>4, <3>1
    <3>2. CASE u = current /\ w = Set(a, t)
      <4>1. j # n
        BY <1>2, <2>1, <2>4, <3>2
      <4>2. j \in DOMAIN queue[current] /\ queue[current][j] = Merge(a)
        BY <1>1, <1>2, <2>4, <3>2, <4>1
      <4> QED
        BY <1>3, <2>3, <3>2, <4>2 DEF Pending
    <3>3. CASE u = current /\ w # Set(a, t)
      <4>1. i \in DOMAIN queue[current] /\ queue[current][i] = Set(a, t)
        BY <1>1, <1>2, <2>4, <3>3
      <4>2. CASE j = n
        BY <1>2, <4>1, <4>2
      <4>3. CASE j # n
        <5>1. j \in DOMAIN queue[current] /\ queue[current][j] = Merge(a)
          BY <1>1, <1>2, <2>4, <3>3, <4>3
        <5> QED
          BY <1>3, <2>2, <3>3, <4>1, <5>1
      <4> QED
        BY <4>2, <4>3
    <3> QED
      BY <3>1, <3>2, <3>3
  <2>5. ASSUME Pending(Set(a, t))', author'[Set(a, t)] = author'[Merge(a)]
        PROVE  Pending(Merge(a))'
    <3>1. CASE w = Merge(a)
      BY <1>1, <3>1
    <3>2. CASE w = Set(a, t)
      BY <1>1, <1>3, <2>1, <2>3, <2>5, <3>2
    <3>3. CASE w # Merge(a) /\ w # Set(a, t)
      BY <1>1, <2>1, <2>2, <2>5, <3>3
    <3> QED
      BY <3>1, <3>2, <3>3
  <2> QED
    BY <2>4, <2>5
<1> QED
  BY <1>4 DEF TextGoesFirst

\* The documents do not change, nor what is said about committed pictures.
LEMMA IssueDocs ==
  ASSUME Inv, NEW w \in Writes, Queue!Issue(w), author' = [author EXCEPT ![w] = current],
         w.kind = "set" => completion[Merge(w.article)] = "unissued",
         UNCHANGED <<docs, storage>>
  PROVE  DocsInv'
<1>1. /\ UNCHANGED <<current, cursor, committed, refused>>
      /\ completion[w] = "unissued"
      /\ \A x \in Writes \ {w} : author'[x] = author[x]
      /\ \A i \in DOMAIN queue[current] : queue'[current][i] = queue[current][i]
      /\ \A x : Pending(x)' <=> Pending(x) \/ x = w
  BY IssueFacts
<1>2. NoDanglingPicture'
  BY DEF Inv, DocsInv, NoDanglingPicture
<1>3. DocsAreEarned'
  BY <1>1 DEF Inv, DocsInv, DocsAreEarned
<1>4. ServedIsThere'
  <2>1. 1 .. cursor \subseteq DOMAIN queue[current]
    <3>1. /\ queue[current] \in Seq(Writes) /\ cursor \in Nat /\ cursor <= Len(queue[current])
          /\ Len(queue[current]) \in Nat
      BY Typed DEF Inv
    <3> QED
      BY <3>1
  <2> QED
    BY <1>1, <2>1 DEF Inv, DocsInv, ServedIsThere
<1>5. ASSUME NEW a \in Articles, Merge(a) \in committed, SameAuthor(a)'
      PROVE  SameAuthor(a)
  <2>1. completion[Merge(a)] # "unissued" /\ Merge(a) # w
    BY <1>1, <1>5, WriteFacts, QueueFacts DEF Inv, QueueInv
  <2>2. \A t \in Texts : Set(a, t) # w
    BY <2>1, WriteFacts
  <2> QED
    BY <1>1, <1>5, <2>1, <2>2, WriteFacts DEF SameAuthor
<1>6. PictureFollowsText'
  BY <1>1, <1>5 DEF Inv, DocsInv, PictureFollowsText
<1>7. PictureLossIsTransient'
  BY <1>1, <1>5 DEF Inv, DocsInv, PictureLossIsTransient
<1> QED
  BY <1>2, <1>3, <1>4, <1>6, <1>7 DEF DocsInv

\* The two writes have all of this in common.
LEMMA IssueStep ==
  ASSUME Inv, NEW w \in Writes, Queue!Issue(w), author' = [author EXCEPT ![w] = current],
         w.kind = "set" => completion[Merge(w.article)] = "unissued",
         ~(dropped = 0 /\ current = SignedOut),
         UNCHANGED <<stack, typed, signUps, tried, handlers, congratulated, docs, storage, dropped>>,
         release' \in [Articles -> [phase : Phases, screen : Screens \cup {None}]],
         ReleaseIsOrderly'
  PROVE  Inv'
<1>1. /\ QueueProofs!Inv' /\ Queue!TypeOK'
      /\ author' \in [Writes -> Users \cup {None}]
      /\ UNCHANGED current /\ completion[w] = "unissued"
      /\ \A x \in Writes \ {w} : completion'[x] = completion[x]
      /\ \A v \in Users \ {current} : queue'[v] = queue[v]
  BY IssueFacts
<1>2. TypeOK
  BY DEF Inv
<1>3. TypeOK'
  BY <1>1, <1>2 DEF TypeOK
<1>4. QueueInv'
  BY <1>1, IssueKnown, IssueOrder DEF QueueInv
<1>5. DocsInv'
  BY IssueDocs
<1>6. StackIsWhole' /\ NobodyYet'
  BY <1>1 DEF Inv, DeviceInv, StackIsWhole, NobodyYet
<1>7. HandlersAreDone'
  <2>1. ASSUME NEW a \in Articles, completion[Merge(a)] = "ok"
        PROVE  completion'[Merge(a)] = "ok"
    <3>1. Merge(a) # w /\ Merge(a) \in Writes
      BY <1>1, <2>1, WriteFacts
    <3> QED
      BY <1>1, <2>1, <3>1
  <2>2. /\ \A i \in DOMAIN handlers : handlers[i] \in Articles
        /\ congratulated \subseteq Articles
    BY <1>2, Typed
  <2> QED
    BY <2>1, <2>2 DEF Inv, DeviceInv, HandlersAreDone
<1>8. (dropped = 0 => queue[SignedOut] = <<>>)'
  BY <1>1, NoneFacts DEF Inv, DeviceInv
<1> QED
  BY <1>3, <1>4, <1>5, <1>6, <1>7, <1>8 DEF Inv, DeviceInv

\* The release button.
LEMMA TapReleaseStep == ASSUME Inv, NEW a \in Articles, TapRelease(a) PROVE Inv'
<1>1. PICK w : w = Set(a, typed[Top.ref])
  OBVIOUS
<1>2. /\ Top.kind = "WritingAdd" /\ typed[Top.ref] # Empty /\ release[a].phase = "unused"
      /\ Queue!Issue(w) /\ author' = [author EXCEPT ![w] = current]
      /\ UNCHANGED <<stack, typed, signUps, tried, handlers, congratulated, docs, storage, dropped>>
  BY <1>1 DEF TapRelease
<1>3. PICK chain \in {Chain("uploading", Top.id), Over} : release' = [release EXCEPT ![a] = chain]
  BY DEF TapRelease
<1>4. Top.ref \in Screens /\ Top.id \in Screens
  BY <1>2, TopFacts DEF ScreenIsWhole
<1>5. typed[Top.ref] \in Texts
  BY <1>2, <1>4, Typed DEF Inv
<1>6. w \in Writes /\ w.kind = "set" /\ w.article = a
  BY <1>1, <1>5, WriteFacts
<1>7. /\ completion[Merge(a)] = "unissued" /\ \A t \in Texts : completion[Set(a, t)] = "unissued"
  BY <1>2 DEF Inv, DeviceInv, ReleaseIsOrderly
<1>8. ~(dropped = 0 /\ current = SignedOut)
  BY <1>2, NobodyTaps
<1>9. /\ chain \in [phase : Phases, screen : Screens \cup {None}]
      /\ chain.phase \in {"uploading", "over"}
  BY <1>3, <1>4 DEF Chain, Over, Phases
<1>10. /\ release' \in [Articles -> [phase : Phases, screen : Screens \cup {None}]]
       /\ release'[a] = chain
       /\ \A b \in Articles : b # a => release'[b] = release[b]
  BY <1>3, <1>9, Typed DEF Inv
<1>11. completion'[w] = "waiting" /\ \A x \in Writes \ {w} : completion'[x] = completion[x]
  BY <1>2, <1>6, IssueFacts
<1>12. ReleaseIsOrderly'
  <2>1. ASSUME NEW b \in Articles
        PROVE  /\ release'[b].phase = "unused" =>
                    \A t \in Texts : completion'[Set(b, t)] = "unissued"
               /\ release'[b].phase \in {"unused", "uploading", "uploaded"} =>
                    completion'[Merge(b)] = "unissued"
               /\ release'[b].phase # "unused" =>
                    \E t \in Texts : completion'[Set(b, t)] # "unissued"
               /\ release'[b].phase = "uploaded" => b \in storage'
               /\ completion'[Merge(b)] # "unissued" => b \in storage'
    <3>1. /\ release[b].phase = "unused" => \A t \in Texts : completion[Set(b, t)] = "unissued"
          /\ release[b].phase \in {"unused", "uploading", "uploaded"} =>
               completion[Merge(b)] = "unissued"
          /\ release[b].phase # "unused" => \E t \in Texts : completion[Set(b, t)] # "unissued"
          /\ release[b].phase = "uploaded" => b \in storage
          /\ completion[Merge(b)] # "unissued" => b \in storage
      BY DEF Inv, DeviceInv, ReleaseIsOrderly
    <3>2. Merge(b) \in Writes \ {w} /\ completion'[Merge(b)] = completion[Merge(b)]
      BY <1>6, <1>11, WriteFacts
    <3>3. CASE b = a
      <4>1. completion'[Set(a, typed[Top.ref])] # "unissued"
        BY <1>1, <1>11
      <4> QED
        BY <1>2, <1>5, <1>7, <1>9, <1>10, <3>1, <3>2, <3>3, <4>1
    <3>4. CASE b # a
      <4>1. \A t \in Texts : completion'[Set(b, t)] = completion[Set(b, t)]
        BY <1>6, <1>11, <3>4, WriteFacts
      <4> QED
        BY <1>2, <1>10, <3>1, <3>2, <3>4, <4>1
    <3> QED
      BY <3>3, <3>4
  <2> QED
    BY <2>1 DEF ReleaseIsOrderly
<1> QED
  BY <1>2, <1>6, <1>7, <1>8, <1>10, <1>12, IssueStep

\* The picture's URL goes into the document.
LEMMA GotDownloadURLStep == ASSUME Inv, NEW a \in Articles, GotDownloadURL(a) PROVE Inv'
<1>1. PICK w : w = Merge(a)
  OBVIOUS
<1>2. /\ release[a].phase = "uploaded"
      /\ Queue!Issue(w) /\ author' = [author EXCEPT ![w] = current]
      /\ release' = [release EXCEPT ![a].phase = "merging"]
      /\ UNCHANGED <<stack, typed, signUps, tried, handlers, congratulated, docs, storage, dropped>>
  BY <1>1 DEF GotDownloadURL
<1>3. w \in Writes /\ w.kind = "merge" /\ w.article = a
  BY <1>1, WriteFacts
<1>4. ~(dropped = 0 /\ current = SignedOut)
  BY <1>2 DEF Inv, DeviceInv, NobodyYet
<1>5. /\ release' \in [Articles -> [phase : Phases, screen : Screens \cup {None}]]
      /\ release'[a].phase = "merging"
      /\ \A b \in Articles : b # a => release'[b] = release[b]
  BY <1>2, Typed DEF Inv, Phases
<1>6. completion'[w] = "waiting" /\ \A x \in Writes \ {w} : completion'[x] = completion[x]
  BY <1>2, <1>3, IssueFacts
<1>7. ReleaseIsOrderly'
  <2>1. ASSUME NEW b \in Articles
        PROVE  /\ release'[b].phase = "unused" =>
                    \A t \in Texts : completion'[Set(b, t)] = "unissued"
               /\ release'[b].phase \in {"unused", "uploading", "uploaded"} =>
                    completion'[Merge(b)] = "unissued"
               /\ release'[b].phase # "unused" =>
                    \E t \in Texts : completion'[Set(b, t)] # "unissued"
               /\ release'[b].phase = "uploaded" => b \in storage'
               /\ completion'[Merge(b)] # "unissued" => b \in storage'
    <3>1. /\ release[b].phase = "unused" => \A t \in Texts : completion[Set(b, t)] = "unissued"
          /\ release[b].phase \in {"unused", "uploading", "uploaded"} =>
               completion[Merge(b)] = "unissued"
          /\ release[b].phase # "unused" => \E t \in Texts : completion[Set(b, t)] # "unissued"
          /\ release[b].phase = "uploaded" => b \in storage
          /\ completion[Merge(b)] # "unissued" => b \in storage
      BY DEF Inv, DeviceInv, ReleaseIsOrderly
    <3>2. \A t \in Texts : completion'[Set(b, t)] = completion[Set(b, t)]
      BY <1>1, <1>6, WriteFacts
    <3>3. CASE b = a
      BY <1>2, <1>5, <3>1, <3>2, <3>3
    <3>4. CASE b # a
      <4>1. completion'[Merge(b)] = completion[Merge(b)]
        BY <1>3, <1>6, <3>4, WriteFacts
      <4> QED
        BY <1>2, <1>5, <3>1, <3>2, <3>4, <4>1
    <3> QED
      BY <3>3, <3>4
  <2> QED
    BY <2>1 DEF ReleaseIsOrderly
<1> QED
  BY <1>2, <1>3, <1>4, <1>5, <1>7, IssueStep

-----------------------------------------------------------------------------
\* The server commits.

\* What the server makes of a write.
LEMMA AppliedFacts ==
  ASSUME TypeOK, NEW w \in Writes, docs' = Applied(w)
  PROVE  /\ docs' \in [Articles -> [text : Texts \cup {None}, imageURL : Articles \cup {None}]]
         /\ \A a \in Articles : a # w.article => docs'[a] = docs[a]
         /\ w.kind = "set" => docs'[w.article].text = w.text /\ docs'[w.article].imageURL = None
         /\ w.kind # "set" => /\ docs'[w.article].text = docs[w.article].text
                              /\ docs'[w.article].imageURL = w.article
<1>1. PICK a \in Articles : a = w.article
  BY WriteFacts
<1>2. docs \in [Articles -> [text : Texts \cup {None}, imageURL : Articles \cup {None}]]
  BY Typed
<1>3. CASE w.kind = "set"
  <2>1. docs' = [docs EXCEPT ![a] = [text |-> w.text, imageURL |-> None]] /\ w.text \in Texts
    BY <1>1, <1>3, WriteFacts DEF Applied
  <2> QED
    BY <1>1, <1>2, <1>3, <2>1
<1>4. CASE w.kind # "set"
  <2>1. docs' = [docs EXCEPT ![a].imageURL = a]
    BY <1>1, <1>4 DEF Applied
  <2> QED
    BY <1>1, <1>2, <1>4, <2>1
<1> QED
  BY <1>3, <1>4

\* The write the server commits is the next of the current account.
LEMMA CommitFacts ==
  ASSUME Inv, Queue!Commit
  PROVE  \E w \in Writes :
           /\ w = queue[current][cursor + 1] /\ cursor + 1 \in DOMAIN queue[current]
           /\ Pending(w) /\ author[w] = current /\ completion[w] # "unissued"
           /\ committed' = committed \cup {w}
           /\ cursor' = cursor + 1 /\ cursor \in Nat
           /\ UNCHANGED <<current, queue, refused, completion>>
<1>1. PICK w : w = queue[current][cursor + 1]
  OBVIOUS
<1>2. /\ current \in Users /\ queue \in [Users -> Seq(Writes)] /\ cursor \in Nat
      /\ queue[current] \in Seq(Writes)
  BY Typed DEF Inv
<1>3. cursor + 1 \in DOMAIN queue[current] /\ w \in Writes
  <2>1. PICK s \in Seq(Writes) : s = queue[current]
    BY <1>2
  <2>2. cursor < Len(s) /\ Len(s) \in Nat
    BY <2>1 DEF Queue!Commit
  <2>3. cursor + 1 \in DOMAIN s
    BY <1>2, <2>2
  <2> QED
    BY <1>1, <2>1, <2>3
<1>4. Pending(w) /\ author[w] = current
  BY <1>1, <1>2, <1>3 DEF Pending, Inv, QueueInv, WritesAreKnown
<1>5. completion[w] # "unissued"
  BY <1>3, <1>4, QueueFacts DEF Inv, QueueInv
<1> QED
  BY <1>1, <1>2, <1>3, <1>4, <1>5 DEF Queue!Commit

\* The first text of a picture that is committed now has been committed or
\* refused: it was written before by the same account, if the picture was.
LEMMA TextWasFirst ==
  ASSUME Inv, NEW a \in Articles, cursor + 1 \in DOMAIN queue[current],
         queue[current][cursor + 1] = Merge(a), SameAuthor(a)
  PROVE  \E t \in Texts : Set(a, t) \in committed \cup refused
<1>1. /\ current \in Users /\ queue \in [Users -> Seq(Writes)] /\ cursor \in Nat
      /\ Merge(a) \in Writes
  BY Typed, WriteFacts DEF Inv
<1>2. Pending(Merge(a)) /\ author[Merge(a)] = current
  BY <1>1 DEF Pending, Inv, QueueInv, WritesAreKnown
<1>3. completion[Merge(a)] # "unissued"
  BY <1>1, <1>2, QueueFacts DEF Inv, QueueInv
<1>4. PICK t \in Texts : completion[Set(a, t)] # "unissued"
  BY <1>3 DEF Inv, DeviceInv, ReleaseIsOrderly
<1>5. Set(a, t) \in Writes
  BY WriteFacts
<1>6. author[Set(a, t)] = current
  <2>1. author[Set(a, t)] # None
    BY <1>4, <1>5 DEF Inv, QueueInv, WritesAreKnown
  <2> QED
    BY <1>2, <2>1 DEF SameAuthor
<1>7. ASSUME Pending(Set(a, t))
      PROVE  Set(a, t) \in committed
  <2>1. PICK u \in Users : \E i \in DOMAIN queue[u] : queue[u][i] = Set(a, t)
    BY <1>7 DEF Pending
  <2>2. PICK i \in DOMAIN queue[u] : queue[u][i] = Set(a, t)
    BY <2>1
  <2>3. u = current
    BY <1>6, <2>2 DEF Inv, QueueInv, WritesAreKnown
  <2>4. i < cursor + 1
    BY <1>1, <2>2, <2>3 DEF Inv, QueueInv, TextGoesFirst
  <2>5. i \in Nat /\ i >= 1
    <3>1. queue[current] \in Seq(Writes)
      BY <1>1
    <3> QED
      BY <2>2, <2>3, <3>1
  <2>6. i \in 1 .. cursor
    BY <1>1, <2>4, <2>5
  <2> QED
    BY <2>2, <2>3, <2>6, QueueFacts DEF Inv, QueueInv
<1>8. completion[Set(a, t)] = "unissued" \/ Pending(Set(a, t))
        \/ Set(a, t) \in committed \/ Set(a, t) \in refused
  BY <1>5 DEF Inv, QueueInv, WritesAreKnown
<1> QED
  BY <1>4, <1>7, <1>8

\* The documents after a commit.
LEMMA DocsAfterCommit ==
  ASSUME Inv, Queue!Commit, docs' = Applied(queue[current][cursor + 1]),
         UNCHANGED <<storage, author>>
  PROVE  DocsInv'
<1>1. PICK w \in Writes :
           /\ w = queue[current][cursor + 1] /\ cursor + 1 \in DOMAIN queue[current]
           /\ Pending(w) /\ author[w] = current /\ completion[w] # "unissued"
           /\ committed' = committed \cup {w}
           /\ cursor' = cursor + 1 /\ cursor \in Nat
           /\ UNCHANGED <<current, queue, refused, completion>>
  BY CommitFacts
<1>2. TypeOK
  BY DEF Inv
<1>3. /\ \A a \in Articles : a # w.article => docs'[a] = docs[a]
      /\ w.kind = "set" => docs'[w.article].text = w.text /\ docs'[w.article].imageURL = None
      /\ w.kind # "set" => /\ docs'[w.article].text = docs[w.article].text
                           /\ docs'[w.article].imageURL = w.article
  BY <1>1, <1>2, AppliedFacts
<1>4. /\ w.article \in Articles
      /\ w.kind = "set" => w.text \in Texts /\ w = Set(w.article, w.text)
      /\ w.kind # "set" => w = Merge(w.article)
      /\ \A a \in Articles : w = Merge(a) => a = w.article /\ w.kind # "set"
      /\ \A a \in Articles : \A t \in Texts : w = Set(a, t) => a = w.article /\ w.kind = "set"
  BY WriteFacts
<1>5. current \in Users /\ queue \in [Users -> Seq(Writes)]
  BY <1>2, Typed
<1>6. NoDanglingPicture'
  <2>1. ASSUME NEW a \in Articles
        PROVE  docs'[a].imageURL \in {None} \cup ({a} \cap storage)
    <3>1. docs[a].imageURL \in {None} \cup ({a} \cap storage)
      BY DEF Inv, DocsInv, NoDanglingPicture
    <3>2. CASE a # w.article
      BY <1>3, <3>1, <3>2
    <3>3. CASE a = w.article /\ w.kind = "set"
      BY <1>3, <3>3
    <3>4. CASE a = w.article /\ w.kind # "set"
      <4>1. a \in storage
        BY <1>1, <1>4, <3>4 DEF Inv, DeviceInv, ReleaseIsOrderly
      <4> QED
        BY <1>3, <3>4, <4>1
    <3> QED
      BY <3>2, <3>3, <3>4
  <2> QED
    BY <2>1 DEF NoDanglingPicture
<1>7. DocsAreEarned'
  <2>1. ASSUME NEW a \in Articles
        PROVE  /\ docs'[a].imageURL # None => Merge(a) \in committed'
               /\ (\E t \in Texts : Set(a, t) \in committed') => docs'[a].text # None
    <3>1. /\ docs[a].imageURL # None => Merge(a) \in committed
          /\ (\E t \in Texts : Set(a, t) \in committed) => docs[a].text # None
      BY DEF Inv, DocsInv, DocsAreEarned
    <3>2. CASE a # w.article
      BY <1>1, <1>3, <1>4, <3>1, <3>2
    <3>3. CASE a = w.article /\ w.kind = "set"
      BY <1>3, <1>4, <3>3, NoneFacts
    <3>4. CASE a = w.article /\ w.kind # "set"
      BY <1>1, <1>3, <1>4, <3>1, <3>4
    <3> QED
      BY <3>2, <3>3, <3>4
  <2> QED
    BY <2>1 DEF DocsAreEarned
<1>8. ServedIsThere'
  <2>1. ASSUME NEW a \in Articles, NEW i \in 1 .. cursor + 1, queue[current][i] = Merge(a)
        PROVE  docs'[a].imageURL = a
    <3>1. CASE i = cursor + 1
      BY <1>1, <1>3, <1>4, <2>1, <3>1
    <3>2. CASE i # cursor + 1
      <4>1. i \in 1 .. cursor
        BY <1>1, <2>1, <3>2
      <4>2. docs[a].imageURL = a
        BY <2>1, <4>1 DEF Inv, DocsInv, ServedIsThere
      <4>3. ASSUME a = w.article, w.kind = "set"
            PROVE  FALSE
        <5>1. i \in DOMAIN queue[current]
          <6>1. PICK s \in Seq(Writes) : s = queue[current]
            BY <1>5
          <6>2. cursor + 1 <= Len(s) /\ Len(s) \in Nat
            BY <1>1, <6>1
          <6> QED
            BY <1>1, <2>1, <6>1, <6>2
        <5>2. cursor + 1 < i
          BY <1>1, <1>4, <1>5, <2>1, <4>3, <5>1 DEF Inv, QueueInv, TextGoesFirst
        <5> QED
          BY <1>1, <4>1, <5>2
      <4> QED
        BY <1>3, <4>2, <4>3
    <3> QED
      BY <3>1, <3>2
  <2> QED
    BY <1>1, <2>1 DEF ServedIsThere
<1>9. \A a \in Articles : SameAuthor(a)' <=> SameAuthor(a)
  BY DEF SameAuthor
<1>10. PictureFollowsText'
  <2>1. ASSUME NEW a \in Articles, Merge(a) \in committed', SameAuthor(a)
        PROVE  \E t \in Texts : Set(a, t) \in committed' \cup refused'
    <3>1. CASE Merge(a) \in committed
      BY <1>1, <2>1, <3>1 DEF Inv, DocsInv, PictureFollowsText
    <3>2. CASE w = Merge(a)
      BY <1>1, <2>1, <3>2, TextWasFirst
    <3> QED
      BY <1>1, <2>1, <3>1, <3>2
  <2> QED
    BY <1>9, <2>1 DEF PictureFollowsText
<1>11. PictureLossIsTransient'
  <2>1. ASSUME NEW a \in Articles, Merge(a) \in committed', SameAuthor(a), docs'[a].imageURL = None
        PROVE  Pending(Merge(a)) \/ Merge(a) \in refused
    <3>1. w # Merge(a)
      BY <1>3, <1>4, <2>1, NoneFacts
    <3>2. Merge(a) \in committed
      BY <1>1, <2>1, <3>1
    <3>3. CASE docs[a].imageURL = None
      BY <2>1, <3>2, <3>3 DEF Inv, DocsInv, PictureLossIsTransient
    <3>4. CASE docs[a].imageURL # None
      <4>1. a = w.article /\ w.kind = "set"
        BY <1>3, <1>4, <2>1, <3>4, NoneFacts
      <4>2. PICK t \in Texts : w = Set(a, t)
        BY <1>4, <4>1
      <4>3. author[Set(a, t)] # None
        BY <1>1, <1>5, <4>2, NoneFacts
      <4>4. author[Set(a, t)] = author[Merge(a)]
        BY <2>1, <4>3 DEF SameAuthor
      <4> QED
        BY <1>1, <4>2, <4>4 DEF Inv, QueueInv, TextGoesFirst
    <3> QED
      BY <3>3, <3>4
  <2>2. \A x : Pending(x)' <=> Pending(x)
    BY <1>1 DEF Pending
  <2> QED
    BY <1>1, <1>9, <2>1, <2>2 DEF PictureLossIsTransient
<1> QED
  BY <1>6, <1>7, <1>8, <1>10, <1>11 DEF DocsInv

\* A commit.
LEMMA ServerCommitsStep == ASSUME Inv, ServerCommits PROVE Inv'
<1>1. /\ Queue!Commit /\ docs' = Applied(queue[current][cursor + 1])
      /\ UNCHANGED <<stack, typed, signUps, tried, release, handlers, congratulated, storage,
                     author, dropped>>
  BY DEF ServerCommits, device
<1>2. QueueProofs!Inv' /\ Queue!TypeOK'
  BY <1>1, QueueStep DEF Queue!Next
<1>3. PICK w \in Writes :
           /\ w = queue[current][cursor + 1] /\ committed' = committed \cup {w}
           /\ UNCHANGED <<current, queue, refused, completion>>
  BY <1>1, CommitFacts
<1>4. TypeOK
  BY DEF Inv
<1>5. docs' \in [Articles -> [text : Texts \cup {None}, imageURL : Articles \cup {None}]]
  BY <1>1, <1>3, <1>4, AppliedFacts
<1>6. TypeOK'
  BY <1>1, <1>2, <1>4, <1>5 DEF TypeOK
<1>7. WritesAreKnown' /\ TextGoesFirst'
  BY <1>1, <1>3, QueuesKept
<1>8. DocsInv'
  BY <1>1, DocsAfterCommit
<1>9. ReleaseIsOrderly' /\ HandlersAreDone'
  BY <1>1, <1>3, ReleasesReset
<1>10. StackIsWhole' /\ NobodyYet' /\ (dropped = 0 => queue[SignedOut] = <<>>)'
  BY <1>1, <1>3 DEF Inv, DeviceInv, StackIsWhole, NobodyYet
<1> QED
  BY <1>2, <1>6, <1>7, <1>8, <1>9, <1>10 DEF Inv, QueueInv, DeviceInv

-----------------------------------------------------------------------------
\* A write leaves a queue.
LEMMA PopFacts ==
  ASSUME NEW q \in [Users -> Seq(Writes)], NEW u \in Users, q[u] # <<>>,
         NEW g, g = [q EXCEPT ![u] = Tail(@)]
  PROVE  /\ \A v \in Users \ {u} : g[v] = q[v]
         /\ 1 \in DOMAIN q[u] /\ Head(q[u]) = q[u][1] /\ Head(q[u]) \in Writes
         /\ \A i \in DOMAIN g[u] : i \in Nat /\ i + 1 \in DOMAIN q[u] /\ g[u][i] = q[u][i + 1]
         /\ \A i \in DOMAIN q[u] : i # 1 => i \in Nat /\ i - 1 \in DOMAIN g[u]
                                           /\ g[u][i - 1] = q[u][i]
<1>1. q[u] \in Seq(Writes) /\ g[u] = Tail(q[u])
  OBVIOUS
<1>2. \A v \in Users \ {u} : g[v] = q[v]
  OBVIOUS
<1>3. PICK s : s = q[u]
  OBVIOUS
<1>4. PICK t : t = Tail(s)
  OBVIOUS
<1>5. /\ Len(s) \in Nat /\ DOMAIN s = 1 .. Len(s) /\ 1 \in DOMAIN s
      /\ Head(s) = s[1] /\ Head(s) \in Writes /\ DOMAIN t = 1 .. Len(s) - 1
      /\ \A i \in DOMAIN t : t[i] = s[i + 1] /\ i + 1 \in DOMAIN s
  BY <1>1, <1>3, <1>4, TailFacts
<1>6. \A i \in DOMAIN t : i \in Nat
  BY <1>5
<1>7. ASSUME NEW i \in DOMAIN s, i # 1
      PROVE  i \in Nat /\ i - 1 \in DOMAIN t /\ t[i - 1] = s[i]
  <2>1. i \in Nat /\ i - 1 \in DOMAIN t
    BY <1>5, <1>7
  <2>2. t[i - 1] = s[(i - 1) + 1]
    BY <1>5, <2>1
  <2>3. (i - 1) + 1 = i
    BY <2>1
  <2> QED
    BY <2>1, <2>2, <2>3
<1> QED
  BY <1>1, <1>2, <1>3, <1>4, <1>5, <1>6, <1>7

\* What remains pending when the oldest write of the account leaves its queue.
LEMMA PopPending ==
  ASSUME Inv, queue[current] # <<>>, queue' = [queue EXCEPT ![current] = Tail(@)]
  PROVE  /\ Head(queue[current]) \in Writes /\ Pending(Head(queue[current]))
         /\ \A w : Pending(w)' <=> Pending(w) /\ w # Head(queue[current])
<1>1. current \in Users /\ queue \in [Users -> Seq(Writes)]
  BY Typed DEF Inv
<1>2. /\ \A v \in Users \ {current} : queue'[v] = queue[v]
      /\ 1 \in DOMAIN queue[current]
      /\ Head(queue[current]) = queue[current][1] /\ Head(queue[current]) \in Writes
      /\ \A i \in DOMAIN queue'[current] :
           i \in Nat /\ i + 1 \in DOMAIN queue[current] /\ queue'[current][i] = queue[current][i + 1]
      /\ \A i \in DOMAIN queue[current] :
           i # 1 => i \in Nat /\ i - 1 \in DOMAIN queue'[current]
                              /\ queue'[current][i - 1] = queue[current][i]
  BY <1>1, PopFacts
<1>3. \A u, v \in Users : \A i \in DOMAIN queue[u], j \in DOMAIN queue[v] :
        queue[u][i] = queue[v][j] => u = v /\ i = j
  BY QueueFacts DEF Inv, QueueInv
<1>4. Pending(Head(queue[current]))
  BY <1>1, <1>2 DEF Pending
<1>5. ASSUME NEW w, Pending(w)'
      PROVE  Pending(w) /\ w # Head(queue[current])
  <2>1. PICK u \in Users : \E i \in DOMAIN queue'[u] : queue'[u][i] = w
    BY <1>5 DEF Pending
  <2>2. PICK i \in DOMAIN queue'[u] : queue'[u][i] = w
    BY <2>1
  <2>3. CASE u = current
    <3>1. i \in Nat /\ i + 1 \in DOMAIN queue[current] /\ w = queue[current][i + 1] /\ i + 1 # 1
      <4>1. i \in Nat /\ i + 1 \in DOMAIN queue[current] /\ w = queue[current][i + 1]
        BY <1>2, <2>2, <2>3
      <4>2. i # 0
        <5>1. queue'[current] \in Seq(Writes)
          BY <1>1
        <5> QED
          BY <2>2, <2>3, <5>1
      <4> QED
        BY <4>1, <4>2
    <3> QED
      BY <1>1, <1>2, <1>3, <3>1 DEF Pending
  <2>4. CASE u # current
    <3>1. i \in DOMAIN queue[u] /\ w = queue[u][i]
      BY <1>2, <2>2, <2>4
    <3> QED
      BY <1>1, <1>2, <1>3, <2>4, <3>1 DEF Pending
  <2> QED
    BY <2>3, <2>4
<1>6. ASSUME NEW w, Pending(w), w # Head(queue[current])
      PROVE  Pending(w)'
  <2>1. PICK u \in Users : \E i \in DOMAIN queue[u] : queue[u][i] = w
    BY <1>6 DEF Pending
  <2>2. PICK i \in DOMAIN queue[u] : queue[u][i] = w
    BY <2>1
  <2>3. CASE u = current
    <3>1. i # 1
      BY <1>2, <1>6, <2>2, <2>3
    <3>2. i - 1 \in DOMAIN queue'[current] /\ queue'[current][i - 1] = w
      BY <1>2, <2>2, <2>3, <3>1
    <3> QED
      BY <1>1, <3>2 DEF Pending
  <2>4. CASE u # current
    BY <1>2, <2>2, <2>4 DEF Pending
  <2> QED
    BY <2>3, <2>4
<1> QED
  BY <1>2, <1>4, <1>5, <1>6

\* The oldest write of the account is resolved, one way or the other.
LEMMA PopQueues ==
  ASSUME Inv, queue[current] # <<>>, queue' = [queue EXCEPT ![current] = Tail(@)],
         author' = author, committed' = committed, NEW w, w = Head(queue[current]),
         \A x \in Writes \ {w} : completion'[x] = completion[x],
         \/ /\ completion'[w] \in {"ok", completion[w]}
            /\ w \in committed /\ refused' = refused
         \/ /\ completion'[w] \in {"error", completion[w]}
            /\ refused' = refused \cup {w}
  PROVE  WritesAreKnown' /\ TextGoesFirst'
<1>1. /\ w \in Writes /\ Pending(w)
      /\ \A x : Pending(x)' <=> Pending(x) /\ x # w
  BY PopPending
<1>2. current \in Users /\ queue \in [Users -> Seq(Writes)] /\ refused \subseteq Writes
  BY Typed DEF Inv
<1>3. /\ \A v \in Users \ {current} : queue'[v] = queue[v]
      /\ 1 \in DOMAIN queue[current] /\ w = queue[current][1]
      /\ \A i \in DOMAIN queue'[current] :
           i \in Nat /\ i + 1 \in DOMAIN queue[current] /\ queue'[current][i] = queue[current][i + 1]
  BY <1>2, PopFacts
<1>4. completion[w] # "unissued"
  BY <1>1, QueueFacts DEF Inv, QueueInv
<1>5. /\ \A x \in Writes : author[x] = None <=> completion[x] = "unissued"
      /\ \A u \in Users : \A i \in DOMAIN queue[u] : author[queue[u][i]] = u
      /\ \A x \in Writes : completion[x] = "unissued" \/ Pending(x) \/ x \in committed \/ x \in refused
      /\ \A x \in refused : ~Pending(x) /\ completion[x] \notin {"unissued", "ok"}
      /\ \A x \in Writes : completion[x] = "ok" => ~Pending(x)
  BY DEF Inv, QueueInv, WritesAreKnown
<1>6. WritesAreKnown'
  <2>1. completion'[w] # "unissued" /\ (w \in refused' => completion'[w] # "ok")
    BY <1>1, <1>4, <1>5
  <2>2. \A x \in Writes : author'[x] = None <=> completion'[x] = "unissued"
    BY <1>1, <1>4, <1>5, <2>1
  <2>3. \A u \in Users : \A i \in DOMAIN queue'[u] : author'[queue'[u][i]] = u
    BY <1>3, <1>5
  <2>4. \A x \in Writes : completion'[x] = "unissued" \/ Pending(x)' \/ x \in committed' \/ x \in refused'
    BY <1>1, <1>5
  <2>5. \A x \in refused' : ~Pending(x)' /\ completion'[x] \notin {"unissued", "ok"}
    BY <1>1, <1>2, <1>5, <2>1
  <2>6. \A x \in Writes : completion'[x] = "ok" => ~Pending(x)'
    BY <1>1, <1>5
  <2> QED
    BY <2>2, <2>3, <2>4, <2>5, <2>6 DEF WritesAreKnown
<1>7. ASSUME NEW a \in Articles, NEW t \in Texts
      PROVE  /\ \A u \in Users : \A i, j \in DOMAIN queue'[u] :
                  queue'[u][i] = Set(a, t) /\ queue'[u][j] = Merge(a) => i < j
             /\ Pending(Set(a, t))' /\ author'[Set(a, t)] = author'[Merge(a)] => Pending(Merge(a))'
  <2>1. /\ \A u \in Users : \A i, j \in DOMAIN queue[u] :
             queue[u][i] = Set(a, t) /\ queue[u][j] = Merge(a) => i < j
        /\ Pending(Set(a, t)) /\ author[Set(a, t)] = author[Merge(a)] => Pending(Merge(a))
    BY DEF Inv, QueueInv, TextGoesFirst
  <2>2. ASSUME NEW u \in Users, NEW i \in DOMAIN queue'[u], NEW j \in DOMAIN queue'[u],
               queue'[u][i] = Set(a, t), queue'[u][j] = Merge(a)
        PROVE  i < j
    <3>1. CASE u = current
      <4>1. /\ i \in Nat /\ i + 1 \in DOMAIN queue[current] /\ queue[current][i + 1] = Set(a, t)
            /\ j \in Nat /\ j + 1 \in DOMAIN queue[current] /\ queue[current][j + 1] = Merge(a)
        BY <1>3, <2>2, <3>1
      <4>2. i + 1 < j + 1
        BY <1>2, <2>1, <4>1
      <4> QED
        BY <4>1, <4>2
    <3>2. CASE u # current
      BY <1>3, <2>1, <2>2, <3>2
    <3> QED
      BY <3>1, <3>2
  <2>3. ASSUME Pending(Set(a, t))', author'[Set(a, t)] = author'[Merge(a)], w = Merge(a)
        PROVE  FALSE
    <3>1. PICK u \in Users : \E i \in DOMAIN queue[u] : queue[u][i] = Set(a, t)
      BY <1>1, <2>3 DEF Pending
    <3>2. PICK i \in DOMAIN queue[u] : queue[u][i] = Set(a, t)
      BY <3>1
    <3>3. author[Set(a, t)] = u /\ author[Merge(a)] = current
      <4>1. author[queue[u][i]] = u /\ author[queue[current][1]] = current
        BY <1>2, <1>3, <1>5
      <4> QED
        BY <1>3, <2>3, <3>2, <4>1
    <3>4. u = current
      BY <2>3, <3>3
    <3>5. i < 1
      BY <1>2, <1>3, <2>1, <2>3, <3>2, <3>4
    <3>6. queue[current] \in Seq(Writes)
      BY <1>2
    <3>7. i \in Nat /\ i >= 1
      BY <3>2, <3>4, <3>6
    <3> QED
      BY <3>5, <3>7
  <2> QED
    BY <1>1, <2>1, <2>2, <2>3
<1>8. TextGoesFirst'
  BY <1>7 DEF TextGoesFirst
<1> QED
  BY <1>6, <1>8

\* The documents when a write leaves the queue: a picture that leaves it is there.
LEMMA PopDocs ==
  ASSUME Inv, queue[current] # <<>>, queue' = [queue EXCEPT ![current] = Tail(@)],
         UNCHANGED <<current, author, committed, docs, storage>>,
         NEW w, w = Head(queue[current]),
         \/ cursor > 0 /\ cursor' = cursor - 1 /\ refused' = refused
         \/ cursor' = 0 /\ refused' = refused \cup {w}
  PROVE  DocsInv'
<1>1. /\ w \in Writes /\ Pending(w)
      /\ \A x : Pending(x)' <=> Pending(x) /\ x # w
  BY PopPending
<1>2. /\ current \in Users /\ queue \in [Users -> Seq(Writes)] /\ cursor \in Nat
      /\ cursor <= Len(queue[current])
  BY Typed DEF Inv
<1>3. /\ w = queue[current][1]
      /\ \A i \in DOMAIN queue'[current] :
           i + 1 \in DOMAIN queue[current] /\ queue'[current][i] = queue[current][i + 1]
      /\ \A i \in DOMAIN queue[current] :
           i # 1 => i - 1 \in DOMAIN queue'[current] /\ queue'[current][i - 1] = queue[current][i]
  BY <1>2, PopFacts
<1>4. \A a \in Articles : SameAuthor(a)' <=> SameAuthor(a)
  BY DEF SameAuthor
<1>5. NoDanglingPicture' /\ DocsAreEarned'
  BY DEF Inv, DocsInv, NoDanglingPicture, DocsAreEarned
<1>6. ServedIsThere'
  <2>1. CASE cursor' = 0
    BY <2>1 DEF ServedIsThere
  <2>2. CASE cursor > 0 /\ cursor' = cursor - 1
    <3>1. ASSUME NEW a \in Articles, NEW i \in 1 .. cursor - 1, queue'[current][i] = Merge(a)
          PROVE  docs[a].imageURL = a
      <4>1. i \in Nat /\ i + 1 \in 1 .. cursor /\ i + 1 # 1 /\ (i + 1) - 1 = i
        BY <1>2, <2>2, <3>1
      <4>2. i + 1 \in DOMAIN queue[current]
        <5>1. PICK s \in Seq(Writes) : s = queue[current]
          BY <1>2
        <5>2. cursor <= Len(s) /\ Len(s) \in Nat
          BY <1>2, <5>1
        <5>3. i + 1 \in DOMAIN s
          BY <1>2, <4>1, <5>2
        <5> QED
          BY <5>1, <5>3
      <4>3. queue[current][i + 1] = Merge(a)
        BY <1>3, <3>1, <4>1, <4>2
      <4> QED
        BY <4>1, <4>3 DEF Inv, DocsInv, ServedIsThere
    <3> QED
      BY <2>2, <3>1 DEF ServedIsThere
  <2> QED
    BY <2>1, <2>2
<1>7. PictureFollowsText'
  BY <1>4 DEF Inv, DocsInv, PictureFollowsText
<1>8. PictureLossIsTransient'
  <2>1. ASSUME NEW a \in Articles, Merge(a) \in committed, SameAuthor(a), docs[a].imageURL = None
        PROVE  Pending(Merge(a))' \/ Merge(a) \in refused'
    <3>1. Pending(Merge(a)) \/ Merge(a) \in refused
      BY <2>1 DEF Inv, DocsInv, PictureLossIsTransient
    <3>2. ASSUME w = Merge(a), cursor > 0
          PROVE  FALSE
      <4>1. 1 \in 1 .. cursor
        BY <1>2, <3>2
      <4>2. docs[a].imageURL = a
        BY <1>3, <3>2, <4>1 DEF Inv, DocsInv, ServedIsThere
      <4> QED
        BY <2>1, <4>2, NoneFacts
    <3> QED
      BY <1>1, <3>1, <3>2
  <2> QED
    BY <1>4, <2>1 DEF PictureLossIsTransient
<1> QED
  BY <1>5, <1>6, <1>7, <1>8 DEF DocsInv

\* The writes of other articles, and the other writes of the same.
LEMMA ReleasesPopped ==
  ASSUME Inv, NEW w \in Writes, completion[w] # "unissued", completion'[w] # "unissued",
         \A x \in Writes \ {w} : completion'[x] = completion[x],
         \A a \in Articles : \/ release'[a] = release[a]
                             \/ release'[a].phase = "over" /\ w = Merge(a),
         UNCHANGED storage
  PROVE  ReleaseIsOrderly'
<1>1. \A x \in Writes : completion'[x] = "unissued" <=> completion[x] = "unissued"
  OBVIOUS
<1>2. ASSUME NEW a \in Articles
      PROVE  /\ release'[a].phase = "unused" =>
                  \A t \in Texts : completion'[Set(a, t)] = "unissued"
             /\ release'[a].phase \in {"unused", "uploading", "uploaded"} =>
                  completion'[Merge(a)] = "unissued"
             /\ release'[a].phase # "unused" =>
                  \E t \in Texts : completion'[Set(a, t)] # "unissued"
             /\ release'[a].phase = "uploaded" => a \in storage'
             /\ completion'[Merge(a)] # "unissued" => a \in storage'
  <2>1. /\ release[a].phase = "unused" => \A t \in Texts : completion[Set(a, t)] = "unissued"
        /\ release[a].phase \in {"unused", "uploading", "uploaded"} =>
             completion[Merge(a)] = "unissued"
        /\ release[a].phase # "unused" => \E t \in Texts : completion[Set(a, t)] # "unissued"
        /\ release[a].phase = "uploaded" => a \in storage
        /\ completion[Merge(a)] # "unissued" => a \in storage
    BY DEF Inv, DeviceInv, ReleaseIsOrderly
  <2>2. Merge(a) \in Writes /\ \A t \in Texts : Set(a, t) \in Writes
    BY WriteFacts
  <2>3. CASE release'[a] = release[a]
    BY <1>1, <2>1, <2>2, <2>3
  <2>4. CASE release'[a].phase = "over" /\ w = Merge(a)
    BY <1>1, <2>1, <2>2, <2>4
  <2> QED
    BY <2>3, <2>4
<1> QED
  BY <1>2 DEF ReleaseIsOrderly

\* An acknowledgement: the picture's handler is called.
LEMMA WriteAcknowledgedStep == ASSUME Inv, WriteAcknowledged PROVE Inv'
<1>1. PICK w : w = Head(queue[current])
  OBVIOUS
<1>2. /\ cursor > 0 /\ cursor' = cursor - 1
      /\ completion' = Queue!Notify(w, "ok")
      /\ queue' = [queue EXCEPT ![current] = Tail(@)]
      /\ UNCHANGED <<current, committed, refused>>
      /\ handlers' = IF w.kind = "merge" /\ completion[w] = "waiting"
                     THEN Append(handlers, w.article) ELSE handlers
      /\ UNCHANGED <<stack, typed, signUps, tried, release, congratulated, docs, storage,
                     author, dropped>>
  BY <1>1 DEF WriteAcknowledged, Queue!Acknowledge
<1>3. QueueProofs!Inv' /\ Queue!TypeOK'
  <2>1. Queue!Next
    BY DEF WriteAcknowledged, Queue!Next
  <2> QED
    BY <2>1, QueueStep
<1>4. TypeOK
  BY DEF Inv
<1>5. /\ current \in Users /\ queue \in [Users -> Seq(Writes)] /\ cursor \in Nat
      /\ cursor <= Len(queue[current]) /\ completion \in [Writes -> Queue!CompletionState]
      /\ handlers \in Seq(Articles) /\ congratulated \subseteq Articles
  BY <1>4, Typed
<1>6. queue[current] # <<>>
  <2>1. PICK s \in Seq(Writes) : s = queue[current]
    BY <1>5
  <2>2. Len(s) # 0
    BY <1>2, <1>5, <2>1
  <2> QED
    BY <2>1, <2>2
<1>7. w \in Writes /\ Pending(w) /\ w = queue[current][1]
  <2>1. w \in Writes /\ Pending(w)
    BY <1>1, <1>2, <1>6, PopPending
  <2> QED
    BY <1>1, <1>2, <1>5, <1>6, <2>1, PopFacts
<1>8. w \in committed
  <2>1. 1 \in 1 .. cursor
    BY <1>2, <1>5
  <2> QED
    BY <1>7, <2>1, QueueFacts DEF Inv, QueueInv
<1>9. /\ \A x \in Writes \ {w} : completion'[x] = completion[x]
      /\ completion[w] = "waiting" => completion'[w] = "ok"
      /\ completion[w] # "waiting" => completion'[w] = completion[w]
  BY <1>2, <1>5, <1>7 DEF Queue!Notify
<1>10. WritesAreKnown' /\ TextGoesFirst'
  <2>1. completion'[w] \in {"ok", completion[w]}
    BY <1>9
  <2> QED
    BY <1>1, <1>2, <1>6, <1>8, <1>9, <2>1, PopQueues
<1>11. DocsInv'
  BY <1>1, <1>2, <1>6, PopDocs
<1>12. completion[w] # "unissued" /\ completion'[w] # "unissued"
  BY <1>7, <1>9, QueueFacts DEF Inv, QueueInv
<1>13. ReleaseIsOrderly'
  BY <1>2, <1>7, <1>9, <1>12, ReleasesPopped
<1>14. \A x \in Writes : completion[x] = "ok" => completion'[x] = "ok"
  BY <1>9
<1>15. \A i \in DOMAIN handlers : handlers[i] \in Articles /\ completion'[Merge(handlers[i])] = "ok"
  BY <1>5, <1>14, WriteFacts DEF Inv, DeviceInv, HandlersAreDone
<1>16. \A a \in congratulated' : completion'[Merge(a)] = "ok"
  BY <1>2, <1>5, <1>14, WriteFacts DEF Inv, DeviceInv, HandlersAreDone
<1>17. /\ handlers' \in Seq(Articles)
       /\ \A i \in DOMAIN handlers' : completion'[Merge(handlers'[i])] = "ok"
  <2>1. CASE w.kind = "merge" /\ completion[w] = "waiting"
    <3>1. w.article \in Articles /\ w = Merge(w.article)
      BY <1>7, <2>1, WriteFacts
    <3>2. PICK a \in Articles : a = w.article
      BY <3>1
    <3>3. handlers' = Append(handlers, a) /\ completion'[Merge(a)] = "ok"
      BY <1>2, <1>9, <2>1, <3>1, <3>2
    <3>4. /\ handlers' \in Seq(Articles) /\ Len(handlers) \in Nat
          /\ DOMAIN handlers = 1 .. Len(handlers) /\ DOMAIN handlers' = 1 .. Len(handlers) + 1
          /\ \A i \in DOMAIN handlers : handlers'[i] = handlers[i]
          /\ handlers'[Len(handlers) + 1] = a
      BY <1>5, <3>3, AppendFacts
    <3>5. \A i \in DOMAIN handlers' : i \in DOMAIN handlers \/ i = Len(handlers) + 1
      BY <3>4
    <3> QED
      BY <1>15, <3>3, <3>4, <3>5
  <2>2. CASE ~(w.kind = "merge" /\ completion[w] = "waiting")
    BY <1>2, <1>5, <1>15, <2>2
  <2> QED
    BY <2>1, <2>2
<1>18. HandlersAreDone'
  BY <1>16, <1>17 DEF HandlersAreDone
<1>19. ~(dropped = 0 /\ current = SignedOut)
  BY <1>6 DEF Inv, DeviceInv
<1>20. NobodyYet' /\ StackIsWhole'
  BY <1>2, <1>19 DEF Inv, DeviceInv, NobodyYet, StackIsWhole
<1>21. (dropped = 0 => queue[SignedOut] = <<>>)'
  BY <1>2, <1>5, <1>19, NoneFacts DEF Inv, DeviceInv
<1>22. TypeOK'
  BY <1>2, <1>3, <1>4, <1>17 DEF TypeOK
<1> QED
  BY <1>3, <1>10, <1>11, <1>13, <1>18, <1>20, <1>21, <1>22 DEF Inv, QueueInv, DeviceInv

\* A refusal: the closures of the article are over when it is the picture's.
LEMMA WriteRefusedStep == ASSUME Inv, WriteRefused PROVE Inv'
<1>1. PICK w : w = Head(queue[current])
  OBVIOUS
<1>2. /\ queue[current] # <<>> /\ cursor' = 0
      /\ completion' = Queue!Notify(w, "error")
      /\ queue' = [queue EXCEPT ![current] = Tail(@)]
      /\ refused' = refused \cup {w}
      /\ UNCHANGED <<current, committed>>
      /\ release' = IF w.kind = "merge" /\ completion[w] = "waiting"
                    THEN [release EXCEPT ![w.article] = Over]
                    ELSE release
      /\ UNCHANGED <<stack, typed, signUps, tried, handlers, congratulated, docs, storage,
                     author, dropped>>
  BY <1>1 DEF WriteRefused, Queue!Reject
<1>3. QueueProofs!Inv' /\ Queue!TypeOK'
  <2>1. Queue!Next
    BY DEF WriteRefused, Queue!Next
  <2> QED
    BY <2>1, QueueStep
<1>4. TypeOK
  BY DEF Inv
<1>5. /\ current \in Users /\ queue \in [Users -> Seq(Writes)]
      /\ completion \in [Writes -> Queue!CompletionState]
      /\ handlers \in Seq(Articles) /\ congratulated \subseteq Articles
      /\ release \in [Articles -> [phase : Phases, screen : Screens \cup {None}]]
  BY <1>4, Typed
<1>6. w \in Writes /\ Pending(w)
  BY <1>1, <1>2, PopPending
<1>7. /\ \A x \in Writes \ {w} : completion'[x] = completion[x]
      /\ completion[w] = "waiting" => completion'[w] = "error"
      /\ completion[w] # "waiting" => completion'[w] = completion[w]
  BY <1>2, <1>5, <1>6 DEF Queue!Notify
<1>8. WritesAreKnown' /\ TextGoesFirst'
  <2>1. completion'[w] \in {"error", completion[w]}
    BY <1>7
  <2> QED
    BY <1>1, <1>2, <1>7, <2>1, PopQueues
<1>9. DocsInv'
  BY <1>1, <1>2, PopDocs
<1>10. completion[w] # "unissued" /\ completion'[w] # "unissued"
  BY <1>6, <1>7, QueueFacts DEF Inv, QueueInv
<1>11. /\ release' \in [Articles -> [phase : Phases, screen : Screens \cup {None}]]
       /\ \A a \in Articles : \/ release'[a] = release[a]
                              \/ release'[a].phase = "over" /\ w = Merge(a)
  <2>1. Over \in [phase : Phases, screen : Screens \cup {None}] /\ Over.phase = "over"
    BY DEF Over, Chain, Phases
  <2>2. PICK b \in Articles : b = w.article
    BY <1>6, WriteFacts
  <2>3. CASE w.kind = "merge" /\ completion[w] = "waiting"
    <3>1. w = Merge(b) /\ release' = [release EXCEPT ![b] = Over]
      BY <1>2, <1>6, <2>2, <2>3, WriteFacts
    <3> QED
      BY <1>5, <2>1, <3>1
  <2>4. CASE ~(w.kind = "merge" /\ completion[w] = "waiting")
    BY <1>2, <1>5, <2>4
  <2> QED
    BY <2>3, <2>4
<1>12. ReleaseIsOrderly'
  BY <1>2, <1>6, <1>7, <1>10, <1>11, ReleasesPopped
<1>13. \A x \in Writes : completion[x] = "ok" => completion'[x] = "ok"
  BY <1>7
<1>14. HandlersAreDone'
  <2>1. \A i \in DOMAIN handlers : handlers[i] \in Articles
    BY <1>5
  <2> QED
    BY <1>2, <1>5, <1>13, <2>1, WriteFacts DEF Inv, DeviceInv, HandlersAreDone
<1>15. ~(dropped = 0 /\ current = SignedOut)
  BY <1>2 DEF Inv, DeviceInv
<1>16. NobodyYet' /\ StackIsWhole'
  BY <1>2, <1>15 DEF Inv, DeviceInv, NobodyYet, StackIsWhole
<1>17. (dropped = 0 => queue[SignedOut] = <<>>)'
  BY <1>2, <1>5, <1>15, NoneFacts DEF Inv, DeviceInv
<1>18. TypeOK'
  BY <1>2, <1>3, <1>4, <1>11 DEF TypeOK
<1> QED
  BY <1>3, <1>8, <1>9, <1>12, <1>14, <1>16, <1>17, <1>18 DEF Inv, QueueInv, DeviceInv

-----------------------------------------------------------------------------
\* The invariant.

\* Nobody has signed up and nothing has been written.
LEMMA InitInv == Init => Inv
<1> SUFFICES ASSUME Init PROVE Inv
  OBVIOUS
<1>1. /\ queue = [u \in Users |-> <<>>] /\ cursor = 0 /\ committed = {} /\ refused = {}
      /\ completion = [w \in Writes |-> "unissued"] /\ current = SignedOut
      /\ stack = <<Main>> /\ typed = [s \in Screens |-> Empty]
      /\ signUps = {} /\ tried = {} /\ release = [a \in Articles |-> Chain("unused", None)]
      /\ handlers = <<>> /\ congratulated = {} /\ docs = [a \in Articles |-> NoDoc]
      /\ storage = {} /\ author = [w \in Writes |-> None] /\ dropped = 0
  BY DEF Init, Queue!Init
<1>2. QueueProofs!Inv
  <2>1. QueueProofs!Init
    BY DEF Init, Queue!Init, QueueProofs!Init
  <2> QED
    BY <2>1, QueueProofs!InitInv
<1>3. Queue!TypeOK
  BY <1>2 DEF QueueProofs!Inv, QueueProofs!TypeOK, Queue!TypeOK,
              QueueProofs!CompletionState, Queue!CompletionState
<1>4. /\ Chain("unused", None) \in [phase : Phases, screen : Screens \cup {None}]
      /\ Chain("unused", None).phase = "unused"
  BY DEF Chain, Phases
<1>5. \A a \in Articles : release[a].phase = "unused"
  BY <1>1, <1>4
<1>6. \A a \in Articles : docs[a].imageURL = None
  BY <1>1 DEF NoDoc
<1>7. TypeOK
  <2>1. stack \in Seq([kind : Kinds, id : Screens \cup {None},
                       ref : Screens \cup Articles \cup {None}])
    BY <1>1, MainFacts DEF Entries
  <2>2. release \in [Articles -> [phase : Phases, screen : Screens \cup {None}]]
    BY <1>1, <1>4
  <2>3. docs \in [Articles -> [text : Texts \cup {None}, imageURL : Articles \cup {None}]]
    BY <1>1 DEF NoDoc
  <2>4. handlers \in Seq(Articles) /\ dropped \in 0 .. MaxDrops
    BY <1>1, PublishingAssumption
  <2>5. typed \in [Screens -> Texts \cup {Empty}] /\ author \in [Writes -> Users \cup {None}]
    BY <1>1
  <2> QED
    BY <1>1, <1>3, <2>1, <2>2, <2>3, <2>4, <2>5 DEF TypeOK
<1>8. \A u \in Users : DOMAIN queue[u] = {}
  BY <1>1
<1>9. \A w : ~Pending(w)
  BY <1>8 DEF Pending
<1>10. QueueInv
  <2>1. WritesAreKnown
    BY <1>1, <1>8, <1>9 DEF WritesAreKnown
  <2>2. TextGoesFirst
    BY <1>8, <1>9 DEF TextGoesFirst
  <2> QED
    BY <1>2, <2>1, <2>2 DEF QueueInv
<1>11. DocsInv
  BY <1>1, <1>6 DEF DocsInv, NoDanglingPicture, DocsAreEarned, ServedIsThere,
                    PictureFollowsText, PictureLossIsTransient
<1>12. DeviceInv
  <2>1. StackIsWhole /\ NobodyYet
    BY <1>1, <1>5, MainFacts DEF StackIsWhole, NobodyYet
  <2>2. ReleaseIsOrderly
    BY <1>1, <1>5, WriteFacts DEF ReleaseIsOrderly
  <2>3. HandlersAreDone
    BY <1>1 DEF HandlersAreDone
  <2>4. queue[SignedOut] = <<>>
    BY <1>1, NoneFacts
  <2> QED
    BY <2>1, <2>2, <2>3, <2>4 DEF DeviceInv
<1> QED
  BY <1>7, <1>10, <1>11, <1>12 DEF Inv

\* Nothing happens.
LEMMA StutterStep == ASSUME Inv, UNCHANGED vars PROVE Inv'
<1>1. /\ UNCHANGED <<sdk, stack, typed, signUps, tried, release, handlers, congratulated, docs,
                     storage, author, dropped>>
  BY DEF vars, sdk
<1>2. UNCHANGED <<current, completion>>
  BY <1>1 DEF sdk
<1>3. ReleaseIsOrderly' /\ HandlersAreDone'
  BY <1>1, <1>2, ReleasesKept, HandlersKept
<1>4. StackIsWhole' /\ NobodyYet'
  BY <1>1, <1>2 DEF Inv, DeviceInv, StackIsWhole, NobodyYet
<1>5. stack' \in Seq(Entries)
  BY <1>1, Typed DEF Inv, Entries
<1> QED
  BY <1>1, <1>3, <1>4, <1>5, Typed, QuietStep DEF Inv

\* Every step keeps the invariant.
LEMMA NextInv == Inv /\ [Next]_vars => Inv'
<1> SUFFICES ASSUME Inv, [Next]_vars PROVE Inv'
  OBVIOUS
<1>1. CASE \E s \in New : TapWritingButton(s) \/ TapNext(s)
  BY <1>1, TapWritingButtonStep, TapNextStep
<1>2. CASE \E u \in Accounts : TapSignUp(u)
  BY <1>2, TapSignUpStep
<1>3. CASE \E t \in Texts \cup {Empty} : Type(t)
  BY <1>3, TypeStep
<1>4. CASE TapBack
  BY <1>4, TapBackStep
<1>5. CASE TapHome
  BY <1>5, TapHomeStep
<1>6. CASE \E a \in Articles : TapRelease(a)
  BY <1>6, TapReleaseStep
<1>7. CASE \E p \in signUps : AuthStateChanged(p)
  BY <1>7, AuthStateChangedStep
<1>8. CASE \E p \in signUps : SignUpFails(p)
  BY <1>8, SignUpFailsStep
<1>9. CASE \E p \in signUps : \E s \in New : SignUpSucceeds(p, s)
  BY <1>9, SignUpSucceedsStep
<1>10. CASE \E a \in Articles : UploadSucceeds(a)
  BY <1>10, UploadSucceedsStep
<1>11. CASE \E a \in Articles : PictureFails(a)
  BY <1>11, PictureFailsStep
<1>12. CASE \E a \in Articles : GotDownloadURL(a)
  BY <1>12, GotDownloadURLStep
<1>13. CASE MergeSucceeded
  BY <1>13, MergeSucceededStep
<1>14. CASE SignedOutByAuth
  BY <1>14, SignedOutByAuthStep
<1>15. CASE ServerCommits
  BY <1>15, ServerCommitsStep
<1>16. CASE WriteAcknowledged
  BY <1>16, WriteAcknowledgedStep
<1>17. CASE WriteRefused
  BY <1>17, WriteRefusedStep
<1>18. CASE ConnectionBreaks
  BY <1>18, ConnectionBreaksStep
<1>19. CASE Restart
  BY <1>19, RestartStep
<1>20. CASE UNCHANGED vars
  BY <1>20, StutterStep
<1> QED
  BY <1>1, <1>2, <1>3, <1>4, <1>5, <1>6, <1>7, <1>8, <1>9, <1>10, <1>11, <1>12, <1>13,
     <1>14, <1>15, <1>16, <1>17, <1>18, <1>19, <1>20 DEF Next, User, Callbacks

\* The invariant holds in every state, whatever the user, the server, the
\* connection and Firebase Auth do, and however often the process dies.
THEOREM Invariance == Spec => []Inv
<1> QED
  BY InitInv, NextInv, PTL DEF Spec

-----------------------------------------------------------------------------
\* What the invariant says of the app and its documents.

\* The state is what its types say.
THEOREM TypeCorrect == Spec => []TypeOK
<1>1. Inv => TypeOK
  BY DEF Inv
<1> QED
  BY <1>1, Invariance, PTL

\* An imageURL that the downloadURL closure (WritingAddViewController.swift, 205)
\* has put into a document is the article's own, and its picture is in Storage.
THEOREM PicturesNeverDangle == Spec => []NoDanglingPicture
<1>1. Inv => NoDanglingPicture
  BY DEF Inv, DocsInv
<1> QED
  BY <1>1, Invariance, PTL

\* Only who has signed up gets beyond Login and writes, unless Firebase Auth has
\* signed an account out by itself.
THEOREM NobodyWritesSignedOut == Spec => []SignedOutNeverWrites
<1>1. Inv => SignedOutNeverWrites
  BY DEF Inv, DeviceInv, NobodyYet, SignedOutNeverWrites
<1> QED
  BY <1>1, Invariance, PTL

\* A document without text, which no feed lists, has lost its text to a refusal or
\* to a change of accounts between the two writes, not to their order.
THEOREM HeadlessIsExplained == Spec => []HeadlessOnlyIfRefusedOrSwitched
<1>1. Inv => HeadlessOnlyIfRefusedOrSwitched
  <2> SUFFICES ASSUME Inv, NEW a \in Articles, docs[a].imageURL # None, docs[a].text = None,
                      SameAuthor(a)
               PROVE  \E t \in Texts : Set(a, t) \in refused
    BY DEF HeadlessOnlyIfRefusedOrSwitched
  <2>1. /\ docs[a].imageURL # None => Merge(a) \in committed
        /\ (\E t \in Texts : Set(a, t) \in committed) => docs[a].text # None
    BY DEF Inv, DocsInv, DocsAreEarned
  <2>2. \E t \in Texts : Set(a, t) \in committed \cup refused
    BY <2>1 DEF Inv, DocsInv, PictureFollowsText
  <2> QED
    BY <2>1, <2>2
<1> QED
  BY <1>1, Invariance, PTL

\* A picture that a repeated text has taken off a document is on its way back,
\* unless the server has refused it since.
THEOREM LostPicturesReturn == Spec => []PictureLossIsTransient
<1>1. Inv => PictureLossIsTransient
  BY DEF Inv, DocsInv
<1> QED
  BY <1>1, Invariance, PTL

\* After the success message the document has its picture, for good, if both
\* writes were made by the same account.
THEOREM CongratulationsHold == Spec => []CongratulatedKeepsPicture
<1>1. Inv => CongratulatedKeepsPicture
  <2> SUFFICES ASSUME Inv, NEW a \in congratulated, SameAuthor(a)
               PROVE  docs[a].imageURL = a
    BY DEF CongratulatedKeepsPicture
  <2>1. a \in Articles
    BY Typed DEF Inv
  <2>2. completion[Merge(a)] = "ok" /\ Merge(a) \in Writes
    BY <2>1, WriteFacts DEF Inv, DeviceInv, HandlersAreDone
  <2>3. Merge(a) \in committed /\ ~Pending(Merge(a)) /\ Merge(a) \notin refused
    BY <2>2, QueueFacts DEF Inv, QueueInv, WritesAreKnown
  <2>4. docs[a].imageURL # None
    BY <2>1, <2>3 DEF Inv, DocsInv, PictureLossIsTransient
  <2> QED
    BY <2>1, <2>4 DEF Inv, DocsInv, NoDanglingPicture
<1> QED
  BY <1>1, Invariance, PTL

-----------------------------------------------------------------------------
\* The app as a user of the queue.

\* Every step is one of WriteQueue's, or leaves the queues alone.
LEMMA QueueStepOf == Inv /\ [Next]_vars => [Queue!Next]_Queue!vars
<1> SUFFICES ASSUME Inv, [Next]_vars PROVE Queue!Next \/ UNCHANGED Queue!vars
  OBVIOUS
<1>1. UNCHANGED sdk => UNCHANGED Queue!vars
  BY DEF sdk, Queue!vars
<1>2. CASE User
  <2>1. CASE \E a \in Articles : TapRelease(a)
    <3>1. PICK a \in Articles : TapRelease(a)
      BY <2>1
    <3>2. Top.kind = "WritingAdd" /\ typed[Top.ref] # Empty /\ Queue!Issue(Set(a, typed[Top.ref]))
      BY <3>1 DEF TapRelease
    <3>3. Top.ref \in Screens
      BY <3>2, TopFacts DEF ScreenIsWhole
    <3>4. typed[Top.ref] \in Texts
      BY <3>2, <3>3, Typed DEF Inv
    <3> QED
      BY <3>2, <3>4, WriteFacts DEF Queue!Next
  <2>2. CASE ~ \E a \in Articles : TapRelease(a)
    <3>1. UNCHANGED sdk
      BY <1>2, <2>2 DEF User, TapWritingButton, TapNext, TapSignUp, Type, TapBack, TapHome
    <3> QED
      BY <1>1, <3>1
  <2> QED
    BY <2>1, <2>2
<1>3. CASE Callbacks
  <2>1. CASE \E p \in signUps : AuthStateChanged(p)
    <3>1. PICK p \in signUps : Queue!SwitchUser(p.account)
      BY <2>1 DEF AuthStateChanged
    <3>2. p.account \in Users
      BY Typed, NoneFacts DEF Inv
    <3> QED
      BY <3>1, <3>2 DEF Queue!Next
  <2>2. CASE \E a \in Articles : GotDownloadURL(a)
    BY <2>2, WriteFacts DEF GotDownloadURL, Queue!Next
  <2>3. CASE SignedOutByAuth
    BY <2>3, NoneFacts DEF SignedOutByAuth, Queue!Next
  <2>4. CASE \E p \in signUps : SignUpFails(p) \/ \E s \in New : SignUpSucceeds(p, s)
    BY <1>1, <2>4 DEF SignUpFails, SignUpSucceeds
  <2>5. CASE MergeSucceeded \/ \E a \in Articles : UploadSucceeds(a) \/ PictureFails(a)
    BY <1>1, <2>5 DEF MergeSucceeded, UploadSucceeds, PictureFails
  <2> QED
    BY <1>3, <2>1, <2>2, <2>3, <2>4, <2>5 DEF Callbacks
<1>4. CASE ServerCommits \/ WriteAcknowledged \/ WriteRefused \/ ConnectionBreaks
  BY <1>4 DEF ServerCommits, WriteAcknowledged, WriteRefused, ConnectionBreaks, Queue!Next
<1>5. CASE Restart
  <2>1. PICK u \in {current} \cup {p.account : p \in {q \in signUps : ~q.created}} :
          Queue!Restart(u)
    BY <1>5 DEF Restart
  <2>2. \A p \in signUps : p.account \in Users
    BY Typed, NoneFacts DEF Inv
  <2>3. u \in Users
    BY <2>2, Typed DEF Inv
  <2> QED
    BY <2>1, <2>3 DEF Queue!Next
<1>6. CASE UNCHANGED vars
  BY <1>6 DEF vars, Queue!vars
<1> QED
  BY <1>2, <1>3, <1>4, <1>5, <1>6 DEF Next

\* Whatever the app does with its screens and closures, its writes go through the
\* queue that the SDK promises (WritePipelineProofs: that the SDK implements).
THEOREM UsesTheQueue == Spec => Queue!Spec
<1>1. Init => Queue!Init
  BY DEF Init
<1> QED
  BY <1>1, QueueStepOf, Invariance, PTL DEF Spec, Queue!Spec

=============================================================================
