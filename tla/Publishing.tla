----------------------------- MODULE Publishing -----------------------------
(***************************************************************************)
(* Publishing an article on one device: the screens Login, Writing,        *)
(* WritingAdd and Article on the Home tab's navigation stack, the accounts *)
(* of Firebase Auth, the write queue of the Firestore SDK (WriteQueue.tla),*)
(* the Storage upload and the documents of the "Articles" collection.      *)
(*                                                                         *)
(* An article is published by two independent writes: setData with title   *)
(* and text when the release button is tapped, and, when the picture has   *)
(* been uploaded and its URL fetched, setData(merge: true) with imageURL.  *)
(* Everything in between is a chain of closures that dies with the process.*)
(*                                                                         *)
(* The picture is never nil: the storyboard gives writingImageView a       *)
(* default image and nothing ever clears it, so the branch of the code for *)
(* a release without picture is dead.                                      *)
(***************************************************************************)
EXTENDS Naturals, Sequences, FiniteSets

CONSTANTS Accounts,   \* the accounts that can still be created
          SignedOut,  \* Firestore's unauthenticated user
          Articles,   \* document ids, drawn by document() at each release
          Screens,    \* identities of view controller instances
          Texts,      \* what can be typed (title and text together)
          Empty,      \* nothing typed: the title is empty
          None,
          MaxDepth,   \* bound: how deep the navigation stack grows
          MaxDrops    \* bound: how often FIRAuth signs an account out by itself

ASSUME PublishingAssumption ==
  /\ SignedOut \notin Accounts
  /\ Empty \notin Texts
  /\ None \notin Accounts \cup {SignedOut} \cup Texts \cup Articles \cup Screens \cup {Empty}
  /\ MaxDepth \in Nat
  /\ MaxDrops \in Nat

Users == Accounts \cup {SignedOut}

\* The writes of createToFirestore and of the downloadURL closure.
Set(a, text) == [kind |-> "set", article |-> a, text |-> text]
Merge(a)     == [kind |-> "merge", article |-> a, text |-> None]

Sets   == {Set(a, t) : a \in Articles, t \in Texts}
Merges == {Merge(a) : a \in Articles}
Writes == Sets \cup Merges

VARIABLES
  \* the Firestore SDK
  current, queue, cursor, committed, refused, completion,
  \* the device
  stack,      \* the navigation controller's screens, Main at the bottom
  typed,      \* typed[s]: contents of the text views of Writing screen s
  signUps,    \* createUser calls whose completion has not run
  tried,      \* the accounts createUser has been called for
  release,    \* release[a]: how far the closures of article a have come
  handlers,   \* main queue: articles whose merge has been acknowledged
  congratulated, \* articles for which HUD.flash(.success) has been shown
  \* the servers
  docs,       \* the Articles collection
  storage,    \* the articles whose picture is in the posts/ folder
  \* history
  author,     \* author[w]: the account that made write w
  dropped     \* how often FIRAuth has signed an account out by itself

sdk    == <<current, queue, cursor, committed, refused, completion>>
device == <<stack, typed, signUps, tried, release, handlers, congratulated>>
vars   == <<current, queue, cursor, committed, refused, completion, stack,
            typed, signUps, tried, release, handlers, congratulated, docs,
            storage, author, dropped>>

Queue == INSTANCE WriteQueue

-----------------------------------------------------------------------------
\* A screen on the stack.  ref is the Writing screen whose text views a
\* WritingAdd screen shares, or the articleId of an Article screen.
Screen(kind, id, ref) == [kind |-> kind, id |-> id, ref |-> ref]
Kinds == {"Main", "Login", "Writing", "WritingAdd", "Article"}
Main == Screen("Main", None, None)

Top == stack[Len(stack)]
OnStack == {stack[i].id : i \in DOMAIN stack}

\* self.navigationController is nil once a screen has been popped.
HasNavigation(id) == id \in OnStack

\* How far the chain of closures of a release has come, and the WritingAdd
\* screen it captures as long as it can still run.
Phases == {"unused", "uploading", "uploaded", "merging", "over", "lost"}
InFlight == {"uploading", "uploaded", "merging"}
Chain(phase, screen) == [phase |-> phase, screen |-> screen]
Over == Chain("over", None)

\* Identities in use: on the stack or captured by a closure that can still run.
InUse == OnStack \cup {s.login : s \in signUps}
           \cup {release[a].screen : a \in Articles}
Fresh == Screens \ InUse

\* A new instance gets one of them, no matter which.
New == {s \in Fresh : s = CHOOSE t \in Fresh : TRUE}

Push(screen) == stack' = Append(stack, screen)

NoDoc == [text |-> None, imageURL |-> None]

\* What the server makes of a write.  Set replaces the document, Merge adds
\* imageURL and creates the document when it does not exist.
Applied(w) ==
  IF w.kind = "set"
  THEN [docs EXCEPT ![w.article] = [text |-> w.text, imageURL |-> None]]
  ELSE [docs EXCEPT ![w.article].imageURL = w.article]

Init ==
  /\ Queue!Init
  /\ current = SignedOut
  /\ stack = <<Main>>
  /\ typed = [s \in Screens |-> Empty]
  /\ signUps = {}
  /\ tried = {}
  /\ release = [a \in Articles |-> Chain("unused", None)]
  /\ handlers = <<>>
  /\ congratulated = {}
  /\ docs = [a \in Articles |-> NoDoc]
  /\ storage = {}
  /\ author = [w \in Writes |-> None]
  /\ dropped = 0

-----------------------------------------------------------------------------
\* Taps.  They are possible on the top screen only.

\* FirstViewController.tapWritingButton: always to Login, signed in or not.
TapWritingButton(s) ==
  /\ Top.kind = "Main"
  /\ Len(stack) < MaxDepth
  /\ Push(Screen("Login", s, None))
  /\ UNCHANGED <<sdk, typed, signUps, tried, release, handlers, congratulated,
                 docs, storage, author, dropped>>

\* LoginViewController.tappedSignUpButton: createUser; the button stays enabled.
TapSignUp(u) ==
  /\ Top.kind = "Login"
  /\ u \notin tried
  /\ tried' = tried \cup {u}
  /\ signUps' = signUps \cup {[login |-> Top.id, account |-> u, created |-> FALSE]}
  /\ UNCHANGED <<sdk, stack, typed, release, handlers, congratulated, docs,
                 storage, author, dropped>>

\* Typing on the Writing screen.
Type(text) ==
  /\ Top.kind = "Writing"
  /\ typed' = [typed EXCEPT ![Top.id] = text]
  /\ UNCHANGED <<sdk, stack, signUps, tried, release, handlers, congratulated,
                 docs, storage, author, dropped>>

\* WritingViewController.editBarButton1Tapped: the text views are shared.
TapNext(s) ==
  /\ Top.kind = "Writing"
  /\ Len(stack) < MaxDepth
  /\ Push(Screen("WritingAdd", s, Top.id))
  /\ UNCHANGED <<sdk, typed, signUps, tried, release, handlers, congratulated,
                 docs, storage, author, dropped>>

\* The navigation bar's Back button; Writing and Article hide it.
TapBack ==
  /\ Top.kind \in {"Login", "WritingAdd"}
  /\ stack' = SubSeq(stack, 1, Len(stack) - 1)
  /\ UNCHANGED <<sdk, typed, signUps, tried, release, handlers, congratulated,
                 docs, storage, author, dropped>>

\* Tapping the selected Home tab pops to the root (UITabBarController).
TapHome ==
  /\ Len(stack) > 1
  /\ stack' = <<Main>>
  /\ typed' = [s \in Screens |-> Empty]
  /\ UNCHANGED <<sdk, signUps, tried, release, handlers, congratulated, docs,
                 storage, author, dropped>>

\* Fault: the upload starts without createToFirestore.
TapReleaseWithoutSet(a) ==
  /\ Top.kind = "WritingAdd"
  /\ typed[Top.ref] # Empty
  /\ release[a].phase = "unused"
  /\ release' = [release EXCEPT ![a] = Chain("uploading", Top.id)]
  /\ UNCHANGED <<sdk, stack, typed, signUps, tried, handlers, congratulated,
                 docs, storage, author, dropped>>

\* WritingAddViewController.tapReleaseButton: refused when the title is empty;
\* otherwise createToFirestore makes a new document, without a completion
\* handler, and the upload starts, unless jpegData fails.  The button stays
\* enabled.
TapRelease(a) ==
  /\ Top.kind = "WritingAdd"
  /\ typed[Top.ref] # Empty
  /\ release[a].phase = "unused"
  /\ LET w == Set(a, typed[Top.ref])
     IN  /\ Queue!Issue(w)
         /\ author' = [author EXCEPT ![w] = current]
  /\ \E chain \in {Chain("uploading", Top.id), Over} :
       release' = [release EXCEPT ![a] = chain]
  /\ UNCHANGED <<stack, typed, signUps, tried, handlers, congratulated, docs,
                 storage, dropped>>

-----------------------------------------------------------------------------
\* Callbacks on the main queue.

\* Fault: Firestore takes the new account but not a new stream.
AuthStateChangedOnly(p) ==
  /\ ~p.created
  /\ Queue!SwitchUserKeepsCursor(p.account)
  /\ signUps' = (signUps \ {p}) \cup {[p EXCEPT !.created = TRUE]}
  /\ UNCHANGED <<stack, typed, tried, release, handlers, congratulated, docs,
                 storage, author, dropped>>

\* FIRAuth has created the account and made it the current one: Firestore
\* opens its mutation queue.  The completion follows on the main queue.
AuthStateChanged(p) ==
  /\ ~p.created
  /\ Queue!SwitchUser(p.account)
  /\ signUps' = (signUps \ {p}) \cup {[p EXCEPT !.created = TRUE]}
  /\ UNCHANGED <<stack, typed, tried, release, handlers, congratulated, docs,
                 storage, author, dropped>>

\* A token cannot be renewed because the account is disabled, deleted or its
\* session revoked: FIRAuth signs out, and Firestore follows.
SignedOutByAuth ==
  /\ current # SignedOut
  /\ dropped < MaxDrops
  /\ Queue!SwitchUser(SignedOut)
  /\ dropped' = dropped + 1
  /\ UNCHANGED <<device, docs, storage, author>>

\* createUser fails: nothing happens.
SignUpFails(p) ==
  /\ ~p.created
  /\ signUps' = signUps \ {p}
  /\ UNCHANGED <<sdk, stack, typed, tried, release, handlers, congratulated,
                 docs, storage, author, dropped>>

\* Fault: the Writing screen opens without waiting for the account.
SignUpAssumed(p, s) ==
  /\ signUps' = signUps \ {p}
  /\ IF HasNavigation(p.login) THEN Push(Screen("Writing", s, None))
                               ELSE UNCHANGED stack
  /\ UNCHANGED <<sdk, typed, tried, release, handlers, congratulated, docs,
                 storage, author, dropped>>

\* createUser succeeds: push a new Writing screen, if Login is still there.
SignUpSucceeds(p, s) ==
  /\ p.created
  /\ signUps' = signUps \ {p}
  /\ IF HasNavigation(p.login) THEN Push(Screen("Writing", s, None))
                               ELSE UNCHANGED stack
  /\ UNCHANGED <<sdk, typed, tried, release, handlers, congratulated, docs,
                 storage, author, dropped>>

\* putData has stored the picture; downloadURL is called.
UploadSucceeds(a) ==
  /\ release[a].phase = "uploading"
  /\ storage' = storage \cup {a}
  /\ release' = [release EXCEPT ![a].phase = "uploaded"]
  /\ UNCHANGED <<sdk, stack, typed, signUps, tried, handlers, congratulated, docs, author, dropped>>

\* putData or downloadURL fails: the branches are empty.  A failed upload may
\* have reached the server all the same.
PictureFails(a) ==
  /\ release[a].phase \in {"uploading", "uploaded"}
  /\ release' = [release EXCEPT ![a] = Over]
  /\ storage' \in {storage, storage \cup {a}}
  /\ UNCHANGED <<sdk, stack, typed, signUps, tried, handlers, congratulated, docs, author, dropped>>

\* Fault: the URL is made up beforehand and the upload is not waited for.
GotDownloadURLTooEarly(a) ==
  /\ release[a].phase \in {"uploading", "uploaded"}
  /\ Queue!Issue(Merge(a))
  /\ author' = [author EXCEPT ![Merge(a)] = current]
  /\ release' = [release EXCEPT ![a].phase = "merging"]
  /\ UNCHANGED <<stack, typed, signUps, tried, handlers, congratulated, docs, storage, dropped>>

\* downloadURL succeeds: merge imageURL into the document, as the account that
\* is signed in by now.
GotDownloadURL(a) ==
  /\ release[a].phase = "uploaded"
  /\ Queue!Issue(Merge(a))
  /\ author' = [author EXCEPT ![Merge(a)] = current]
  /\ release' = [release EXCEPT ![a].phase = "merging"]
  /\ UNCHANGED <<stack, typed, signUps, tried, handlers, congratulated, docs, storage, dropped>>

\* Fault: a closure that gives up when its screen is gone.
MergeSucceededOnScreen ==
  /\ handlers # <<>>
  /\ LET a == Head(handlers)
     IN  IF HasNavigation(release[a].screen)
         THEN /\ congratulated' = congratulated \cup {a}
              /\ release' = [release EXCEPT ![a] = Over]
              /\ Push(Screen("Article", None, a))
         ELSE UNCHANGED <<congratulated, release, stack>>
  /\ handlers' = Tail(handlers)
  /\ UNCHANGED <<sdk, typed, signUps, tried, docs, storage, author, dropped>>

\* The merge's handler, without error: the success HUD, and the Article screen
\* if WritingAdd is still there.
MergeSucceeded ==
  /\ handlers # <<>>
  /\ LET a == Head(handlers)
     IN  /\ congratulated' = congratulated \cup {a}
         /\ release' = [release EXCEPT ![a] = Over]
         /\ IF HasNavigation(release[a].screen)
            THEN Push(Screen("Article", None, a))
            ELSE UNCHANGED stack
  /\ handlers' = Tail(handlers)
  /\ UNCHANGED <<sdk, typed, signUps, tried, docs, storage, author, dropped>>

-----------------------------------------------------------------------------
\* The SDK's worker queue and the server.

ServerCommits ==
  /\ Queue!Commit
  /\ docs' = Applied(queue[current][cursor + 1])
  /\ UNCHANGED <<device, storage, author, dropped>>

\* Fault: the success handler is given to the set, too.
WriteAcknowledgedEither ==
  /\ Queue!Acknowledge
  /\ LET w == Head(queue[current])
     IN  handlers' = IF completion[w] = "waiting"
                     THEN Append(handlers, w.article) ELSE handlers
  /\ UNCHANGED <<stack, typed, signUps, tried, release, congratulated, docs,
                 storage, author, dropped>>

\* NotifyUser runs before the batch is removed; the handler goes to the main
\* queue.  The set has none.
WriteAcknowledged ==
  /\ Queue!Acknowledge
  /\ LET w == Head(queue[current])
     IN  handlers' = IF w.kind = "merge" /\ completion[w] = "waiting"
                     THEN Append(handlers, w.article) ELSE handlers
  /\ UNCHANGED <<stack, typed, signUps, tried, release, congratulated, docs,
                 storage, author, dropped>>

\* The server refuses the write for good.  A merge's handler prints the error.
WriteRefused ==
  /\ Queue!Reject
  /\ LET w == Head(queue[current])
     IN  release' = IF w.kind = "merge" /\ completion[w] = "waiting"
                    THEN [release EXCEPT ![w.article] = Over]
                    ELSE release
  /\ UNCHANGED <<stack, typed, signUps, tried, handlers, congratulated, docs,
                 storage, author, dropped>>

ConnectionBreaks ==
  /\ cursor > 0
  /\ Queue!Disconnect
  /\ UNCHANGED <<device, docs, storage, author, dropped>>

\* The process dies and the app starts again: Firestore's queues and FIRAuth's
\* account survive, screens, texts and closures do not.  FIRAuth may have stored
\* a new account without having told Firestore yet.
Restart ==
  /\ \E u \in {current} \cup {p.account : p \in {q \in signUps : ~q.created}} :
       Queue!Restart(u)
  /\ stack' = <<Main>>
  /\ typed' = [s \in Screens |-> Empty]
  /\ signUps' = {}
  /\ release' = [a \in Articles |->
                   IF release[a].phase \in InFlight
                   THEN Chain("lost", None) ELSE release[a]]
  /\ handlers' = <<>>
  /\ UNCHANGED <<tried, congratulated, docs, storage, author, dropped>>

User ==
  \/ \E s \in New : TapWritingButton(s) \/ TapNext(s)
  \/ \E u \in Accounts : TapSignUp(u)
  \/ \E t \in Texts \cup {Empty} : Type(t)
  \/ TapBack
  \/ TapHome
  \/ \E a \in Articles : TapRelease(a)

Callbacks ==
  \/ \E p \in signUps : \/ AuthStateChanged(p)
                        \/ SignUpFails(p)
                        \/ \E s \in New : SignUpSucceeds(p, s)
  \/ \E a \in Articles : UploadSucceeds(a) \/ PictureFails(a) \/ GotDownloadURL(a)
  \/ MergeSucceeded
  \/ SignedOutByAuth

Next ==
  \/ User
  \/ Callbacks
  \/ ServerCommits
  \/ WriteAcknowledged
  \/ WriteRefused
  \/ ConnectionBreaks
  \/ Restart

Spec == Init /\ [][Next]_vars

-----------------------------------------------------------------------------
(***************************************************************************)
(* Properties.                                                             *)
(***************************************************************************)

\* The types of the state.
TypeOK ==
  /\ Queue!TypeOK
  /\ stack \in Seq([kind : Kinds, id : Screens \cup {None},
                    ref : Screens \cup Articles \cup {None}])
  /\ typed \in [Screens -> Texts \cup {Empty}]
  /\ signUps \subseteq [login : Screens, account : Accounts, created : BOOLEAN]
  /\ tried \subseteq Accounts
  /\ release \in [Articles -> [phase : Phases, screen : Screens \cup {None}]]
  /\ handlers \in Seq(Articles)
  /\ congratulated \subseteq Articles
  /\ docs \in [Articles -> [text : Texts \cup {None},
                            imageURL : Articles \cup {None}]]
  /\ storage \subseteq Articles
  /\ author \in [Writes -> Users \cup {None}]
  /\ dropped \in 0 .. MaxDrops

Pending(w) == \E u \in Users : \E i \in DOMAIN queue[u] : queue[u][i] = w

\* An imageURL always names the article's own picture, and that picture is in
\* Storage: no document ever points to a picture that is not there yet.
NoDanglingPicture ==
  \A a \in Articles : docs[a].imageURL \in {None} \cup ({a} \cap storage)

\* Both writes of an article have been made by the same account.
SameAuthor(a) == \A t \in Texts : author[Set(a, t)] \in {None, author[Merge(a)]}

\* A document that has an imageURL but no text (it would never be listed) comes
\* about in two ways only: the server refused the article's first write, or the
\* account changed between the two writes of the article.
HeadlessOnlyIfRefusedOrSwitched ==
  \A a \in Articles :
    docs[a].imageURL # None /\ docs[a].text = None =>
      ~SameAuthor(a) \/ \E t \in Texts : Set(a, t) \in refused

\* A set that is sent again takes the picture off a published article; the
\* picture comes back, because the merge behind it is sent again too (unless the
\* server changes its mind about it, or the merge went into another queue).
PictureLossIsTransient ==
  \A a \in Articles :
    Merge(a) \in committed /\ SameAuthor(a) /\ docs[a].imageURL = None =>
      Pending(Merge(a)) \/ Merge(a) \in refused

\* From the success message on the document has its picture, for good: nothing
\* that is still queued can take it off again, if both writes went through the
\* same queue.
CongratulatedKeepsPicture ==
  \A a \in congratulated : SameAuthor(a) => docs[a].imageURL = a

\* Only signed-in users reach the Writing screen and publish, unless FIRAuth has
\* signed an account out by itself.
SignedOutNeverWrites ==
  dropped = 0 =>
    /\ queue[SignedOut] = <<>>
    /\ current = SignedOut =>
         \A i \in DOMAIN stack : stack[i].kind \in {"Main", "Login"}

\* Fairness.  Callbacks that have been called for run, uploads end one way or
\* the other, the server goes on committing what it has been sent, and an
\* account whose connection comes back again and again gets its answer at last.
\* Nothing is assumed of the user, of refusals, of breaks or of process deaths.
Fairness ==
  /\ WF_vars(ServerCommits)
  /\ SF_vars(WriteAcknowledged)
  /\ WF_vars(MergeSucceeded)
  /\ \A a \in Articles : WF_vars(UploadSucceeds(a) \/ PictureFails(a))
  /\ \A a \in Articles : WF_vars(GotDownloadURL(a) \/ PictureFails(a))

FairSpec == Spec /\ Fairness

\* As long as the account stays signed in, everything it has written reaches the
\* server or is refused by it, whatever breaks and restarts there are.
StaysSignedInStores ==
  \A u \in Accounts : <>[](current = u) =>
    \A w \in Writes : [](author[w] = u => <>(w \in committed \cup refused))

\* As long as the account stays signed in, the chain of closures of a release
\* comes to an end.
StaysSignedInFinishes ==
  \A u \in Accounts : <>[](current = u) =>
    \A a \in Articles :
      [](release[a].phase = "merging" /\ author[Merge(a)] = u
           => <>(release[a].phase # "merging"))

\* For an author who stays signed in, both come to an end: the writes of
\* WritingAddViewController (157, 205) and the completion of the second one.
StaysSignedIn == StaysSignedInStores /\ StaysSignedInFinishes

-----------------------------------------------------------------------------
(***************************************************************************)
(* What the comments of WritingAddViewController.swift say.                *)
(***************************************************************************)

\* Line 211, where the success message is shown: "if saving to Firestore has
\* succeeded".  The article's title and text are there.
SuccessMeansSaved == \A a \in congratulated : docs[a].text # None

=============================================================================
