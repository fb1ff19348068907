----------------------------- MODULE LocalView -----------------------------
(***************************************************************************)
(* What the app sees of an article on this device.  The Firestore SDK      *)
(* keeps a persistent cache of documents the server has told it about, and *)
(* lays the writes of the signed-in account that are still queued          *)
(* (WriteQueue.tla) over it.  The cache is fed from two sides in no common *)
(* order: an acknowledgement carries the version of the document and the   *)
(* client computes the contents itself, a watch event carries both.        *)
(* Versions decide which of them is newer.                                 *)
(*                                                                         *)
(* A document is abstracted to the set of its fields: "text" stands for    *)
(* what setData writes when an article is released, "picture" for the      *)
(* imageURL merged into it later.  Without fields it does not exist.       *)
(***************************************************************************)
EXTENDS Naturals, Sequences, FiniteSets, SequencesExt

CONSTANTS Users,      \* the accounts, the signed-out user among them
          Articles,   \* document ids
          None,
          MaxVersion  \* bound: how often the server commits anything

ASSUME LocalViewAssumption ==
  /\ None \notin Users
  /\ MaxVersion \in Nat \ {0}

Fields == {"text", "picture"}
Set(a)   == [kind |-> "set", article |-> a]
Merge(a) == [kind |-> "merge", article |-> a]
Writes == {Set(a) : a \in Articles} \cup {Merge(a) : a \in Articles}

VARIABLES
  \* the mutation queues
  current, queue, cursor, committed, refused, completion,
  \* LocalStore
  cache,      \* remote_document_cache_
  viewUser,   \* the account whose queue local_documents_ reads
  lastRemote, \* last_remote_snapshot_version of the target cache
  \* the server and the write stream
  history,    \* history[v]: the collection when v was the newest version
  acks,       \* versions in the acknowledgements under way
  \* history variables of the model
  author,     \* author[w]: the account that made write w
  acked,      \* writes whose acknowledgement has been handled
  seen,       \* seen[a]: newest snapshot that told the cache about a
  forgotten   \* articles that were dropped from the cache at least once

sdk    == <<current, queue, cursor, committed, refused, completion>>
server == <<history, acks>>
past   == <<author, acked, seen, forgotten>>
vars == <<current, queue, cursor, committed, refused, completion, cache,
          viewUser, lastRemote, history, acks, author, acked, seen, forgotten>>

Queue == INSTANCE WriteQueue

-----------------------------------------------------------------------------
Now == Len(history)

\* A document at the server: its update_time and its fields.
Doc(version, fields) == [version |-> version, fields |-> fields]

\* A document in the cache.  "synced": as the server sent it, NoDocument when it
\* has no fields; "guessed": made of an acknowledged write (kCommittedMutations);
\* "absent": the cache knows nothing of it.
Entry(version, fields, state) == [version |-> version, fields |-> fields, state |-> state]
Absent == Entry(0, {}, "absent")

\* SetMutation replaces the document, PatchMutation adds to it and creates it
\* when there is none: setData(merge: true) has no precondition.
Applied(fields, w) == IF w.kind = "set" THEN {"text"} ELSE fields \cup {"picture"}

\* MutationBatch::ApplyToLocalDocument: a write to another document changes nothing.
AppliedTo(a, fields, w) == IF w.article = a THEN Applied(fields, w) ELSE fields

\* LocalDocumentsView::GetDocument: the queued writes laid over the cache.
GetDocument(a) ==
  FoldLeft(LAMBDA fields, w : AppliedTo(a, fields, w), cache[a].fields, queue[viewUser])

\* u has writes to article a in its queue.
PendingOn(a, u) == \E i \in DOMAIN queue[u] : queue[u][i].article = a

Init ==
  /\ Queue!Init
  /\ cache = [a \in Articles |-> Absent]
  /\ viewUser = current
  /\ lastRemote = 0
  /\ history = <<[a \in Articles |-> Doc(0, {})]>>
  /\ acks = <<>>
  /\ author = [w \in Writes |-> None]
  /\ acked = {}
  /\ seen = [a \in Articles |-> 0]
  /\ forgotten = {}

-----------------------------------------------------------------------------
\* The app writes: WriteLocally puts the batch into the queue.  The merge of an
\* article is made after its set, by the account signed in by then.
WriteLocally(w) ==
  /\ w.kind = "merge" => completion[Set(w.article)] # "unissued"
  /\ Queue!Issue(w)
  /\ author' = [author EXCEPT ![w] = current]
  /\ UNCHANGED <<cache, viewUser, lastRemote, server, acked, seen, forgotten>>

\* The server commits the next write.  Whether a write that changes nothing
\* gives the document a new update_time is the server's business.
ServerCommits ==
  /\ Now < MaxVersion
  /\ Queue!Commit
  /\ LET w   == queue[current][cursor + 1]
         old == history[Now][w.article]
         new == Applied(old.fields, w)
     IN  \E version \in {Now + 1} \cup (IF new = old.fields THEN {old.version} ELSE {}) :
           /\ history' = Append(history,
                           [history[Now] EXCEPT ![w.article] = Doc(version, new)])
           /\ acks' = Append(acks, version)
  /\ UNCHANGED <<cache, viewUser, lastRemote, past>>

\* ApplyBatchResult for one document: an acknowledgement older than the cache is
\* no news.
ResultApplied(a, w, version) ==
  IF cache[a].version < version
  THEN Entry(version, Applied(cache[a].fields, w), "guessed")
  ELSE cache[a]

\* Fault: the cache is left to the watch stream.
AcknowledgeBatchOnly ==
  /\ Queue!Acknowledge
  /\ acks' = Tail(acks)
  /\ acked' = acked \cup {Head(queue[current])}
  /\ UNCHANGED <<cache, viewUser, lastRemote, history, author, seen, forgotten>>

\* The result of the oldest write goes into the cache, the write leaves the
\* queue, in one transaction.
AcknowledgeBatch ==
  /\ Queue!Acknowledge
  /\ LET w == Head(queue[current])
     IN  /\ cache' = [cache EXCEPT ![w.article] =
                        ResultApplied(w.article, w, Head(acks))]
         /\ acked' = acked \cup {w}
  /\ acks' = Tail(acks)
  /\ UNCHANGED <<viewUser, lastRemote, history, author, seen, forgotten>>

\* The write leaves the queue, and with it the local view.
RejectBatch ==
  /\ Queue!Reject
  /\ UNCHANGED <<cache, viewUser, lastRemote, server, past>>

\* Fault: an acknowledgement of the old connection is read on the new one.
ConnectionBreaksKeepsAcks ==
  /\ cursor > 0
  /\ Queue!Disconnect
  /\ UNCHANGED <<cache, viewUser, lastRemote, server, past>>

ConnectionBreaks ==
  /\ cursor > 0
  /\ Queue!Disconnect
  /\ acks' = <<>>
  /\ UNCHANGED <<cache, viewUser, lastRemote, history, past>>

\* Fault: local_documents_ keeps its reference to the old queue.
HandleUserChangeKeepsView(u) ==
  /\ u # current
  /\ Queue!SwitchUser(u)
  /\ acks' = <<>>
  /\ UNCHANGED <<cache, viewUser, lastRemote, history, past>>

\* The mutation queue is swapped and local_documents_ made anew; the cache is
\* shared by all accounts.
HandleUserChange(u) ==
  /\ u # current
  /\ Queue!SwitchUser(u)
  /\ viewUser' = u
  /\ acks' = <<>>
  /\ UNCHANGED <<cache, lastRemote, history, past>>

\* Cache and queues are on disk.
Restart(u) ==
  /\ Queue!Restart(u)
  /\ viewUser' = u
  /\ acks' = <<>>
  /\ UNCHANGED <<cache, lastRemote, history, past>>

-----------------------------------------------------------------------------
\* Fault: a document is replaced by a newer version only.
IsNewsIfNewer(doc, entry) ==
  entry.state = "absent" \/ doc.version > entry.version

\* Fault: what comes last is taken.
IsNewsAlways(doc, entry) == doc.version > 0

\* A document of a watch event replaces what the cache has unless that is newer;
\* of two with the same version the server's replaces the guess.
IsNews(doc, entry) ==
  \/ entry.state = "absent"
  \/ doc.version > entry.version
  \/ doc.version = entry.version /\ entry.state = "guessed"

\* What watch says of article a in snapshot v: the document, or that there is
\* none, for which the snapshot's version stands in.
Told(a, v) == IF history[v][a].fields = {} THEN Doc(v, {}) ELSE history[v][a]

\* The watch stream is consistent as of a snapshot, which may be older than what
\* has been acknowledged but is never older than the last one.  It tells of the
\* articles of targets that are listened to.
ApplyRemoteEvent(v, told) ==
  /\ v >= lastRemote
  /\ lastRemote' = v
  /\ cache' = [a \in Articles |->
                 IF a \in told /\ IsNews(Told(a, v), cache[a])
                 THEN Entry(Told(a, v).version, Told(a, v).fields, "synced")
                 ELSE cache[a]]
  /\ seen' = [a \in Articles |-> IF a \in told THEN v ELSE seen[a]]
  /\ UNCHANGED <<sdk, viewUser, server, author, acked, forgotten>>

Forget(a) ==
  /\ cache[a] # Absent
  /\ cache' = [cache EXCEPT ![a] = Absent]
  /\ seen' = [seen EXCEPT ![a] = 0]
  /\ forgotten' = forgotten \cup {a}
  /\ UNCHANGED <<sdk, viewUser, lastRemote, server, author, acked>>

\* A manufactured NoDocument without version: the server refuses to tell about a
\* document in limbo, or its existence filter for it is zero.
LoseAccess(a) == Forget(a)

\* The cache is over its limit: documents of no target go, except those that any
\* account's queue still writes to.
CollectGarbage(a) ==
  /\ \A u \in Users : ~PendingOn(a, u)
  /\ Forget(a)

Next ==
  \/ \E w \in Writes : WriteLocally(w)
  \/ ServerCommits
  \/ AcknowledgeBatch
  \/ RejectBatch
  \/ ConnectionBreaks
  \/ \E u \in Users : HandleUserChange(u) \/ Restart(u)
  \/ \E v \in 1 .. Now, told \in SUBSET Articles : ApplyRemoteEvent(v, told)
  \/ \E a \in Articles : LoseAccess(a) \/ CollectGarbage(a)

Spec == Init /\ [][Next]_vars

-----------------------------------------------------------------------------
(***************************************************************************)
(* Properties.                                                             *)
(***************************************************************************)

States == {"absent", "guessed", "synced"}

\* The types of the state; one version is on its way for every commit that has
\* not been acknowledged.
TypeOK ==
  /\ Queue!TypeOK
  /\ cache \in [Articles -> [version : 0 .. MaxVersion, fields : SUBSET Fields,
                             state : States]]
  /\ viewUser \in Users
  /\ lastRemote \in 0 .. MaxVersion
  /\ history \in Seq([Articles -> [version : 0 .. MaxVersion, fields : SUBSET Fields]])
  /\ Now \in 1 .. MaxVersion
  /\ acks \in Seq(1 .. MaxVersion)
  /\ Len(acks) = cursor
  /\ author \in [Writes -> Users \cup {None}]
  /\ acked \subseteq Writes
  /\ seen \in [Articles -> 0 .. MaxVersion]
  /\ forgotten \subseteq Articles

\* What the cache calls synced is what the server had at that version, and a
\* guess is newer than everything watch has told of the document: a wrong guess
\* (the merge of an article whose text is not cached) does not survive the watch
\* event that carries the truth, even though its version is the same.
WatchHasTheLastWord ==
  \A a \in Articles :
    /\ cache[a].state = "synced" => cache[a].fields = history[cache[a].version][a].fields
    /\ cache[a].state = "guessed" => cache[a].version > seen[a]

\* Nobody else has written to a.
Own(a) == {author[Set(a)], author[Merge(a)]} \subseteq {None, current}

\* Both writes are in: the article is complete on the device from then on, for
\* the Article screen that opens, without waiting for the server's snapshot and
\* whatever older snapshots are still to come.
PublishedIsVisible ==
  \A a \in Articles \ forgotten :
    {Set(a), Merge(a)} \subseteq acked /\ author[Set(a)] = author[Merge(a)]
      => cache[a].fields = Fields

FieldOf(w) == IF w.kind = "set" THEN "text" ELSE "picture"
PendingOfCurrent(w) == w \in ToSet(queue[current])

\* The view shows the queued writes of the account that is signed in, at once,
\* and neither those of other accounts nor refused ones.
ViewIsEarned ==
  \A w \in Writes :
    /\ PendingOfCurrent(w) => FieldOf(w) \in GetDocument(w.article)
    /\ FieldOf(w) \in GetDocument(w.article) => PendingOfCurrent(w) \/ w \in committed

\* What the author of an article sees of it never disappears again, on the way
\* from the queue to the cache, when writes are sent again, or when watch is
\* behind, unless one of its writes is refused, the account changes or the cache
\* has to forget the article.
NothingFlickers ==
  [][\A a \in Articles \ forgotten' :
       /\ Own(a)
       /\ current' = current
       /\ {Set(a), Merge(a)} \cap refused' = {}
       => GetDocument(a) \subseteq GetDocument(a)']_vars

=============================================================================
