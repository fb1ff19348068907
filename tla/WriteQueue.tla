----------------------------- MODULE WriteQueue -----------------------------
(***************************************************************************)
(* What the Firestore SDK promises the app about its writes, without the  *)
(* pipeline, the stream and the batch ids that keep the promise           *)
(* (WritePipeline.tla shows that the SDK's code implements it).           *)
(*                                                                         *)
(* Every account has a persistent FIFO queue of writes.  Only the queue   *)
(* of the signed-in account drains.  The server commits the queue from    *)
(* its head on, the acknowledgements follow the commits, and whenever the *)
(* connection breaks the server starts again from the head: a write can   *)
(* be committed more than once, never out of order.  A completion handler *)
(* lives in memory only and is called at most once.                       *)
(***************************************************************************)
EXTENDS Naturals, Sequences

CONSTANTS Users,    \* the accounts
          Writes    \* the writes the app can issue, each at most once

VARIABLES
  current,    \* the account whose queue drains
  queue,      \* queue[u]: u's writes that are not resolved yet, oldest first
  cursor,     \* how many writes at the head of queue[current] the server has
              \* committed on this connection, unacknowledged so far
  committed,  \* history: every write the server has ever committed
  refused,    \* history: every write the server has refused for good
  completion  \* completion[w]: what became of w's completion handler

vars == <<current, queue, cursor, committed, refused, completion>>

\* "unissued": the app has not made the write;  "waiting": the handler is
\* registered;  "ok", "error": it was called;  "lost": the process died.
CompletionState == {"unissued", "waiting", "ok", "error", "lost"}

TypeOK ==
  /\ current \in Users
  /\ queue \in [Users -> Seq(Writes)]
  /\ cursor \in Nat
  /\ cursor <= Len(queue[current])
  /\ committed \subseteq Writes
  /\ refused \subseteq Writes
  /\ completion \in [Writes -> CompletionState]

Init ==
  /\ current \in Users
  /\ queue = [u \in Users |-> <<>>]
  /\ cursor = 0
  /\ committed = {}
  /\ refused = {}
  /\ completion = [w \in Writes |-> "unissued"]

-----------------------------------------------------------------------------
\* A handler that is still registered is called with the outcome; the handler
\* of a write restored from disk is gone and nobody is told.
Notify(w, outcome) ==
  IF completion[w] = "waiting" THEN [completion EXCEPT ![w] = outcome]
                               ELSE completion

\* The app makes a write as the signed-in account.
Issue(w) ==
  /\ completion[w] = "unissued"
  /\ queue' = [queue EXCEPT ![current] = Append(@, w)]
  /\ completion' = [completion EXCEPT ![w] = "waiting"]
  /\ UNCHANGED <<current, cursor, committed, refused>>

\* Fault: the server serves the newest write first.
CommitNewest ==
  /\ cursor < Len(queue[current])
  /\ committed' = committed \cup {queue[current][Len(queue[current])]}
  /\ cursor' = cursor + 1
  /\ UNCHANGED <<current, queue, refused, completion>>

\* The server commits the next write of the signed-in account.
Commit ==
  /\ cursor < Len(queue[current])
  /\ committed' = committed \cup {queue[current][cursor + 1]}
  /\ cursor' = cursor + 1
  /\ UNCHANGED <<current, queue, refused, completion>>

\* Fault: the acknowledgement is taken for the newest commit's.
AcknowledgeNewest ==
  /\ cursor > 0
  /\ completion' = Notify(queue[current][cursor], "ok")
  /\ queue' = [queue EXCEPT ![current] = SubSeq(@, 1, cursor - 1)
                                           \o SubSeq(@, cursor + 1, Len(@))]
  /\ cursor' = cursor - 1
  /\ UNCHANGED <<current, committed, refused>>

\* Fault: the right write leaves the queue, the wrong handler is called.
AcknowledgeWrongHandler ==
  /\ cursor > 0
  /\ completion' = Notify(queue[current][cursor], "ok")
  /\ queue' = [queue EXCEPT ![current] = Tail(@)]
  /\ cursor' = cursor - 1
  /\ UNCHANGED <<current, committed, refused>>

\* The oldest commit is acknowledged: the write leaves the queue.
Acknowledge ==
  /\ cursor > 0
  /\ completion' = Notify(Head(queue[current]), "ok")
  /\ queue' = [queue EXCEPT ![current] = Tail(@)]
  /\ cursor' = cursor - 1
  /\ UNCHANGED <<current, committed, refused>>

\* The server refuses the head of the queue: the write is dropped.
Reject ==
  /\ cursor = 0
  /\ queue[current] # <<>>
  /\ completion' = Notify(Head(queue[current]), "error")
  /\ queue' = [queue EXCEPT ![current] = Tail(@)]
  /\ refused' = refused \cup {Head(queue[current])}
  /\ UNCHANGED <<current, cursor, committed>>

\* The connection breaks and the acknowledgements on it are lost.
Disconnect ==
  /\ cursor' = 0
  /\ UNCHANGED <<current, queue, committed, refused, completion>>

\* Fault: the position in the old account's queue is kept.
SwitchUserKeepsCursor(u) ==
  /\ current' = u
  /\ UNCHANGED <<queue, cursor, committed, refused, completion>>

\* Fault: the new account takes over a copy of the old account's writes.
SwitchUserCopiesQueue(u) ==
  /\ current' = u
  /\ cursor' = 0
  /\ queue' = [queue EXCEPT ![u] = @ \o queue[current]]
  /\ UNCHANGED <<committed, refused, completion>>

\* Another account signs in; the queues stay where they are.
SwitchUser(u) ==
  /\ current' = u
  /\ cursor' = 0
  /\ UNCHANGED <<queue, committed, refused, completion>>

\* The process dies and starts again: queues survive, handlers do not.
Restart(u) ==
  /\ current' = u
  /\ cursor' = 0
  /\ completion' = [w \in Writes |-> IF completion[w] = "waiting"
                                     THEN "lost" ELSE completion[w]]
  /\ UNCHANGED <<queue, committed, refused>>

Next ==
  \/ \E w \in Writes : Issue(w)
  \/ Commit
  \/ Acknowledge
  \/ Reject
  \/ Disconnect
  \/ \E u \in Users : SwitchUser(u) \/ Restart(u)

Spec == Init /\ [][Next]_vars

-----------------------------------------------------------------------------
(***************************************************************************)
(* Properties.                                                             *)
(***************************************************************************)

Pending(w) == \E u \in Users : \E i \in DOMAIN queue[u] : queue[u][i] = w

\* A write waits in one place only: no crash, user change or repetition puts a
\* copy of it behind writes that were made later.
PendingOnce ==
  \A u, v \in Users : \A i \in DOMAIN queue[u], j \in DOMAIN queue[v] :
    queue[u][i] = queue[v][j] => u = v /\ i = j

\* The server sees the pending writes of an account in the order in which they
\* were made: none is committed while an older one still waits for its commit.
NoGaps ==
  \A u \in Users : \A i, j \in DOMAIN queue[u] :
    i < j /\ queue[u][j] \in committed => queue[u][i] \in committed

\* A handler tells the truth: "ok" only about a write the server has committed,
\* "error" only about one it has refused, and as long as it has not been called
\* in this process the write has not been given up.
HandlersTellTheTruth ==
  \A w \in Writes : /\ completion[w] = "ok" => w \in committed
                    /\ completion[w] = "error" => w \in refused
                    /\ completion[w] = "waiting" => Pending(w)

=============================================================================
