-------------------------- MODULE WriteQueueProofs --------------------------
(***************************************************************************)
(* Proofs about WriteQueue.tla, for any accounts and any writes.           *)
(*                                                                         *)
(* NoGaps and HandlersTellTheTruth are not inductive by themselves: what   *)
(* the cursor has passed must be known to be committed, and a write that   *)
(* has not been made must be known to be nowhere.  Inv adds both.          *)
(***************************************************************************)
EXTENDS WriteQueue, TLAPS

\* What the server has committed on this connection is committed.
CursorCommitted == \A i \in 1 .. cursor : queue[current][i] \in committed

\* A write the app has not made is neither waiting nor committed.
UnissuedIsNowhere ==
  \A w \in Writes : completion[w] = "unissued" => ~Pending(w) /\ w \notin committed

Inv ==
  /\ TypeOK
  /\ PendingOnce
  /\ CursorCommitted
  /\ NoGaps
  /\ UnissuedIsNowhere
  /\ HandlersTellTheTruth

-----------------------------------------------------------------------------
\* The initial state satisfies the invariant: all queues are empty.
LEMMA InitInv == Init => Inv
BY DEF Init, Inv, TypeOK, CompletionState, PendingOnce, CursorCommitted, NoGaps,
       UnissuedIsNowhere, HandlersTellTheTruth, Pending

\* Making a write keeps the invariant: it goes behind all others, and as it has
\* never been committed it leaves no gap.
LEMMA IssueInv ==
  ASSUME Inv, NEW w \in Writes, Issue(w)
  PROVE  Inv'
<1> DEFINE n == Len(queue[current]) + 1
<1>1. /\ current \in Users /\ current' = current /\ cursor' = cursor
      /\ committed' = committed /\ refused' = refused
      /\ queue' \in [Users -> Seq(Writes)]
      /\ completion' = [completion EXCEPT ![w] = "waiting"]
      /\ completion' \in [Writes -> CompletionState]
      /\ completion[w] = "unissued"
  BY DEF Inv, TypeOK, Issue, CompletionState
<1>2. /\ queue'[current] = Append(queue[current], w)
      /\ \A u \in Users : u # current => queue'[u] = queue[u]
  BY DEF Inv, TypeOK, Issue
<1>3. /\ DOMAIN queue'[current] = 1 .. n /\ queue'[current][n] = w
      /\ DOMAIN queue[current] = 1 .. n - 1 /\ n \in Nat \ {0}
      /\ \A i \in 1 .. n - 1 : queue'[current][i] = queue[current][i]
  BY <1>1, <1>2 DEF Inv, TypeOK
<1>4. ~Pending(w) /\ w \notin committed
  BY <1>1 DEF Inv, UnissuedIsNowhere
<1>5. TypeOK'
  BY <1>1, <1>2, <1>3 DEF Inv, TypeOK
<1>6. PendingOnce'
  <2> SUFFICES ASSUME NEW u \in Users, NEW v \in Users,
                      NEW i \in DOMAIN queue'[u], NEW j \in DOMAIN queue'[v],
                      queue'[u][i] = queue'[v][j]
               PROVE  u = v /\ i = j
    BY DEF PendingOnce
  <2>1. \A x \in Users : \A k \in DOMAIN queue'[x] :
          \/ k \in DOMAIN queue[x] /\ queue'[x][k] = queue[x][k] /\ queue[x][k] # w
          \/ x = current /\ k = n /\ queue'[x][k] = w
    <3> SUFFICES ASSUME NEW x \in Users, NEW k \in DOMAIN queue'[x]
                 PROVE  \/ /\ k \in DOMAIN queue[x] /\ queue'[x][k] = queue[x][k]
                           /\ queue[x][k] # w
                        \/ x = current /\ k = n /\ queue'[x][k] = w
      OBVIOUS
    <3>1. CASE x # current
      BY <1>2, <1>4, <3>1 DEF Pending
    <3>2. CASE x = current /\ k = n
      BY <1>3, <3>2
    <3>3. CASE x = current /\ k # n
      <4>1. k \in DOMAIN queue[x] /\ queue'[x][k] = queue[x][k]
        BY <1>3, <3>3
      <4> QED
        BY <4>1, <1>4 DEF Pending
    <3> QED
      BY <3>1, <3>2, <3>3
  <2> QED
    BY <2>1 DEF Inv, PendingOnce
<1>7. CursorCommitted'
  <2>1. cursor \in Nat /\ cursor <= n - 1
    BY DEF Inv, TypeOK
  <2>2. \A i \in 1 .. cursor : queue'[current][i] = queue[current][i]
    BY <1>3, <2>1
  <2> QED
    BY <1>1, <2>2 DEF Inv, CursorCommitted
<1>8. NoGaps'
  <2> SUFFICES ASSUME NEW u \in Users, NEW i \in DOMAIN queue'[u],
                      NEW j \in DOMAIN queue'[u], i < j, queue'[u][j] \in committed
               PROVE  queue'[u][i] \in committed
    BY <1>1 DEF NoGaps
  <2>1. CASE u # current
    BY <1>2, <2>1 DEF Inv, NoGaps
  <2>2. CASE u = current
    <3>1. j # n
      BY <1>3, <1>4, <2>2
    <3>2. i \in 1 .. n - 1 /\ j \in 1 .. n - 1
      BY <1>3, <2>2, <3>1
    <3> QED
      BY <1>3, <2>2, <3>2 DEF Inv, NoGaps
  <2> QED
    BY <2>1, <2>2
<1>9. ASSUME NEW v \in Writes
      PROVE  Pending(v)' <=> Pending(v) \/ v = w
  <2>1. ASSUME Pending(v)' PROVE Pending(v) \/ v = w
    <3>1. PICK u \in Users : \E i \in DOMAIN queue'[u] : queue'[u][i] = v
      BY <2>1 DEF Pending
    <3>2. CASE u # current
      BY <1>2, <3>1, <3>2 DEF Pending
    <3>3. CASE u = current
      <4>1. PICK i \in 1 .. n : queue'[current][i] = v
        BY <1>3, <3>1, <3>3
      <4>2. CASE i = n
        BY <1>3, <4>1, <4>2
      <4>3. CASE i # n
        <5>1. i \in DOMAIN queue[current] /\ queue[current][i] = v
          BY <1>3, <4>1, <4>3
        <5> QED
          BY <1>1, <5>1 DEF Pending
      <4> QED
        BY <4>2, <4>3
    <3> QED
      BY <3>2, <3>3
  <2>2. ASSUME Pending(v) PROVE Pending(v)'
    <3>1. PICK u \in Users : \E i \in DOMAIN queue[u] : queue[u][i] = v
      BY <2>2 DEF Pending
    <3>2. CASE u # current
      BY <1>2, <3>1, <3>2 DEF Pending
    <3>3. CASE u = current
      <4>1. PICK i \in 1 .. n - 1 : queue[current][i] = v
        BY <1>3, <3>1, <3>3
      <4>2. i \in DOMAIN queue'[current] /\ queue'[current][i] = v
        BY <1>3, <4>1
      <4> QED
        BY <1>1, <4>2 DEF Pending
    <3> QED
      BY <3>2, <3>3
  <2>3. ASSUME v = w PROVE Pending(v)'
    <3>1. n \in DOMAIN queue'[current] /\ queue'[current][n] = v
      BY <1>3, <2>3
    <3> QED
      BY <1>1, <3>1 DEF Pending
  <2> QED
    BY <2>1, <2>2, <2>3
<1>10. UnissuedIsNowhere'
  BY <1>1, <1>9 DEF Inv, TypeOK, UnissuedIsNowhere
<1>11. HandlersTellTheTruth'
  BY <1>1, <1>9 DEF Inv, TypeOK, HandlersTellTheTruth
<1>12. QED
  BY <1>5, <1>6, <1>7, <1>8, <1>10, <1>11 DEF Inv

\* A commit moves the cursor over the first write that was not committed on this
\* connection: no gap appears.
LEMMA CommitInv == ASSUME Inv, Commit PROVE Inv'
<1>1. /\ current' = current /\ queue' = queue /\ completion' = completion
      /\ refused' = refused /\ cursor' = cursor + 1
      /\ committed' = committed \cup {queue[current][cursor + 1]}
      /\ current \in Users /\ queue[current] \in Seq(Writes)
      /\ cursor \in Nat /\ cursor + 1 \in DOMAIN queue[current]
  BY DEF Inv, TypeOK, Commit
<1>2. queue[current][cursor + 1] \in Writes
  BY <1>1
<1>3. TypeOK'
  BY <1>1, <1>2 DEF Inv, TypeOK
<1>4. PendingOnce'
  BY <1>1 DEF Inv, PendingOnce
<1>5. CursorCommitted'
  BY <1>1 DEF Inv, CursorCommitted
<1>6. NoGaps'
  <2> SUFFICES ASSUME NEW u \in Users, NEW i \in DOMAIN queue[u],
                      NEW j \in DOMAIN queue[u], i < j, queue[u][j] \in committed'
               PROVE  queue[u][i] \in committed'
    BY <1>1 DEF NoGaps
  <2>1. CASE queue[u][j] \in committed
    BY <1>1, <2>1 DEF Inv, NoGaps
  <2>2. CASE queue[u][j] \notin committed
    <3>1. u = current /\ j = cursor + 1
      BY <1>1, <2>2 DEF Inv, PendingOnce
    <3>2. i \in 1 .. cursor
      BY <1>1, <3>1
    <3> QED
      BY <1>1, <3>1, <3>2 DEF Inv, CursorCommitted
  <2> QED
    BY <2>1, <2>2
<1>7. UnissuedIsNowhere'
  BY <1>1, <1>2 DEF Inv, UnissuedIsNowhere, Pending
<1>8. HandlersTellTheTruth'
  BY <1>1 DEF Inv, HandlersTellTheTruth, Pending
<1>9. QED
  BY <1>3, <1>4, <1>5, <1>6, <1>7, <1>8 DEF Inv

\* Dropping the head of the current queue, with an outcome that is true, keeps
\* the invariant.  Acknowledge and Reject both do it.
LEMMA PopInv ==
  ASSUME Inv, NEW outcome \in {"ok", "error"},
         queue[current] # <<>>,
         queue' = [queue EXCEPT ![current] = Tail(@)],
         completion' = Notify(Head(queue[current]), outcome),
         current' = current, committed' = committed,
         refused \subseteq refused', refused' \subseteq Writes,
         cursor' \in Nat, cursor' <= Len(queue[current]) - 1,
         cursor' <= cursor, cursor' > 0 => cursor' = cursor - 1,
         outcome = "ok" => Head(queue[current]) \in committed,
         outcome = "error" => Head(queue[current]) \in refused'
  PROVE  Inv'
<1> DEFINE q == queue[current]
           h == Head(q)
<1>1. /\ current \in Users /\ q \in Seq(Writes) /\ Len(q) \in Nat \ {0}
      /\ h = q[1] /\ h \in Writes
      /\ queue' \in [Users -> Seq(Writes)]
      /\ queue'[current] = Tail(q) /\ Len(Tail(q)) = Len(q) - 1
      /\ \A i \in 1 .. Len(q) - 1 : Tail(q)[i] = q[i + 1]
      /\ \A u \in Users : u # current => queue'[u] = queue[u]
  BY DEF Inv, TypeOK
<1>2. /\ DOMAIN queue'[current] = 1 .. Len(q) - 1
      /\ \A i \in DOMAIN queue'[current] :
           i + 1 \in DOMAIN q /\ queue'[current][i] = q[i + 1]
  BY <1>1
<1>3. completion' \in [Writes -> CompletionState]
  BY <1>1 DEF Inv, TypeOK, Notify, CompletionState
<1>4. TypeOK'
  BY <1>1, <1>3 DEF Inv, TypeOK
<1>5. PendingOnce'
  <2> SUFFICES ASSUME NEW u \in Users, NEW v \in Users,
                      NEW i \in DOMAIN queue'[u], NEW j \in DOMAIN queue'[v],
                      queue'[u][i] = queue'[v][j]
               PROVE  u = v /\ i = j
    BY DEF PendingOnce
  <2>1. CASE u = current /\ v = current
    BY <1>1, <1>2, <2>1 DEF Inv, PendingOnce
  <2>2. CASE u = current /\ v # current
    BY <1>1, <1>2, <2>2 DEF Inv, PendingOnce
  <2>3. CASE u # current /\ v = current
    BY <1>1, <1>2, <2>3 DEF Inv, PendingOnce
  <2>4. CASE u # current /\ v # current
    BY <1>1, <2>4 DEF Inv, PendingOnce
  <2> QED
    BY <2>1, <2>2, <2>3, <2>4
<1>6. CursorCommitted'
  BY <1>1, <1>2 DEF Inv, TypeOK, CursorCommitted
<1>7. NoGaps'
  <2> SUFFICES ASSUME NEW u \in Users, NEW i \in DOMAIN queue'[u],
                      NEW j \in DOMAIN queue'[u], i < j, queue'[u][j] \in committed
               PROVE  queue'[u][i] \in committed
    BY DEF NoGaps
  <2>1. CASE u = current
    BY <1>1, <1>2, <2>1 DEF Inv, NoGaps
  <2>2. CASE u # current
    BY <1>1, <2>2 DEF Inv, NoGaps
  <2> QED
    BY <2>1, <2>2
<1>8. ASSUME NEW v \in Writes
      PROVE  /\ Pending(v)' => Pending(v)
             /\ Pending(v) /\ v # h => Pending(v)'
  <2>1. ASSUME Pending(v)' PROVE Pending(v)
    <3>1. PICK u \in Users : \E i \in DOMAIN queue'[u] : queue'[u][i] = v
      BY <2>1 DEF Pending
    <3>2. CASE u = current
      BY <1>1, <1>2, <3>1, <3>2 DEF Pending
    <3>3. CASE u # current
      BY <1>1, <3>1, <3>3 DEF Pending
    <3> QED
      BY <3>2, <3>3
  <2>2. ASSUME Pending(v), v # h PROVE Pending(v)'
    <3>0. PICK u \in Users : \E i \in DOMAIN queue[u] : queue[u][i] = v
      BY <2>2 DEF Pending
    <3>1. PICK i \in DOMAIN queue[u] : queue[u][i] = v
      BY <3>0
    <3>2. CASE u = current
      <4>1. i \in 2 .. Len(q)
        BY <1>1, <2>2, <3>1, <3>2
      <4>2. i - 1 \in DOMAIN queue'[current] /\ queue'[current][i - 1] = v
        BY <1>1, <1>2, <3>1, <3>2, <4>1
      <4> QED
        BY <1>1, <4>2 DEF Pending
    <3>3. CASE u # current
      BY <1>1, <3>1, <3>3 DEF Pending
    <3> QED
      BY <3>2, <3>3
  <2> QED
    BY <2>1, <2>2
<1>9. Pending(h)
  BY <1>1 DEF Pending
<1>10. \A w \in Writes : \/ completion'[w] = completion[w] /\ (w = h => completion[w] # "waiting")
                         \/ w = h /\ completion'[w] = outcome /\ completion[w] = "waiting"
  BY <1>1 DEF Inv, TypeOK, Notify
<1>11. UnissuedIsNowhere'
  BY <1>8, <1>10 DEF Inv, UnissuedIsNowhere
<1>12. HandlersTellTheTruth'
  BY <1>8, <1>10 DEF Inv, HandlersTellTheTruth
<1>13. QED
  BY <1>4, <1>5, <1>6, <1>7, <1>11, <1>12 DEF Inv

\* Acknowledging the oldest commit is such a step: the cursor has passed it.
LEMMA AcknowledgeInv == ASSUME Inv, Acknowledge PROVE Inv'
<1>1. /\ cursor \in Nat \ {0} /\ cursor <= Len(queue[current])
      /\ queue[current] \in Seq(Writes) /\ queue[current] # <<>>
  BY DEF Inv, TypeOK, Acknowledge
<1>2. Head(queue[current]) \in committed
  BY <1>1 DEF Inv, CursorCommitted
<1>3. QED
  BY <1>1, <1>2, PopInv DEF Acknowledge, Inv, TypeOK

\* A refusal is such a step too.
LEMMA RejectInv == ASSUME Inv, Reject PROVE Inv'
<1>1. /\ cursor = 0 /\ cursor' = 0 /\ queue[current] # <<>>
      /\ queue[current] \in Seq(Writes) /\ Len(queue[current]) > 0
      /\ Head(queue[current]) \in Writes
  BY DEF Inv, TypeOK, Reject
<1>2. refused' = refused \cup {Head(queue[current])}
  BY DEF Reject
<1>3. QED
  BY <1>1, <1>2, PopInv DEF Reject, Inv, TypeOK

\* Losing the connection, the account or the process leaves the queues alone.
LEMMA ResetInv ==
  ASSUME Inv, current' \in Users, cursor' = 0,
         UNCHANGED <<queue, committed, refused>>,
         completion' \in [Writes -> CompletionState],
         \A w \in Writes : \/ completion'[w] = completion[w]
                           \/ completion'[w] = "lost" /\ completion[w] = "waiting"
  PROVE  Inv'
<1>1. TypeOK'
  BY DEF Inv, TypeOK
<1>2. PendingOnce' /\ CursorCommitted' /\ NoGaps'
  BY DEF Inv, PendingOnce, CursorCommitted, NoGaps
<1>3. UnissuedIsNowhere' /\ HandlersTellTheTruth'
  BY DEF Inv, UnissuedIsNowhere, HandlersTellTheTruth, Pending
<1>4. QED
  BY <1>1, <1>2, <1>3 DEF Inv

\* Every step keeps the invariant.
LEMMA NextInv == Inv /\ [Next]_vars => Inv'
<1> SUFFICES ASSUME Inv, [Next]_vars PROVE Inv'
  OBVIOUS
<1>1. CASE \E w \in Writes : Issue(w)
  BY <1>1, IssueInv
<1>2. CASE Commit
  BY <1>2, CommitInv
<1>3. CASE Acknowledge
  BY <1>3, AcknowledgeInv
<1>4. CASE Reject
  BY <1>4, RejectInv
<1>5. CASE Disconnect
  BY <1>5, ResetInv DEF Disconnect, Inv, TypeOK
<1>6. ASSUME NEW u \in Users, SwitchUser(u) PROVE Inv'
  BY <1>6, ResetInv DEF SwitchUser, Inv, TypeOK
<1>7. ASSUME NEW u \in Users, Restart(u) PROVE Inv'
  <2>1. completion' \in [Writes -> CompletionState]
    BY <1>7 DEF Restart, Inv, TypeOK, CompletionState
  <2>2. \A w \in Writes : \/ completion'[w] = completion[w]
                          \/ completion'[w] = "lost" /\ completion[w] = "waiting"
    BY <1>7 DEF Restart
  <2> QED
    BY <1>7, <2>1, <2>2, ResetInv DEF Restart
<1>8. CASE UNCHANGED vars
  BY <1>8 DEF vars, Inv, TypeOK, PendingOnce, CursorCommitted, NoGaps,
              UnissuedIsNowhere, HandlersTellTheTruth, Pending
<1>9. QED
  BY <1>1, <1>2, <1>3, <1>4, <1>5, <1>6, <1>7, <1>8 DEF Next

\* The queue always satisfies Inv: the types, and what follows from it.
THEOREM Invariance == Spec => []Inv
BY InitInv, NextInv, PTL DEF Spec

\* Type correctness of the queue.
THEOREM TypeCorrect == Spec => []TypeOK
BY Invariance, PTL DEF Inv

\* The server sees every account's pending writes in the order they were made.
THEOREM NeverAGap == Spec => []NoGaps
BY Invariance, PTL DEF Inv

\* No write waits twice.
THEOREM NeverTwice == Spec => []PendingOnce
BY Invariance, PTL DEF Inv

\* Completion handlers tell the truth, and only resolved writes are forgotten.
THEOREM TruthfulHandlers == Spec => []HandlersTellTheTruth
BY Invariance, PTL DEF Inv

=============================================================================
