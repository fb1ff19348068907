--------------------------- MODULE ReadPathProofs ---------------------------
(***************************************************************************)
(* Proofs about ReadPath.tla, for any reads, any queries and any bounds.   *)
(*                                                                         *)
(* That a completion is called only once is a matter of the whole life of  *)
(* a read, which OneLife describes: it is asked for, waits in the work     *)
(* queue, listens, and is answered; an error is the last event it is sent. *)
(*                                                                         *)
(* That answers are fresh is a matter of the order of what is on the       *)
(* connection, which FreshAt describes for as long as rules do not change: *)
(* whatever the client will take for data about a query was sent after the *)
(* last acknowledgement that is due for it, and so after the call.         *)
(***************************************************************************)
EXTENDS ReadPath, SequenceFacts, SequenceTheorems

Adding(r)   == \E i \in DOMAIN workQueue : workQueue[i] = Task("add", r)
Removing(r) == \E i \in DOMAIN workQueue : workQueue[i] = Task("remove", r)
Sent(r)     == \E i \in DOMAIN mainQueue : mainQueue[i].read = r

\* A read that nobody has asked for is nowhere.
UnaskedIsNowhere ==
  \A r \in Reads : query[r] = None =>
    /\ r \notin listening /\ r \notin muted /\ answer[r] = None
    /\ ~Adding(r) /\ ~Removing(r) /\ ~Sent(r)

\* A read is added once, before anything else happens to it.
AddedOnce ==
  /\ \A r \in Reads : Adding(r) =>
       r \notin listening /\ r \notin muted /\ answer[r] = None /\ ~Sent(r)
  /\ \A i, j \in DOMAIN workQueue :
       workQueue[i].kind = "add" /\ workQueue[i] = workQueue[j] => i = j

\* An error is the last event of a listener, which has been removed.
ErrorIsLast ==
  \A i \in DOMAIN mainQueue : mainQueue[i].from = "error" =>
    /\ mainQueue[i].read \notin listening
    /\ ~Adding(mainQueue[i].read)
    /\ \A j \in DOMAIN mainQueue : j > i => mainQueue[j].read # mainQueue[i].read

\* Nothing more reaches the completion of a read that has been answered.
AnsweredIsOver ==
  \A r \in Reads : answer[r] # None =>
    r \in muted \/ (r \notin listening /\ ~Adding(r) /\ ~Sent(r))

\* A listener is muted and removed only when its read is answered.
RemovedIsAnswered ==
  \A r \in Reads : r \in muted \/ Removing(r) => answer[r] # None

OneLife == UnaskedIsNowhere /\ AddedOnce /\ ErrorIsLast /\ AnsweredIsOver /\ RemovedIsAnswered

\* A connection that is not open carries nothing.
WireIsOpen == stream # "Open" => requests = <<>> /\ responses = <<>> /\ watched = {}

-----------------------------------------------------------------------------
\* What Raise adds to the main queue: one event for each listener of R.
LEMMA RaiseFacts ==
  ASSUME NEW R \in SUBSET Reads, NEW from \in [Queries -> {"server", "cache", "error"}],
         NEW data \in [Queries -> Versions], mainQueue \in Seq(EventType),
         \A r \in R : query[r] \in Queries, Raise(R, from, data)
  PROVE  /\ mainQueue' \in Seq(EventType)
         /\ Len(mainQueue) \in Nat
         /\ DOMAIN mainQueue = 1 .. Len(mainQueue)
         /\ \A i \in DOMAIN mainQueue : i \in DOMAIN mainQueue' /\ mainQueue'[i] = mainQueue[i]
         /\ \A i \in DOMAIN mainQueue' : i \notin DOMAIN mainQueue =>
              /\ i > Len(mainQueue)
              /\ mainQueue'[i].read \in R
              /\ mainQueue'[i].from = from[query[mainQueue'[i].read]]
              /\ mainQueue'[i].version = data[query[mainQueue'[i].read]]
              /\ \A j \in DOMAIN mainQueue' :
                   j \notin DOMAIN mainQueue /\ mainQueue'[i].read = mainQueue'[j].read => i = j
         /\ \A r \in R : \E i \in DOMAIN mainQueue' :
              i \notin DOMAIN mainQueue /\ mainQueue'[i].read = r
<1> DEFINE f == [r \in R |-> Event(r, from[query[r]], data[query[r]])]
           n == Len(mainQueue)
<1>1. PICK s \in SetToSeqs({Event(r, from[query[r]], data[query[r]]) : r \in R}) :
             mainQueue' = mainQueue \o s
  BY DEF Raise
<1>2. f \in [R -> EventType]
  BY DEF Event, EventType
<1>3. {Event(r, from[query[r]], data[query[r]]) : r \in R} = {f[r] : r \in R}
  OBVIOUS
<1>4. IsFiniteSet(R)
  BY ReadPathAssumption, FS_Subset
<1> HIDE DEF f
<1>5. /\ s \in Seq(EventType)
      /\ \A i \in DOMAIN s : \E r \in R : s[i] = f[r]
      /\ \A i, j \in DOMAIN s : s[i] = s[j] => i = j
      /\ \A r \in R : \E i \in DOMAIN s : s[i] = f[r]
  <2>1. s \in SetToSeqs({f[r] : r \in R})
    BY <1>1, <1>3
  <2> QED
    BY <1>2, <1>4, <2>1, OrderOfImage
<1>6. \A r \in R : f[r].read = r /\ f[r].from = from[query[r]] /\ f[r].version = data[query[r]]
  BY DEF f, Event
<1>7. /\ mainQueue' \in Seq(EventType)
      /\ n \in Nat /\ Len(s) \in Nat
      /\ DOMAIN mainQueue = 1 .. n
      /\ DOMAIN s = 1 .. Len(s)
      /\ DOMAIN mainQueue' = 1 .. n + Len(s)
      /\ \A i \in DOMAIN mainQueue : mainQueue'[i] = mainQueue[i]
      /\ \A i \in DOMAIN s : mainQueue'[n + i] = s[i]
  BY <1>1, <1>5, ConcatFacts
<1>8. \A i \in DOMAIN mainQueue' : i \notin DOMAIN mainQueue =>
        i > n /\ i - n \in DOMAIN s /\ mainQueue'[i] = s[i - n]
  <2> SUFFICES ASSUME NEW i \in DOMAIN mainQueue', i \notin DOMAIN mainQueue
               PROVE  i > n /\ i - n \in DOMAIN s /\ mainQueue'[i] = s[i - n]
    OBVIOUS
  <2>1. i \in Int /\ i > n /\ i - n \in DOMAIN s
    BY <1>7
  <2>2. n + (i - n) = i
    BY <1>7, <2>1
  <2> QED
    BY <1>7, <2>1, <2>2
<1>9. \A i, j \in DOMAIN s : s[i].read = s[j].read => i = j
  BY <1>5, <1>6
<1>10. \A i \in DOMAIN mainQueue' : i \notin DOMAIN mainQueue =>
         /\ i > n
         /\ mainQueue'[i].read \in R
         /\ mainQueue'[i].from = from[query[mainQueue'[i].read]]
         /\ mainQueue'[i].version = data[query[mainQueue'[i].read]]
         /\ \A j \in DOMAIN mainQueue' :
              j \notin DOMAIN mainQueue /\ mainQueue'[i].read = mainQueue'[j].read => i = j
  <2> SUFFICES ASSUME NEW i \in DOMAIN mainQueue', i \notin DOMAIN mainQueue
               PROVE  /\ i > n
                      /\ mainQueue'[i].read \in R
                      /\ mainQueue'[i].from = from[query[mainQueue'[i].read]]
                      /\ mainQueue'[i].version = data[query[mainQueue'[i].read]]
                      /\ \A j \in DOMAIN mainQueue' :
                           /\ j \notin DOMAIN mainQueue
                           /\ mainQueue'[i].read = mainQueue'[j].read
                           => i = j
    OBVIOUS
  <2>1. i > n /\ i - n \in DOMAIN s /\ mainQueue'[i] = s[i - n]
    BY <1>8
  <2>2. PICK r \in R : s[i - n] = f[r]
    BY <1>5, <2>1
  <2>3. /\ mainQueue'[i].read \in R
        /\ mainQueue'[i].from = from[query[mainQueue'[i].read]]
        /\ mainQueue'[i].version = data[query[mainQueue'[i].read]]
    BY <1>6, <2>1, <2>2
  <2>4. ASSUME NEW j \in DOMAIN mainQueue', j \notin DOMAIN mainQueue,
               mainQueue'[i].read = mainQueue'[j].read
        PROVE  i = j
    <3>1. j - n \in DOMAIN s /\ mainQueue'[j] = s[j - n]
      BY <1>8, <2>4
    <3>2. i - n = j - n
      BY <1>9, <2>1, <2>4, <3>1
    <3> QED
      BY <1>7, <3>2
  <2> QED
    BY <2>1, <2>3, <2>4
<1>11. ASSUME NEW r \in R
       PROVE  \E i \in DOMAIN mainQueue' : i \notin DOMAIN mainQueue /\ mainQueue'[i].read = r
  <2>1. PICK i \in DOMAIN s : s[i] = f[r]
    BY <1>5
  <2>2. n + i \in DOMAIN mainQueue' /\ n + i \notin DOMAIN mainQueue
    BY <1>7
  <2> QED
    BY <1>6, <1>7, <2>1, <2>2
<1>12. \A i \in DOMAIN mainQueue : i \in DOMAIN mainQueue'
  BY <1>7
<1> QED
  BY <1>7, <1>10, <1>11, <1>12

-----------------------------------------------------------------------------
\* One life: what the events, tasks and answers of a read have to do with each
\* other.

\* Steps that leave the reads alone.
LEMMA LifeFrame ==
  ASSUME OneLife, UNCHANGED <<query, mainQueue, muted, answer, workQueue, listening>>
  PROVE  OneLife'
BY DEF OneLife, UnaskedIsNowhere, AddedOnce, ErrorIsLast, AnsweredIsOver,
       RemovedIsAnswered, Adding, Removing, Sent

\* Who listens has asked.
LEMMA ListenersHaveAsked ==
  ASSUME TypeOK, OneLife
  PROVE  \A r \in listening : r \in Reads /\ query[r] \in Queries
<1>1. listening \subseteq Reads /\ query \in [Reads -> Queries \cup {None}]
  BY DEF TypeOK
<1> QED
  BY <1>1 DEF OneLife, UnaskedIsNowhere

\* Events for listeners that go on listening, or errors for listeners that
\* are removed.
LEMMA RaiseLife ==
  ASSUME TypeOK, OneLife, NEW R \in SUBSET listening,
         NEW from \in [Queries -> {"server", "cache", "error"}],
         NEW data \in [Queries -> Versions], Raise(R, from, data),
         UNCHANGED <<query, muted, answer, workQueue>>,
         \/ listening' = listening /\ \A q \in Queries : from[q] # "error"
         \/ listening' = listening \ R
  PROVE  /\ OneLife'
         /\ mainQueue' \in Seq(EventType)
         /\ \A r \in Reads : Sent(r)' <=> Sent(r) \/ r \in R
<1>1. \A r \in R : r \in listening /\ r \in Reads /\ query[r] \in Queries
  BY ListenersHaveAsked
<1>2. mainQueue \in Seq(EventType)
  BY DEF TypeOK
<1>3. /\ mainQueue' \in Seq(EventType)
      /\ Len(mainQueue) \in Nat
      /\ DOMAIN mainQueue = 1 .. Len(mainQueue)
      /\ \A i \in DOMAIN mainQueue : i \in DOMAIN mainQueue' /\ mainQueue'[i] = mainQueue[i]
      /\ \A i \in DOMAIN mainQueue' : i \notin DOMAIN mainQueue =>
           /\ i > Len(mainQueue)
           /\ mainQueue'[i].read \in R
           /\ mainQueue'[i].from = from[query[mainQueue'[i].read]]
           /\ mainQueue'[i].version = data[query[mainQueue'[i].read]]
           /\ \A j \in DOMAIN mainQueue' :
                j \notin DOMAIN mainQueue /\ mainQueue'[i].read = mainQueue'[j].read => i = j
      /\ \A r \in R : \E i \in DOMAIN mainQueue' :
           i \notin DOMAIN mainQueue /\ mainQueue'[i].read = r
  <2>1. R \in SUBSET Reads
    BY <1>1
  <2> QED
    BY <1>1, <1>2, <2>1, RaiseFacts
<1>4. \A r : Adding(r)' <=> Adding(r)
  BY DEF Adding
<1>5. \A r : Removing(r)' <=> Removing(r)
  BY DEF Removing
<1>6. \A r : Sent(r)' <=> Sent(r) \/ r \in R
  <2> SUFFICES ASSUME NEW r
               PROVE  Sent(r)' <=> Sent(r) \/ r \in R
    OBVIOUS
  <2>1. Sent(r) => Sent(r)'
    BY <1>3 DEF Sent
  <2>2. r \in R => Sent(r)'
    BY <1>3 DEF Sent
  <2>3. Sent(r)' => Sent(r) \/ r \in R
    BY <1>3 DEF Sent
  <2> QED
    BY <2>1, <2>2, <2>3
<1>7. listening' \subseteq listening
  OBVIOUS
<1>8. UnaskedIsNowhere'
  BY <1>1, <1>4, <1>5, <1>6, <1>7 DEF OneLife, UnaskedIsNowhere
<1>9. AddedOnce'
  BY <1>1, <1>4, <1>6, <1>7 DEF OneLife, AddedOnce
<1>10. ErrorIsLast'
  <2> SUFFICES ASSUME NEW i \in DOMAIN mainQueue', mainQueue'[i].from = "error"
               PROVE  /\ mainQueue'[i].read \notin listening'
                      /\ ~Adding(mainQueue'[i].read)
                      /\ \A j \in DOMAIN mainQueue' :
                           j > i => mainQueue'[j].read # mainQueue'[i].read
    <3>1. workQueue' = workQueue
      OBVIOUS
    <3> QED
      BY <3>1 DEF ErrorIsLast, Adding
  <2> DEFINE r == mainQueue'[i].read
  <2>1. CASE i \in DOMAIN mainQueue
    <3>1. /\ r = mainQueue[i].read /\ r \notin listening /\ ~Adding(r)
          /\ \A j \in DOMAIN mainQueue : j > i => mainQueue[j].read # r
      BY <1>3, <2>1 DEF OneLife, ErrorIsLast
    <3>2. \A j \in DOMAIN mainQueue' : j > i => mainQueue'[j].read # r
      BY <1>3, <3>1
    <3> QED
      BY <1>7, <3>1, <3>2
  <2>2. CASE i \notin DOMAIN mainQueue
    <3>1. r \in R /\ from[query[r]] = "error" /\ i > Len(mainQueue)
      BY <1>3, <2>2
    <3>2. r \notin listening' /\ r \in listening /\ r \in Reads
      BY <1>1, <3>1
    <3>3. ~Adding(r)
      BY <3>2 DEF OneLife, AddedOnce
    <3>4. ASSUME NEW j \in DOMAIN mainQueue', j > i
          PROVE  mainQueue'[j].read # r
      <4>1. j \notin DOMAIN mainQueue /\ j # i
        BY <1>3, <3>1, <3>4
      <4> QED
        BY <1>3, <2>2, <4>1
    <3> QED
      BY <3>2, <3>3, <3>4
  <2> QED
    BY <2>1, <2>2
<1>11. AnsweredIsOver'
  BY <1>1, <1>4, <1>6, <1>7 DEF OneLife, AnsweredIsOver
<1>12. RemovedIsAnswered'
  BY <1>5 DEF OneLife, RemovedIsAnswered
<1> QED
  BY <1>3, <1>6, <1>8, <1>9, <1>10, <1>11, <1>12 DEF OneLife

\* Events are events of reads.
LEMMA EventsTyped ==
  ASSUME TypeOK
  PROVE  \A i \in DOMAIN mainQueue : mainQueue[i] \in EventType /\ mainQueue[i].read \in Reads
<1>1. mainQueue \in Seq(EventType)
  BY DEF TypeOK
<1>2. \A i \in DOMAIN mainQueue : mainQueue[i] \in EventType
  BY <1>1
<1> QED
  BY <1>2 DEF EventType

\* A task at the end of the work queue.
LEMMA EnqueueFacts ==
  ASSUME TypeOK, NEW k \in {"add", "remove"}, NEW r \in Reads,
         workQueue' = Append(workQueue, Task(k, r))
  PROVE  /\ workQueue' \in Seq([kind : {"add", "remove"}, read : Reads])
         /\ \A x \in Reads : Adding(x)' <=> Adding(x) \/ (k = "add" /\ x = r)
         /\ \A x \in Reads : Removing(x)' <=> Removing(x) \/ (k = "remove" /\ x = r)
         /\ Len(workQueue) \in Nat
         /\ DOMAIN workQueue = 1 .. Len(workQueue)
         /\ DOMAIN workQueue' = 1 .. Len(workQueue) + 1
         /\ \A i \in DOMAIN workQueue : workQueue'[i] = workQueue[i]
         /\ workQueue'[Len(workQueue) + 1] = Task(k, r)
<1> DEFINE T == [kind : {"add", "remove"}, read : Reads]
           n == Len(workQueue)
<1>1. workQueue \in Seq(T) /\ Task(k, r) \in T
  BY DEF TypeOK, Task
<1>2. /\ workQueue' \in Seq(T)
      /\ n \in Nat
      /\ DOMAIN workQueue = 1 .. n
      /\ DOMAIN workQueue' = 1 .. n + 1
      /\ \A i \in DOMAIN workQueue : workQueue'[i] = workQueue[i]
      /\ workQueue'[n + 1] = Task(k, r)
  BY <1>1, AppendFacts
<1>3. /\ \A x \in Reads : Adding(x)' <=> Adding(x) \/ (k = "add" /\ x = r)
      /\ \A x \in Reads : Removing(x)' <=> Removing(x) \/ (k = "remove" /\ x = r)
  <2> SUFFICES ASSUME NEW x \in Reads
               PROVE  /\ Adding(x)' <=> Adding(x) \/ (k = "add" /\ x = r)
                      /\ Removing(x)' <=> Removing(x) \/ (k = "remove" /\ x = r)
    OBVIOUS
  <2>1. \A t : (\E i \in DOMAIN workQueue' : workQueue'[i] = t)
                <=> (\E i \in DOMAIN workQueue : workQueue[i] = t) \/ t = Task(k, r)
    BY <1>2
  <2>2. Task("add", x) = Task(k, r) <=> k = "add" /\ x = r
    BY DEF Task
  <2>3. Task("remove", x) = Task(k, r) <=> k = "remove" /\ x = r
    BY DEF Task
  <2> QED
    BY <2>1, <2>2, <2>3 DEF Adding, Removing
<1> QED
  BY <1>2, <1>3

\* The first task of the work queue is done.
LEMMA DequeueFacts ==
  ASSUME TypeOK, workQueue # <<>>, workQueue' = Tail(workQueue)
  PROVE  /\ Head(workQueue).read \in Reads
         /\ Head(workQueue) = workQueue[1]
         /\ Head(workQueue) = Task(Head(workQueue).kind, Head(workQueue).read)
         /\ 1 \in DOMAIN workQueue
         /\ workQueue' \in Seq([kind : {"add", "remove"}, read : Reads])
         /\ DOMAIN workQueue' \subseteq Nat \ {0}
         /\ \A i \in DOMAIN workQueue' : i + 1 \in DOMAIN workQueue /\ workQueue'[i] = workQueue[i + 1]
         /\ \A x : Adding(x)' => Adding(x)
         /\ \A x : Removing(x)' => Removing(x)
         /\ \A t : (\E i \in DOMAIN workQueue : workQueue[i] = t)
                   => t = Head(workQueue) \/ \E i \in DOMAIN workQueue' : workQueue'[i] = t
<1> DEFINE T == [kind : {"add", "remove"}, read : Reads]
<1>1. workQueue \in Seq(T)
  BY DEF TypeOK
<1>2. /\ workQueue' \in Seq(T)
      /\ Len(workQueue) \in Nat
      /\ DOMAIN workQueue = 1 .. Len(workQueue)
      /\ 1 \in DOMAIN workQueue
      /\ Head(workQueue) = workQueue[1]
      /\ Head(workQueue) \in T
      /\ DOMAIN workQueue' = 1 .. Len(workQueue) - 1
      /\ \A i \in DOMAIN workQueue' : workQueue'[i] = workQueue[i + 1] /\ i + 1 \in DOMAIN workQueue
  BY <1>1, TailFacts
<1>3. \A t : (\E i \in DOMAIN workQueue : workQueue[i] = t)
             => t = Head(workQueue) \/ \E i \in DOMAIN workQueue' : workQueue'[i] = t
  <2> SUFFICES ASSUME NEW t, NEW i \in DOMAIN workQueue, workQueue[i] = t, i # 1
               PROVE  \E j \in DOMAIN workQueue' : workQueue'[j] = t
    BY <1>2
  <2>1. i - 1 \in DOMAIN workQueue' /\ (i - 1) + 1 = i
    BY <1>2
  <2> QED
    BY <1>2, <2>1
<1>4. Head(workQueue) = Task(Head(workQueue).kind, Head(workQueue).read)
  BY <1>2 DEF Task
<1>5. (\A x : Adding(x)' => Adding(x)) /\ (\A x : Removing(x)' => Removing(x))
  BY <1>2 DEF Adding, Removing
<1> QED
  BY <1>2, <1>3, <1>4, <1>5

\* The first event of the main queue is done.
LEMMA EventFacts ==
  ASSUME TypeOK, mainQueue # <<>>, mainQueue' = Tail(mainQueue)
  PROVE  /\ Head(mainQueue) \in EventType
         /\ Head(mainQueue).read \in Reads
         /\ Head(mainQueue) = mainQueue[1]
         /\ 1 \in DOMAIN mainQueue
         /\ mainQueue' \in Seq(EventType)
         /\ \A i \in DOMAIN mainQueue' :
              /\ i \in Nat \ {0}
              /\ i + 1 \in DOMAIN mainQueue
              /\ mainQueue'[i] = mainQueue[i + 1]
         /\ \A x : Sent(x)' => Sent(x)
         /\ \A x : Sent(x) => Sent(x)' \/ x = Head(mainQueue).read
         /\ Sent(Head(mainQueue).read)
<1>1. mainQueue \in Seq(EventType)
  BY DEF TypeOK
<1>2. /\ mainQueue' \in Seq(EventType)
      /\ Len(mainQueue) \in Nat
      /\ DOMAIN mainQueue = 1 .. Len(mainQueue)
      /\ 1 \in DOMAIN mainQueue
      /\ Head(mainQueue) = mainQueue[1]
      /\ Head(mainQueue) \in EventType
      /\ DOMAIN mainQueue' = 1 .. Len(mainQueue) - 1
      /\ \A i \in DOMAIN mainQueue' : mainQueue'[i] = mainQueue[i + 1] /\ i + 1 \in DOMAIN mainQueue
  BY <1>1, TailFacts
<1>3. \A x : Sent(x)' => Sent(x)
  BY <1>2 DEF Sent
<1>4. ASSUME NEW x, Sent(x), x # Head(mainQueue).read
      PROVE  Sent(x)'
  <2>1. PICK i \in DOMAIN mainQueue : mainQueue[i].read = x
    BY <1>4 DEF Sent
  <2>2. i # 1
    BY <1>2, <1>4, <2>1
  <2>3. i - 1 \in DOMAIN mainQueue' /\ (i - 1) + 1 = i
    BY <1>2, <2>2
  <2> QED
    BY <1>2, <2>1, <2>3 DEF Sent
<1>5. Head(mainQueue).read \in Reads
  BY <1>2 DEF EventType
<1>6. Sent(Head(mainQueue).read)
  BY <1>2 DEF Sent
<1> QED
  BY <1>2, <1>3, <1>4, <1>5, <1>6

\* A call begins the life of a read.
LEMMA AskLife ==
  ASSUME TypeOK, OneLife, NEW r \in Reads, NEW q \in Queries, Ask(r, q)
  PROVE  OneLife'
<1>1. /\ query[r] = None /\ query' = [query EXCEPT ![r] = q]
      /\ workQueue' = Append(workQueue, Task("add", r))
      /\ UNCHANGED <<mainQueue, muted, answer, listening>>
  BY DEF Ask
<1>2. query \in [Reads -> Queries \cup {None}] /\ q # None
  BY ReadPathAssumption DEF TypeOK
<1>3. /\ r \notin listening /\ r \notin muted /\ answer[r] = None
      /\ ~Adding(r) /\ ~Removing(r) /\ ~Sent(r)
  BY <1>1 DEF OneLife, UnaskedIsNowhere
<1>4. /\ \A x \in Reads : Adding(x)' <=> Adding(x) \/ x = r
      /\ \A x \in Reads : Removing(x)' <=> Removing(x)
      /\ Len(workQueue) \in Nat
      /\ DOMAIN workQueue = 1 .. Len(workQueue)
      /\ DOMAIN workQueue' = 1 .. Len(workQueue) + 1
      /\ \A i \in DOMAIN workQueue : workQueue'[i] = workQueue[i]
      /\ workQueue'[Len(workQueue) + 1] = Task("add", r)
  BY <1>1, EnqueueFacts
<1>5. \A x : Sent(x)' <=> Sent(x)
  BY <1>1 DEF Sent
<1>6. UnaskedIsNowhere'
  BY <1>1, <1>2, <1>4, <1>5 DEF OneLife, UnaskedIsNowhere
<1>7. AddedOnce'
  <2>1. \A x \in Reads : Adding(x)' =>
          x \notin listening' /\ x \notin muted' /\ answer'[x] = None /\ ~Sent(x)'
    BY <1>1, <1>3, <1>4, <1>5 DEF OneLife, AddedOnce
  <2>2. ASSUME NEW i \in DOMAIN workQueue', NEW j \in DOMAIN workQueue',
               workQueue'[i].kind = "add", workQueue'[i] = workQueue'[j]
        PROVE  i = j
    <3>1. \A k \in DOMAIN workQueue : workQueue[k] # Task("add", r)
      BY <1>3 DEF Adding
    <3>2. \A k \in DOMAIN workQueue' : k \in DOMAIN workQueue \/ k = Len(workQueue) + 1
      BY <1>4
    <3> QED
      BY <1>4, <2>2, <3>1, <3>2 DEF OneLife, AddedOnce
  <2> QED
    BY <2>1, <2>2 DEF AddedOnce
<1>8. ErrorIsLast'
  <2>1. \A i \in DOMAIN mainQueue : mainQueue[i].read \in Reads /\ mainQueue[i].read # r
    BY <1>3, EventsTyped DEF Sent
  <2> SUFFICES ASSUME NEW i \in DOMAIN mainQueue, mainQueue[i].from = "error", NEW x,
                      x = mainQueue[i].read
               PROVE  /\ x \notin listening
                      /\ ~Adding(x)'
                      /\ \A j \in DOMAIN mainQueue : j > i => mainQueue[j].read # x
    BY <1>1 DEF ErrorIsLast, Adding
  <2>2. x \in Reads /\ x # r
    BY <2>1
  <2> QED
    BY <1>4, <2>2 DEF OneLife, ErrorIsLast
<1>9. AnsweredIsOver'
  BY <1>1, <1>3, <1>4, <1>5 DEF OneLife, AnsweredIsOver
<1>10. RemovedIsAnswered'
  BY <1>1, <1>4 DEF OneLife, RemovedIsAnswered
<1> QED
  BY <1>6, <1>7, <1>8, <1>9, <1>10 DEF OneLife

\* An event completes a read that has not been answered.
LEMMA DeliverLife ==
  ASSUME TypeOK, OneLife, Deliver
  PROVE  /\ OneLife'
         /\ Head(mainQueue).read \in Reads
         /\ answer[Head(mainQueue).read] = None
         /\ answer'[Head(mainQueue).read] # None
         /\ \A r \in Reads : r # Head(mainQueue).read => answer'[r] = answer[r]
<1> DEFINE e == Head(mainQueue)
           x == e.read
<1>1. /\ mainQueue # <<>> /\ mainQueue' = Tail(mainQueue)
      /\ x \notin muted
      /\ \E a \in {Event(x, "error", 0), e} : answer' = [answer EXCEPT ![x] = a]
      /\ IF e.from = "error"
         THEN muted' = muted /\ workQueue' = workQueue
         ELSE muted' = muted \cup {x} /\ workQueue' = Append(workQueue, Task("remove", x))
      /\ UNCHANGED <<query, listening>>
  BY DEF Deliver
<1>2. /\ e \in EventType /\ x \in Reads /\ e = mainQueue[1] /\ 1 \in DOMAIN mainQueue
      /\ \A i \in DOMAIN mainQueue' :
           /\ i \in Nat \ {0}
           /\ i + 1 \in DOMAIN mainQueue
           /\ mainQueue'[i] = mainQueue[i + 1]
      /\ \A y : Sent(y)' => Sent(y)
      /\ Sent(x)
  BY <1>1, EventFacts
<1>3. /\ answer[x] = None /\ ~Adding(x) /\ query[x] # None
  BY <1>1, <1>2 DEF OneLife, AnsweredIsOver, AddedOnce, UnaskedIsNowhere
<1>4. /\ answer'[x] # None
      /\ \A r \in Reads : r # x => answer'[r] = answer[r]
  <2>1. Event(x, "error", 0) \in EventType
    BY <1>2, ReadPathAssumption DEF Event, EventType, Versions
  <2>2. answer \in [Reads -> EventType \cup {None}]
    BY DEF TypeOK
  <2>3. None \notin EventType
    BY ReadPathAssumption
  <2> QED
    BY <1>1, <1>2, <2>1, <2>2, <2>3
<1>5. /\ \A y \in Reads : Adding(y)' <=> Adding(y)
      /\ \A y \in Reads : Removing(y)' => Removing(y) \/ y = x
  <2>1. CASE e.from = "error"
    BY <1>1, <2>1 DEF Adding, Removing
  <2>2. CASE e.from # "error"
    <3>1. workQueue' = Append(workQueue, Task("remove", x))
      BY <1>1, <2>2
    <3> QED
      BY <1>2, <3>1, EnqueueFacts
  <2> QED
    BY <2>1, <2>2
<1>6. muted' \subseteq muted \cup {x} /\ muted \subseteq muted'
  BY <1>1
<1>7. UnaskedIsNowhere'
  BY <1>1, <1>2, <1>3, <1>4, <1>5, <1>6 DEF OneLife, UnaskedIsNowhere
<1>8. AddedOnce'
  <2>1. \A y \in Reads : Adding(y)' =>
          y \notin listening' /\ y \notin muted' /\ answer'[y] = None /\ ~Sent(y)'
    BY <1>1, <1>2, <1>3, <1>4, <1>5, <1>6 DEF OneLife, AddedOnce
  <2>2. CASE e.from = "error"
    BY <1>1, <2>1, <2>2 DEF OneLife, AddedOnce
  <2>3. CASE e.from # "error"
    <3>1. workQueue' = Append(workQueue, Task("remove", x))
      BY <1>1, <2>3
    <3>2. /\ Len(workQueue) \in Nat
          /\ DOMAIN workQueue = 1 .. Len(workQueue)
          /\ DOMAIN workQueue' = 1 .. Len(workQueue) + 1
          /\ \A i \in DOMAIN workQueue : workQueue'[i] = workQueue[i]
          /\ workQueue'[Len(workQueue) + 1] = Task("remove", x)
      BY <1>2, <3>1, EnqueueFacts
    <3>3. \A i \in DOMAIN workQueue' : workQueue'[i].kind = "add" => i \in DOMAIN workQueue
      BY <3>2 DEF Task
    <3>4. ASSUME NEW i \in DOMAIN workQueue', NEW j \in DOMAIN workQueue',
                 workQueue'[i].kind = "add", workQueue'[i] = workQueue'[j]
          PROVE  i = j
      BY <3>2, <3>3, <3>4 DEF OneLife, AddedOnce
    <3> QED
      BY <2>1, <3>4 DEF AddedOnce
  <2> QED
    BY <2>2, <2>3
<1>9. ErrorIsLast'
  <2> SUFFICES ASSUME NEW i \in DOMAIN mainQueue', mainQueue'[i].from = "error", NEW y,
                      y = mainQueue'[i].read
               PROVE  /\ y \notin listening'
                      /\ ~Adding(y)'
                      /\ \A j \in DOMAIN mainQueue' : j > i => mainQueue'[j].read # y
    BY DEF ErrorIsLast, Adding
  <2>1. /\ i + 1 \in DOMAIN mainQueue /\ mainQueue[i + 1].from = "error"
        /\ mainQueue[i + 1].read = y /\ y \in Reads
    BY <1>2, EventsTyped
  <2>2. /\ y \notin listening /\ ~Adding(y)
        /\ \A j \in DOMAIN mainQueue : j > i + 1 => mainQueue[j].read # y
    BY <2>1 DEF OneLife, ErrorIsLast
  <2>3. \A j \in DOMAIN mainQueue' : j > i => mainQueue'[j].read # y
    BY <1>2, <2>2
  <2> QED
    BY <1>1, <1>5, <2>1, <2>2, <2>3
<1>10. AnsweredIsOver'
  <2> SUFFICES ASSUME NEW y \in Reads, answer'[y] # None, y \notin muted'
               PROVE  y \notin listening' /\ ~Adding(y)' /\ ~Sent(y)'
    BY DEF AnsweredIsOver
  <2>1. CASE y = x
    <3>1. e.from = "error"
      BY <1>1, <2>1
    <3>2. y \notin listening /\ \A j \in DOMAIN mainQueue : j > 1 => mainQueue[j].read # y
      BY <1>2, <2>1, <3>1 DEF OneLife, ErrorIsLast
    <3>3. ~Sent(y)'
      <4>1. \A j \in DOMAIN mainQueue' : j + 1 \in DOMAIN mainQueue /\ j + 1 > 1 /\ mainQueue'[j] = mainQueue[j + 1]
        BY <1>2
      <4> QED
        BY <3>2, <4>1 DEF Sent
    <3> QED
      BY <1>1, <1>3, <1>5, <2>1, <3>2, <3>3
  <2>2. CASE y # x
    BY <1>1, <1>2, <1>4, <1>5, <1>6, <2>2 DEF OneLife, AnsweredIsOver
  <2> QED
    BY <2>1, <2>2
<1>11. RemovedIsAnswered'
  BY <1>4, <1>5, <1>6 DEF OneLife, RemovedIsAnswered
<1> QED
  BY <1>2, <1>3, <1>4, <1>7, <1>8, <1>9, <1>10, <1>11 DEF OneLife

\* Nothing is lost with the event of a muted listener.
LEMMA DropMutedLife ==
  ASSUME TypeOK, OneLife, DropMuted
  PROVE  OneLife'
<1>1. /\ mainQueue # <<>> /\ mainQueue' = Tail(mainQueue)
      /\ UNCHANGED <<query, muted, answer, workQueue, listening>>
  BY DEF DropMuted, mainVars
<1>2. /\ \A i \in DOMAIN mainQueue' :
           /\ i \in Nat \ {0}
           /\ i + 1 \in DOMAIN mainQueue
           /\ mainQueue'[i] = mainQueue[i + 1]
      /\ \A y : Sent(y)' => Sent(y)
  BY <1>1, EventFacts
<1>3. (\A y : Adding(y)' <=> Adding(y)) /\ (\A y : Removing(y)' <=> Removing(y))
  BY <1>1 DEF Adding, Removing
<1>4. UnaskedIsNowhere'
  BY <1>1, <1>2, <1>3 DEF OneLife, UnaskedIsNowhere
<1>5. AddedOnce'
  BY <1>1, <1>2, <1>3 DEF OneLife, AddedOnce
<1>6. ErrorIsLast'
  <2> SUFFICES ASSUME NEW i \in DOMAIN mainQueue', mainQueue'[i].from = "error", NEW y,
                      y = mainQueue'[i].read
               PROVE  /\ y \notin listening'
                      /\ ~Adding(y)'
                      /\ \A j \in DOMAIN mainQueue' : j > i => mainQueue'[j].read # y
    BY DEF ErrorIsLast, Adding
  <2>1. /\ i + 1 \in DOMAIN mainQueue /\ mainQueue[i + 1].from = "error"
        /\ mainQueue[i + 1].read = y
    BY <1>2
  <2>2. /\ y \notin listening /\ ~Adding(y)
        /\ \A j \in DOMAIN mainQueue : j > i + 1 => mainQueue[j].read # y
    BY <2>1 DEF OneLife, ErrorIsLast
  <2> QED
    BY <1>1, <1>2, <1>3, <2>2
<1>7. AnsweredIsOver'
  BY <1>1, <1>2, <1>3 DEF OneLife, AnsweredIsOver
<1>8. RemovedIsAnswered'
  BY <1>1, <1>3 DEF OneLife, RemovedIsAnswered
<1> QED
  BY <1>4, <1>5, <1>6, <1>7, <1>8 DEF OneLife

\* The uniqueness of tasks when the first one is done.
LEMMA DequeueUnique ==
  ASSUME TypeOK, AddedOnce, workQueue # <<>>, workQueue' = Tail(workQueue)
  PROVE  /\ \A i, j \in DOMAIN workQueue' :
              workQueue'[i].kind = "add" /\ workQueue'[i] = workQueue'[j] => i = j
         /\ \A x : Head(workQueue) = Task("add", x) => ~Adding(x)'
<1>1. /\ Head(workQueue) = workQueue[1] /\ 1 \in DOMAIN workQueue
      /\ DOMAIN workQueue' \subseteq Nat \ {0}
      /\ \A i \in DOMAIN workQueue' : i + 1 \in DOMAIN workQueue /\ workQueue'[i] = workQueue[i + 1]
  BY DequeueFacts
<1>2. \A i, j \in DOMAIN workQueue : workQueue[i].kind = "add" /\ workQueue[i] = workQueue[j] => i = j
  BY DEF AddedOnce
<1>3. ASSUME NEW i \in DOMAIN workQueue', NEW j \in DOMAIN workQueue',
             workQueue'[i].kind = "add", workQueue'[i] = workQueue'[j]
      PROVE  i = j
  <2>1. i + 1 = j + 1
    BY <1>1, <1>2, <1>3
  <2> QED
    BY <1>1, <2>1
<1>4. ASSUME NEW x, Head(workQueue) = Task("add", x), Adding(x)'
      PROVE  FALSE
  <2>1. PICK i \in DOMAIN workQueue' : workQueue'[i] = Task("add", x)
    BY <1>4 DEF Adding
  <2>2. workQueue[1] = workQueue[i + 1] /\ workQueue[1].kind = "add" /\ i + 1 # 1
    BY <1>1, <1>4, <2>1 DEF Task
  <2> QED
    BY <1>1, <1>2, <2>2
<1> QED
  BY <1>3, <1>4

\* The listener of a read is registered once.
LEMMA AddListenerLife ==
  ASSUME TypeOK, OneLife, AddListener
  PROVE  /\ OneLife'
         /\ mainQueue' \in Seq(EventType)
         /\ \A y : Sent(y) => Sent(y)'
<1> DEFINE r == Head(workQueue).read
<1>1. /\ workQueue # <<>> /\ workQueue' = Tail(workQueue)
      /\ Head(workQueue).kind = "add"
      /\ listening' = listening \cup {r}
      /\ \/ mainQueue' = mainQueue
         \/ \E from \in {"server", "cache"} :
              mainQueue' = Append(mainQueue, Event(r, from, cache[query[r]]))
      /\ UNCHANGED <<query, muted, answer>>
  BY DEF AddListener, mainVars
<1>2. /\ r \in Reads
      /\ Head(workQueue) = Task("add", r)
      /\ \A x : Adding(x)' => Adding(x)
      /\ \A x : Removing(x)' => Removing(x)
      /\ Adding(r)
  BY <1>1, DequeueFacts DEF Adding
<1>3. /\ r \notin muted /\ answer[r] = None /\ ~Sent(r) /\ query[r] # None /\ query[r] \in Queries
  <2>1. query \in [Reads -> Queries \cup {None}]
    BY DEF TypeOK
  <2> QED
    BY <1>2, <2>1 DEF OneLife, AddedOnce, UnaskedIsNowhere
<1>4. \A x : x = r => ~Adding(x)'
  BY <1>1, <1>2, DequeueUnique DEF OneLife
<1>5. /\ mainQueue' \in Seq(EventType)
      /\ Len(mainQueue) \in Nat
      /\ DOMAIN mainQueue = 1 .. Len(mainQueue)
      /\ \A i \in DOMAIN mainQueue : i \in DOMAIN mainQueue' /\ mainQueue'[i] = mainQueue[i]
      /\ \A i \in DOMAIN mainQueue' : i \notin DOMAIN mainQueue =>
           i = Len(mainQueue) + 1 /\ mainQueue'[i].read = r /\ mainQueue'[i].from # "error"
  <2>1. mainQueue \in Seq(EventType)
    BY DEF TypeOK
  <2>2. CASE mainQueue' = mainQueue
    BY <2>1, <2>2
  <2>3. ASSUME NEW from \in {"server", "cache"},
               mainQueue' = Append(mainQueue, Event(r, from, cache[query[r]]))
        PROVE  /\ mainQueue' \in Seq(EventType)
               /\ Len(mainQueue) \in Nat
               /\ DOMAIN mainQueue = 1 .. Len(mainQueue)
               /\ \A i \in DOMAIN mainQueue : i \in DOMAIN mainQueue' /\ mainQueue'[i] = mainQueue[i]
               /\ \A i \in DOMAIN mainQueue' : i \notin DOMAIN mainQueue =>
                    i = Len(mainQueue) + 1 /\ mainQueue'[i].read = r /\ mainQueue'[i].from # "error"
    <3> DEFINE e == Event(r, from, cache[query[r]])
    <3>1. e \in EventType /\ e.read = r /\ e.from # "error"
      BY <1>2, <1>3 DEF TypeOK, Event, EventType
    <3> HIDE DEF e
    <3>2. /\ mainQueue' \in Seq(EventType)
          /\ Len(mainQueue) \in Nat
          /\ DOMAIN mainQueue = 1 .. Len(mainQueue)
          /\ DOMAIN mainQueue' = 1 .. Len(mainQueue) + 1
          /\ \A i \in DOMAIN mainQueue : mainQueue'[i] = mainQueue[i]
          /\ mainQueue'[Len(mainQueue) + 1] = e
      <4>1. mainQueue' = Append(mainQueue, e)
        BY <2>3 DEF e
      <4> QED
        BY <2>1, <3>1, <4>1, AppendFacts
    <3> QED
      BY <3>1, <3>2
  <2> QED
    BY <1>1, <2>2, <2>3
<1>6. \A y : Sent(y) => Sent(y)'
  BY <1>5 DEF Sent
<1>7. \A y : Sent(y)' => Sent(y) \/ y = r
  BY <1>5 DEF Sent
<1>8. UnaskedIsNowhere'
  BY <1>1, <1>2, <1>3, <1>7 DEF OneLife, UnaskedIsNowhere
<1>9. AddedOnce'
  <2>1. \A i, j \in DOMAIN workQueue' :
          workQueue'[i].kind = "add" /\ workQueue'[i] = workQueue'[j] => i = j
    BY <1>1, DequeueUnique DEF OneLife
  <2>2. ASSUME NEW x \in Reads, Adding(x)'
        PROVE  x \notin listening' /\ x \notin muted' /\ answer'[x] = None /\ ~Sent(x)'
    BY <1>1, <1>2, <1>4, <1>7, <2>2 DEF OneLife, AddedOnce
  <2> QED
    BY <2>1, <2>2 DEF AddedOnce
<1>10. ErrorIsLast'
  <2> SUFFICES ASSUME NEW i \in DOMAIN mainQueue', mainQueue'[i].from = "error", NEW y,
                      y = mainQueue'[i].read
               PROVE  /\ y \notin listening'
                      /\ ~Adding(y)'
                      /\ \A j \in DOMAIN mainQueue' : j > i => mainQueue'[j].read # y
    BY DEF ErrorIsLast, Adding
  <2>1. i \in DOMAIN mainQueue /\ mainQueue[i].from = "error" /\ mainQueue[i].read = y
    BY <1>5
  <2>2. y # r
    BY <1>3, <2>1 DEF Sent
  <2>3. /\ y \notin listening /\ ~Adding(y)
        /\ \A j \in DOMAIN mainQueue : j > i => mainQueue[j].read # y
    BY <2>1 DEF OneLife, ErrorIsLast
  <2> QED
    BY <1>1, <1>2, <1>5, <2>2, <2>3
<1>11. AnsweredIsOver'
  <2> SUFFICES ASSUME NEW y \in Reads, answer'[y] # None, y \notin muted'
               PROVE  y \notin listening' /\ ~Adding(y)' /\ ~Sent(y)'
    BY DEF AnsweredIsOver
  <2> QED
    BY <1>1, <1>2, <1>3, <1>7 DEF OneLife, AnsweredIsOver
<1>12. RemovedIsAnswered'
  BY <1>1, <1>2 DEF OneLife, RemovedIsAnswered
<1> QED
  BY <1>5, <1>6, <1>8, <1>9, <1>10, <1>11, <1>12 DEF OneLife

\* A listener that is removed has been answered.
LEMMA RemoveListenerLife ==
  ASSUME TypeOK, OneLife, RemoveListener
  PROVE  /\ OneLife'
         /\ Head(workQueue).read \in Reads
         /\ answer[Head(workQueue).read] # None
         /\ \A x : Adding(x) => Adding(x)'
<1> DEFINE r == Head(workQueue).read
<1>1. /\ workQueue # <<>> /\ workQueue' = Tail(workQueue)
      /\ Head(workQueue).kind = "remove"
      /\ listening' = listening \ {r}
      /\ UNCHANGED <<query, mainQueue, muted, answer>>
  BY DEF RemoveListener, mainVars
<1>2. /\ r \in Reads
      /\ Head(workQueue) = Task("remove", r)
      /\ \A x : Adding(x)' => Adding(x)
      /\ \A x : Removing(x)' => Removing(x)
      /\ Removing(r)
      /\ \A t : (\E i \in DOMAIN workQueue : workQueue[i] = t)
               => t = Head(workQueue) \/ \E i \in DOMAIN workQueue' : workQueue'[i] = t
  BY <1>1, DequeueFacts DEF Removing
<1>3. \A x : Adding(x) => Adding(x)'
  <2> SUFFICES ASSUME NEW x, Adding(x)
               PROVE  Adding(x)'
    OBVIOUS
  <2>1. Task("add", x) # Task("remove", r)
    BY DEF Task
  <2> QED
    BY <1>2, <2>1 DEF Adding
<1>4. \A x : Sent(x)' <=> Sent(x)
  BY <1>1 DEF Sent
<1>5. UnaskedIsNowhere'
  BY <1>1, <1>2, <1>4 DEF OneLife, UnaskedIsNowhere
<1>6. AddedOnce'
  <2>1. \A i, j \in DOMAIN workQueue' :
          workQueue'[i].kind = "add" /\ workQueue'[i] = workQueue'[j] => i = j
    BY <1>1, DequeueUnique DEF OneLife
  <2> QED
    BY <1>1, <1>2, <1>4, <2>1 DEF OneLife, AddedOnce
<1>7. ErrorIsLast'
  <2> SUFFICES ASSUME NEW i \in DOMAIN mainQueue, mainQueue[i].from = "error", NEW y,
                      y = mainQueue[i].read
               PROVE  /\ y \notin listening'
                      /\ ~Adding(y)'
                      /\ \A j \in DOMAIN mainQueue : j > i => mainQueue[j].read # y
    BY <1>1 DEF ErrorIsLast, Adding
  <2> QED
    BY <1>1, <1>2 DEF OneLife, ErrorIsLast
<1>8. AnsweredIsOver'
  BY <1>1, <1>2, <1>4 DEF OneLife, AnsweredIsOver
<1>9. RemovedIsAnswered'
  BY <1>1, <1>2 DEF OneLife, RemovedIsAnswered
<1>10. answer[r] # None
  BY <1>2 DEF OneLife, RemovedIsAnswered
<1> QED
  BY <1>2, <1>3, <1>5, <1>6, <1>7, <1>8, <1>9, <1>10 DEF OneLife

\* A change of the online state tells listeners and keeps them.
LEMMA BroadcastLife ==
  ASSUME TypeOK, OneLife, NEW state, Broadcast(state),
         UNCHANGED <<query, muted, answer, workQueue, listening>>
  PROVE  /\ OneLife'
         /\ mainQueue' \in Seq(EventType)
         /\ \A r \in Reads : Sent(r) => Sent(r)'
         /\ synced' \subseteq Queries
         /\ raised' \subseteq Reads
<1>1. listening \subseteq Reads /\ raised \subseteq Reads /\ synced \subseteq Queries
      /\ mainQueue \in Seq(EventType)
  BY DEF TypeOK
<1>2. CASE UNCHANGED <<synced, raised, mainQueue>>
  BY <1>1, <1>2, LifeFrame DEF Sent
<1>3. CASE ~UNCHANGED <<synced, raised, mainQueue>>
  <2> DEFINE told == {r \in listening : r \notin raised \/ query[r] \in synced}
  <2>1. synced' = {} /\ raised' = raised \cup told /\ Raise(told, FromCache, cache)
    BY <1>3 DEF Broadcast
  <2>2. /\ told \in SUBSET listening
        /\ FromCache \in [Queries -> {"server", "cache", "error"}]
        /\ \A q \in Queries : FromCache[q] # "error"
        /\ cache \in [Queries -> Versions]
    BY DEF TypeOK, FromCache
  <2> HIDE DEF told
  <2>3. /\ OneLife'
        /\ mainQueue' \in Seq(EventType)
        /\ \A r \in Reads : Sent(r)' <=> Sent(r) \/ r \in told
    BY <2>1, <2>2, RaiseLife
  <2> QED
    BY <1>1, <2>1, <2>2, <2>3
<1> QED
  BY <1>2, <1>3

-----------------------------------------------------------------------------
\* What is listened to is what is watched.

\* Steps that change neither listeners nor targets and lose no event.
LEMMA WatchedFrame ==
  ASSUME ListenedIsWatched, UNCHANGED <<query, answer, workQueue, listening, targets>>,
         \A r \in Reads : Sent(r) => Sent(r)'
  PROVE  ListenedIsWatched'
<1>1. TargetsAreListened'
  BY DEF ListenedIsWatched, TargetsAreListened
<1>2. NobodyIsForgotten'
  BY DEF ListenedIsWatched, NobodyIsForgotten, Sent
<1> QED
  BY <1>1, <1>2 DEF ListenedIsWatched

\* A read that has been asked for is in the work queue.
LEMMA AskWatched ==
  ASSUME TypeOK, OneLife, ListenedIsWatched, NEW r \in Reads, NEW q \in Queries, Ask(r, q)
  PROVE  ListenedIsWatched'
<1>1. /\ query[r] = None /\ query' = [query EXCEPT ![r] = q]
      /\ workQueue' = Append(workQueue, Task("add", r))
      /\ UNCHANGED <<mainQueue, answer, listening, targets>>
  BY DEF Ask
<1>2. query \in [Reads -> Queries \cup {None}]
  BY DEF TypeOK
<1>3. r \notin listening
  BY <1>1 DEF OneLife, UnaskedIsNowhere
<1>4. TargetsAreListened'
  BY <1>1, <1>2, <1>3 DEF ListenedIsWatched, TargetsAreListened
<1>5. \A x \in Reads : Adding(x)' <=> Adding(x) \/ x = r
  BY <1>1, EnqueueFacts
<1>6. NobodyIsForgotten'
  <2> SUFFICES ASSUME NEW x \in Reads, query'[x] # None, answer'[x] = None
               PROVE  x \in listening' \/ Adding(x)' \/ Sent(x)'
    BY DEF NobodyIsForgotten, Adding, Sent
  <2>1. x # r => x \in listening \/ Adding(x) \/ Sent(x)
    BY <1>1, <1>2 DEF ListenedIsWatched, NobodyIsForgotten, Adding, Sent
  <2>2. Sent(x) => Sent(x)'
    BY <1>1 DEF Sent
  <2> QED
    BY <1>1, <1>5, <2>1, <2>2
<1> QED
  BY <1>4, <1>6 DEF ListenedIsWatched

\* A delivered event takes its read out of those that wait.
LEMMA DeliverWatched ==
  ASSUME TypeOK, OneLife, ListenedIsWatched, Deliver
  PROVE  ListenedIsWatched'
<1> DEFINE e == Head(mainQueue)
           x == e.read
<1>1. /\ mainQueue # <<>> /\ mainQueue' = Tail(mainQueue)
      /\ workQueue' = workQueue \/ workQueue' = Append(workQueue, Task("remove", x))
      /\ UNCHANGED <<query, listening, targets>>
  BY DEF Deliver
<1>2. /\ x \in Reads /\ answer'[x] # None
      /\ \A r \in Reads : r # x => answer'[r] = answer[r]
  BY DeliverLife
<1>3. TargetsAreListened'
  BY <1>1 DEF ListenedIsWatched, TargetsAreListened
<1>4. \A y \in Reads : Adding(y) => Adding(y)'
  <2>1. CASE workQueue' = workQueue
    BY <2>1 DEF Adding
  <2>2. CASE workQueue' = Append(workQueue, Task("remove", x))
    BY <1>2, <2>2, EnqueueFacts
  <2> QED
    BY <1>1, <2>1, <2>2
<1>5. \A y : Sent(y) => Sent(y)' \/ y = x
  BY <1>1, EventFacts
<1>6. NobodyIsForgotten'
  <2> SUFFICES ASSUME NEW y \in Reads, query'[y] # None, answer'[y] = None
               PROVE  y \in listening' \/ Adding(y)' \/ Sent(y)'
    BY DEF NobodyIsForgotten, Adding, Sent
  <2>1. y # x /\ answer[y] = None
    BY <1>2
  <2>2. y \in listening \/ Adding(y) \/ Sent(y)
    BY <1>1, <2>1 DEF ListenedIsWatched, NobodyIsForgotten, Adding, Sent
  <2> QED
    BY <1>1, <1>4, <1>5, <2>1, <2>2
<1> QED
  BY <1>3, <1>6 DEF ListenedIsWatched

\* The events of a muted listener are not waited for.
LEMMA DropMutedWatched ==
  ASSUME TypeOK, OneLife, ListenedIsWatched, DropMuted
  PROVE  ListenedIsWatched'
<1> DEFINE x == Head(mainQueue).read
<1>1. /\ mainQueue # <<>> /\ mainQueue' = Tail(mainQueue) /\ x \in muted
      /\ UNCHANGED <<query, answer, workQueue, listening, targets>>
  BY DEF DropMuted, mainVars
<1>2. x \in Reads /\ \A y : Sent(y) => Sent(y)' \/ y = x
  BY <1>1, EventFacts
<1>3. answer[x] # None
  BY <1>1, <1>2 DEF OneLife, RemovedIsAnswered
<1>4. TargetsAreListened'
  BY <1>1 DEF ListenedIsWatched, TargetsAreListened
<1>5. NobodyIsForgotten'
  <2> SUFFICES ASSUME NEW y \in Reads, query[y] # None, answer[y] = None
               PROVE  y \in listening \/ Adding(y) \/ Sent(y)'
    BY <1>1 DEF NobodyIsForgotten, Adding, Sent
  <2>1. y # x
    BY <1>3
  <2>2. y \in listening \/ Adding(y) \/ Sent(y)
    BY <2>1 DEF ListenedIsWatched, NobodyIsForgotten, Adding, Sent
  <2> QED
    BY <1>2, <2>1, <2>2
<1> QED
  BY <1>4, <1>5 DEF ListenedIsWatched

\* The first listener of a query adds its target, others find it there.
LEMMA AddListenerWatched ==
  ASSUME TypeOK, OneLife, ListenedIsWatched, AddListener
  PROVE  ListenedIsWatched'
<1> DEFINE r == Head(workQueue).read
           q == query[r]
<1>1. /\ workQueue # <<>> /\ workQueue' = Tail(workQueue)
      /\ Head(workQueue).kind = "add"
      /\ listening' = listening \cup {r}
      /\ IF Listeners(q) = {} THEN targets' = targets \cup {q} ELSE targets' = targets
      /\ UNCHANGED <<query, answer>>
  BY DEF AddListener, mainVars, ListenRemotely
<1>2. /\ r \in Reads
      /\ Head(workQueue) = Task("add", r)
      /\ \A t : (\E i \in DOMAIN workQueue : workQueue[i] = t)
               => t = Head(workQueue) \/ \E i \in DOMAIN workQueue' : workQueue'[i] = t
  BY <1>1, DequeueFacts
<1>3. \A y : Sent(y) => Sent(y)'
  BY AddListenerLife
<1>4. TargetsAreListened'
  <2>1. targets = {query[x] : x \in listening}
    BY DEF ListenedIsWatched, TargetsAreListened
  <2>2. Listeners(q) # {} => q \in targets
    BY <2>1 DEF Listeners
  <2>3. targets' = targets \cup {q}
    BY <1>1, <2>2
  <2> QED
    BY <1>1, <2>1, <2>3 DEF TargetsAreListened
<1>5. NobodyIsForgotten'
  <2> SUFFICES ASSUME NEW y \in Reads, query[y] # None, answer[y] = None
               PROVE  y \in listening' \/ Adding(y)' \/ Sent(y)'
    BY <1>1 DEF NobodyIsForgotten, Adding, Sent
  <2>1. y \in listening \/ Adding(y) \/ Sent(y)
    BY DEF ListenedIsWatched, NobodyIsForgotten, Adding, Sent
  <2>2. Adding(y) => Adding(y)' \/ y = r
    <3>1. Task("add", y) = Task("add", r) => y = r
      BY DEF Task
    <3> QED
      BY <1>2, <3>1 DEF Adding
  <2> QED
    BY <1>1, <1>3, <2>1, <2>2
<1> QED
  BY <1>4, <1>5 DEF ListenedIsWatched

\* The last listener of a query takes its target away.
LEMMA RemoveListenerWatched ==
  ASSUME TypeOK, OneLife, ListenedIsWatched, RemoveListener
  PROVE  ListenedIsWatched'
<1> DEFINE r == Head(workQueue).read
           q == query[r]
<1>1. /\ listening' = listening \ {r}
      /\ IF r \in listening /\ Listeners(q) = {r}
         THEN targets' = targets \ {q} ELSE targets' = targets
      /\ UNCHANGED <<query, mainQueue, answer>>
  BY DEF RemoveListener, mainVars, StopListening
<1>2. r \in Reads /\ answer[r] # None /\ \A x : Adding(x) => Adding(x)'
  BY RemoveListenerLife
<1>3. TargetsAreListened'
  <2>1. targets = {query[x] : x \in listening}
    BY DEF ListenedIsWatched, TargetsAreListened
  <2>2. CASE r \in listening /\ Listeners(q) = {r}
    <3>1. \A x \in listening : query[x] = q <=> x = r
      BY <2>2 DEF Listeners
    <3> QED
      BY <1>1, <2>1, <2>2, <3>1 DEF TargetsAreListened
  <2>3. CASE r \in listening /\ Listeners(q) # {r}
    <3>1. PICK x \in listening : x # r /\ query[x] = q
      BY <2>3 DEF Listeners
    <3>2. targets = {query[y] : y \in listening \ {r}}
      BY <2>1, <3>1
    <3> QED
      BY <1>1, <2>3, <3>2 DEF TargetsAreListened
  <2>4. CASE r \notin listening
    BY <1>1, <2>1, <2>4 DEF TargetsAreListened
  <2> QED
    BY <2>2, <2>3, <2>4
<1>4. NobodyIsForgotten'
  <2> SUFFICES ASSUME NEW y \in Reads, query[y] # None, answer[y] = None
               PROVE  y \in listening' \/ Adding(y)' \/ Sent(y)'
    BY <1>1 DEF NobodyIsForgotten, Adding, Sent
  <2>1. y \in listening \/ Adding(y) \/ Sent(y)
    BY DEF ListenedIsWatched, NobodyIsForgotten, Adding, Sent
  <2>2. Sent(y) => Sent(y)'
    BY <1>1 DEF Sent
  <2> QED
    BY <1>1, <1>2, <2>1, <2>2
<1> QED
  BY <1>3, <1>4 DEF ListenedIsWatched

\* A snapshot tells listeners and keeps them.
LEMMA SnapshotReads ==
  ASSUME TypeOK, OneLife, ListenedIsWatched, ReceiveSnapshot
  PROVE  /\ OneLife' /\ ListenedIsWatched'
         /\ mainQueue' \in Seq(EventType)
         /\ cache' \in [Queries -> Versions]
         /\ synced' \subseteq Queries
         /\ raised' \subseteq Reads
<1> DEFINE event == {q \in changed : IsActive(q)}
           newSynced == (synced \ event) \cup (event \cap current)
           Newer(q) == docs[q] > cache[q]
           Differs(q) == Newer(q) \/ (q \in synced) # (q \in newSynced)
           source == [q \in Queries |-> IF q \in newSynced THEN "server" ELSE "cache"]
           told == {r \in listening : /\ Differs(query[r])
                                      /\ r \in raised \/ query[r] \in newSynced}
<1>1. /\ cache' = [q \in Queries |-> IF Newer(q) THEN docs[q] ELSE cache[q]]
      /\ synced' = newSynced
      /\ raised' = raised \cup told
      /\ Raise(told, source, cache')
      /\ UNCHANGED <<query, muted, answer, workQueue, listening, targets>>
  BY DEF ReceiveSnapshot, Receive, mainVars
<1>2. /\ told \in SUBSET listening
      /\ source \in [Queries -> {"server", "cache", "error"}]
      /\ \A q \in Queries : source[q] # "error"
  OBVIOUS
<1>3. cache' \in [Queries -> Versions]
  BY <1>1 DEF TypeOK
<1>4. synced' \subseteq Queries /\ raised' \subseteq Reads
  BY <1>1 DEF TypeOK
<1> HIDE DEF event, newSynced, source, told
<1>5. /\ OneLife'
      /\ mainQueue' \in Seq(EventType)
      /\ \A r \in Reads : Sent(r)' <=> Sent(r) \/ r \in told
  BY <1>1, <1>2, <1>3, RaiseLife
<1> QED
  BY <1>1, <1>3, <1>4, <1>5, WatchedFrame

\* A refusal ends the listen and sends its listeners an error.
LEMMA RefusedReads ==
  ASSUME TypeOK, OneLife, ListenedIsWatched, ReceiveRefused
  PROVE  /\ OneLife' /\ ListenedIsWatched'
         /\ mainQueue' \in Seq(EventType)
<1> DEFINE q == Received
           told == Listeners(q)
<1>1. UNCHANGED <<query, muted, answer, workQueue>>
  BY DEF ReceiveRefused, Receive, mainVars
<1>2. CASE q \notin targets
  <2>1. UNCHANGED <<mainQueue, listening, targets>>
    BY <1>2 DEF ReceiveRefused
  <2>2. mainQueue \in Seq(EventType)
    BY DEF TypeOK
  <2> QED
    BY <1>1, <2>1, <2>2, LifeFrame, WatchedFrame DEF Sent
<1>3. CASE q \in targets
  <2>1. /\ targets' = targets \ {q}
        /\ listening' = listening \ told
        /\ Raise(told, Failed, NoData)
    BY <1>3 DEF ReceiveRefused
  <2>2. /\ told \in SUBSET listening
        /\ Failed \in [Queries -> {"server", "cache", "error"}]
        /\ NoData \in [Queries -> Versions]
    BY ReadPathAssumption DEF Listeners, Failed, NoData, Versions
  <2>3. \A r : r \in told <=> r \in listening /\ query[r] = q
    BY DEF Listeners
  <2> HIDE DEF told, q
  <2>4. /\ OneLife'
        /\ mainQueue' \in Seq(EventType)
        /\ \A r \in Reads : Sent(r)' <=> Sent(r) \/ r \in told
    BY <1>1, <2>1, <2>2, RaiseLife
  <2>5. TargetsAreListened'
    <3>1. targets = {query[x] : x \in listening}
      BY DEF ListenedIsWatched, TargetsAreListened
    <3> QED
      BY <1>1, <2>1, <2>3, <3>1 DEF TargetsAreListened
  <2>6. NobodyIsForgotten'
    <3> SUFFICES ASSUME NEW y \in Reads, query[y] # None, answer[y] = None
                 PROVE  y \in listening' \/ Adding(y)' \/ Sent(y)'
      BY <1>1 DEF NobodyIsForgotten, Adding, Sent
    <3>1. y \in listening \/ Adding(y) \/ Sent(y)
      BY DEF ListenedIsWatched, NobodyIsForgotten, Adding, Sent
    <3>2. Adding(y) => Adding(y)'
      BY <1>1 DEF Adding
    <3> QED
      BY <2>1, <2>4, <3>1, <3>2
  <2> QED
    BY <2>4, <2>5, <2>6 DEF ListenedIsWatched
<1> QED
  BY <1>2, <1>3

\* A change of the online state.
LEMMA BroadcastReads ==
  ASSUME TypeOK, OneLife, ListenedIsWatched, NEW state, Broadcast(state),
         UNCHANGED <<query, muted, answer, workQueue, listening, targets>>
  PROVE  OneLife' /\ ListenedIsWatched'
BY BroadcastLife, WatchedFrame

\* Every step keeps a read's one life, and watched what is listened to.
LEMMA ReadsStep ==
  ASSUME TypeOK, OneLife, ListenedIsWatched, [Next]_vars
  PROVE  OneLife' /\ ListenedIsWatched'
<1>1. ASSUME UNCHANGED <<query, mainQueue, muted, answer, workQueue, listening, targets>>
      PROVE  OneLife' /\ ListenedIsWatched'
  BY <1>1, LifeFrame, WatchedFrame DEF Sent
<1>2. ASSUME NEW r \in Reads, NEW q \in Queries, Ask(r, q)
      PROVE  OneLife' /\ ListenedIsWatched'
  BY <1>2, AskLife, AskWatched
<1>3. CASE Deliver
  BY <1>3, DeliverLife, DeliverWatched
<1>4. CASE DropMuted
  BY <1>4, DropMutedLife, DropMutedWatched
<1>5. CASE AddListener
  BY <1>5, AddListenerLife, AddListenerWatched
<1>6. CASE RemoveListener
  BY <1>6, RemoveListenerLife, RemoveListenerWatched
<1>7. CASE OnlineStateTimeout
  BY <1>7, BroadcastReads DEF OnlineStateTimeout, mainVars
<1>8. CASE WatchStreamOpens
  BY <1>1, <1>8 DEF WatchStreamOpens, mainVars
<1>9. CASE WatchStreamFails
  <2>1. UNCHANGED <<query, muted, answer, workQueue, listening, targets>>
    BY <1>9 DEF WatchStreamFails, mainVars
  <2>2. CASE targets # {}
    <3>1. Broadcast("Unknown") \/ Broadcast("Offline")
      BY <1>9, <2>2 DEF WatchStreamFails, WatchStreamFailsAndStarts
    <3> QED
      BY <2>1, <3>1, BroadcastReads
  <2>3. CASE targets = {}
    BY <1>1, <1>9, <2>1, <2>3 DEF WatchStreamFails
  <2> QED
    BY <2>2, <2>3
<1>10. CASE BackoffElapsed
  BY <1>1, <1>10 DEF BackoffElapsed, mainVars
<1>11. CASE IdleTimeout
  BY <1>1, <1>11 DEF IdleTimeout, mainVars
<1>12. CASE RestartNetwork
  BY <1>1, <1>12 DEF RestartNetwork, mainVars
<1>13. CASE ReceiveAdded
  BY <1>1, <1>13 DEF ReceiveAdded, Receive, mainVars
<1>14. CASE ReceiveRemoved
  BY <1>1, <1>14 DEF ReceiveRemoved, Receive, mainVars
<1>15. CASE ReceiveDocuments
  BY <1>1, <1>15 DEF ReceiveDocuments, Receive, mainVars
<1>16. CASE ReceiveCurrent
  BY <1>1, <1>16 DEF ReceiveCurrent, Receive, mainVars
<1>17. CASE ReceiveSnapshot
  BY <1>17, SnapshotReads
<1>18. CASE ReceiveRefused
  BY <1>18, RefusedReads
<1>19. CASE ServerHandlesRequest
  BY <1>1, <1>19 DEF ServerHandlesRequest, mainVars
<1>20. CASE ServerDataChanges
  BY <1>1, <1>20 DEF ServerDataChanges, mainVars
<1>21. ASSUME NEW q \in Queries, ServerChangesRules(q)
       PROVE  OneLife' /\ ListenedIsWatched'
  BY <1>1, <1>21 DEF ServerChangesRules, mainVars
<1>22. CASE UNCHANGED vars
  BY <1>1, <1>22 DEF vars
<1> QED
  BY <1>2, <1>3, <1>4, <1>5, <1>6, <1>7, <1>8, <1>9, <1>10, <1>11, <1>12, <1>13, <1>14,
     <1>15, <1>16, <1>17, <1>18, <1>19, <1>20, <1>21, <1>22
     DEF Next, MainQueue, WorkQueue, ReceiveAny

-----------------------------------------------------------------------------
\* Types.

RequestType  == [kind : {"watch", "unwatch"}, target : Queries, version : {0}]
ResponseType == [kind : {"added", "removed", "docs", "current", "snapshot", "refused"},
                 target : Queries \cup {None}, version : Versions]
TaskType     == [kind : {"add", "remove"}, read : Reads]

\* The parts of TypeOK, by who changes them.
TypesOfReads ==
  /\ query \in [Reads -> Queries \cup {None}]
  /\ mainQueue \in Seq(EventType)
  /\ muted \subseteq Reads /\ listening \subseteq Reads
  /\ answer \in [Reads -> EventType \cup {None}]
  /\ workQueue \in Seq(TaskType)
  /\ askedAt \in [Reads -> Versions]

TypesOfViews ==
  /\ raised \subseteq Reads /\ alone \subseteq Reads
  /\ synced \subseteq Queries /\ targets \subseteq Queries
  /\ cache \in [Queries -> Versions]

TypesOfStream ==
  /\ online \in {"Unknown", "Online", "Offline"}
  /\ failures \in 0..1
  /\ timer \in BOOLEAN /\ idle \in BOOLEAN
  /\ stream \in {"Initial", "Starting", "Open", "Backoff", "Error"}

TypesOfAggregator ==
  /\ outstanding \in [Queries -> Int]
  /\ current \subseteq Queries /\ changed \subseteq Queries
  /\ docs \in [Queries -> Versions]

TypesOfWire ==
  /\ requests \in Seq(RequestType)
  /\ responses \in Seq(ResponseType)
  /\ watched \subseteq Queries

TypesOfServer ==
  /\ forbidden \subseteq Queries
  /\ version \in Versions
  /\ breaks \in 0..MaxBreaks
  /\ ruleChanges \in 0..MaxRuleChanges

\* The parts make the whole.
LEMMA TypeParts ==
  TypeOK <=> /\ TypesOfReads /\ TypesOfViews /\ TypesOfStream
             /\ TypesOfAggregator /\ TypesOfWire /\ TypesOfServer
BY DEF TypeOK, TypesOfReads, TypesOfViews, TypesOfStream, TypesOfAggregator,
       TypesOfWire, TypesOfServer, RequestType, ResponseType, TaskType

\* The initial state has the right types.
LEMMA InitType == Init => TypeOK
<1> SUFFICES ASSUME Init
             PROVE  TypeOK
  OBVIOUS
<1>1. 0 \in Versions /\ 1 \in Versions
  BY ReadPathAssumption DEF Versions
<1>2. MaxBreaks \in Nat /\ MaxRuleChanges \in Nat
  BY ReadPathAssumption
<1>3. TypesOfReads
  BY <1>1 DEF Init, TypesOfReads
<1>4. TypesOfViews
  BY <1>1 DEF Init, TypesOfViews
<1>5. TypesOfStream
  <2>1. timer \in BOOLEAN /\ idle \in BOOLEAN
    BY Zenon DEF Init
  <2>2. failures \in 0..1
    BY DEF Init
  <2> QED
    BY <2>1, <2>2 DEF Init, TypesOfStream
<1>6. TypesOfAggregator
  BY <1>1 DEF Init, TypesOfAggregator
<1>7. TypesOfWire
  BY DEF Init, TypesOfWire
<1>8. TypesOfServer
  BY <1>1, <1>2 DEF Init, TypesOfServer
<1> QED
  BY <1>3, <1>4, <1>5, <1>6, <1>7, <1>8, TypeParts

\* Reads and what they are told.
LEMMA ReadsType ==
  ASSUME TypeOK, OneLife, ListenedIsWatched, [Next]_vars
  PROVE  TypesOfReads'
<1>1. TypesOfReads /\ version \in Versions
  BY TypeParts DEF TypesOfServer
<1>2. ASSUME mainQueue' \in Seq(EventType), listening' \subseteq listening,
             UNCHANGED <<query, muted, answer, workQueue, askedAt>>
      PROVE  TypesOfReads'
  BY <1>1, <1>2 DEF TypesOfReads
<1>3. ASSUME UNCHANGED <<query, mainQueue, muted, answer, workQueue, listening, askedAt>>
      PROVE  TypesOfReads'
  BY <1>1, <1>3 DEF TypesOfReads
<1>4. ASSUME NEW r \in Reads, NEW q \in Queries, Ask(r, q)
      PROVE  TypesOfReads'
  <2>1. workQueue' \in Seq(TaskType)
    BY <1>4, EnqueueFacts DEF Ask, TaskType
  <2> QED
    BY <1>1, <1>4, <2>1 DEF Ask, TypesOfReads
<1>5. CASE Deliver
  <2> DEFINE e == Head(mainQueue)
  <2>1. e \in EventType /\ e.read \in Reads /\ mainQueue' \in Seq(EventType)
    BY <1>5, EventFacts DEF Deliver
  <2>2. Event(e.read, "error", 0) \in EventType
    BY <2>1, ReadPathAssumption DEF Event, EventType, Versions
  <2>3. answer' \in [Reads -> EventType \cup {None}]
    <3>1. \E a \in {Event(e.read, "error", 0), e} : answer' = [answer EXCEPT ![e.read] = a]
      BY <1>5 DEF Deliver
    <3> QED
      BY <1>1, <2>1, <2>2, <3>1 DEF TypesOfReads
  <2>4. workQueue' \in Seq(TaskType) /\ muted' \subseteq Reads
    <3>1. CASE e.from = "error"
      BY <1>1, <1>5, <3>1 DEF Deliver, TypesOfReads
    <3>2. CASE e.from # "error"
      <4>1. workQueue' = Append(workQueue, Task("remove", e.read)) /\ muted' = muted \cup {e.read}
        BY <1>5, <3>2 DEF Deliver
      <4>2. workQueue' \in Seq(TaskType)
        BY <2>1, <4>1, EnqueueFacts DEF TaskType
      <4> QED
        BY <1>1, <2>1, <4>1, <4>2 DEF TypesOfReads
    <3> QED
      BY <3>1, <3>2
  <2> QED
    BY <1>1, <1>5, <2>1, <2>3, <2>4 DEF Deliver, TypesOfReads
<1>6. CASE DropMuted
  BY <1>1, <1>2, <1>6, EventFacts DEF DropMuted, mainVars
<1>7. CASE AddListener
  <2>1. /\ workQueue' \in Seq(TaskType)
        /\ Head(workQueue).read \in Reads
    BY <1>7, DequeueFacts DEF AddListener, TaskType
  <2>2. mainQueue' \in Seq(EventType)
    BY <1>7, AddListenerLife
  <2> QED
    BY <1>1, <1>7, <2>1, <2>2 DEF AddListener, mainVars, TypesOfReads
<1>8. CASE RemoveListener
  <2>1. workQueue' \in Seq(TaskType)
    BY <1>8, DequeueFacts DEF RemoveListener, TaskType
  <2> QED
    BY <1>1, <1>8, <2>1 DEF RemoveListener, mainVars, TypesOfReads
<1>9. ASSUME NEW state, Broadcast(state),
             UNCHANGED <<query, muted, answer, workQueue, listening, askedAt>>
      PROVE  TypesOfReads'
  BY <1>2, <1>9, BroadcastLife
<1>10. CASE OnlineStateTimeout
  BY <1>9, <1>10 DEF OnlineStateTimeout, mainVars
<1>11. CASE WatchStreamFails
  <2>1. UNCHANGED <<query, muted, answer, workQueue, listening, askedAt>>
    BY <1>11 DEF WatchStreamFails, mainVars
  <2>2. Broadcast("Unknown") \/ Broadcast("Offline") \/ mainQueue' = mainQueue
    BY <1>11 DEF WatchStreamFails, WatchStreamFailsAndStarts
  <2> QED
    BY <1>3, <1>9, <2>1, <2>2
<1>12. CASE ReceiveSnapshot
  BY <1>2, <1>12, SnapshotReads DEF ReceiveSnapshot, Receive, mainVars
<1>13. CASE ReceiveRefused
  <2>1. listening' \subseteq listening
    BY <1>13 DEF ReceiveRefused
  <2> QED
    BY <1>2, <1>13, <2>1, RefusedReads DEF ReceiveRefused, Receive, mainVars
<1>14. CASE WatchStreamOpens \/ BackoffElapsed \/ IdleTimeout \/ RestartNetwork
  BY <1>3, <1>14 DEF WatchStreamOpens, BackoffElapsed, IdleTimeout, RestartNetwork, mainVars
<1>15. CASE ReceiveAdded \/ ReceiveRemoved \/ ReceiveDocuments \/ ReceiveCurrent
  BY <1>3, <1>15 DEF ReceiveAdded, ReceiveRemoved, ReceiveDocuments, ReceiveCurrent, Receive, mainVars
<1>16. CASE ServerHandlesRequest \/ ServerDataChanges
  BY <1>3, <1>16 DEF ServerHandlesRequest, ServerDataChanges, mainVars
<1>17. ASSUME NEW q \in Queries, ServerChangesRules(q)
       PROVE  TypesOfReads'
  BY <1>3, <1>17 DEF ServerChangesRules, mainVars
<1>18. CASE UNCHANGED vars
  BY <1>3, <1>18 DEF vars
<1> QED
  BY <1>4, <1>5, <1>6, <1>7, <1>8, <1>10, <1>11, <1>12, <1>13, <1>14, <1>15, <1>16,
     <1>17, <1>18 DEF Next, MainQueue, WorkQueue, ReceiveAny

\* Views, the cache and the targets.
LEMMA ViewsType ==
  ASSUME TypeOK, OneLife, ListenedIsWatched, [Next]_vars
  PROVE  TypesOfViews'
<1>1. TypesOfViews /\ TypesOfReads
  BY TypeParts
<1>2. ASSUME UNCHANGED <<raised, synced, cache, alone>>, targets' \subseteq targets
      PROVE  TypesOfViews'
  BY <1>1, <1>2 DEF TypesOfViews
<1>3. CASE AddListener
  <2> DEFINE r == Head(workQueue).read
  <2>1. r \in Reads /\ Adding(r)
    BY <1>3, DequeueFacts DEF AddListener, Adding
  <2>2. query[r] \in Queries
    BY <1>1, <2>1 DEF OneLife, UnaskedIsNowhere, TypesOfReads
  <2>3. /\ raised' \subseteq raised \cup {r}
        /\ alone' \subseteq alone \cup {r}
        /\ targets' \subseteq targets \cup {query[r]}
        /\ UNCHANGED <<synced, cache>>
    BY <1>3 DEF AddListener, ListenRemotely
  <2> QED
    BY <1>1, <2>1, <2>2, <2>3 DEF TypesOfViews
<1>4. CASE RemoveListener
  <2>1. /\ synced' \subseteq synced
        /\ targets' \subseteq targets
        /\ UNCHANGED <<raised, cache, alone>>
    BY <1>4 DEF RemoveListener, StopListening
  <2> QED
    BY <1>1, <2>1 DEF TypesOfViews
<1>5. ASSUME NEW state, Broadcast(state),
             UNCHANGED <<query, muted, answer, workQueue, listening, cache, alone, targets>>
      PROVE  TypesOfViews'
  BY <1>1, <1>5, BroadcastLife DEF TypesOfViews
<1>6. CASE OnlineStateTimeout
  BY <1>5, <1>6 DEF OnlineStateTimeout, mainVars
<1>7. CASE WatchStreamFails
  <2>1. UNCHANGED <<query, muted, answer, workQueue, listening, cache, alone, targets>>
    BY <1>7 DEF WatchStreamFails, mainVars
  <2>2. Broadcast("Unknown") \/ Broadcast("Offline") \/ UNCHANGED <<synced, raised>>
    BY <1>7 DEF WatchStreamFails, WatchStreamFailsAndStarts
  <2> QED
    BY <1>2, <1>5, <2>1, <2>2
<1>8. CASE ReceiveSnapshot
  BY <1>1, <1>8, SnapshotReads DEF ReceiveSnapshot, Receive, TypesOfViews
<1>9. CASE ReceiveRefused
  <2>1. /\ synced' \subseteq synced
        /\ targets' \subseteq targets
        /\ UNCHANGED <<raised, cache, alone>>
    BY <1>9 DEF ReceiveRefused, Receive
  <2> QED
    BY <1>1, <2>1 DEF TypesOfViews
<1>10. CASE (\E r \in Reads, q \in Queries : Ask(r, q)) \/ Deliver \/ DropMuted
  BY <1>2, <1>10 DEF Ask, Deliver, DropMuted
<1>11. CASE WatchStreamOpens \/ BackoffElapsed \/ IdleTimeout \/ RestartNetwork
  BY <1>2, <1>11 DEF WatchStreamOpens, BackoffElapsed, IdleTimeout, RestartNetwork
<1>12. CASE ReceiveAdded \/ ReceiveRemoved \/ ReceiveDocuments \/ ReceiveCurrent
  BY <1>2, <1>12 DEF ReceiveAdded, ReceiveRemoved, ReceiveDocuments, ReceiveCurrent, Receive
<1>13. CASE ServerHandlesRequest \/ ServerDataChanges \/ \E q \in Queries : ServerChangesRules(q)
  BY <1>2, <1>13 DEF ServerHandlesRequest, ServerDataChanges, ServerChangesRules
<1>14. CASE UNCHANGED vars
  BY <1>2, <1>14 DEF vars
<1> QED
  BY <1>3, <1>4, <1>6, <1>7, <1>8, <1>9, <1>10, <1>11, <1>12, <1>13, <1>14
     DEF Next, MainQueue, WorkQueue, ReceiveAny

\* The stream and what is known of it.
LEMMA StreamType ==
  ASSUME TypeOK, [Next]_vars
  PROVE  TypesOfStream'
<1>1. TypesOfStream
  BY TypeParts
<1>2. ASSUME UNCHANGED <<online, failures, timer, idle, stream>>
      PROVE  TypesOfStream'
  BY <1>1, <1>2 DEF TypesOfStream
<1>3. (targets # {}) \in BOOLEAN /\ \A q : (targets = {q}) \in BOOLEAN
  OBVIOUS
<1>4. CASE AddListener
  <2>1. idle' \in BOOLEAN
    BY <1>1, <1>4 DEF AddListener, ListenRemotely, TypesOfStream
  <2>2. timer' \in BOOLEAN
    BY <1>1, <1>4 DEF AddListener, ListenRemotely, WatchStreamStarts, trackVars, TypesOfStream
  <2> QED
    BY <1>1, <1>4, <2>1, <2>2
       DEF AddListener, ListenRemotely, WatchStreamStarts, trackVars, TypesOfStream
<1>5. CASE RemoveListener
  <2>1. idle' \in BOOLEAN
    BY <1>1, <1>3, <1>5 DEF RemoveListener, StopListening, TypesOfStream
  <2>2. timer' \in BOOLEAN
    BY <1>1, <1>5 DEF RemoveListener, StopListening, UpdateState, trackVars, TypesOfStream
  <2> QED
    BY <1>1, <1>5, <2>1, <2>2
       DEF RemoveListener, StopListening, UpdateState, trackVars, TypesOfStream
<1>6. CASE OnlineStateTimeout
  BY <1>1, <1>6 DEF OnlineStateTimeout, Broadcast, TypesOfStream
<1>7. CASE WatchStreamFails
  <2>1. idle' \in BOOLEAN
    BY <1>7, Zenon DEF WatchStreamFails, Disconnected
  <2>2. timer' \in BOOLEAN
    BY <1>7, Zenon DEF WatchStreamFails, WatchStreamFailsAndStarts, UpdateState
  <2>3. failures' \in 0..1
    BY <1>1, <1>7 DEF WatchStreamFails, WatchStreamFailsAndStarts, UpdateState, TypesOfStream
  <2>4. /\ online' \in {"Unknown", "Online", "Offline"}
        /\ stream' \in {"Initial", "Starting", "Open", "Backoff", "Error"}
    BY <1>7 DEF WatchStreamFails, WatchStreamFailsAndStarts, Broadcast, UpdateState
  <2> QED
    BY <2>1, <2>2, <2>3, <2>4 DEF TypesOfStream
<1>8. CASE WatchStreamOpens \/ BackoffElapsed
  BY <1>1, <1>8 DEF WatchStreamOpens, BackoffElapsed, trackVars, TypesOfStream
<1>9. CASE IdleTimeout
  <2>1. timer' \in BOOLEAN /\ idle' \in BOOLEAN
    BY <1>9, Zenon DEF IdleTimeout, Disconnected, UpdateState
  <2> QED
    BY <1>1, <1>9, <2>1 DEF IdleTimeout, UpdateState, TypesOfStream
<1>10. CASE RestartNetwork
  <2>1. idle' \in BOOLEAN
    BY <1>10, Zenon DEF RestartNetwork, Disconnected
  <2>2. timer' \in BOOLEAN
    BY <1>3, <1>10 DEF RestartNetwork
  <2> QED
    BY <1>1, <1>10, <2>1, <2>2 DEF RestartNetwork, TypesOfStream
<1>11. ASSUME NEW kind, Receive(kind)
       PROVE  TypesOfStream'
  <2>1. timer' \in BOOLEAN
    BY <1>11, Zenon DEF Receive, UpdateState
  <2> QED
    BY <1>1, <1>11, <2>1 DEF Receive, UpdateState, TypesOfStream
<1>12. CASE ReceiveAny
  BY <1>11, <1>12 DEF ReceiveAny, ReceiveAdded, ReceiveRemoved, ReceiveDocuments,
                      ReceiveCurrent, ReceiveSnapshot, ReceiveRefused
<1>13. CASE (\E r \in Reads, q \in Queries : Ask(r, q)) \/ Deliver \/ DropMuted
  BY <1>2, <1>13 DEF Ask, Deliver, DropMuted, trackVars
<1>14. CASE ServerHandlesRequest \/ ServerDataChanges \/ \E q \in Queries : ServerChangesRules(q)
  BY <1>2, <1>14 DEF ServerHandlesRequest, ServerDataChanges, ServerChangesRules, trackVars
<1>15. CASE UNCHANGED vars
  BY <1>2, <1>15 DEF vars
<1> QED
  BY <1>4, <1>5, <1>6, <1>7, <1>8, <1>9, <1>10, <1>12, <1>13, <1>14, <1>15
     DEF Next, MainQueue, WorkQueue

\* What a message of the stream is about.
LEMMA ReceivedType ==
  ASSUME TypeOK, NEW kind, Receive(kind)
  PROVE  /\ Head(responses) \in ResponseType
         /\ Head(responses).version \in Versions
         /\ Tail(responses) \in Seq(ResponseType)
<1>1. responses \in Seq(ResponseType) /\ responses # <<>>
  BY TypeParts DEF TypesOfWire, Receive
<1>2. Head(responses) \in ResponseType /\ Tail(responses) \in Seq(ResponseType)
  BY <1>1, TailFacts
<1> QED
  BY <1>2 DEF ResponseType

\* The aggregator.
LEMMA AggregatorType ==
  ASSUME TypeOK, [Next]_vars
  PROVE  TypesOfAggregator'
<1>1. TypesOfAggregator /\ TypesOfViews
  BY TypeParts
<1>2. ASSUME UNCHANGED <<current, changed, docs>>, outstanding' \in [Queries -> Int]
      PROVE  TypesOfAggregator'
  BY <1>1, <1>2 DEF TypesOfAggregator
<1>3. CASE Disconnected
  BY <1>3, ReadPathAssumption DEF Disconnected, TypesOfAggregator, Versions
<1>4. CASE AddListener
  <2>1. outstanding' \in [Queries -> Int]
    BY <1>1, <1>4 DEF AddListener, ListenRemotely, Send, TypesOfAggregator
  <2> QED
    BY <1>2, <1>4, <2>1 DEF AddListener
<1>5. CASE RemoveListener
  <2>1. outstanding' \in [Queries -> Int]
    BY <1>1, <1>5 DEF RemoveListener, StopListening, Send, TypesOfAggregator
  <2> QED
    BY <1>2, <1>5, <2>1 DEF RemoveListener
<1>6. CASE WatchStreamOpens
  BY <1>1, <1>2, <1>6 DEF WatchStreamOpens, TypesOfAggregator
<1>7. CASE WatchStreamFails \/ IdleTimeout \/ RestartNetwork
  BY <1>3, <1>7 DEF WatchStreamFails, IdleTimeout, RestartNetwork
<1>8. CASE ReceiveAdded
  <2>1. outstanding' = [outstanding EXCEPT ![Received] = @ - 1]
    BY <1>8 DEF ReceiveAdded
  <2>2. outstanding' \in [Queries -> Int]
    <3>1. outstanding \in [Queries -> Int]
      BY <1>1 DEF TypesOfAggregator
    <3>2. \A q \in Queries : outstanding[q] - 1 \in Int
      BY <3>1
    <3> QED
      BY <2>1, <3>1, <3>2
  <2>3. changed' \subseteq changed
    BY <1>8 DEF ReceiveAdded
  <2> QED
    BY <1>1, <1>8, <2>2, <2>3 DEF ReceiveAdded, TypesOfAggregator
<1>9. CASE ReceiveRemoved
  <2>1. outstanding' = [outstanding EXCEPT ![Received] = @ - 1]
    BY <1>9 DEF ReceiveRemoved
  <2>2. outstanding' \in [Queries -> Int]
    <3>1. outstanding \in [Queries -> Int]
      BY <1>1 DEF TypesOfAggregator
    <3>2. \A q \in Queries : outstanding[q] - 1 \in Int
      BY <3>1
    <3> QED
      BY <2>1, <3>1, <3>2
  <2>3. changed' \subseteq changed /\ current' \subseteq current
    BY <1>9 DEF ReceiveRemoved
  <2> QED
    BY <1>1, <1>9, <2>2, <2>3 DEF ReceiveRemoved, TypesOfAggregator
<1>10. CASE ReceiveDocuments
  <2>1. Head(responses).version \in Versions
    BY <1>10, ReceivedType DEF ReceiveDocuments
  <2>2. docs' \in [Queries -> Versions]
    BY <1>1, <1>10, <2>1 DEF ReceiveDocuments, TypesOfAggregator
  <2>3. changed' \subseteq changed \cup targets
    BY <1>10 DEF ReceiveDocuments, IsActive
  <2> QED
    BY <1>1, <1>10, <2>2, <2>3 DEF ReceiveDocuments, TypesOfAggregator, TypesOfViews
<1>11. CASE ReceiveCurrent
  <2>1. changed' \subseteq changed \cup targets /\ current' \subseteq current \cup targets
    BY <1>11 DEF ReceiveCurrent, IsActive
  <2> QED
    BY <1>1, <1>11, <2>1 DEF ReceiveCurrent, TypesOfAggregator, TypesOfViews
<1>12. CASE ReceiveSnapshot
  <2>1. docs' \in [Queries -> Versions] /\ changed' \subseteq changed
    BY <1>12, ReadPathAssumption DEF ReceiveSnapshot, Versions
  <2> QED
    BY <1>1, <1>12, <2>1 DEF ReceiveSnapshot, TypesOfAggregator
<1>13. CASE ReceiveRefused
  <2>1. outstanding' \in [Queries -> Int] /\ changed' \subseteq changed /\ current' \subseteq current
    BY <1>1, <1>13 DEF ReceiveRefused, TypesOfAggregator
  <2> QED
    BY <1>1, <1>13, <2>1 DEF ReceiveRefused, TypesOfAggregator
<1>14. CASE UNCHANGED aggVars
  BY <1>1, <1>14 DEF aggVars, TypesOfAggregator
<1>15. CASE (\E r \in Reads, q \in Queries : Ask(r, q)) \/ Deliver \/ DropMuted
            \/ OnlineStateTimeout \/ BackoffElapsed
  BY <1>14, <1>15 DEF Ask, Deliver, DropMuted, OnlineStateTimeout, BackoffElapsed
<1>16. CASE ServerHandlesRequest \/ ServerDataChanges \/ \E q \in Queries : ServerChangesRules(q)
  BY <1>14, <1>16 DEF ServerHandlesRequest, ServerDataChanges, ServerChangesRules
<1>17. CASE UNCHANGED vars
  BY <1>14, <1>17 DEF vars, aggVars
<1> QED
  BY <1>4, <1>5, <1>6, <1>7, <1>8, <1>9, <1>10, <1>11, <1>12, <1>13, <1>15, <1>16, <1>17
     DEF Next, MainQueue, WorkQueue, ReceiveAny

\* What is on the connection.
LEMMA WireType ==
  ASSUME TypeOK, OneLife, [Next]_vars
  PROVE  TypesOfWire'
<1>1. TypesOfWire /\ TypesOfReads /\ TypesOfViews /\ TypesOfServer
  BY TypeParts
<1>2. 0 \in Versions
  BY ReadPathAssumption DEF Versions
<1>3. ASSUME NEW k \in {"watch", "unwatch"}, NEW q \in Queries, Send(k, q),
             UNCHANGED <<responses, watched>>
      PROVE  TypesOfWire'
  BY <1>1, <1>3 DEF Send, Message, RequestType, TypesOfWire
<1>4. ASSUME UNCHANGED <<requests, responses, watched>>
      PROVE  TypesOfWire'
  BY <1>1, <1>4 DEF TypesOfWire
<1>5. CASE Disconnected
  BY <1>5 DEF Disconnected, TypesOfWire
<1>6. CASE AddListener
  <2> DEFINE q == query[Head(workQueue).read]
  <2>1. Head(workQueue).read \in Reads /\ Adding(Head(workQueue).read)
    BY <1>6, DequeueFacts DEF AddListener, Adding
  <2>2. q \in Queries
    BY <1>1, <2>1 DEF OneLife, UnaskedIsNowhere, TypesOfReads
  <2>3. Send("watch", q) \/ UNCHANGED requests
    BY <1>6 DEF AddListener, ListenRemotely
  <2> QED
    BY <1>3, <1>4, <1>6, <2>2, <2>3 DEF AddListener
<1>7. CASE RemoveListener
  <2> DEFINE q == query[Head(workQueue).read]
  <2>1. Head(workQueue).read \in Reads /\ answer[Head(workQueue).read] # None
    BY <1>7, RemoveListenerLife
  <2>2. q \in Queries
    BY <1>1, <2>1 DEF OneLife, UnaskedIsNowhere, TypesOfReads
  <2>3. Send("unwatch", q) \/ UNCHANGED requests
    BY <1>7 DEF RemoveListener, StopListening
  <2> QED
    BY <1>3, <1>4, <1>7, <2>2, <2>3 DEF RemoveListener
<1>8. CASE WatchStreamOpens
  <2> DEFINE f == [q \in targets |-> Message("watch", q, 0)]
  <2>1. f \in [targets -> RequestType]
    BY <1>1 DEF Message, RequestType, TypesOfViews
  <2>2. IsFiniteSet(targets)
    BY <1>1, ReadPathAssumption, FS_Subset DEF TypesOfViews
  <2>3. {Message("watch", q, 0) : q \in targets} = {f[q] : q \in targets}
    OBVIOUS
  <2>4. requests' \in SetToSeqs({f[q] : q \in targets})
    BY <1>8, <2>3 DEF WatchStreamOpens
  <2> HIDE DEF f
  <2>5. requests' \in Seq(RequestType)
    BY <2>1, <2>2, <2>4, OrderOfImage
  <2> QED
    BY <1>1, <1>8, <2>5 DEF WatchStreamOpens, TypesOfWire
<1>9. CASE WatchStreamFails \/ IdleTimeout \/ RestartNetwork
  BY <1>5, <1>9 DEF WatchStreamFails, IdleTimeout, RestartNetwork
<1>10. ASSUME NEW kind, Receive(kind)
       PROVE  TypesOfWire'
  BY <1>1, <1>10, ReceivedType DEF Receive, TypesOfWire
<1>11. CASE ReceiveAny
  BY <1>10, <1>11 DEF ReceiveAny, ReceiveAdded, ReceiveRemoved, ReceiveDocuments,
                      ReceiveCurrent, ReceiveSnapshot, ReceiveRefused
<1>12. ASSUME NEW k \in {"added", "removed", "docs", "current", "snapshot", "refused"},
              NEW q \in Queries \cup {None}, NEW v \in Versions
       PROVE  Message(k, q, v) \in ResponseType
  BY DEF Message, ResponseType
<1>13. CASE ServerHandlesRequest
  <2> DEFINE q == Head(requests).target
  <2>1. /\ Head(requests) \in RequestType /\ Tail(requests) \in Seq(RequestType)
    BY <1>1, <1>13, TailFacts DEF ServerHandlesRequest, TypesOfWire
  <2>2. q \in Queries /\ Head(requests).kind \in {"watch", "unwatch"}
    BY <2>1 DEF RequestType
  <2>3. version \in Versions /\ responses \in Seq(ResponseType)
    BY <1>1 DEF TypesOfServer, TypesOfWire
  <2>4. Answered(q) \in Seq(ResponseType)
    <3>1. \A a, b, c, d \in ResponseType : <<a, b, c, d>> \in Seq(ResponseType)
      OBVIOUS
    <3>2. /\ Message("added", q, 0) \in ResponseType
          /\ Message("docs", q, version) \in ResponseType
          /\ Message("current", q, 0) \in ResponseType
          /\ Message("snapshot", None, 0) \in ResponseType
      BY <1>2, <1>12, <2>2, <2>3
    <3> QED
      BY <3>1, <3>2 DEF Answered
  <2>5. responses \o Answered(q) \in Seq(ResponseType)
    BY <2>3, <2>4, ConcatFacts
  <2>6. /\ Append(responses, Message("removed", q, 0)) \in Seq(ResponseType)
        /\ Append(responses, Message("refused", q, 0)) \in Seq(ResponseType)
    BY <1>2, <1>12, <2>2, <2>3, AppendFacts
  <2>7. responses' \in Seq(ResponseType) /\ watched' \subseteq Queries
    BY <1>1, <1>13, <2>2, <2>5, <2>6 DEF ServerHandlesRequest, TypesOfWire
  <2>8. requests' \in Seq(RequestType)
    BY <1>13, <2>1 DEF ServerHandlesRequest
  <2> QED
    BY <2>7, <2>8 DEF TypesOfWire
<1>14. CASE ServerDataChanges
  <2>1. version' \in Versions
    BY <1>1, <1>14, ReadPathAssumption DEF ServerDataChanges, TypesOfServer, Versions
  <2>2. UNCHANGED <<requests, watched>>
    BY <1>14 DEF ServerDataChanges
  <2>3. responses' \in Seq(ResponseType)
    <3>1. CASE responses' = responses
      BY <1>1, <3>1 DEF TypesOfWire
    <3>2. ASSUME NEW news \in SetToSeqs({Message("docs", q, version') : q \in watched}),
                 responses' = responses \o news \o <<Message("snapshot", None, 0)>>
          PROVE  responses' \in Seq(ResponseType)
      <4> DEFINE f == [q \in watched |-> Message("docs", q, version')]
      <4>1. f \in [watched -> ResponseType]
        BY <1>1, <1>12, <2>1 DEF TypesOfWire
      <4>2. IsFiniteSet(watched)
        BY <1>1, ReadPathAssumption, FS_Subset DEF TypesOfWire
      <4>3. {Message("docs", q, version') : q \in watched} = {f[q] : q \in watched}
        OBVIOUS
      <4>4. news \in SetToSeqs({f[q] : q \in watched})
        BY <4>3
      <4> HIDE DEF f
      <4>5. news \in Seq(ResponseType)
        BY <4>1, <4>2, <4>4, OrderOfImage
      <4>6. <<Message("snapshot", None, 0)>> \in Seq(ResponseType)
        BY <1>2, <1>12
      <4>7. responses \o news \in Seq(ResponseType)
        BY <1>1, <4>5, ConcatFacts DEF TypesOfWire
      <4> QED
        BY <3>2, <4>6, <4>7, ConcatFacts
    <3> QED
      BY <1>14, <3>1, <3>2 DEF ServerDataChanges
  <2> QED
    BY <1>1, <2>2, <2>3 DEF TypesOfWire
<1>15. ASSUME NEW q \in Queries, ServerChangesRules(q)
       PROVE  TypesOfWire'
  <2>1. Append(responses, Message("refused", q, 0)) \in Seq(ResponseType)
    BY <1>1, <1>2, <1>12, AppendFacts DEF TypesOfWire
  <2> QED
    BY <1>1, <1>15, <2>1 DEF ServerChangesRules, TypesOfWire
<1>16. CASE (\E r \in Reads, q \in Queries : Ask(r, q)) \/ Deliver \/ DropMuted
            \/ OnlineStateTimeout \/ BackoffElapsed
  BY <1>4, <1>16 DEF Ask, Deliver, DropMuted, OnlineStateTimeout, BackoffElapsed, wire
<1>17. CASE UNCHANGED vars
  BY <1>4, <1>17 DEF vars
<1> QED
  BY <1>6, <1>7, <1>8, <1>9, <1>11, <1>13, <1>14, <1>15, <1>16, <1>17
     DEF Next, MainQueue, WorkQueue

\* The server and the bounds.
LEMMA ServerType ==
  ASSUME TypeOK, [Next]_vars
  PROVE  TypesOfServer'
<1>1. TypesOfServer
  BY TypeParts
<1>2. MaxVersion \in Nat /\ MaxBreaks \in Nat /\ MaxRuleChanges \in Nat
  BY ReadPathAssumption
<1>3. ASSUME UNCHANGED serverVars, breaks' = breaks \/ (breaks + ruleChanges < MaxBreaks /\ breaks' = breaks + 1)
      PROVE  TypesOfServer'
  BY <1>1, <1>2, <1>3 DEF serverVars, TypesOfServer
<1>4. CASE ServerDataChanges
  BY <1>1, <1>2, <1>4 DEF ServerDataChanges, TypesOfServer, Versions
<1>5. ASSUME NEW q \in Queries, ServerChangesRules(q)
      PROVE  TypesOfServer'
  BY <1>1, <1>2, <1>5 DEF ServerChangesRules, TypesOfServer
<1>6. ASSUME NEW kind, Receive(kind)
      PROVE  TypesOfServer'
  BY <1>3, <1>6 DEF Receive
<1>7. CASE ReceiveAny
  BY <1>6, <1>7 DEF ReceiveAny, ReceiveAdded, ReceiveRemoved, ReceiveDocuments,
                    ReceiveCurrent, ReceiveSnapshot, ReceiveRefused
<1>8. CASE (\E r \in Reads, q \in Queries : Ask(r, q)) \/ MainQueue \/ WorkQueue \/ OnlineStateTimeout
  BY <1>3, <1>8 DEF Ask, MainQueue, Deliver, DropMuted, WorkQueue, AddListener,
                    RemoveListener, OnlineStateTimeout
<1>9. CASE WatchStreamOpens \/ WatchStreamFails \/ BackoffElapsed \/ IdleTimeout \/ RestartNetwork
  BY <1>3, <1>9 DEF WatchStreamOpens, WatchStreamFails, BackoffElapsed, IdleTimeout, RestartNetwork
<1>10. CASE ServerHandlesRequest
  BY <1>3, <1>10 DEF ServerHandlesRequest
<1>11. CASE UNCHANGED vars
  BY <1>3, <1>11 DEF vars, serverVars
<1> QED
  BY <1>4, <1>5, <1>7, <1>8, <1>9, <1>10, <1>11 DEF Next

\* Every step keeps the types.
LEMMA TypeStep ==
  ASSUME TypeOK, OneLife, ListenedIsWatched, [Next]_vars
  PROVE  TypeOK'
<1>1. TypeOK' <=> /\ TypesOfReads' /\ TypesOfViews' /\ TypesOfStream'
                  /\ TypesOfAggregator' /\ TypesOfWire' /\ TypesOfServer'
  BY DEF TypeOK, TypesOfReads, TypesOfViews, TypesOfStream, TypesOfAggregator,
         TypesOfWire, TypesOfServer, RequestType, ResponseType, TaskType
<1> QED
  BY <1>1, ReadsType, ViewsType, StreamType, AggregatorType, WireType, ServerType

-----------------------------------------------------------------------------
\* The online state.

\* Nothing is on a connection that is not open.
LEMMA WireStep ==
  ASSUME WireIsOpen, [Next]_vars
  PROVE  WireIsOpen'
<1>1. ASSUME UNCHANGED <<requests, responses, watched, stream>>
      PROVE  WireIsOpen'
  BY <1>1 DEF WireIsOpen
<1>2. CASE AddListener
  <2>1. UNCHANGED <<responses, watched>>
    BY <1>2 DEF AddListener
  <2>2. \/ stream = "Open" /\ stream' = "Open"
        \/ stream # "Open" /\ requests' = requests
    BY <1>2 DEF AddListener, ListenRemotely, IsStarted
  <2> QED
    BY <2>1, <2>2 DEF WireIsOpen
<1>3. CASE RemoveListener
  <2>1. UNCHANGED <<responses, watched, stream>>
    BY <1>3 DEF RemoveListener
  <2>2. stream # "Open" => requests' = requests
    BY <1>3 DEF RemoveListener, StopListening
  <2> QED
    BY <2>1, <2>2 DEF WireIsOpen
<1>4. CASE WatchStreamOpens
  BY <1>4 DEF WatchStreamOpens, WireIsOpen
<1>5. CASE WatchStreamFails \/ IdleTimeout \/ RestartNetwork
  BY <1>5 DEF WatchStreamFails, IdleTimeout, RestartNetwork, Disconnected, WireIsOpen
<1>6. CASE BackoffElapsed
  BY <1>6 DEF BackoffElapsed, wire, WireIsOpen
<1>7. ASSUME NEW kind, Receive(kind)
      PROVE  WireIsOpen'
  BY <1>7 DEF Receive, WireIsOpen
<1>8. CASE ReceiveAny
  BY <1>7, <1>8 DEF ReceiveAny, ReceiveAdded, ReceiveRemoved, ReceiveDocuments,
                    ReceiveCurrent, ReceiveSnapshot, ReceiveRefused
<1>9. CASE ServerHandlesRequest
  <2>1. stream = "Open" /\ stream' = stream
    BY <1>9 DEF ServerHandlesRequest, WireIsOpen
  <2> QED
    BY <2>1 DEF WireIsOpen
<1>10. CASE ServerDataChanges
  BY <1>10 DEF ServerDataChanges, WireIsOpen
<1>11. ASSUME NEW q \in Queries, ServerChangesRules(q)
       PROVE  WireIsOpen'
  <2>1. /\ stream' = stream /\ requests' = requests /\ watched' \subseteq watched
        /\ responses' = responses \/ q \in watched
    BY <1>11 DEF ServerChangesRules
  <2> QED
    BY <2>1 DEF WireIsOpen
<1>12. CASE (\E r \in Reads, q \in Queries : Ask(r, q)) \/ MainQueue \/ OnlineStateTimeout
  BY <1>1, <1>12 DEF Ask, MainQueue, Deliver, DropMuted, OnlineStateTimeout, wire
<1>13. CASE UNCHANGED vars
  BY <1>1, <1>13 DEF vars
<1> QED
  BY <1>2, <1>3, <1>4, <1>5, <1>6, <1>8, <1>9, <1>10, <1>11, <1>12, <1>13 DEF Next, WorkQueue

\* Every step keeps the online state in agreement with the stream.
LEMMA TrackerStep ==
  ASSUME WireIsOpen, TrackerIsConsistent, [Next]_vars
  PROVE  TrackerIsConsistent'
<1>1. ASSUME UNCHANGED <<online, failures, timer, stream, idle, targets>>
      PROVE  TrackerIsConsistent'
  BY <1>1 DEF TrackerIsConsistent, IsStarted
<1>2. CASE AddListener
  <2>1. CASE UNCHANGED <<targets, stream, idle, trackVars>>
    BY <1>1, <2>1 DEF trackVars
  <2>2. ASSUME NEW q, ListenRemotely(q), online' = online \/ WatchStreamStarts
        PROVE  TrackerIsConsistent'
    BY <2>2 DEF ListenRemotely, WatchStreamStarts, TrackerIsConsistent, IsStarted, trackVars
  <2>3. ASSUME NEW q, ListenRemotely(q)
        PROVE  online' = online \/ WatchStreamStarts
    BY <2>3 DEF ListenRemotely, trackVars
  <2> QED
    BY <1>2, <2>1, <2>2, <2>3 DEF AddListener
<1>3. CASE RemoveListener
  <2>1. stream' = stream
    BY <1>3 DEF RemoveListener
  <2>2. CASE UNCHANGED <<targets, idle, trackVars>>
    BY <1>1, <2>1, <2>2 DEF trackVars
  <2>3. ASSUME NEW q, StopListening(q)
        PROVE  TrackerIsConsistent'
    BY <2>1, <2>3 DEF StopListening, UpdateState, TrackerIsConsistent, IsStarted, trackVars
  <2> QED
    BY <1>3, <2>2, <2>3 DEF RemoveListener
<1>4. CASE OnlineStateTimeout
  BY <1>4 DEF OnlineStateTimeout, Broadcast, TrackerIsConsistent, IsStarted
<1>5. CASE WatchStreamOpens
  BY <1>5 DEF WatchStreamOpens, trackVars, TrackerIsConsistent, IsStarted
<1>6. CASE WatchStreamFails
  BY <1>6 DEF WatchStreamFails, WatchStreamFailsAndStarts, Broadcast, Disconnected, UpdateState,
              TrackerIsConsistent, IsStarted
<1>7. CASE BackoffElapsed
  BY <1>7 DEF BackoffElapsed, trackVars, TrackerIsConsistent, IsStarted
<1>8. CASE IdleTimeout
  BY <1>8 DEF IdleTimeout, Disconnected, UpdateState, TrackerIsConsistent, IsStarted
<1>9. CASE RestartNetwork
  BY <1>9 DEF RestartNetwork, Disconnected, TrackerIsConsistent, IsStarted
<1>10. ASSUME NEW kind, Receive(kind), targets' \subseteq targets
       PROVE  TrackerIsConsistent'
  <2>1. stream = "Open" /\ stream' = stream
    BY <1>10 DEF Receive, WireIsOpen
  <2> QED
    BY <1>10, <2>1 DEF Receive, UpdateState, TrackerIsConsistent
<1>11. CASE ReceiveAny
  BY <1>10, <1>11 DEF ReceiveAny, ReceiveAdded, ReceiveRemoved, ReceiveDocuments,
                      ReceiveCurrent, ReceiveSnapshot, ReceiveRefused
<1>12. CASE (\E r \in Reads, q \in Queries : Ask(r, q)) \/ MainQueue
  BY <1>1, <1>12 DEF Ask, MainQueue, Deliver, DropMuted, trackVars
<1>13. CASE ServerHandlesRequest \/ ServerDataChanges \/ \E q \in Queries : ServerChangesRules(q)
  BY <1>1, <1>13 DEF ServerHandlesRequest, ServerDataChanges, ServerChangesRules, trackVars
<1>14. CASE UNCHANGED vars
  BY <1>1, <1>14 DEF vars
<1> QED
  BY <1>2, <1>3, <1>4, <1>5, <1>6, <1>7, <1>8, <1>9, <1>11, <1>12, <1>13, <1>14
     DEF Next, WorkQueue

-----------------------------------------------------------------------------
\* The inductive invariant and what follows from it.

Inv == TypeOK /\ OneLife /\ ListenedIsWatched /\ WireIsOpen /\ TrackerIsConsistent

\* It holds before the first call.
LEMMA InitInv == Init => Inv
<1> SUFFICES ASSUME Init
             PROVE  Inv
  OBVIOUS
<1>1. TypeOK
  BY InitType
<1>2. OneLife
  BY DEF Init, OneLife, UnaskedIsNowhere, AddedOnce, ErrorIsLast, AnsweredIsOver,
         RemovedIsAnswered, Adding, Removing, Sent
<1>3. ListenedIsWatched
  BY DEF Init, ListenedIsWatched, TargetsAreListened, NobodyIsForgotten
<1>4. WireIsOpen
  BY DEF Init, WireIsOpen
<1>5. TrackerIsConsistent
  BY DEF Init, TrackerIsConsistent
<1> QED
  BY <1>1, <1>2, <1>3, <1>4, <1>5 DEF Inv

\* Every step keeps it.
LEMMA StepInv == Inv /\ [Next]_vars => Inv'
BY ReadsStep, TypeStep, WireStep, TrackerStep DEF Inv

\* The inductive invariant holds in every reachable state, for any reads and
\* queries, and any bounds.
THEOREM Invariance == Spec => []Inv
BY InitInv, StepInv, PTL DEF Spec

\* Type correctness: among others, the aggregator, the cache and the events
\* speak of known targets only (remote_store.cc, event_manager.cc).
THEOREM TypeCorrect == Spec => []TypeOK
<1>1. Inv => TypeOK
  BY DEF Inv
<1> QED
  BY <1>1, Invariance, PTL

\* EventManager and RemoteStore agree on what is listened to, the assertion of
\* StopListening holds (remote_store.cc:173), and a read that has not been
\* answered is in the work queue, a listener, or has its event on the way.
THEOREM WatchedIsListened == Spec => []ListenedIsWatched
<1>1. Inv => ListenedIsWatched
  BY DEF Inv
<1> QED
  BY <1>1, Invariance, PTL

\* The assertions of OnlineStateTracker (online_state_tracker.cc:62, 68, 88, 90)
\* and of the graceful stop (remote_store.cc:236) hold.
THEOREM TrackerConsistent == Spec => []TrackerIsConsistent
<1>1. Inv => TrackerIsConsistent
  BY DEF Inv
<1> QED
  BY <1>1, Invariance, PTL

\* A step changes the answer of a read only if it has none.
LEMMA StepAnswers ==
  ASSUME Inv, [Next]_vars
  PROVE  \A r \in Reads : answer[r] # None => answer'[r] = answer[r]
<1>1. CASE Deliver
  BY <1>1, DeliverLife DEF Inv
<1>2. CASE UNCHANGED answer
  BY <1>2
<1>3. ASSUME NEW kind, Receive(kind)
      PROVE  UNCHANGED answer
  BY <1>3 DEF Receive, mainVars
<1>4. ReceiveAny => UNCHANGED answer
  BY <1>3 DEF ReceiveAny, ReceiveAdded, ReceiveRemoved, ReceiveDocuments,
              ReceiveCurrent, ReceiveSnapshot, ReceiveRefused
<1>5. DropMuted \/ WorkQueue \/ OnlineStateTimeout => UNCHANGED answer
  BY DEF DropMuted, WorkQueue, AddListener, RemoveListener, OnlineStateTimeout, mainVars
<1>6. WatchStreamOpens \/ WatchStreamFails \/ BackoffElapsed \/ IdleTimeout \/ RestartNetwork
        => UNCHANGED answer
  BY DEF WatchStreamOpens, WatchStreamFails, BackoffElapsed, IdleTimeout, RestartNetwork, mainVars
<1>7. ServerHandlesRequest \/ ServerDataChanges => UNCHANGED answer
  BY DEF ServerHandlesRequest, ServerDataChanges, mainVars
<1>8. ASSUME NEW q \in Queries
      PROVE  /\ ServerChangesRules(q) => UNCHANGED answer
             /\ \A r \in Reads : Ask(r, q) => UNCHANGED answer
  BY DEF ServerChangesRules, Ask, mainVars
<1>9. UNCHANGED vars => UNCHANGED answer
  BY DEF vars
<1> QED
  BY <1>1, <1>2, <1>4, <1>5, <1>6, <1>7, <1>8, <1>9 DEF Next, MainQueue

\* The completion of a read is called at most once, whatever events its
\* listener has been sent before it was removed (event_listener.h:129-149).
THEOREM NeverAnsweredTwice == Spec => AnsweredOnce
<1>1. Inv /\ [Next]_vars => [\A r \in Reads : answer[r] # None => answer'[r] = answer[r]]_vars
  BY StepAnswers
<1> QED
  BY <1>1, Invariance, PTL DEF Spec, AnsweredOnce

-----------------------------------------------------------------------------
\* What the client and its connection have to do with each other while the server
\* refuses what it has refused from the start.

\* Requests and acknowledgements that are about q.
Asking(q) == {m \in RequestType : m.target = q}
Acking(q) == {m \in ResponseType : m.target = q /\ m.kind \in {"added", "removed", "refused"}}

\* What is owed is counted right.
CountsAreRight == \A q \in Queries \ forbidden : outstanding[q] = Owed(q)

\* Nothing but refusals is heard of what is refused, and of nothing else.
RefusalsAreKnown ==
  /\ \A i \in DOMAIN responses :
       /\ responses[i].kind = "refused" => responses[i].target \in forbidden
       /\ responses[i].target \in forbidden => responses[i].kind \in {"removed", "refused"}
  /\ forbidden \cap (watched \cup changed \cup current \cup synced) = {}

-----------------------------------------------------------------------------
\* Steps, as far as the connection and what is made of its messages go.

\* A request about a query that is not listened to yet, or not any more.
Requesting(q) ==
  /\ \E kind \in {"watch", "unwatch"} : Send(kind, q)
  /\ stream = "Open" /\ stream' = "Open"
  /\ q \notin targets \/ q \notin targets'
  /\ UNCHANGED <<responses, watched, changed, current, docs, cache>>
  /\ synced' \subseteq synced

\* Nothing happens on the connection.
Elsewhere ==
  /\ UNCHANGED <<requests, responses, watched, outstanding, changed, current, docs, cache>>
  /\ stream' = "Open" <=> stream = "Open"
  /\ synced' \subseteq synced

\* The connection is lost.
Disconnecting ==
  /\ Disconnected
  /\ stream' # "Open"
  /\ synced' \subseteq synced
  /\ UNCHANGED cache

\* What a step does to the connection, if rules do not change.
LEMMA ConnectionSteps ==
  ASSUME Inv, [Next]_vars, ruleChanges' = 0
  PROVE  /\ ruleChanges = 0 /\ forbidden' = forbidden /\ version' >= version
         /\ \/ Elsewhere
            \/ Disconnecting
            \/ \E q \in Queries : Requesting(q)
            \/ WatchStreamOpens
            \/ ReceiveAny
            \/ ServerHandlesRequest
            \/ ServerDataChanges
<1>1. TypeOK /\ OneLife /\ ListenedIsWatched
  BY DEF Inv
<1>2. version \in Nat /\ ruleChanges \in Nat
  <2>1. MaxVersion \in Nat /\ MaxRuleChanges \in Nat
    BY ReadPathAssumption
  <2> QED
    BY <1>1, <2>1 DEF TypeOK, Versions
<1> DEFINE Kept == ruleChanges' = ruleChanges /\ forbidden' = forbidden /\ version' >= version
<1>3. ASSUME UNCHANGED serverVars
      PROVE  Kept
  BY <1>2, <1>3 DEF serverVars
<1>4. ASSUME Broadcast("Offline") \/ Broadcast("Unknown")
      PROVE  synced' \subseteq synced
  BY <1>4 DEF Broadcast
<1>5. CASE \E r \in Reads, q \in Queries : Ask(r, q)
  BY <1>3, <1>5 DEF Ask, Elsewhere, aggVars, wire
<1>6. CASE MainQueue
  BY <1>3, <1>6 DEF MainQueue, Deliver, DropMuted, Elsewhere, aggVars, wire
<1>7. CASE OnlineStateTimeout
  BY <1>3, <1>4, <1>7 DEF OnlineStateTimeout, Elsewhere, aggVars, wire
<1>8. CASE WatchStreamOpens
  BY <1>3, <1>8 DEF WatchStreamOpens
<1>9. CASE WatchStreamFails
  <2>1. Disconnected /\ UNCHANGED <<cache, serverVars>>
    BY <1>9 DEF WatchStreamFails
  <2>2. stream' # "Open" /\ synced' \subseteq synced
    BY <1>4, <1>9 DEF WatchStreamFails, WatchStreamFailsAndStarts
  <2> QED
    BY <1>3, <2>1, <2>2 DEF Disconnecting
<1>10. CASE BackoffElapsed
  BY <1>3, <1>10 DEF BackoffElapsed, Elsewhere, aggVars, wire
<1>11. CASE IdleTimeout \/ RestartNetwork
  BY <1>3, <1>11 DEF IdleTimeout, RestartNetwork, Disconnecting
<1>12. ASSUME NEW kind, Receive(kind)
       PROVE  Kept
  BY <1>3, <1>12 DEF Receive
<1>13. CASE ReceiveAny
  <2>1. Kept
    BY <1>12, <1>13 DEF ReceiveAny, ReceiveAdded, ReceiveRemoved, ReceiveDocuments,
                        ReceiveCurrent, ReceiveSnapshot, ReceiveRefused
  <2> QED
    BY <1>13, <2>1
<1>14. CASE ServerHandlesRequest
  BY <1>3, <1>14 DEF ServerHandlesRequest
<1>15. CASE ServerDataChanges
  <2>1. version' = version + 1 /\ UNCHANGED <<forbidden, ruleChanges>>
    BY <1>15 DEF ServerDataChanges
  <2> QED
    BY <1>2, <1>15, <2>1
<1>16. CASE \E q \in Queries : ServerChangesRules(q)
  <2>1. ruleChanges' = ruleChanges + 1
    BY <1>16 DEF ServerChangesRules
  <2> QED
    BY <1>2, <2>1
<1>17. CASE UNCHANGED vars
  BY <1>2, <1>17 DEF vars, Elsewhere
<1>18. CASE AddListener
  <2> DEFINE r == Head(workQueue).read
             q == query[r]
  <2>1. /\ UNCHANGED <<synced, cache, current, changed, docs, responses, watched, serverVars, query>>
        /\ \/ UNCHANGED <<stream, outstanding, requests>>
           \/ Listeners(q) = {} /\ ListenRemotely(q)
    BY <1>18 DEF AddListener, mainVars
  <2>2. r \in Reads /\ Adding(r)
    BY <1>1, <1>18, DequeueFacts DEF AddListener, Adding
  <2>3. q \in Queries
    BY <1>1, <2>2 DEF OneLife, UnaskedIsNowhere, TypeOK
  <2>4. CASE UNCHANGED <<stream, outstanding, requests>>
    BY <1>3, <2>1, <2>4 DEF Elsewhere
  <2>5. CASE Listeners(q) = {} /\ ListenRemotely(q)
    <3>1. q \notin targets
      BY <1>1, <2>3, <2>5 DEF Listeners, ListenedIsWatched, TargetsAreListened
    <3>2. CASE stream = "Open"
      <4>1. Send("watch", q) /\ stream' = "Open"
        BY <2>5, <3>2 DEF ListenRemotely, IsStarted
      <4>2. Requesting(q)
        BY <2>1, <3>1, <3>2, <4>1 DEF Requesting
      <4> QED
        BY <1>3, <2>1, <2>3, <4>2
    <3>3. CASE stream # "Open"
      <4>1. UNCHANGED <<requests, outstanding>> /\ stream' # "Open"
        BY <2>5, <3>3 DEF ListenRemotely, IsStarted
      <4> QED
        BY <1>3, <2>1, <3>3, <4>1 DEF Elsewhere
    <3> QED
      BY <3>2, <3>3
  <2> QED
    BY <2>1, <2>4, <2>5
<1>19. CASE RemoveListener
  <2> DEFINE r == Head(workQueue).read
             q == query[r]
  <2>1. /\ UNCHANGED <<cache, stream, current, changed, docs, responses, watched, serverVars>>
        /\ synced' \subseteq synced
        /\ \/ UNCHANGED <<outstanding, requests>>
           \/ StopListening(q)
    BY <1>19 DEF RemoveListener
  <2>2. q \in Queries
    <3>1. r \in Reads /\ answer[r] # None
      BY <1>1, <1>19, RemoveListenerLife
    <3> QED
      BY <1>1, <3>1 DEF OneLife, UnaskedIsNowhere, TypeOK
  <2>3. CASE UNCHANGED <<outstanding, requests>>
    BY <1>3, <2>1, <2>3 DEF Elsewhere
  <2>4. CASE StopListening(q) /\ stream = "Open"
    <3>1. Send("unwatch", q) /\ q \notin targets'
      BY <2>4 DEF StopListening
    <3>2. Requesting(q)
      BY <2>1, <2>4, <3>1 DEF Requesting
    <3> QED
      BY <1>3, <2>1, <2>2, <3>2
  <2>5. CASE StopListening(q) /\ stream # "Open"
    <3>1. UNCHANGED <<outstanding, requests>>
      BY <2>5 DEF StopListening
    <3> QED
      BY <2>3, <3>1
  <2> QED
    BY <2>1, <2>3, <2>4, <2>5
<1> QED
  BY <1>5, <1>6, <1>7, <1>8, <1>9, <1>10, <1>11, <1>13, <1>14, <1>15, <1>16, <1>17, <1>18, <1>19
     DEF Next, WorkQueue

-----------------------------------------------------------------------------
\* What is owed.

\* It is a count of messages.
LEMMA OwedIsCounted ==
  ASSUME NEW s \in Seq(RequestType), NEW t \in Seq(ResponseType), NEW q
  PROVE  /\ {i \in DOMAIN s : s[i].target = q} = {i \in DOMAIN s : s[i] \in Asking(q)}
         /\ {i \in DOMAIN t : t[i].target = q /\ t[i].kind \in {"added", "removed", "refused"}}
              = {i \in DOMAIN t : t[i] \in Acking(q)}
<1>1. \A i \in DOMAIN s : s[i] \in RequestType
  OBVIOUS
<1>2. \A i \in DOMAIN t : t[i] \in ResponseType
  OBVIOUS
<1> QED
  BY <1>1, <1>2 DEF Asking, Acking

\* Nothing is owed if and only if there is nothing of the kind on the connection.
LEMMA OwedFacts ==
  ASSUME TypeOK, NEW q
  PROVE  /\ Owed(q) = Occurrences(requests, Asking(q)) + Occurrences(responses, Acking(q))
         /\ Owed(q) \in Nat
         /\ Owed(q) = 0 <=> /\ \A i \in DOMAIN requests : requests[i].target # q
                            /\ \A i \in DOMAIN responses : responses[i] \notin Acking(q)
<1>1. requests \in Seq(RequestType) /\ responses \in Seq(ResponseType)
  BY TypeParts DEF TypesOfWire
<1>2. Owed(q) = Occurrences(requests, Asking(q)) + Occurrences(responses, Acking(q))
  BY <1>1, OwedIsCounted DEF Owed, Occurrences
<1>3. /\ Occurrences(requests, Asking(q)) \in Nat
      /\ Occurrences(requests, Asking(q)) = 0
           <=> \A i \in DOMAIN requests : requests[i] \notin Asking(q)
      /\ Occurrences(responses, Acking(q)) \in Nat
      /\ Occurrences(responses, Acking(q)) = 0
           <=> \A i \in DOMAIN responses : responses[i] \notin Acking(q)
  BY <1>1, CountFacts
<1>4. \A i \in DOMAIN requests : requests[i] \in Asking(q) <=> requests[i].target = q
  BY <1>1 DEF Asking
<1> QED
  BY <1>2, <1>3, <1>4

\* What is owed after a step.
LEMMA OwedAfter ==
  ASSUME TypeOK', NEW q
  PROVE  Owed(q)' = Occurrences(requests', Asking(q)) + Occurrences(responses', Acking(q))
<1>1. requests' \in Seq(RequestType) /\ responses' \in Seq(ResponseType)
  BY DEF TypeOK, RequestType, ResponseType
<1>2. Owed(q)' = Cardinality({i \in DOMAIN requests' : requests'[i].target = q})
                 + Cardinality({i \in DOMAIN responses' :
                      responses'[i].target = q /\ responses'[i].kind \in {"added", "removed", "refused"}})
  BY DEF Owed
<1> QED
  BY <1>1, <1>2, OwedIsCounted DEF Occurrences

\* A message is taken from the connection.
LEMMA PopOwed ==
  ASSUME TypeOK, TypeOK', NEW kind, Receive(kind), NEW q
  PROVE  Owed(q) = Owed(q)' + IF Head(responses) \in Acking(q) THEN 1 ELSE 0
<1>1. responses \in Seq(ResponseType) /\ responses # <<>>
  BY TypeParts DEF TypesOfWire, Receive
<1>2. responses' = Tail(responses) /\ requests' = requests
  BY DEF Receive
<1>3. Occurrences(responses, Acking(q)) =
        Occurrences(responses', Acking(q)) + IF Head(responses) \in Acking(q) THEN 1 ELSE 0
  BY <1>1, <1>2, CountTail
<1>4. /\ requests' \in Seq(RequestType) /\ responses' \in Seq(ResponseType)
  BY DEF TypeOK, RequestType, ResponseType
<1>5. Occurrences(requests', Asking(q)) \in Nat /\ Occurrences(responses', Acking(q)) \in Nat
  BY <1>4, CountFacts
<1>6. Occurrences(requests, Asking(q)) = Occurrences(requests', Asking(q))
  BY <1>2
<1> QED
  BY <1>3, <1>5, <1>6, OwedFacts, OwedAfter

\* Which messages acknowledge something.
LEMMA AckKinds ==
  ASSUME NEW m \in ResponseType, NEW q \in Queries
  PROVE  m \in Acking(q) <=> m.target = q /\ m.kind \in {"added", "removed", "refused"}
BY DEF Acking

\* A message from the server is counted off, whatever it is.
LEMMA ReceiveCounts ==
  ASSUME Inv, TypeOK', CountsAreRight, RefusalsAreKnown, ReceiveAny, forbidden' = forbidden
  PROVE  CountsAreRight'
<1> SUFFICES ASSUME NEW q \in Queries \ forbidden
             PROVE  outstanding'[q] = Owed(q)'
  BY DEF CountsAreRight
<1>1. TypeOK /\ outstanding \in [Queries -> Int] /\ outstanding[q] = Owed(q)
  BY TypeParts DEF Inv, CountsAreRight, TypesOfAggregator
<1>2. ASSUME NEW kind, Receive(kind)
      PROVE  /\ Head(responses) \in ResponseType
             /\ Head(responses).kind = kind
             /\ Owed(q) = Owed(q)' + IF Received = q /\ kind \in {"added", "removed", "refused"}
                                     THEN 1 ELSE 0
             /\ Owed(q)' \in Nat
  <2>1. Head(responses) \in ResponseType
    BY <1>1, <1>2, ReceivedType
  <2>2. Head(responses).kind = kind
    BY <1>2 DEF Receive
  <2>3. Head(responses) \in Acking(q) <=> Received = q /\ kind \in {"added", "removed", "refused"}
    BY <2>1, <2>2, AckKinds DEF Received
  <2>4. Owed(q) = Owed(q)' + IF Head(responses) \in Acking(q) THEN 1 ELSE 0
    BY <1>1, <1>2, PopOwed
  <2>5. Owed(q)' \in Nat
    <3>1. requests' \in Seq(RequestType) /\ responses' \in Seq(ResponseType)
      BY DEF TypeOK, RequestType, ResponseType
    <3>2. /\ Occurrences(requests', Asking(q)) \in Nat
          /\ Occurrences(responses', Acking(q)) \in Nat
      BY <3>1, CountFacts
    <3> QED
      BY <3>2, OwedAfter
  <2> QED
    BY <2>1, <2>2, <2>3, <2>4, <2>5
<1>3. CASE ReceiveAdded
  <2>1. outstanding'[q] = IF Received = q THEN outstanding[q] - 1 ELSE outstanding[q]
    BY <1>1, <1>3 DEF ReceiveAdded
  <2>2. /\ Owed(q)' \in Nat
        /\ Owed(q) = Owed(q)' + IF Received = q THEN 1 ELSE 0
    BY <1>2, <1>3 DEF ReceiveAdded
  <2> QED
    BY <1>1, <2>1, <2>2
<1>4. CASE ReceiveRemoved
  <2>1. outstanding'[q] = IF Received = q THEN outstanding[q] - 1 ELSE outstanding[q]
    BY <1>1, <1>4 DEF ReceiveRemoved
  <2>2. /\ Owed(q)' \in Nat
        /\ Owed(q) = Owed(q)' + IF Received = q THEN 1 ELSE 0
    BY <1>2, <1>4 DEF ReceiveRemoved
  <2> QED
    BY <1>1, <2>1, <2>2
<1>5. CASE ReceiveDocuments \/ ReceiveCurrent \/ ReceiveSnapshot
  <2>1. outstanding' = outstanding
    BY <1>5 DEF ReceiveDocuments, ReceiveCurrent, ReceiveSnapshot
  <2>2. PICK kind \in {"docs", "current", "snapshot"} : Receive(kind)
    BY <1>5 DEF ReceiveDocuments, ReceiveCurrent, ReceiveSnapshot
  <2>3. Owed(q)' \in Nat /\ Owed(q) = Owed(q)'
    BY <1>2, <2>2
  <2> QED
    BY <1>1, <2>1, <2>3
<1>6. CASE ReceiveRefused
  <2>1. Receive("refused")
    BY <1>6 DEF ReceiveRefused
  <2>2. Received \in forbidden
    <3>1. responses # <<>> /\ responses \in Seq(ResponseType) /\ Head(responses).kind = "refused"
      BY <1>1, <2>1, TypeParts DEF TypesOfWire, Receive
    <3>2. 1 \in DOMAIN responses /\ Head(responses) = responses[1]
      BY <3>1, TailFacts
    <3> QED
      BY <3>1, <3>2 DEF RefusalsAreKnown, Received
  <2>3. Received # q
    BY <2>2
  <2>4. outstanding'[q] = outstanding[q]
    BY <1>1, <1>6, <2>3 DEF ReceiveRefused
  <2>5. Owed(q)' \in Nat /\ Owed(q) = Owed(q)'
    BY <1>2, <2>1, <2>3
  <2> QED
    BY <1>1, <2>4, <2>5
<1> QED
  BY <1>3, <1>4, <1>5, <1>6 DEF ReceiveAny

\* The server acknowledges a request, in one way or another.
LEMMA ServerCounts ==
  ASSUME TypeOK, TypeOK', CountsAreRight, ServerHandlesRequest
  PROVE  CountsAreRight'
<1> SUFFICES ASSUME NEW q \in Queries \ forbidden
             PROVE  outstanding'[q] = Owed(q)'
  BY DEF CountsAreRight, ServerHandlesRequest, serverVars
<1> DEFINE p == Head(requests).target
<1>1. /\ outstanding[q] = Owed(q) /\ outstanding' = outstanding
      /\ requests' = Tail(requests) /\ requests # <<>>
  BY DEF CountsAreRight, ServerHandlesRequest, aggVars
<1>2. requests \in Seq(RequestType) /\ responses \in Seq(ResponseType) /\ version \in Versions
  BY TypeParts DEF TypesOfWire, TypesOfServer
<1>3. /\ Head(requests) \in RequestType /\ Tail(requests) \in Seq(RequestType)
      /\ Occurrences(requests, Asking(q)) =
           Occurrences(requests', Asking(q)) + IF Head(requests) \in Asking(q) THEN 1 ELSE 0
      /\ Occurrences(requests', Asking(q)) \in Nat
      /\ Occurrences(responses, Acking(q)) \in Nat
  BY <1>1, <1>2, TailFacts, CountTail, CountFacts
<1>4. Head(requests) \in Asking(q) <=> p = q
  BY <1>3 DEF Asking
<1>5. p \in Queries /\ Head(requests).kind \in {"watch", "unwatch"} /\ 0 \in Versions
  BY <1>3, ReadPathAssumption DEF RequestType, Versions
<1>6. ASSUME NEW k \in {"added", "removed", "refused", "docs", "current", "snapshot"},
             NEW x \in Queries \cup {None}, NEW v \in Versions
      PROVE  /\ Message(k, x, v) \in ResponseType
             /\ Message(k, x, v) \in Acking(q) <=> x = q /\ k \in {"added", "removed", "refused"}
  BY <1>6 DEF Message, ResponseType, Acking
<1>7. Occurrences(responses', Acking(q)) =
        Occurrences(responses, Acking(q)) + IF p = q THEN 1 ELSE 0
  <2>1. ASSUME NEW k \in {"removed", "refused"}, responses' = Append(responses, Message(k, p, 0))
        PROVE  Occurrences(responses', Acking(q)) =
                 Occurrences(responses, Acking(q)) + IF p = q THEN 1 ELSE 0
    <3>1. PICK m \in ResponseType : m = Message(k, p, 0) /\ (m \in Acking(q) <=> p = q)
      BY <1>5, <1>6
    <3> QED
      BY <1>2, <2>1, <3>1, CountAppend
  <2>2. ASSUME responses' = responses \o Answered(p)
        PROVE  Occurrences(responses', Acking(q)) =
                 Occurrences(responses, Acking(q)) + IF p = q THEN 1 ELSE 0
    <3>1. PICK a, b, c, d \in ResponseType :
            /\ Answered(p) = <<a, b, c, d>>
            /\ a \in Acking(q) <=> p = q
            /\ b \notin Acking(q) /\ c \notin Acking(q) /\ d \notin Acking(q)
      <4>1. /\ Message("added", p, 0) \in ResponseType
            /\ Message("added", p, 0) \in Acking(q) <=> p = q
            /\ Message("docs", p, version) \in ResponseType \ Acking(q)
            /\ Message("current", p, 0) \in ResponseType \ Acking(q)
            /\ Message("snapshot", None, 0) \in ResponseType \ Acking(q)
        BY <1>2, <1>5, <1>6
      <4> QED
        BY <4>1 DEF Answered
    <3> DEFINE t == <<a, b, c, d>>
    <3>2. t \in Seq(ResponseType)
      OBVIOUS
    <3>3. {i \in DOMAIN t : t[i] \in Acking(q)} = IF p = q THEN {1} ELSE {}
      <4>1. DOMAIN t = 1 .. 4 /\ t[1] = a /\ t[2] = b /\ t[3] = c /\ t[4] = d
        OBVIOUS
      <4>2. \A i \in 1 .. 4 : i = 1 \/ i = 2 \/ i = 3 \/ i = 4
        OBVIOUS
      <4> HIDE DEF t
      <4>3. \A i \in DOMAIN t : t[i] \in Acking(q) <=> i = 1 /\ p = q
        BY <3>1, <4>1, <4>2
      <4> QED
        BY <4>1, <4>3
    <3>4. Occurrences(t, Acking(q)) = IF p = q THEN 1 ELSE 0
      BY <3>3, FS_Singleton, FS_EmptySet DEF Occurrences
    <3> HIDE DEF t
    <3>5. Occurrences(responses \o t, Acking(q)) =
            Occurrences(responses, Acking(q)) + Occurrences(t, Acking(q))
      BY <1>2, <3>2, CountConcat
    <3>6. responses' = responses \o t
      BY <2>2, <3>1 DEF t
    <3> QED
      BY <3>4, <3>5, <3>6
  <2>3. \/ responses' = Append(responses, Message("removed", p, 0))
        \/ responses' = Append(responses, Message("refused", p, 0))
        \/ responses' = responses \o Answered(p)
    BY <1>5 DEF ServerHandlesRequest
  <2> QED
    BY <2>1, <2>2, <2>3
<1>8. Owed(q) = Occurrences(requests, Asking(q)) + Occurrences(responses, Acking(q))
  BY OwedFacts
<1>9. Owed(q)' = Occurrences(requests', Asking(q)) + Occurrences(responses', Acking(q))
  BY OwedAfter
<1> QED
  BY <1>1, <1>3, <1>4, <1>7, <1>8, <1>9

\* News from the server: documents of what it watches, followed by a snapshot.
LEMMA NewsFacts ==
  ASSUME TypeOK, TypeOK', ServerDataChanges
  PROVE  \/ responses' = responses
         \/ \E t \in Seq(ResponseType) :
              /\ responses' = responses \o t
              /\ \A i \in DOMAIN t :
                   \/ t[i].kind = "snapshot" /\ t[i].target = None
                   \/ t[i].kind = "docs" /\ t[i].target \in watched /\ t[i].version = version'
<1>1. /\ responses \in Seq(ResponseType) /\ watched \subseteq Queries
      /\ version' \in Versions /\ 0 \in Versions
  <2>1. responses \in Seq(ResponseType) /\ watched \subseteq Queries
    BY TypeParts DEF TypesOfWire
  <2>2. version' \in Versions
    BY DEF TypeOK
  <2>3. 0 \in Versions
    BY ReadPathAssumption DEF Versions
  <2> QED
    BY <2>1, <2>2, <2>3
<1>2. ASSUME NEW news \in SetToSeqs({Message("docs", q, version') : q \in watched}),
             responses' = responses \o news \o <<Message("snapshot", None, 0)>>
      PROVE  \E t \in Seq(ResponseType) :
               /\ responses' = responses \o t
               /\ \A i \in DOMAIN t :
                    \/ t[i].kind = "snapshot" /\ t[i].target = None
                    \/ t[i].kind = "docs" /\ t[i].target \in watched /\ t[i].version = version'
  <2> DEFINE f == [q \in watched |-> Message("docs", q, version')]
  <2>1. f \in [watched -> ResponseType]
    BY <1>1 DEF Message, ResponseType
  <2>2. IsFiniteSet(watched)
    BY <1>1, ReadPathAssumption, FS_Subset
  <2>3. {Message("docs", q, version') : q \in watched} = {f[q] : q \in watched}
    OBVIOUS
  <2>4. news \in SetToSeqs({f[q] : q \in watched})
    BY <1>2, <2>3
  <2>5. \A q \in watched : f[q].kind = "docs" /\ f[q].target = q /\ f[q].version = version'
    BY DEF Message
  <2> HIDE DEF f
  <2>6. news \in Seq(ResponseType) /\ \A i \in DOMAIN news : \E q \in watched : news[i] = f[q]
    BY <2>1, <2>2, <2>4, OrderOfImage
  <2>7. PICK e \in ResponseType : e = Message("snapshot", None, 0) /\ e.kind = "snapshot" /\ e.target = None
    <3>1. Message("snapshot", None, 0) \in ResponseType
      BY <1>1 DEF Message, ResponseType
    <3> QED
      BY <3>1 DEF Message
  <2> DEFINE t == Append(news, e)
  <2>8. /\ t \in Seq(ResponseType)
        /\ DOMAIN t = 1 .. Len(news) + 1 /\ DOMAIN news = 1 .. Len(news) /\ Len(news) \in Nat
        /\ \A i \in DOMAIN news : t[i] = news[i]
        /\ t[Len(news) + 1] = e
    BY <2>6, AppendFacts
  <2>9. responses' = responses \o t
    <3>1. <<e>> \in Seq(ResponseType) /\ Append(news, e) = news \o <<e>>
      BY <2>6
    <3>2. (responses \o news) \o <<e>> = responses \o (news \o <<e>>)
      BY <1>1, <2>6, <3>1, ConcatAssociative
    <3> QED
      BY <1>2, <2>7, <3>1, <3>2
  <2> HIDE DEF t
  <2>10. \A i \in DOMAIN t :
           \/ t[i].kind = "snapshot" /\ t[i].target = None
           \/ t[i].kind = "docs" /\ t[i].target \in watched /\ t[i].version = version'
    <3> SUFFICES ASSUME NEW i \in DOMAIN t
                 PROVE  \/ t[i].kind = "snapshot" /\ t[i].target = None
                        \/ t[i].kind = "docs" /\ t[i].target \in watched /\ t[i].version = version'
      OBVIOUS
    <3>1. CASE i = Len(news) + 1
      BY <2>7, <2>8, <3>1
    <3>2. CASE i \in DOMAIN news
      <4>1. PICK q \in watched : news[i] = f[q]
        BY <2>6, <3>2
      <4> QED
        BY <2>5, <2>8, <3>2, <4>1
    <3> QED
      BY <2>8, <3>1, <3>2
  <2> QED
    BY <2>8, <2>9, <2>10
<1> QED
  BY <1>2 DEF ServerDataChanges

\* An opened stream asks for each target once.
LEMMA OpeningFacts ==
  ASSUME TypeOK, WatchStreamOpens
  PROVE  /\ requests' \in Seq(RequestType)
         /\ \A i \in DOMAIN requests' : requests'[i].target \in targets
         /\ \A i, j \in DOMAIN requests' : requests'[i].target = requests'[j].target => i = j
         /\ \A q \in targets : \E i \in DOMAIN requests' : requests'[i].target = q
<1> DEFINE f == [q \in targets |-> Message("watch", q, 0)]
<1>1. targets \subseteq Queries
  BY TypeParts DEF TypesOfViews
<1>2. f \in [targets -> RequestType] /\ IsFiniteSet(targets)
  BY <1>1, ReadPathAssumption, FS_Subset DEF Message, RequestType
<1>3. \A q \in targets : f[q].target = q
  BY DEF Message
<1>4. requests' \in SetToSeqs({f[q] : q \in targets})
  <2>1. {Message("watch", q, 0) : q \in targets} = {f[q] : q \in targets}
    OBVIOUS
  <2> QED
    BY <2>1 DEF WatchStreamOpens
<1> HIDE DEF f
<1>5. /\ requests' \in Seq(RequestType)
      /\ \A i \in DOMAIN requests' : \E q \in targets : requests'[i] = f[q]
      /\ \A i, j \in DOMAIN requests' : requests'[i] = requests'[j] => i = j
      /\ \A q \in targets : \E i \in DOMAIN requests' : requests'[i] = f[q]
  <2>1. f \in [targets -> RequestType]
    BY <1>2
  <2>2. IsFiniteSet(targets)
    BY <1>2
  <2> QED
    BY <1>4, <2>1, <2>2, OrderOfImage
<1>6. \A i \in DOMAIN requests' : requests'[i].target \in targets /\ requests'[i] = f[requests'[i].target]
  BY <1>3, <1>5
<1>7. \A i, j \in DOMAIN requests' : requests'[i].target = requests'[j].target => i = j
  BY <1>5, <1>6
<1> QED
  BY <1>3, <1>5, <1>6, <1>7

\* They are counted.
LEMMA OpenCounts ==
  ASSUME Inv, TypeOK', CountsAreRight, WatchStreamOpens
  PROVE  CountsAreRight'
<1> SUFFICES ASSUME NEW q \in Queries \ forbidden
             PROVE  outstanding'[q] = Owed(q)'
  BY DEF CountsAreRight, WatchStreamOpens, serverVars
<1>1. TypeOK /\ requests = <<>> /\ responses = <<>> /\ responses' = responses
  BY DEF Inv, WireIsOpen, WatchStreamOpens
<1>2. outstanding[q] = 0
  <2>1. Owed(q) = 0
    BY <1>1, OwedFacts
  <2> QED
    BY <2>1 DEF CountsAreRight
<1>3. outstanding'[q] = IF q \in targets THEN 1 ELSE 0
  BY <1>2 DEF WatchStreamOpens
<1> DEFINE P == {i \in DOMAIN requests' : requests'[i].target = q}
<1>4. Cardinality(P) = IF q \in targets THEN 1 ELSE 0
  <2>1. CASE q \in targets
    <3>1. PICK k \in DOMAIN requests' : requests'[k].target = q
      BY <1>1, <2>1, OpeningFacts
    <3>2. P = {k}
      BY <1>1, <3>1, OpeningFacts
    <3> QED
      BY <2>1, <3>2, FS_Singleton
  <2>2. CASE q \notin targets
    <3>1. P = {}
      BY <1>1, <2>2, OpeningFacts
    <3> QED
      BY <2>2, <3>1, FS_EmptySet
  <2> QED
    BY <2>1, <2>2
<1>5. Cardinality({i \in DOMAIN responses' :
         responses'[i].target = q /\ responses'[i].kind \in {"added", "removed", "refused"}}) = 0
  <2>1. {i \in DOMAIN responses' :
           responses'[i].target = q /\ responses'[i].kind \in {"added", "removed", "refused"}} = {}
    BY <1>1
  <2> QED
    BY <2>1, FS_EmptySet
<1>6. Owed(q)' = Cardinality(P) + 0
  BY <1>5 DEF Owed
<1> QED
  BY <1>3, <1>4, <1>6

\* Every step counts right.
LEMMA CountsStep ==
  ASSUME Inv, TypeOK', CountsAreRight, RefusalsAreKnown, [Next]_vars, ruleChanges' = 0
  PROVE  CountsAreRight'
<1>1. TypeOK /\ forbidden' = forbidden
  BY ConnectionSteps DEF Inv
<1>2. CASE Elsewhere
  BY <1>1, <1>2 DEF Elsewhere, CountsAreRight, Owed
<1>3. CASE Disconnecting
  <2> SUFFICES ASSUME NEW q \in Queries
               PROVE  outstanding'[q] = Owed(q)'
    BY DEF CountsAreRight
  <2>1. outstanding'[q] = 0 /\ requests' = <<>> /\ responses' = <<>>
    BY <1>3 DEF Disconnecting, Disconnected
  <2>2. Occurrences(requests', Asking(q)) = 0 /\ Occurrences(responses', Acking(q)) = 0
    <3>1. /\ {i \in DOMAIN requests' : requests'[i] \in Asking(q)} = {}
          /\ {i \in DOMAIN responses' : responses'[i] \in Acking(q)} = {}
      BY <2>1
    <3> QED
      BY <3>1, FS_EmptySet DEF Occurrences
  <2> QED
    BY <2>1, <2>2, OwedAfter
<1>4. ASSUME NEW p \in Queries, Requesting(p)
      PROVE  CountsAreRight'
  <2> SUFFICES ASSUME NEW q \in Queries \ forbidden
               PROVE  outstanding'[q] = Owed(q)'
    BY <1>1 DEF CountsAreRight
  <2>1. PICK k \in {"watch", "unwatch"} : Send(k, p)
    BY <1>4 DEF Requesting
  <2>2. PICK m \in RequestType : m = Message(k, p, 0) /\ (m \in Asking(q) <=> p = q)
    <3>1. Message(k, p, 0) \in RequestType /\ (Message(k, p, 0) \in Asking(q) <=> p = q)
      BY DEF Message, RequestType, Asking
    <3> QED
      BY <3>1
  <2>3. requests' = Append(requests, m) /\ responses' = responses
    BY <1>4, <2>1, <2>2 DEF Send, Requesting
  <2>4. requests \in Seq(RequestType) /\ outstanding \in [Queries -> Int]
        /\ responses \in Seq(ResponseType)
    BY <1>1, TypeParts DEF TypesOfWire, TypesOfAggregator
  <2>5. Occurrences(requests', Asking(q)) =
          Occurrences(requests, Asking(q)) + IF p = q THEN 1 ELSE 0
    BY <2>2, <2>3, <2>4, CountAppend
  <2>6. outstanding'[q] = outstanding[q] + IF p = q THEN 1 ELSE 0
    BY <2>1, <2>4 DEF Send
  <2>7. outstanding[q] = Owed(q)
    BY DEF CountsAreRight
  <2>8. Occurrences(requests, Asking(q)) \in Nat /\ Occurrences(responses, Acking(q)) \in Nat
    BY <2>4, CountFacts
  <2>9. Owed(q) = Occurrences(requests, Asking(q)) + Occurrences(responses, Acking(q))
    BY <1>1, OwedFacts
  <2>10. Owed(q)' = Occurrences(requests', Asking(q)) + Occurrences(responses', Acking(q))
    BY OwedAfter
  <2> QED
    BY <2>3, <2>5, <2>6, <2>7, <2>8, <2>9, <2>10
<1>5. CASE WatchStreamOpens
  BY <1>5, OpenCounts
<1>6. CASE ReceiveAny
  BY <1>1, <1>6, ReceiveCounts
<1>7. CASE ServerHandlesRequest
  BY <1>1, <1>7, ServerCounts
<1>8. CASE ServerDataChanges
  <2> SUFFICES ASSUME NEW q \in Queries \ forbidden
               PROVE  outstanding'[q] = Owed(q)'
    BY <1>1 DEF CountsAreRight
  <2>1. outstanding'[q] = outstanding[q] /\ outstanding[q] = Owed(q) /\ requests' = requests
    BY <1>8 DEF ServerDataChanges, aggVars, CountsAreRight
  <2>2. Occurrences(responses', Acking(q)) = Occurrences(responses, Acking(q))
    <3>1. CASE responses' = responses
      BY <3>1
    <3>2. ASSUME NEW t \in Seq(ResponseType), responses' = responses \o t,
                 \A i \in DOMAIN t : t[i].kind \in {"snapshot", "docs"}
          PROVE  Occurrences(responses', Acking(q)) = Occurrences(responses, Acking(q))
      <4>1. \A i \in DOMAIN t : t[i] \notin Acking(q)
        BY <3>2 DEF Acking
      <4>2. responses \in Seq(ResponseType)
        BY <1>1, TypeParts DEF TypesOfWire
      <4>3. Occurrences(t, Acking(q)) = 0 /\ Occurrences(responses, Acking(q)) \in Nat
        BY <4>1, <4>2, CountFacts
      <4> QED
        BY <3>2, <4>2, <4>3, CountConcat
    <3> QED
      BY <1>1, <1>8, <3>1, <3>2, NewsFacts
  <2>3. Owed(q) = Occurrences(requests, Asking(q)) + Occurrences(responses, Acking(q))
    BY <1>1, OwedFacts
  <2>4. Owed(q)' = Occurrences(requests', Asking(q)) + Occurrences(responses', Acking(q))
    BY OwedAfter
  <2> QED
    BY <2>1, <2>2, <2>3, <2>4
<1> QED
  BY <1>2, <1>3, <1>4, <1>5, <1>6, <1>7, <1>8, ConnectionSteps

\* What has been refused from the start is never heard of but by refusals.
LEMMA RefusalsStep ==
  ASSUME Inv, TypeOK', RefusalsAreKnown, [Next]_vars, ruleChanges' = 0
  PROVE  RefusalsAreKnown'
<1>1. TypeOK /\ forbidden' = forbidden
  BY ConnectionSteps DEF Inv
<1>2. responses \in Seq(ResponseType) /\ requests \in Seq(RequestType)
      /\ forbidden \subseteq Queries /\ version \in Versions
  BY <1>1, TypeParts DEF TypesOfWire, TypesOfServer
<1> DEFINE Known(m) == /\ m.kind = "refused" => m.target \in forbidden
                       /\ m.target \in forbidden => m.kind \in {"removed", "refused"}
<1>3. \A i \in DOMAIN responses : Known(responses[i])
  BY DEF RefusalsAreKnown
<1>4. ASSUME NEW t \in Seq(ResponseType), responses' = responses \o t,
             \A i \in DOMAIN t : Known(t[i])
      PROVE  \A i \in DOMAIN responses' : Known(responses'[i])
  <2> HIDE DEF Known
  <2> SUFFICES ASSUME NEW i \in DOMAIN responses'
               PROVE  Known(responses'[i])
    OBVIOUS
  <2>1. /\ Len(responses) \in Nat /\ Len(t) \in Nat
        /\ DOMAIN responses = 1 .. Len(responses) /\ DOMAIN t = 1 .. Len(t)
        /\ DOMAIN responses' = 1 .. Len(responses) + Len(t)
        /\ \A j \in DOMAIN responses : responses'[j] = responses[j]
        /\ \A j \in DOMAIN t : responses'[Len(responses) + j] = t[j]
    BY <1>2, <1>4, ConcatFacts
  <2>2. CASE i \in DOMAIN responses
    BY <1>3, <2>1, <2>2
  <2>3. CASE i \notin DOMAIN responses
    <3>1. i - Len(responses) \in DOMAIN t /\ Len(responses) + (i - Len(responses)) = i
      BY <2>1, <2>3
    <3>2. responses'[i] = t[i - Len(responses)]
      BY <2>1, <3>1
    <3> QED
      BY <1>4, <3>1, <3>2
  <2> QED
    BY <2>2, <2>3
<1>5. ASSUME \A i \in DOMAIN responses' : Known(responses'[i]),
             forbidden \cap (watched' \cup changed' \cup current' \cup synced') = {}
      PROVE  RefusalsAreKnown'
  BY <1>1, <1>5 DEF RefusalsAreKnown
<1>6. CASE Elsewhere \/ \E q \in Queries : Requesting(q)
  <2>1. UNCHANGED <<responses, watched, changed, current>> /\ synced' \subseteq synced
    BY <1>6 DEF Elsewhere, Requesting
  <2> QED
    BY <1>3, <1>5, <2>1 DEF RefusalsAreKnown
<1>7. CASE Disconnecting
  BY <1>5, <1>7 DEF Disconnecting, Disconnected, RefusalsAreKnown
<1>8. CASE WatchStreamOpens
  BY <1>3, <1>5, <1>8 DEF WatchStreamOpens, RefusalsAreKnown
<1>9. CASE ReceiveAny
  <2>1. /\ responses # <<>> /\ responses' = Tail(responses) /\ watched' = watched
        /\ Received = Head(responses).target
    BY <1>9 DEF ReceiveAny, ReceiveAdded, ReceiveRemoved, ReceiveDocuments, ReceiveCurrent,
                ReceiveSnapshot, ReceiveRefused, Receive, Received
  <2>2. /\ 1 \in DOMAIN responses /\ Head(responses) = responses[1]
        /\ \A i \in DOMAIN responses' : responses'[i] = responses[i + 1] /\ i + 1 \in DOMAIN responses
    BY <1>2, <2>1, TailFacts
  <2>3. \A i \in DOMAIN responses' : Known(responses'[i])
    BY <1>3, <2>2
  <2>4. Head(responses).kind \in {"docs", "current"} => Received \notin forbidden
    BY <1>3, <2>1, <2>2
  <2>5. CASE ReceiveAdded \/ ReceiveRemoved \/ ReceiveRefused
    <3>1. changed' \subseteq changed /\ current' \subseteq current /\ synced' \subseteq synced
      BY <2>5 DEF ReceiveAdded, ReceiveRemoved, ReceiveRefused
    <3> QED
      BY <1>5, <2>1, <2>3, <3>1 DEF RefusalsAreKnown
  <2>6. CASE ReceiveDocuments
    <3>1. changed' \subseteq changed \cup {Received} /\ current' = current /\ synced' = synced
          /\ Head(responses).kind = "docs"
      BY <2>6 DEF ReceiveDocuments, Receive
    <3> QED
      BY <1>5, <2>1, <2>3, <2>4, <3>1 DEF RefusalsAreKnown
  <2>7. CASE ReceiveCurrent
    <3>1. changed' \subseteq changed \cup {Received} /\ current' \subseteq current \cup {Received}
          /\ synced' = synced /\ Head(responses).kind = "current"
      BY <2>7 DEF ReceiveCurrent, Receive
    <3> QED
      BY <1>5, <2>1, <2>3, <2>4, <3>1 DEF RefusalsAreKnown
  <2>8. CASE ReceiveSnapshot
    <3>1. changed' \subseteq changed /\ current' = current /\ synced' \subseteq synced \cup current
      BY <2>8 DEF ReceiveSnapshot
    <3> QED
      BY <1>5, <2>1, <2>3, <3>1 DEF RefusalsAreKnown
  <2> QED
    BY <1>9, <2>5, <2>6, <2>7, <2>8 DEF ReceiveAny
<1>10. CASE ServerHandlesRequest
  <2> DEFINE p == Head(requests).target
  <2>1. UNCHANGED <<changed, current, synced>>
    BY <1>10 DEF ServerHandlesRequest, aggVars
  <2>2. Head(requests) \in RequestType
    BY <1>2, <1>10, TailFacts DEF ServerHandlesRequest
  <2>3. p \in Queries /\ Head(requests).kind \in {"watch", "unwatch"} /\ 0 \in Versions
    BY <2>2, ReadPathAssumption DEF RequestType, Versions
  <2>4. \/ watched' \subseteq watched /\ responses' = Append(responses, Message("removed", p, 0))
        \/ /\ watched' = watched /\ p \in forbidden
           /\ responses' = Append(responses, Message("refused", p, 0))
        \/ /\ watched' = watched \cup {p} /\ p \notin forbidden
           /\ responses' = responses \o Answered(p)
    BY <1>10, <2>3 DEF ServerHandlesRequest
  <2>5. forbidden \cap watched' = {}
    BY <2>4 DEF RefusalsAreKnown
  <2>6. ASSUME NEW m \in ResponseType, Known(m), responses' = Append(responses, m)
        PROVE  \A i \in DOMAIN responses' : Known(responses'[i])
    BY <1>2, <1>3, <2>6, AppendFacts
  <2>7. \A k \in {"removed", "refused", "added", "docs", "current", "snapshot"}, v \in Versions,
           x \in Queries \cup {None} :
          /\ Message(k, x, v) \in ResponseType
          /\ Message(k, x, v).kind = k /\ Message(k, x, v).target = x
    BY DEF Message, ResponseType
  <2>8. CASE \E k \in {"removed", "refused"} :
                responses' = Append(responses, Message(k, p, 0)) /\ (k = "refused" => p \in forbidden)
    <3>1. PICK k \in {"removed", "refused"} :
              responses' = Append(responses, Message(k, p, 0)) /\ (k = "refused" => p \in forbidden)
      BY <2>8
    <3>2. Message(k, p, 0) \in ResponseType /\ Known(Message(k, p, 0))
      BY <2>3, <2>7, <3>1
    <3>3. \A i \in DOMAIN responses' : Known(responses'[i])
      BY <2>6, <3>1, <3>2
    <3> QED
      BY <1>5, <2>1, <2>5, <3>3 DEF RefusalsAreKnown
  <2>9. CASE p \notin forbidden /\ responses' = responses \o Answered(p)
    <3>1. PICK a, b, c, d \in ResponseType :
            /\ Answered(p) = <<a, b, c, d>>
            /\ Known(a) /\ Known(b) /\ Known(c) /\ Known(d)
      <4>1. /\ Message("added", p, 0) \in ResponseType /\ Known(Message("added", p, 0))
            /\ Message("docs", p, version) \in ResponseType /\ Known(Message("docs", p, version))
            /\ Message("current", p, 0) \in ResponseType /\ Known(Message("current", p, 0))
            /\ Message("snapshot", None, 0) \in ResponseType /\ Known(Message("snapshot", None, 0))
        BY <1>2, <2>3, <2>7, <2>9, ReadPathAssumption
      <4> QED
        BY <4>1 DEF Answered
    <3> HIDE DEF Known
    <3>2. \A i \in DOMAIN <<a, b, c, d>> : Known(<<a, b, c, d>>[i])
      <4>1. \A i \in 1 .. 4 : i = 1 \/ i = 2 \/ i = 3 \/ i = 4
        OBVIOUS
      <4> QED
        BY <3>1, <4>1
    <3>3. <<a, b, c, d>> \in Seq(ResponseType)
      OBVIOUS
    <3>4. \A i \in DOMAIN responses' : Known(responses'[i])
      BY <1>4, <2>9, <3>1, <3>2, <3>3
    <3> QED
      BY <1>5, <2>1, <2>5, <3>4 DEF RefusalsAreKnown
  <2> QED
    BY <2>4, <2>8, <2>9
<1>11. CASE ServerDataChanges
  <2>1. UNCHANGED <<watched, changed, current, synced>>
    BY <1>11 DEF ServerDataChanges, aggVars
  <2>2. \A i \in DOMAIN responses' : Known(responses'[i])
    <3>1. CASE responses' = responses
      BY <1>3, <3>1
    <3>2. ASSUME NEW t \in Seq(ResponseType), responses' = responses \o t,
                 \A i \in DOMAIN t :
                   \/ t[i].kind = "snapshot" /\ t[i].target = None
                   \/ t[i].kind = "docs" /\ t[i].target \in watched
          PROVE  \A i \in DOMAIN responses' : Known(responses'[i])
      <4>1. \A i \in DOMAIN t : Known(t[i])
        BY <1>2, <3>2, ReadPathAssumption DEF RefusalsAreKnown
      <4> QED
        BY <1>4, <3>2, <4>1
    <3> QED
      BY <1>1, <1>11, <3>1, <3>2, NewsFacts
  <2> QED
    BY <1>5, <2>1, <2>2 DEF RefusalsAreKnown
<1> QED
  BY <1>6, <1>7, <1>8, <1>9, <1>10, <1>11, ConnectionSteps

-----------------------------------------------------------------------------
\* How old the answers can be.

\* No acknowledgement about q is due behind message i.
Settled(i, q) ==
  /\ \A j \in DOMAIN requests : requests[j].target # q
  /\ \A j \in DOMAIN responses : j > i => responses[j] \notin Acking(q)

DocsAt(i, q) == responses[i].kind = "docs" /\ responses[i].target = q

\* The client has data about q that is not older than version a.
Seen(q, a) == docs[q] >= a \/ cache[q] >= a

\* Whatever the client will take for data about q is not older than version a, and it
\* is there before it counts as current.
DocumentsFit(q, a) ==
  \A i \in DOMAIN responses : DocsAt(i, q) /\ Settled(i, q) => responses[i].version >= a
CurrentFits(q, a) ==
  \A i \in DOMAIN responses :
    responses[i].kind = "current" /\ responses[i].target = q /\ Settled(i, q) =>
      Seen(q, a) \/ \E j \in DOMAIN responses : j < i /\ DocsAt(j, q) /\ Settled(j, q)
ChangesFit(q, a) == q \in changed /\ outstanding[q] = 0 => Seen(q, a)
SyncedFits(q, a) == q \in synced => cache[q] >= a

FreshAt(q, a) == DocumentsFit(q, a) /\ CurrentFits(q, a) /\ ChangesFit(q, a) /\ SyncedFits(q, a)

\* The server puts messages on the connection: documents that are young enough, and
\* nothing that is current without them.
LEMMA ExtendFresh ==
  ASSUME TypeOK, NEW q \in Queries, NEW a \in Versions, FreshAt(q, a),
         NEW t \in Seq(ResponseType), responses' = responses \o t,
         UNCHANGED <<outstanding, changed, docs, cache, synced>>,
         \/ requests' = requests
         \/ /\ requests # <<>> /\ requests' = Tail(requests)
            /\ Head(requests).target = q => \E k \in DOMAIN t : t[k] \in Acking(q),
         \A k \in DOMAIN t : t[k].kind = "docs" /\ t[k].target = q => t[k].version >= a,
         \A k \in DOMAIN t : t[k].kind = "current" /\ t[k].target = q =>
           \E j \in DOMAIN t : /\ j < k /\ t[j].kind = "docs" /\ t[j].target = q
                               /\ \A l \in DOMAIN t : l > j => t[l] \notin Acking(q)
  PROVE  FreshAt(q, a)'
<1>1. responses \in Seq(ResponseType) /\ requests \in Seq(RequestType)
  BY TypeParts DEF TypesOfWire
<1> PICK n \in Nat : n = Len(responses)
  BY <1>1
<1>2. /\ n \in Nat /\ Len(t) \in Nat
      /\ DOMAIN responses = 1 .. n /\ DOMAIN t = 1 .. Len(t)
      /\ DOMAIN responses' = 1 .. n + Len(t)
      /\ \A j \in DOMAIN responses : responses'[j] = responses[j] /\ j \in DOMAIN responses'
      /\ \A j \in DOMAIN t : responses'[n + j] = t[j] /\ n + j \in DOMAIN responses'
  BY <1>1, ConcatFacts
<1>3. \A i \in DOMAIN responses' : i \notin DOMAIN responses =>
         i > n /\ i - n \in DOMAIN t /\ n + (i - n) = i /\ responses'[i] = t[i - n]
  <2> SUFFICES ASSUME NEW i \in DOMAIN responses', i \notin DOMAIN responses
               PROVE  i > n /\ i - n \in DOMAIN t /\ n + (i - n) = i /\ responses'[i] = t[i - n]
    OBVIOUS
  <2>1. i > n /\ i - n \in DOMAIN t /\ n + (i - n) = i
    BY <1>2
  <2>2. responses'[n + (i - n)] = t[i - n]
    BY <1>2, <2>1
  <2> QED
    BY <2>1, <2>2
<1>4. ASSUME NEW i \in DOMAIN responses, Settled(i, q)'
      PROVE  Settled(i, q)
  <2>1. \A j \in DOMAIN responses : j > i => responses[j] \notin Acking(q)
    BY <1>2, <1>4 DEF Settled
  <2>2. CASE requests' = requests
    BY <1>4, <2>1, <2>2 DEF Settled
  <2>3. CASE /\ requests # <<>> /\ requests' = Tail(requests)
             /\ Head(requests).target = q => \E k \in DOMAIN t : t[k] \in Acking(q)
    <3>1. \A k \in DOMAIN t : t[k] \notin Acking(q)
      <4> SUFFICES ASSUME NEW k \in DOMAIN t
                   PROVE  t[k] \notin Acking(q)
        OBVIOUS
      <4>1. n + k \in DOMAIN responses' /\ n + k > i /\ responses'[n + k] = t[k]
        BY <1>2
      <4> QED
        BY <1>4, <4>1 DEF Settled
    <3>2. Head(requests).target # q
      BY <2>3, <3>1
    <3>3. /\ DOMAIN requests = 1 .. Len(requests) /\ Len(requests) \in Nat
          /\ Head(requests) = requests[1]
          /\ DOMAIN requests' = 1 .. Len(requests) - 1
          /\ \A j \in DOMAIN requests' : requests'[j] = requests[j + 1]
      BY <1>1, <2>3, TailFacts
    <3>4. ASSUME NEW j \in DOMAIN requests
          PROVE  requests[j].target # q
      <4>1. CASE j = 1
        BY <3>2, <3>3, <4>1
      <4>2. CASE j # 1
        <5>1. j - 1 \in DOMAIN requests' /\ (j - 1) + 1 = j
          BY <3>3, <4>2
        <5>2. requests'[j - 1] = requests[j]
          BY <3>3, <5>1
        <5> QED
          BY <1>4, <5>1, <5>2 DEF Settled
      <4> QED
        BY <4>1, <4>2
    <3> QED
      BY <2>1, <3>4 DEF Settled
  <2> QED
    BY <2>2, <2>3
<1>5. DocumentsFit(q, a)'
  <2> SUFFICES ASSUME NEW i \in DOMAIN responses', responses'[i].kind = "docs",
                      responses'[i].target = q, Settled(i, q)'
               PROVE  responses'[i].version >= a
    BY DEF DocumentsFit, DocsAt
  <2>1. CASE i \in DOMAIN responses
    BY <1>2, <1>4, <2>1 DEF FreshAt, DocumentsFit, DocsAt
  <2>2. CASE i \notin DOMAIN responses
    BY <1>3, <2>2
  <2> QED
    BY <2>1, <2>2
<1>6. CurrentFits(q, a)'
  <2> SUFFICES ASSUME NEW i \in DOMAIN responses', responses'[i].kind = "current",
                      responses'[i].target = q, Settled(i, q)', ~Seen(q, a)'
               PROVE  \E j \in DOMAIN responses' : j < i /\ DocsAt(j, q)' /\ Settled(j, q)'
    BY DEF CurrentFits
  <2>1. CASE i \in DOMAIN responses
    <3>1. ~Seen(q, a)
      BY DEF Seen
    <3>2. Settled(i, q) /\ responses[i] = responses'[i]
      BY <1>2, <1>4, <2>1
    <3>3. PICK j \in DOMAIN responses : j < i /\ DocsAt(j, q) /\ Settled(j, q)
      BY <2>1, <3>1, <3>2 DEF FreshAt, CurrentFits
    <3>4. DocsAt(j, q)'
      BY <1>2, <3>3 DEF DocsAt
    <3>5. ASSUME NEW l \in DOMAIN responses', l > j
          PROVE  responses'[l] \notin Acking(q)
      <4>1. CASE l \in DOMAIN responses
        BY <1>2, <3>3, <3>5, <4>1 DEF Settled
      <4>2. CASE l \notin DOMAIN responses
        <5>1. l > i
          BY <1>2, <1>3, <2>1, <4>2
        <5> QED
          BY <5>1 DEF Settled
      <4> QED
        BY <4>1, <4>2
    <3>6. Settled(j, q)'
      BY <3>5 DEF Settled
    <3> QED
      BY <1>2, <3>3, <3>4, <3>6
  <2>2. CASE i \notin DOMAIN responses
    <3>1. i - n \in DOMAIN t /\ responses'[i] = t[i - n] /\ n \in Nat
      BY <1>2, <1>3, <2>2
    <3>2. PICK j \in DOMAIN t : /\ j < i - n /\ t[j].kind = "docs" /\ t[j].target = q
                                /\ \A l \in DOMAIN t : l > j => t[l] \notin Acking(q)
      BY <3>1
    <3>3. n + j \in DOMAIN responses' /\ n + j < i /\ DocsAt(n + j, q)'
      BY <1>2, <3>2, SMTT(30) DEF DocsAt
    <3>4. ASSUME NEW l \in DOMAIN responses', l > n + j
          PROVE  responses'[l] \notin Acking(q)
      <4>1. l \notin DOMAIN responses
        BY <1>2, <3>4
      <4>2. l - n \in DOMAIN t /\ l - n > j /\ responses'[l] = t[l - n]
        BY <1>2, <1>3, <3>4, <4>1
      <4> QED
        BY <3>2, <4>2
    <3>5. Settled(n + j, q)'
      BY <3>4 DEF Settled
    <3> QED
      BY <3>3, <3>5
  <2> QED
    BY <2>1, <2>2
<1>7. ChangesFit(q, a)' /\ SyncedFits(q, a)'
  BY DEF FreshAt, ChangesFit, SyncedFits, Seen
<1> QED
  BY <1>5, <1>6, <1>7 DEF FreshAt

\* The client takes a message from the connection, and keeps it if it is data to be kept.
LEMMA PopFresh ==
  ASSUME TypeOK, NEW q \in Queries, NEW a \in Versions, FreshAt(q, a), NEW kind, Receive(kind),
         Seen(q, a) => Seen(q, a)',
         kind = "docs" /\ Received = q /\ Settled(1, q) => Seen(q, a)'
  PROVE  DocumentsFit(q, a)' /\ CurrentFits(q, a)'
<1>1. responses \in Seq(ResponseType) /\ responses # <<>> /\ responses' = Tail(responses)
      /\ requests' = requests /\ Head(responses).kind = kind
  BY TypeParts DEF TypesOfWire, Receive
<1>2. /\ DOMAIN responses = 1 .. Len(responses) /\ Len(responses) \in Nat
      /\ Head(responses) = responses[1]
      /\ DOMAIN responses' = 1 .. Len(responses) - 1
      /\ \A i \in DOMAIN responses' : responses'[i] = responses[i + 1] /\ i + 1 \in DOMAIN responses
  BY <1>1, TailFacts
<1>3. \A j \in DOMAIN responses : j # 1 =>
        j - 1 \in DOMAIN responses' /\ (j - 1) + 1 = j /\ responses'[j - 1] = responses[j]
  <2> SUFFICES ASSUME NEW j \in DOMAIN responses, j # 1
               PROVE  j - 1 \in DOMAIN responses' /\ (j - 1) + 1 = j
                      /\ responses'[j - 1] = responses[j]
    OBVIOUS
  <2>1. j - 1 \in DOMAIN responses' /\ (j - 1) + 1 = j
    BY <1>2
  <2> QED
    BY <1>2, <2>1
<1>4. ASSUME NEW i \in DOMAIN responses', Settled(i, q)'
      PROVE  Settled(i + 1, q)
  <2> SUFFICES ASSUME NEW j \in DOMAIN responses, j > i + 1
               PROVE  responses[j] \notin Acking(q)
    BY <1>1, <1>4 DEF Settled
  <2>1. j - 1 \in DOMAIN responses' /\ j - 1 > i /\ responses'[j - 1] = responses[j]
    BY <1>2, <1>3
  <2> QED
    BY <1>4, <2>1 DEF Settled
<1>5. ASSUME NEW j \in DOMAIN responses, j # 1, Settled(j, q)
      PROVE  Settled(j - 1, q)'
  <2> SUFFICES ASSUME NEW i \in DOMAIN responses', i > j - 1
               PROVE  responses'[i] \notin Acking(q)
    BY <1>1, <1>5 DEF Settled
  <2>1. i + 1 \in DOMAIN responses /\ i + 1 > j /\ responses'[i] = responses[i + 1]
    BY <1>2
  <2> QED
    BY <1>5, <2>1 DEF Settled
<1>6. DocumentsFit(q, a)'
  <2> SUFFICES ASSUME NEW i \in DOMAIN responses', DocsAt(i, q)', Settled(i, q)'
               PROVE  responses'[i].version >= a
    BY DEF DocumentsFit
  <2>1. i + 1 \in DOMAIN responses /\ responses'[i] = responses[i + 1] /\ Settled(i + 1, q)
    BY <1>2, <1>4
  <2>2. DocsAt(i + 1, q)
    BY <2>1 DEF DocsAt
  <2> QED
    BY <2>1, <2>2 DEF FreshAt, DocumentsFit
<1>7. CurrentFits(q, a)'
  <2> SUFFICES ASSUME NEW i \in DOMAIN responses', responses'[i].kind = "current",
                      responses'[i].target = q, Settled(i, q)', ~Seen(q, a)'
               PROVE  \E j \in DOMAIN responses' : j < i /\ DocsAt(j, q)' /\ Settled(j, q)'
    BY DEF CurrentFits
  <2>1. i + 1 \in DOMAIN responses /\ responses'[i] = responses[i + 1] /\ Settled(i + 1, q)
    BY <1>2, <1>4
  <2>2. ~Seen(q, a)
    OBVIOUS
  <2>3. PICK j \in DOMAIN responses : j < i + 1 /\ DocsAt(j, q) /\ Settled(j, q)
    BY <2>1, <2>2 DEF FreshAt, CurrentFits
  <2>4. CASE j = 1
    <3>1. Received = q /\ kind = "docs" /\ Settled(1, q)
      BY <1>1, <1>2, <2>3, <2>4 DEF DocsAt, Received
    <3> QED
      BY <3>1
  <2>5. CASE j # 1
    <3>1. j - 1 \in DOMAIN responses' /\ j - 1 < i /\ responses'[j - 1] = responses[j]
      BY <1>2, <1>3, <2>3, <2>5
    <3>2. Settled(j - 1, q)'
      BY <1>5, <2>3, <2>5
    <3>3. DocsAt(j - 1, q)'
      BY <2>3, <3>1 DEF DocsAt
    <3> QED
      BY <3>1, <3>2, <3>3
  <2> QED
    BY <2>4, <2>5
<1> QED
  BY <1>6, <1>7

\* The first message is settled if the client waits for no acknowledgement.
LEMMA FirstIsSettled ==
  ASSUME TypeOK, CountsAreRight, NEW q \in Queries \ forbidden, responses # <<>>,
         Head(responses) \notin Acking(q)
  PROVE  Settled(1, q) <=> outstanding[q] = 0
<1>1. responses \in Seq(ResponseType)
  BY TypeParts DEF TypesOfWire
<1>2. DOMAIN responses = 1 .. Len(responses) /\ Len(responses) \in Nat /\ Head(responses) = responses[1]
  BY <1>1, TailFacts
<1>3. \A j \in DOMAIN responses : j > 1 \/ responses[j] \notin Acking(q)
  BY <1>2
<1>4. \A j \in DOMAIN responses : j \in Nat
  BY <1>2
<1>5. Settled(1, q) <=> /\ \A i \in DOMAIN requests : requests[i].target # q
                        /\ \A i \in DOMAIN responses : responses[i] \notin Acking(q)
  BY <1>3 DEF Settled
<1>6. outstanding[q] = Owed(q)
  BY DEF CountsAreRight
<1> QED
  BY <1>5, <1>6, OwedFacts

\* What is received of a target that goes on being listened to.
LEMMA ReceiveFresh ==
  ASSUME Inv, CountsAreRight, RefusalsAreKnown, ReceiveAny,
         NEW q \in targets \cap targets', NEW a \in Versions, FreshAt(q, a)
  PROVE  FreshAt(q, a)'
<1>1. /\ TypeOK /\ q \in Queries /\ responses \in Seq(ResponseType)
      /\ outstanding \in [Queries -> Int] /\ docs \in [Queries -> Versions]
      /\ cache \in [Queries -> Versions]
  BY TypeParts DEF Inv, TypesOfWire, TypesOfAggregator, TypesOfViews
<1>2. a \in Nat /\ docs[q] \in Nat /\ cache[q] \in Nat
  BY <1>1, ReadPathAssumption DEF Versions
<1>3. ASSUME NEW kind, Receive(kind)
      PROVE  /\ responses # <<>> /\ Head(responses) \in ResponseType /\ Head(responses).kind = kind
             /\ Head(responses) = responses[1] /\ 1 \in DOMAIN responses
             /\ kind \in {"docs", "current"} /\ Received = q =>
                  q \notin forbidden /\ (Settled(1, q) <=> outstanding[q] = 0)
  <2>1. responses # <<>> /\ Head(responses).kind = kind
    BY <1>3 DEF Receive
  <2>2. Head(responses) \in ResponseType /\ Head(responses) = responses[1] /\ 1 \in DOMAIN responses
    BY <1>1, <2>1, TailFacts
  <2>3. ASSUME kind \in {"docs", "current"}, Received = q
        PROVE  q \notin forbidden /\ (Settled(1, q) <=> outstanding[q] = 0)
    <3>1. q \notin forbidden
      BY <2>1, <2>2, <2>3 DEF RefusalsAreKnown, Received
    <3>2. Head(responses) \notin Acking(q)
      BY <2>1, <2>3 DEF Acking
    <3> QED
      BY <1>1, <2>1, <3>1, <3>2, FirstIsSettled
  <2> QED
    BY <2>1, <2>2, <2>3
<1>4. CASE ReceiveAdded \/ ReceiveRemoved
  <2>1. /\ UNCHANGED <<docs, cache, synced>>
        /\ outstanding' = [outstanding EXCEPT ![Received] = @ - 1]
        /\ changed' = IF outstanding'[Received] = 0 THEN changed \ {Received} ELSE changed
    BY <1>4 DEF ReceiveAdded, ReceiveRemoved
  <2>2. PICK kind \in {"added", "removed"} : Receive(kind)
    BY <1>4 DEF ReceiveAdded, ReceiveRemoved
  <2>3. Seen(q, a)' <=> Seen(q, a)
    BY <2>1 DEF Seen
  <2>4. DocumentsFit(q, a)' /\ CurrentFits(q, a)'
    BY <1>1, <2>2, <2>3, PopFresh
  <2>5. ChangesFit(q, a)'
    <3>1. CASE Received = q
      BY <2>1, <3>1 DEF ChangesFit
    <3>2. CASE Received # q
      <4>1. outstanding'[q] = outstanding[q] /\ changed' \subseteq changed
        BY <1>1, <2>1, <3>2
      <4> QED
        BY <2>3, <4>1 DEF FreshAt, ChangesFit
    <3> QED
      BY <3>1, <3>2
  <2>6. SyncedFits(q, a)'
    BY <2>1 DEF FreshAt, SyncedFits
  <2> QED
    BY <2>4, <2>5, <2>6 DEF FreshAt
<1>5. CASE ReceiveDocuments
  <2>1. /\ Receive("docs") /\ UNCHANGED <<cache, synced, outstanding>>
        /\ IF IsActive(Received)
           THEN /\ changed' = changed \cup {Received}
                /\ docs' = [docs EXCEPT ![Received] = Head(responses).version]
           ELSE UNCHANGED <<changed, docs>>
    BY <1>5 DEF ReceiveDocuments
  <2>2. CASE Received = q /\ IsActive(q)
    <3>1. Settled(1, q)
      BY <1>3, <2>1, <2>2 DEF IsActive
    <3>2. DocsAt(1, q)
      BY <1>3, <2>1, <2>2 DEF DocsAt, Received
    <3>3. responses[1].version >= a
      BY <1>3, <2>1, <3>1, <3>2 DEF FreshAt, DocumentsFit
    <3>4. docs'[q] = responses[1].version
      BY <1>1, <1>3, <2>1, <2>2
    <3>5. Seen(q, a)'
      BY <3>3, <3>4 DEF Seen
    <3>6. DocumentsFit(q, a)' /\ CurrentFits(q, a)'
      BY <1>1, <2>1, <3>5, PopFresh
    <3> QED
      BY <2>1, <3>5, <3>6 DEF FreshAt, ChangesFit, SyncedFits
  <2>3. CASE Received # q \/ ~IsActive(q)
    <3>1. docs'[q] = docs[q] /\ (q \in changed' => q \in changed)
      BY <1>1, <2>1, <2>3
    <3>2. Seen(q, a)' <=> Seen(q, a)
      BY <2>1, <3>1 DEF Seen
    <3>3. ~(Received = q /\ Settled(1, q))
      BY <1>3, <2>1, <2>3 DEF IsActive
    <3>4. DocumentsFit(q, a)' /\ CurrentFits(q, a)'
      BY <1>1, <2>1, <3>2, <3>3, PopFresh
    <3> QED
      BY <2>1, <3>1, <3>2, <3>4 DEF FreshAt, ChangesFit, SyncedFits
  <2> QED
    BY <2>2, <2>3
<1>6. CASE ReceiveCurrent
  <2>1. /\ Receive("current") /\ UNCHANGED <<cache, synced, outstanding, docs>>
        /\ IF IsActive(Received)
           THEN changed' = changed \cup {Received}
           ELSE UNCHANGED changed
    BY <1>6 DEF ReceiveCurrent
  <2>2. Seen(q, a)' <=> Seen(q, a)
    BY <2>1 DEF Seen
  <2>3. DocumentsFit(q, a)' /\ CurrentFits(q, a)'
    BY <1>1, <2>1, <2>2, PopFresh
  <2>4. ChangesFit(q, a)'
    <3>1. CASE Received = q /\ IsActive(q)
      <4>1. Settled(1, q) /\ responses[1].kind = "current" /\ responses[1].target = q
        BY <1>3, <2>1, <3>1 DEF IsActive, Received
      <4>2. Seen(q, a) \/ \E j \in DOMAIN responses : j < 1
        BY <1>3, <2>1, <4>1 DEF FreshAt, CurrentFits
      <4>3. ~\E j \in DOMAIN responses : j < 1
        BY <1>1
      <4> QED
        BY <2>2, <4>2, <4>3 DEF ChangesFit
    <3>2. CASE Received # q \/ ~IsActive(q)
      BY <2>1, <2>2, <3>2 DEF FreshAt, ChangesFit
    <3> QED
      BY <3>1, <3>2
  <2> QED
    BY <2>1, <2>3, <2>4 DEF FreshAt, SyncedFits
<1>7. CASE ReceiveSnapshot
  <2> DEFINE event == {p \in changed : IsActive(p)}
  <2>1. /\ Receive("snapshot") /\ outstanding' = outstanding
        /\ cache' = [p \in Queries |-> IF docs[p] > cache[p] THEN docs[p] ELSE cache[p]]
        /\ synced' = (synced \ event) \cup (event \cap current)
        /\ changed' = changed \ event
    BY <1>7 DEF ReceiveSnapshot
  <2>2. cache'[q] = IF docs[q] > cache[q] THEN docs[q] ELSE cache[q]
    BY <1>1, <2>1
  <2>3. Seen(q, a) => cache'[q] >= a
    BY <1>2, <2>2 DEF Seen
  <2>4. cache[q] >= a => cache'[q] >= a
    BY <1>2, <2>2
  <2>5. Seen(q, a) => Seen(q, a)'
    BY <2>3 DEF Seen
  <2>6. DocumentsFit(q, a)' /\ CurrentFits(q, a)'
    BY <1>1, <2>1, <2>5, PopFresh
  <2>7. ChangesFit(q, a)'
    BY <2>1, <2>5 DEF FreshAt, ChangesFit
  <2>8. SyncedFits(q, a)'
    <3>1. q \in event => cache'[q] >= a
      BY <2>3 DEF FreshAt, ChangesFit, IsActive
    <3> QED
      BY <2>1, <2>4, <3>1 DEF FreshAt, SyncedFits
  <2> QED
    BY <2>6, <2>7, <2>8 DEF FreshAt
<1>8. CASE ReceiveRefused
  <2>1. Receive("refused") /\ UNCHANGED <<cache, docs>>
    BY <1>8 DEF ReceiveRefused
  <2>2. /\ synced' \subseteq synced /\ changed' \subseteq changed
        /\ outstanding'[q] = outstanding[q]
    <3>1. CASE Received \in targets
      <4>1. targets' = targets \ {Received}
        BY <1>8, <3>1 DEF ReceiveRefused
      <4>2. Received # q
        BY <4>1
      <4> QED
        BY <1>1, <1>8, <3>1, <4>2 DEF ReceiveRefused
    <3>2. CASE Received \notin targets
      BY <1>8, <3>2 DEF ReceiveRefused
    <3> QED
      BY <3>1, <3>2
  <2>3. Seen(q, a)' <=> Seen(q, a)
    BY <2>1 DEF Seen
  <2>4. DocumentsFit(q, a)' /\ CurrentFits(q, a)'
    BY <1>1, <2>1, <2>3, PopFresh
  <2> QED
    BY <2>1, <2>2, <2>3, <2>4 DEF FreshAt, ChangesFit, SyncedFits
<1> QED
  BY <1>4, <1>5, <1>6, <1>7, <1>8 DEF ReceiveAny

\* What the server answers is as young as the server's data.
LEMMA ServerFresh ==
  ASSUME TypeOK, ServerHandlesRequest, NEW q \in Queries, NEW a \in Versions, version >= a,
         FreshAt(q, a)
  PROVE  FreshAt(q, a)'
<1> DEFINE p == Head(requests).target
<1>1. /\ requests # <<>> /\ requests' = Tail(requests)
      /\ UNCHANGED <<outstanding, changed, docs, cache, synced>>
  BY DEF ServerHandlesRequest, aggVars
<1>2. /\ requests \in Seq(RequestType) /\ responses \in Seq(ResponseType) /\ version \in Versions
      /\ Head(requests) \in RequestType
  BY <1>1, TailFacts, TypeParts DEF TypesOfWire, TypesOfServer
<1>3. p \in Queries /\ Head(requests).kind \in {"watch", "unwatch"} /\ 0 \in Versions
  BY <1>2, ReadPathAssumption DEF RequestType, Versions
<1>4. \A k \in {"removed", "refused", "added", "docs", "current", "snapshot"}, v \in Versions,
         x \in Queries \cup {None} :
        /\ Message(k, x, v) \in ResponseType /\ Message(k, x, v).version = v
        /\ Message(k, x, v).kind = k /\ Message(k, x, v).target = x
  BY DEF Message, ResponseType
<1>5. ASSUME NEW k \in {"removed", "refused"}, responses' = Append(responses, Message(k, p, 0))
      PROVE  FreshAt(q, a)'
  <2>1. PICK m \in ResponseType : m = Message(k, p, 0) /\ m.kind = k /\ m.target = p
    BY <1>3, <1>4
  <2> DEFINE t == <<m>>
  <2>2. t \in Seq(ResponseType) /\ responses' = responses \o t /\ DOMAIN t = {1} /\ t[1] = m
    BY <1>2, <1>5, <2>1
  <2> HIDE DEF t
  <2>3. p = q => t[1] \in Acking(q)
    BY <2>1, <2>2 DEF Acking
  <2>4. \A i \in DOMAIN t : t[i].kind \notin {"docs", "current"}
    BY <2>1, <2>2
  <2> QED
    BY <1>1, <2>2, <2>3, <2>4, ExtendFresh, SMTT(30)
<1>6. ASSUME responses' = responses \o Answered(p)
      PROVE  FreshAt(q, a)'
  <2>1. PICK b, c, d, e \in ResponseType :
          /\ Answered(p) = <<b, c, d, e>>
          /\ b.kind = "added" /\ b.target = p
          /\ c.kind = "docs" /\ c.target = p /\ c.version = version
          /\ d.kind = "current" /\ d.target = p
          /\ e.kind = "snapshot" /\ e.target = None
    <3>1. /\ Message("added", p, 0) \in ResponseType
          /\ Message("docs", p, version) \in ResponseType
          /\ Message("current", p, 0) \in ResponseType
          /\ Message("snapshot", None, 0) \in ResponseType
      BY <1>2, <1>3, <1>4
    <3> QED
      BY <3>1 DEF Answered, Message
  <2> DEFINE t == <<b, c, d, e>>
  <2>2. /\ t \in Seq(ResponseType) /\ DOMAIN t = 1 .. 4
        /\ t[1] = b /\ t[2] = c /\ t[3] = d /\ t[4] = e
    OBVIOUS
  <2>3. responses' = responses \o t
    BY <1>6, <2>1
  <2> HIDE DEF t
  <2>4. \A i \in DOMAIN t : i = 1 \/ i = 2 \/ i = 3 \/ i = 4
    BY <2>2
  <2>5. p = q => t[1] \in Acking(q) /\ 1 \in DOMAIN t
    BY <2>1, <2>2 DEF Acking
  <2>6. \A k \in DOMAIN t : t[k].kind = "docs" /\ t[k].target = q => t[k].version >= a
    BY <2>1, <2>2, <2>4
  <2>7. \A l \in DOMAIN t : l > 2 => t[l] \notin Acking(q)
    BY <2>1, <2>2, <2>4 DEF Acking
  <2>8. ASSUME NEW k \in DOMAIN t, t[k].kind = "current", t[k].target = q
        PROVE  \E j \in DOMAIN t : /\ j < k /\ t[j].kind = "docs" /\ t[j].target = q
                                   /\ \A l \in DOMAIN t : l > j => t[l] \notin Acking(q)
    <3>1. k = 3 /\ p = q
      BY <2>1, <2>2, <2>4, <2>8
    <3>2. 2 \in DOMAIN t /\ 2 < k /\ t[2].kind = "docs" /\ t[2].target = q
      BY <2>1, <2>2, <3>1
    <3> QED
      BY <2>7, <3>2
  <2> QED
    BY <1>1, <2>2, <2>3, <2>5, <2>6, <2>8, ExtendFresh
<1> QED
  BY <1>3, <1>5, <1>6 DEF ServerHandlesRequest

\* What a step does to a target that goes on being listened to.
LEMMA FreshStep ==
  ASSUME Inv, TypeOK', CountsAreRight, RefusalsAreKnown, stream # "Open" => changed = {},
         [Next]_vars, ruleChanges' = 0,
         NEW q \in targets \cap targets', NEW a \in Versions, version >= a, FreshAt(q, a)
  PROVE  FreshAt(q, a)'
<1>1. TypeOK /\ q \in Queries
  BY TypeParts DEF Inv, TypesOfViews
<1>2. CASE Elsewhere
  <2>1. \A i : (Settled(i, q)' <=> Settled(i, q)) /\ (DocsAt(i, q)' <=> DocsAt(i, q))
    BY <1>2 DEF Elsewhere, Settled, DocsAt
  <2>2. Seen(q, a)' <=> Seen(q, a)
    BY <1>2 DEF Elsewhere, Seen
  <2> QED
    BY <1>2, <2>1, <2>2 DEF Elsewhere, FreshAt, DocumentsFit, CurrentFits, ChangesFit, SyncedFits
<1>3. CASE Disconnecting
  BY <1>3 DEF Disconnecting, Disconnected, FreshAt, DocumentsFit, CurrentFits, ChangesFit, SyncedFits
<1>4. ASSUME NEW p \in Queries, Requesting(p)
      PROVE  FreshAt(q, a)'
  <2>1. p # q
    BY <1>4 DEF Requesting
  <2>2. PICK k : requests' = Append(requests, Message(k, p, 0))
                  /\ outstanding' = [outstanding EXCEPT ![p] = @ + 1] /\ k \in {"watch", "unwatch"}
    BY <1>4 DEF Requesting, Send
  <2>3. UNCHANGED <<responses, changed, docs, cache>> /\ synced' \subseteq synced
    BY <1>4 DEF Requesting
  <2>4. outstanding'[q] = outstanding[q]
    BY <1>1, <2>1, <2>2, TypeParts DEF TypesOfAggregator
  <2>5. /\ DOMAIN requests = 1 .. Len(requests) /\ Len(requests) \in Nat
        /\ DOMAIN requests' = 1 .. Len(requests) + 1
        /\ \A j \in DOMAIN requests : requests'[j] = requests[j]
    <3>1. requests \in Seq(RequestType) /\ Message(k, p, 0) \in RequestType
      BY <1>1, <2>2, TypeParts DEF TypesOfWire, Message, RequestType
    <3> QED
      BY <2>2, <3>1, AppendFacts
  <2>6. ASSUME NEW i, Settled(i, q)'
        PROVE  Settled(i, q)
    BY <2>3, <2>5, <2>6 DEF Settled
  <2>7. ASSUME NEW i, Settled(i, q)', NEW j, Settled(j, q)
        PROVE  Settled(j, q)'
    BY <2>3, <2>7 DEF Settled
  <2>8. Seen(q, a)' <=> Seen(q, a)
    BY <2>3 DEF Seen
  <2>9. \A i : DocsAt(i, q)' <=> DocsAt(i, q)
    BY <2>3 DEF DocsAt
  <2>10. DocumentsFit(q, a)'
    BY <2>3, <2>6, <2>9 DEF FreshAt, DocumentsFit
  <2>11. CurrentFits(q, a)'
    BY <2>3, <2>6, <2>7, <2>8, <2>9 DEF FreshAt, CurrentFits
  <2>12. ChangesFit(q, a)' /\ SyncedFits(q, a)'
    BY <2>3, <2>4, <2>8 DEF FreshAt, ChangesFit, SyncedFits
  <2> QED
    BY <2>10, <2>11, <2>12 DEF FreshAt
<1>5. CASE WatchStreamOpens
  <2>1. stream # "Open" /\ UNCHANGED <<responses, changed, docs, cache, synced>>
    BY <1>5 DEF WatchStreamOpens
  <2>2. responses = <<>> /\ changed = {}
    BY <2>1 DEF Inv, WireIsOpen
  <2> QED
    BY <2>1, <2>2 DEF FreshAt, DocumentsFit, CurrentFits, ChangesFit, SyncedFits
<1>6. CASE ReceiveAny
  BY <1>6, ReceiveFresh
<1>7. CASE ServerHandlesRequest
  BY <1>1, <1>7, ServerFresh
<1>8. CASE ServerDataChanges
  <2>1. UNCHANGED <<requests, outstanding, changed, docs, cache, synced>> /\ version' = version + 1
    BY <1>8 DEF ServerDataChanges, aggVars
  <2>2. CASE responses' = responses
    <3>1. \A i : (Settled(i, q)' <=> Settled(i, q)) /\ (DocsAt(i, q)' <=> DocsAt(i, q))
      BY <2>1, <2>2 DEF Settled, DocsAt
    <3>2. Seen(q, a)' <=> Seen(q, a)
      BY <2>1 DEF Seen
    <3> QED
      BY <2>1, <2>2, <3>1, <3>2 DEF FreshAt, DocumentsFit, CurrentFits, ChangesFit, SyncedFits
  <2>3. ASSUME NEW t \in Seq(ResponseType), responses' = responses \o t,
               \A i \in DOMAIN t :
                 \/ t[i].kind = "snapshot" /\ t[i].target = None
                 \/ t[i].kind = "docs" /\ t[i].target \in watched /\ t[i].version = version'
        PROVE  FreshAt(q, a)'
    <3>1. version' >= a
      <4>1. version \in Nat /\ a \in Nat
        BY <1>1, TypeParts, ReadPathAssumption DEF TypesOfServer, Versions
      <4> QED
        BY <2>1, <4>1
    <3>2. \A k \in DOMAIN t : t[k].kind = "docs" /\ t[k].target = q => t[k].version >= a
      BY <2>3, <3>1
    <3>3. \A k \in DOMAIN t : t[k].kind # "current"
      BY <2>3
    <3> QED
      BY <1>1, <2>1, <2>3, <3>2, <3>3, ExtendFresh
  <2> QED
    BY <1>1, <1>8, <2>2, <2>3, NewsFacts
<1> QED
  BY <1>2, <1>3, <1>4, <1>5, <1>6, <1>7, <1>8, ConnectionSteps

-----------------------------------------------------------------------------
\* Answers are fresh.

\* What a stream has changed is gone with it, and a view is in sync with a target.
ViewsFollowTargets == (stream # "Open" => changed = {}) /\ synced \subseteq targets

\* Reads ask once and are added once.
AskedInTime ==
  /\ \A r \in Reads : version >= askedAt[r]
  /\ \A r \in alone : query[r] # None /\ ~Adding(r)

ReadsAreFresh ==
  \A r \in alone \cap listening, q \in Queries, a \in Versions :
    query[r] = q /\ askedAt[r] = a => FreshAt(q, a)

EventsAreFresh ==
  \A i \in DOMAIN mainQueue :
    mainQueue[i].from = "server" /\ mainQueue[i].read \in alone =>
      mainQueue[i].version >= askedAt[mainQueue[i].read]

AnswersAreYoung ==
  \A r \in alone : answer[r] # None /\ answer[r].from = "server" => answer[r].version >= askedAt[r]

\* All of it, while the server refuses what it has refused from the start.
Steady ==
  /\ CountsAreRight /\ RefusalsAreKnown
  /\ ViewsFollowTargets /\ AskedInTime
  /\ ReadsAreFresh /\ EventsAreFresh /\ AnswersAreYoung

\* A view in sync has a target that is listened to.
LEMMA ViewsStep ==
  ASSUME Inv, Inv', ViewsFollowTargets, [Next]_vars
  PROVE  ViewsFollowTargets'
<1>1. CASE AddListener
  <2>1. synced' = synced /\ changed' = changed /\ targets \subseteq targets'
    BY <1>1 DEF AddListener, ListenRemotely
  <2>2. stream = "Open" => stream' = "Open"
    BY <1>1 DEF AddListener, ListenRemotely, IsStarted
  <2> QED
    BY <2>1, <2>2 DEF ViewsFollowTargets
<1>2. CASE RemoveListener
  BY <1>2 DEF RemoveListener, StopListening, ViewsFollowTargets
<1>3. CASE WatchStreamFails
  BY <1>3 DEF WatchStreamFails, WatchStreamFailsAndStarts, Broadcast, Disconnected, ViewsFollowTargets
<1>4. CASE IdleTimeout \/ RestartNetwork
  BY <1>4 DEF IdleTimeout, RestartNetwork, Disconnected, ViewsFollowTargets
<1>5. CASE OnlineStateTimeout
  BY <1>5 DEF OnlineStateTimeout, Broadcast, aggVars, ViewsFollowTargets
<1>6. ASSUME NEW kind, Receive(kind)
      PROVE  stream = "Open" /\ stream' = "Open"
  <2>1. responses # <<>> /\ stream' = stream
    BY <1>6 DEF Receive
  <2> QED
    BY <2>1 DEF Inv, WireIsOpen
<1>7. CASE ReceiveAny
  <2>1. stream' = "Open"
    BY <1>6, <1>7 DEF ReceiveAny, ReceiveAdded, ReceiveRemoved, ReceiveDocuments,
                      ReceiveCurrent, ReceiveSnapshot, ReceiveRefused
  <2>2. CASE ReceiveSnapshot
    <3>1. synced' \subseteq synced \cup targets /\ targets' = targets
      BY <2>2 DEF ReceiveSnapshot, IsActive
    <3> QED
      BY <2>1, <3>1 DEF ViewsFollowTargets
  <2>3. CASE ReceiveRefused
    BY <2>1, <2>3 DEF ReceiveRefused, ViewsFollowTargets
  <2>4. CASE ReceiveAdded \/ ReceiveRemoved \/ ReceiveDocuments \/ ReceiveCurrent
    BY <2>1, <2>4 DEF ReceiveAdded, ReceiveRemoved, ReceiveDocuments, ReceiveCurrent,
                      ViewsFollowTargets
  <2> QED
    BY <1>7, <2>2, <2>3, <2>4 DEF ReceiveAny
<1>8. CASE UNCHANGED <<changed, synced, targets>> /\ (stream = "Open" => stream' = "Open")
  BY <1>8 DEF ViewsFollowTargets
<1>9. CASE (\E r \in Reads, q \in Queries : Ask(r, q)) \/ MainQueue
  BY <1>8, <1>9 DEF Ask, MainQueue, Deliver, DropMuted, aggVars
<1>10. CASE WatchStreamOpens \/ BackoffElapsed
  BY <1>8, <1>10 DEF WatchStreamOpens, BackoffElapsed, aggVars
<1>11. CASE ServerHandlesRequest \/ ServerDataChanges \/ \E q \in Queries : ServerChangesRules(q)
  BY <1>8, <1>11 DEF ServerHandlesRequest, ServerDataChanges, ServerChangesRules, aggVars
<1>12. CASE UNCHANGED vars
  BY <1>8, <1>12 DEF vars
<1> QED
  BY <1>1, <1>2, <1>3, <1>4, <1>5, <1>7, <1>9, <1>10, <1>11, <1>12 DEF Next, WorkQueue

\* A step asks for a read, adds its listener, or leaves it where it is or removes it.
LEMMA ReadsMove ==
  ASSUME Inv, [Next]_vars
  PROVE  \/ \E r \in Reads, q \in Queries : Ask(r, q)
         \/ AddListener
         \/ UNCHANGED <<query, askedAt, alone>> /\ listening' \subseteq listening
            /\ \A r : Adding(r)' => Adding(r)
<1> DEFINE Q == UNCHANGED <<query, askedAt, alone>> /\ listening' \subseteq listening
                  /\ \A r : Adding(r)' => Adding(r)
<1>1. TypeOK
  BY DEF Inv
<1>2. ASSUME UNCHANGED <<query, askedAt, alone, listening, workQueue>>
      PROVE  Q
  BY <1>2 DEF Adding
<1>3. CASE Deliver
  <2>1. UNCHANGED <<query, askedAt, alone, listening>>
    BY <1>3 DEF Deliver
  <2>2. \/ workQueue' = workQueue
        \/ \E r \in Reads : workQueue' = Append(workQueue, Task("remove", r))
    <3>1. Head(mainQueue).read \in Reads
      BY <1>1, <1>3, EventFacts DEF Deliver
    <3> QED
      BY <1>3, <3>1 DEF Deliver
  <2>3. \A x : Adding(x)' => Adding(x)
    <3>1. CASE workQueue' = workQueue
      BY <3>1 DEF Adding
    <3>2. ASSUME NEW r \in Reads, workQueue' = Append(workQueue, Task("remove", r))
          PROVE  \A x : Adding(x)' => Adding(x)
      <4>1. /\ DOMAIN workQueue = 1 .. Len(workQueue)
            /\ DOMAIN workQueue' = 1 .. Len(workQueue) + 1 /\ Len(workQueue) \in Nat
            /\ \A i \in DOMAIN workQueue : workQueue'[i] = workQueue[i]
            /\ workQueue'[Len(workQueue) + 1] = Task("remove", r)
        BY <1>1, <3>2, EnqueueFacts
      <4>2. \A x : Task("add", x) # Task("remove", r)
        BY DEF Task
      <4> QED
        BY <4>1, <4>2 DEF Adding
    <3> QED
      BY <2>2, <3>1, <3>2
  <2> QED
    BY <2>1, <2>3
<1>4. CASE RemoveListener
  <2>1. UNCHANGED <<query, askedAt, alone>> /\ listening' \subseteq listening
    BY <1>4 DEF RemoveListener, mainVars
  <2>2. \A x : Adding(x)' => Adding(x)
    BY <1>1, <1>4, DequeueFacts DEF RemoveListener, Adding
  <2> QED
    BY <2>1, <2>2
<1>5. ASSUME NEW kind, Receive(kind)
      PROVE  UNCHANGED <<query, askedAt, alone, workQueue>>
  BY <1>5 DEF Receive, mainVars
<1>6. CASE ReceiveAny
  <2>1. UNCHANGED <<query, askedAt, alone, workQueue>>
    BY <1>5, <1>6 DEF ReceiveAny, ReceiveAdded, ReceiveRemoved, ReceiveDocuments,
                      ReceiveCurrent, ReceiveSnapshot, ReceiveRefused
  <2>2. listening' \subseteq listening
    BY <1>6 DEF ReceiveAny, ReceiveAdded, ReceiveRemoved, ReceiveDocuments,
                ReceiveCurrent, ReceiveSnapshot, ReceiveRefused
  <2> QED
    BY <2>1, <2>2 DEF Adding
<1>7. CASE DropMuted \/ OnlineStateTimeout \/ WatchStreamOpens \/ WatchStreamFails
           \/ BackoffElapsed \/ IdleTimeout \/ RestartNetwork
  BY <1>2, <1>7 DEF DropMuted, OnlineStateTimeout, WatchStreamOpens, WatchStreamFails,
                    BackoffElapsed, IdleTimeout, RestartNetwork, mainVars
<1>8. CASE ServerHandlesRequest \/ ServerDataChanges \/ \E q \in Queries : ServerChangesRules(q)
  BY <1>2, <1>8 DEF ServerHandlesRequest, ServerDataChanges, ServerChangesRules, mainVars
<1>9. CASE UNCHANGED vars
  BY <1>2, <1>9 DEF vars
<1> QED
  BY <1>3, <1>4, <1>6, <1>7, <1>8, <1>9 DEF Next, MainQueue, WorkQueue

\* What is asked now is asked of the data that there is now.
LEMMA AskedStep ==
  ASSUME Inv, Inv', AskedInTime, [Next]_vars, version' >= version
  PROVE  AskedInTime'
<1>1. TypeOK /\ OneLife
  BY DEF Inv
<1>2. /\ version \in Nat /\ version' \in Nat /\ askedAt \in [Reads -> Versions] /\ Versions \subseteq Nat
      /\ query \in [Reads -> Queries \cup {None}] /\ alone \subseteq Reads
  BY ReadPathAssumption DEF Inv, TypeOK, Versions
<1>3. ASSUME askedAt' = askedAt
      PROVE  \A r \in Reads : version' >= askedAt'[r]
  <2> SUFFICES ASSUME NEW r \in Reads
               PROVE  version' >= askedAt[r]
    BY <1>3
  <2>1. version >= askedAt[r] /\ askedAt[r] \in Nat
    BY <1>2 DEF AskedInTime
  <2> QED
    BY <1>2, <2>1
<1>4. ASSUME NEW r \in Reads, NEW q \in Queries, Ask(r, q)
      PROVE  AskedInTime'
  <2>1. /\ query[r] = None /\ query' = [query EXCEPT ![r] = q] /\ version' = version
        /\ askedAt' = [askedAt EXCEPT ![r] = version] /\ alone' = alone
        /\ workQueue' = Append(workQueue, Task("add", r))
    BY <1>4 DEF Ask, serverVars
  <2>2. \A x \in Reads : version' >= askedAt'[x]
    BY <1>2, <2>1 DEF AskedInTime
  <2>3. r \notin alone
    BY <2>1 DEF AskedInTime
  <2>4. \A x \in Reads : Adding(x)' <=> Adding(x) \/ x = r
    BY <1>1, <2>1, EnqueueFacts
  <2> QED
    BY <1>2, <2>1, <2>2, <2>3, <2>4 DEF AskedInTime
<1>5. CASE AddListener
  <2> PICK r : r = Head(workQueue).read
    OBVIOUS
  <2>1. /\ UNCHANGED <<query, askedAt>> /\ alone' \subseteq alone \cup {r}
        /\ workQueue # <<>> /\ workQueue' = Tail(workQueue) /\ Head(workQueue).kind = "add"
    BY <1>5 DEF AddListener, mainVars
  <2>2. /\ \A x : Adding(x)' => Adding(x)
        /\ r \in Reads /\ Adding(r)
    BY <1>1, <2>1, DequeueFacts DEF Adding
  <2>3. query[r] # None
    BY <1>1, <2>2 DEF OneLife, UnaskedIsNowhere
  <2>4. ~Adding(r)'
    <3>1. AddedOnce /\ Head(workQueue) = Task("add", r)
      BY <1>1, <2>1, DequeueFacts DEF OneLife
    <3> QED
      BY <1>1, <2>1, <3>1, DequeueUnique
  <2> QED
    BY <1>3, <2>1, <2>2, <2>3, <2>4 DEF AskedInTime
<1>6. CASE UNCHANGED <<query, askedAt, alone>> /\ \A r : Adding(r)' => Adding(r)
  BY <1>3, <1>6 DEF AskedInTime
<1> QED
  BY <1>4, <1>5, <1>6, ReadsMove

\* A listener is added: to the listeners of its query, or as the only one, whose target
\* has nothing yet and will only have what the server is going to send.
LEMMA NewListener ==
  ASSUME Inv, Inv', Steady, AddListener, NEW r, r = Head(workQueue).read
  PROVE  /\ r \in Reads /\ query[r] \in Queries /\ r \notin alone /\ ~Sent(r) /\ answer[r] = None
         /\ listening' = listening \cup {r}
         /\ UNCHANGED <<query, askedAt, answer, forbidden>>
         /\ \/ alone' = alone
            \/ /\ alone' = alone \cup {r} /\ query[r] \notin synced
               /\ \A a \in Versions : FreshAt(query[r], a)'
<1>1. TypeOK /\ TypeOK' /\ OneLife
  BY DEF Inv
<1>2. /\ workQueue # <<>> /\ workQueue' = Tail(workQueue) /\ listening' = listening \cup {r}
      /\ Head(workQueue).kind = "add" /\ UNCHANGED <<query, askedAt, answer, forbidden>>
  BY DEF AddListener, mainVars, serverVars
<1>3. r \in Reads /\ Adding(r)
  BY <1>1, <1>2, DequeueFacts DEF Adding
<1>4. query[r] \in Queries /\ ~Sent(r) /\ answer[r] = None
  BY <1>1, <1>3 DEF OneLife, UnaskedIsNowhere, AddedOnce, TypeOK
<1>5. r \notin alone
  BY <1>3 DEF Steady, AskedInTime
<1>6. \/ alone' = alone
      \/ alone' = alone \cup {r} /\ Listeners(query[r]) = {} /\ ListenRemotely(query[r])
  BY DEF AddListener
<1>7. ASSUME Listeners(query[r]) = {}, ListenRemotely(query[r])
      PROVE  query[r] \notin synced /\ \A a \in Versions : FreshAt(query[r], a)'
  <2> PICK q \in Queries : q = query[r] /\ q = query'[r]
    BY <1>2, <1>4
  <2>1. q \notin targets
    BY <1>1, <1>7 DEF Inv, ListenedIsWatched, TargetsAreListened, Listeners
  <2>2. q \notin synced
    BY <2>1 DEF Steady, ViewsFollowTargets
  <2>3. UNCHANGED <<responses, changed, docs, cache, synced>>
    BY DEF AddListener
  <2>4. CASE stream = "Open"
    <3>1. /\ requests' = Append(requests, Message("watch", q, 0))
          /\ outstanding' = [outstanding EXCEPT ![q] = @ + 1]
      BY <1>7, <2>4 DEF ListenRemotely, IsStarted, Send
    <3>2. /\ Len(requests) + 1 \in DOMAIN requests'
          /\ requests'[Len(requests) + 1] = Message("watch", q, 0)
      <4>1. requests \in Seq(RequestType) /\ Message("watch", q, 0) \in RequestType
        BY <1>1, TypeParts DEF TypesOfWire, Message, RequestType
      <4> QED
        BY <3>1, <4>1, AppendFacts
    <3>3. \A i : ~Settled(i, q)'
      BY <3>2 DEF Settled, Message
    <3>4. q \in changed => outstanding'[q] # 0
      <4>1. CASE q \in forbidden
        BY <4>1 DEF Steady, RefusalsAreKnown
      <4>2. CASE q \notin forbidden
        <5>1. outstanding[q] \in Nat
          BY <1>1, <4>2, OwedFacts DEF Steady, CountsAreRight
        <5> QED
          BY <1>1, <3>1, <5>1, SMTT(30) DEF TypeOK
      <4> QED
        BY <4>1, <4>2
    <3>5. \A a \in Versions : FreshAt(q, a)'
      BY <2>2, <2>3, <3>3, <3>4 DEF FreshAt, DocumentsFit, CurrentFits, ChangesFit, SyncedFits
    <3> QED
      BY <2>2, <3>5
  <2>5. CASE stream # "Open"
    <3>1. responses = <<>> /\ changed = {}
      BY <2>5 DEF Inv, WireIsOpen, Steady, ViewsFollowTargets
    <3>2. \A a \in Versions : FreshAt(q, a)'
      BY <2>2, <2>3, <3>1 DEF FreshAt, DocumentsFit, CurrentFits, ChangesFit, SyncedFits
    <3> QED
      BY <2>2, <3>2
  <2> QED
    BY <2>4, <2>5
<1> QED
  BY <1>2, <1>3, <1>4, <1>5, <1>6, <1>7

\* Every step keeps reads fresh.
LEMMA ReadsFreshStep ==
  ASSUME Inv, Inv', Steady, [Next]_vars, ruleChanges' = 0
  PROVE  ReadsAreFresh'
<1> SUFFICES ASSUME NEW r \in alone' \cap listening', NEW q \in Queries, NEW a \in Versions,
                    query'[r] = q, askedAt'[r] = a
             PROVE  FreshAt(q, a)'
  BY DEF ReadsAreFresh
<1>1. TypeOK /\ TypeOK' /\ OneLife /\ ListenedIsWatched /\ ListenedIsWatched'
  BY DEF Inv
<1>2. q \in targets'
  BY <1>1 DEF ListenedIsWatched, TargetsAreListened
<1>3. ASSUME r \in alone, r \in listening, query[r] = q, askedAt[r] = a
      PROVE  FreshAt(q, a)'
  <2>1. q \in targets
    BY <1>1, <1>3 DEF ListenedIsWatched, TargetsAreListened
  <2>2. FreshAt(q, a)
    BY <1>3 DEF Steady, ReadsAreFresh
  <2>3. r \in Reads
    BY <1>1, <1>3 DEF TypeOK
  <2>4. version >= a
    BY <1>3, <2>3 DEF Steady, AskedInTime
  <2> QED
    BY <1>1, <1>2, <2>1, <2>2, <2>4, FreshStep DEF Steady, ViewsFollowTargets
<1>4. CASE UNCHANGED <<query, askedAt, alone>> /\ listening' \subseteq listening
  BY <1>3, <1>4
<1>5. ASSUME NEW x \in Reads, NEW p \in Queries, Ask(x, p)
      PROVE  FreshAt(q, a)'
  <2>1. /\ query[x] = None /\ query' = [query EXCEPT ![x] = p] /\ UNCHANGED <<alone, listening>>
        /\ askedAt' = [askedAt EXCEPT ![x] = version]
    BY <1>5 DEF Ask
  <2>2. x # r
    BY <1>1, <2>1 DEF OneLife, UnaskedIsNowhere
  <2>3. r \in Reads
    BY <1>1 DEF TypeOK
  <2>4. query'[r] = query[r] /\ askedAt'[r] = askedAt[r]
    BY <1>1, <2>1, <2>2, <2>3 DEF TypeOK
  <2> QED
    BY <1>3, <2>1, <2>4
<1>6. CASE AddListener
  <2> PICK x : x = Head(workQueue).read
    OBVIOUS
  <2>1. /\ x \in Reads /\ x \notin alone /\ listening' = listening \cup {x}
        /\ UNCHANGED <<query, askedAt>>
        /\ \/ alone' = alone
           \/ alone' = alone \cup {x} /\ \A b \in Versions : FreshAt(query[x], b)'
    BY <1>6, NewListener
  <2>2. CASE r # x
    BY <1>3, <2>1, <2>2
  <2>3. CASE r = x
    <3>1. alone' = alone \cup {x} /\ \A b \in Versions : FreshAt(query[x], b)'
      BY <2>1, <2>3
    <3>2. FreshAt(query[x], a)'
      BY <3>1
    <3> QED
      BY <2>3, <3>2 DEF FreshAt, DocumentsFit, CurrentFits, ChangesFit, SyncedFits, Settled, DocsAt, Seen
  <2> QED
    BY <2>2, <2>3
<1> QED
  BY <1>4, <1>5, <1>6, ReadsMove

\* Every step sends young events from the server, if any.
LEMMA EventsFreshStep ==
  ASSUME Inv, Inv', Steady, ReadsAreFresh', [Next]_vars
  PROVE  EventsAreFresh'
<1>1. TypeOK /\ TypeOK' /\ OneLife /\ EventsAreFresh
  BY DEF Inv, Steady
<1>2. mainQueue \in Seq(EventType) /\ DOMAIN mainQueue = 1 .. Len(mainQueue) /\ Len(mainQueue) \in Nat
      /\ \A i \in DOMAIN mainQueue : mainQueue[i].read \in Reads
  BY <1>1, EventsTyped DEF TypeOK
<1>3. ASSUME UNCHANGED <<mainQueue, askedAt, alone>>
      PROVE  EventsAreFresh'
  BY <1>1, <1>3 DEF EventsAreFresh
<1>4. ASSUME NEW r \in Reads, NEW q \in Queries, Ask(r, q)
      PROVE  EventsAreFresh'
  <2>1. /\ UNCHANGED <<mainQueue, alone>> /\ query[r] = None
        /\ askedAt' = [askedAt EXCEPT ![r] = version]
    BY <1>4 DEF Ask
  <2>2. \A x \in alone : askedAt'[x] = askedAt[x]
    BY <1>1, <2>1 DEF Steady, AskedInTime, TypeOK
  <2> QED
    BY <1>1, <2>1, <2>2 DEF EventsAreFresh
<1>5. CASE MainQueue
  <2>1. /\ mainQueue # <<>> /\ mainQueue' = Tail(mainQueue) /\ UNCHANGED <<askedAt, alone>>
    BY <1>5 DEF MainQueue, Deliver, DropMuted, mainVars
  <2>2. \A i \in DOMAIN mainQueue' : i + 1 \in DOMAIN mainQueue /\ mainQueue'[i] = mainQueue[i + 1]
    BY <1>1, <2>1, EventFacts
  <2> QED
    BY <1>1, <2>1, <2>2 DEF EventsAreFresh
<1>6. CASE AddListener
  <2> PICK r : r = Head(workQueue).read
    OBVIOUS
  <2>1. /\ r \in Reads /\ query[r] \in Queries /\ r \notin alone /\ ~Sent(r) /\ UNCHANGED askedAt
        /\ alone' = alone \/ (alone' = alone \cup {r} /\ query[r] \notin synced)
    BY <1>6, NewListener
  <2>2. \/ mainQueue' = mainQueue
        \/ \E from \in {"server", "cache"} :
             /\ mainQueue' = Append(mainQueue, Event(r, from, cache[query[r]]))
             /\ from = "server" => query[r] \in synced
    BY <1>6 DEF AddListener
  <2>3. ASSUME NEW i \in DOMAIN mainQueue, mainQueue[i].from = "server", mainQueue[i].read \in alone'
        PROVE  mainQueue[i].version >= askedAt'[mainQueue[i].read]
    <3>1. mainQueue[i].read # r
      BY <2>1 DEF Sent
    <3> QED
      BY <1>1, <2>1, <2>3, <3>1 DEF EventsAreFresh
  <2>4. CASE mainQueue' = mainQueue
    BY <2>3, <2>4 DEF EventsAreFresh
  <2>5. ASSUME NEW from \in {"server", "cache"},
               mainQueue' = Append(mainQueue, Event(r, from, cache[query[r]])),
               from = "server" => query[r] \in synced
        PROVE  EventsAreFresh'
    <3>1. PICK e \in EventType : /\ e = Event(r, from, cache[query[r]])
                                 /\ e.read = r /\ e.from = from
      <4>1. cache[query[r]] \in Versions
        BY <1>1, <2>1 DEF TypeOK
      <4>2. Event(r, from, cache[query[r]]) \in EventType
        BY <2>1, <4>1 DEF Event, EventType
      <4> QED
        BY <4>2 DEF Event
    <3>2. /\ DOMAIN mainQueue' = 1 .. Len(mainQueue) + 1
          /\ \A i \in DOMAIN mainQueue : mainQueue'[i] = mainQueue[i]
          /\ mainQueue'[Len(mainQueue) + 1] = e
      BY <1>2, <2>5, <3>1, AppendFacts
    <3>3. e.from = "server" => e.read \notin alone'
      BY <2>1, <2>5, <3>1
    <3> SUFFICES ASSUME NEW i \in DOMAIN mainQueue', mainQueue'[i].from = "server",
                        mainQueue'[i].read \in alone'
                 PROVE  mainQueue'[i].version >= askedAt'[mainQueue'[i].read]
      BY DEF EventsAreFresh
    <3>4. i \in DOMAIN mainQueue
      BY <1>2, <3>2, <3>3
    <3> QED
      BY <2>3, <3>2, <3>4
  <2> QED
    BY <2>2, <2>4, <2>5
<1>7. ASSUME NEW R \in SUBSET listening, NEW from \in [Queries -> {"server", "cache", "error"}],
             NEW data \in [Queries -> Versions], Raise(R, from, data), UNCHANGED <<askedAt, alone>>,
             \A r \in R \cap alone : from[query[r]] = "server" => data[query[r]] >= askedAt[r]
      PROVE  EventsAreFresh'
  <2>1. R \in SUBSET Reads
    BY <1>1, ListenersHaveAsked
  <2>0. \A r \in R : query[r] \in Queries
    BY <1>1, ListenersHaveAsked
  <2>2. /\ \A i \in DOMAIN mainQueue : mainQueue'[i] = mainQueue[i]
        /\ \A i \in DOMAIN mainQueue' : i \notin DOMAIN mainQueue =>
             /\ mainQueue'[i].read \in R
             /\ mainQueue'[i].from = from[query[mainQueue'[i].read]]
             /\ mainQueue'[i].version = data[query[mainQueue'[i].read]]
    <3>1. mainQueue \in Seq(EventType)
      BY <1>2
    <3>2. /\ mainQueue' \in Seq(EventType)
          /\ Len(mainQueue) \in Nat
          /\ DOMAIN mainQueue = 1 .. Len(mainQueue)
          /\ \A i \in DOMAIN mainQueue : i \in DOMAIN mainQueue' /\ mainQueue'[i] = mainQueue[i]
          /\ \A i \in DOMAIN mainQueue' : i \notin DOMAIN mainQueue =>
               /\ i > Len(mainQueue)
               /\ mainQueue'[i].read \in R
               /\ mainQueue'[i].from = from[query[mainQueue'[i].read]]
               /\ mainQueue'[i].version = data[query[mainQueue'[i].read]]
               /\ \A j \in DOMAIN mainQueue' :
                    j \notin DOMAIN mainQueue /\ mainQueue'[i].read = mainQueue'[j].read => i = j
          /\ \A r \in R : \E i \in DOMAIN mainQueue' :
               i \notin DOMAIN mainQueue /\ mainQueue'[i].read = r
      BY <1>7, <2>0, <2>1, <3>1, RaiseFacts
    <3> QED
      BY <3>2
  <2> SUFFICES ASSUME NEW i \in DOMAIN mainQueue', mainQueue'[i].from = "server",
                      mainQueue'[i].read \in alone'
               PROVE  mainQueue'[i].version >= askedAt'[mainQueue'[i].read]
    BY DEF EventsAreFresh
  <2>3. CASE i \in DOMAIN mainQueue
    BY <1>1, <1>7, <2>2, <2>3 DEF EventsAreFresh
  <2>4. CASE i \notin DOMAIN mainQueue
    BY <1>7, <2>2, <2>4
  <2> QED
    BY <2>3, <2>4
<1>8. ASSUME Broadcast("Offline") \/ Broadcast("Unknown"), UNCHANGED <<askedAt, alone>>
      PROVE  EventsAreFresh'
  <2>1. CASE mainQueue' = mainQueue
    BY <1>3, <1>8, <2>1
  <2>2. ASSUME NEW R \in SUBSET listening, Raise(R, FromCache, cache)
        PROVE  EventsAreFresh'
    <3>1. FromCache \in [Queries -> {"server", "cache", "error"}] /\ cache \in [Queries -> Versions]
      BY <1>1 DEF FromCache, TypeOK
    <3>2. \A r \in R : FromCache[query[r]] # "server"
      BY <1>1, ListenersHaveAsked DEF FromCache
    <3> QED
      BY <1>7, <1>8, <2>2, <3>1, <3>2
  <2>3. mainQueue' = mainQueue \/ \E R \in SUBSET listening : Raise(R, FromCache, cache)
    BY <1>8 DEF Broadcast
  <2> QED
    BY <2>1, <2>2, <2>3
<1>9. CASE OnlineStateTimeout
  BY <1>8, <1>9 DEF OnlineStateTimeout, mainVars
<1>10. CASE WatchStreamFails
  <2>1. UNCHANGED <<askedAt, alone>>
    BY <1>10 DEF WatchStreamFails, mainVars
  <2>2. mainQueue' = mainQueue \/ Broadcast("Offline") \/ Broadcast("Unknown")
    BY <1>10 DEF WatchStreamFails, WatchStreamFailsAndStarts
  <2> QED
    BY <1>3, <1>8, <2>1, <2>2
<1>11. CASE ReceiveSnapshot
  <2> DEFINE event == {q \in changed : IsActive(q)}
             newSynced == (synced \ event) \cup (event \cap current)
             Newer(q) == docs[q] > cache[q]
             Differs(q) == Newer(q) \/ (q \in synced) # (q \in newSynced)
             source == [q \in Queries |-> IF q \in newSynced THEN "server" ELSE "cache"]
             told == {r \in listening : /\ Differs(query[r])
                                        /\ r \in raised \/ query[r] \in newSynced}
  <2>1. /\ synced' = newSynced /\ Raise(told, source, cache')
        /\ UNCHANGED <<query, askedAt, alone, listening>>
    BY <1>11 DEF ReceiveSnapshot, Receive, mainVars
  <2>2. /\ told \in SUBSET listening
        /\ source \in [Queries -> {"server", "cache", "error"}]
        /\ \A q \in Queries : source[q] = "server" => q \in newSynced
    OBVIOUS
  <2> HIDE DEF event, newSynced, source, told
  <2>3. cache' \in [Queries -> Versions] /\ askedAt \in [Reads -> Versions]
    BY <1>1 DEF TypeOK
  <2>4. ASSUME NEW r \in told \cap alone, source[query[r]] = "server"
        PROVE  cache'[query[r]] >= askedAt[r]
    <3> PICK q \in Queries : q = query[r]
      BY <1>1, <2>2, ListenersHaveAsked
    <3>1. q \in synced' /\ r \in alone' /\ r \in listening' /\ r \in Reads
      BY <1>1, <2>1, <2>2, <2>4 DEF TypeOK
    <3>2. PICK a \in Versions : a = askedAt[r]
      BY <2>3, <3>1
    <3>3. FreshAt(q, a)'
      BY <2>1, <3>1, <3>2 DEF ReadsAreFresh
    <3>4. SyncedFits(q, a)'
      BY <3>3 DEF FreshAt
    <3> QED
      BY <3>1, <3>2, <3>4 DEF SyncedFits
  <2> QED
    BY <1>7, <2>1, <2>2, <2>3, <2>4
<1>12. CASE ReceiveRefused
  <2>1. UNCHANGED <<askedAt, alone>>
    BY <1>12 DEF ReceiveRefused, Receive, mainVars
  <2>2. CASE Raise(Listeners(Received), Failed, NoData)
    <3>1. Failed \in [Queries -> {"server", "cache", "error"}] /\ NoData \in [Queries -> Versions]
      BY ReadPathAssumption DEF Failed, NoData, Versions
    <3>2. Listeners(Received) \in SUBSET listening
      BY DEF Listeners
    <3>3. \A r \in Listeners(Received) : Failed[query[r]] # "server"
      BY <1>1, <3>2, ListenersHaveAsked DEF Failed
    <3> QED
      BY <1>7, <2>1, <2>2, <3>1, <3>2, <3>3
  <2>3. CASE mainQueue' = mainQueue
    BY <1>3, <2>1, <2>3
  <2> QED
    BY <1>12, <2>2, <2>3 DEF ReceiveRefused
<1>13. CASE ReceiveAdded \/ ReceiveRemoved \/ ReceiveDocuments \/ ReceiveCurrent
  BY <1>3, <1>13 DEF ReceiveAdded, ReceiveRemoved, ReceiveDocuments, ReceiveCurrent, Receive, mainVars
<1>14. CASE RemoveListener \/ WatchStreamOpens \/ BackoffElapsed \/ IdleTimeout \/ RestartNetwork
  BY <1>3, <1>14 DEF RemoveListener, WatchStreamOpens, BackoffElapsed, IdleTimeout, RestartNetwork,
                     mainVars
<1>15. CASE ServerHandlesRequest \/ ServerDataChanges \/ \E q \in Queries : ServerChangesRules(q)
  BY <1>3, <1>15 DEF ServerHandlesRequest, ServerDataChanges, ServerChangesRules, mainVars
<1>16. CASE UNCHANGED vars
  BY <1>3, <1>16 DEF vars
<1> QED
  BY <1>4, <1>5, <1>6, <1>9, <1>10, <1>11, <1>12, <1>13, <1>14, <1>15, <1>16
     DEF Next, WorkQueue, ReceiveAny

\* Every answer is one of these events, or made from none.
LEMMA AnswersStep ==
  ASSUME Inv, Inv', Steady, [Next]_vars
  PROVE  AnswersAreYoung'
<1>1. TypeOK /\ OneLife /\ AnswersAreYoung
  BY DEF Inv, Steady
<1>2. CASE UNCHANGED <<answer, askedAt, alone>>
  BY <1>1, <1>2 DEF AnswersAreYoung
<1>3. CASE AddListener
  <2> PICK r : r = Head(workQueue).read
    OBVIOUS
  <2>1. /\ answer[r] = None /\ UNCHANGED <<answer, askedAt>>
        /\ alone' = alone \/ alone' = alone \cup {r}
    BY <1>3, NewListener
  <2> QED
    BY <1>1, <2>1 DEF AnswersAreYoung
<1>4. ASSUME NEW r \in Reads, NEW q \in Queries, Ask(r, q)
      PROVE  AnswersAreYoung'
  <2>1. /\ UNCHANGED <<answer, alone>> /\ query[r] = None
        /\ askedAt' = [askedAt EXCEPT ![r] = version]
    BY <1>4 DEF Ask
  <2>2. \A x \in alone : askedAt'[x] = askedAt[x]
    BY <1>1, <2>1 DEF Steady, AskedInTime, TypeOK
  <2> QED
    BY <1>1, <2>1, <2>2 DEF AnswersAreYoung
<1>5. CASE Deliver
  <2> PICK e : e = Head(mainQueue)
    OBVIOUS
  <2>1. /\ mainQueue # <<>> /\ UNCHANGED <<askedAt, alone>>
        /\ \/ answer' = [answer EXCEPT ![e.read] = e]
           \/ answer' = [answer EXCEPT ![e.read] = Event(e.read, "error", 0)]
    BY <1>5 DEF Deliver
  <2>2. e.read \in Reads /\ e = mainQueue[1] /\ 1 \in DOMAIN mainQueue
    BY <1>1, <1>5, EventFacts DEF Deliver
  <2>3. e.from = "server" /\ e.read \in alone => e.version >= askedAt[e.read]
    BY <2>2 DEF Steady, EventsAreFresh
  <2>4. Event(e.read, "error", 0).from = "error"
    BY DEF Event
  <2>5. answer \in [Reads -> EventType \cup {None}] /\ alone \subseteq Reads
    BY <1>1 DEF TypeOK
  <2> SUFFICES ASSUME NEW x \in alone, answer'[x] # None, answer'[x].from = "server"
               PROVE  answer'[x].version >= askedAt[x]
    BY <2>1 DEF AnswersAreYoung
  <2>6. CASE x = e.read
    <3>1. answer'[x] = e
      BY <2>1, <2>2, <2>4, <2>5, <2>6
    <3> QED
      BY <2>3, <2>6, <3>1
  <2>7. CASE x # e.read
    <3>1. answer'[x] = answer[x]
      BY <2>1, <2>2, <2>5, <2>7
    <3> QED
      BY <1>1, <3>1 DEF AnswersAreYoung
  <2> QED
    BY <2>6, <2>7
<1>6. ASSUME NEW kind, Receive(kind)
      PROVE  AnswersAreYoung'
  BY <1>2, <1>6 DEF Receive, mainVars
<1>7. CASE ReceiveAny
  BY <1>6, <1>7 DEF ReceiveAny, ReceiveAdded, ReceiveRemoved, ReceiveDocuments,
                    ReceiveCurrent, ReceiveSnapshot, ReceiveRefused
<1>8. CASE DropMuted \/ RemoveListener \/ OnlineStateTimeout \/ WatchStreamOpens \/ WatchStreamFails
           \/ BackoffElapsed \/ IdleTimeout \/ RestartNetwork
  BY <1>2, <1>8 DEF DropMuted, RemoveListener, OnlineStateTimeout, WatchStreamOpens, WatchStreamFails,
                    BackoffElapsed, IdleTimeout, RestartNetwork, mainVars
<1>9. CASE ServerHandlesRequest \/ ServerDataChanges \/ \E q \in Queries : ServerChangesRules(q)
  BY <1>2, <1>9 DEF ServerHandlesRequest, ServerDataChanges, ServerChangesRules, mainVars
<1>10. CASE UNCHANGED vars
  BY <1>2, <1>10 DEF vars
<1> QED
  BY <1>3, <1>4, <1>5, <1>7, <1>8, <1>9, <1>10 DEF Next, MainQueue, WorkQueue

\* The whole invariant, as long as rules have not changed.
SteadyInv == Inv /\ (ruleChanges = 0 => Steady)

\* It holds before the first call.
LEMMA InitSteady == Init => SteadyInv
<1> SUFFICES ASSUME Init
             PROVE  SteadyInv
  OBVIOUS
<1>1. Inv
  BY InitInv
<1>2. requests = <<>> /\ responses = <<>> /\ mainQueue = <<>> /\ workQueue = <<>>
  BY DEF Init
<1>3. CountsAreRight
  <2> SUFFICES ASSUME NEW q \in Queries
               PROVE  outstanding[q] = Owed(q)
    BY DEF CountsAreRight
  <2>1. Owed(q) = 0
    BY <1>1, <1>2, OwedFacts DEF Inv
  <2> QED
    BY <2>1 DEF Init
<1>4. RefusalsAreKnown /\ ViewsFollowTargets
  BY DEF Init, RefusalsAreKnown, ViewsFollowTargets
<1>5. AskedInTime
  BY DEF Init, AskedInTime
<1>6. ReadsAreFresh /\ EventsAreFresh /\ AnswersAreYoung
  BY DEF Init, ReadsAreFresh, EventsAreFresh, AnswersAreYoung
<1> QED
  BY <1>1, <1>3, <1>4, <1>5, <1>6 DEF SteadyInv, Steady

\* Every step keeps it.
LEMMA StepSteady == SteadyInv /\ [Next]_vars => SteadyInv'
<1> SUFFICES ASSUME SteadyInv, [Next]_vars
             PROVE  SteadyInv'
  OBVIOUS
<1>1. Inv /\ Inv'
  BY StepInv DEF SteadyInv
<1> SUFFICES ASSUME ruleChanges' = 0
             PROVE  Steady'
  BY <1>1 DEF SteadyInv
<1>2. ruleChanges = 0 /\ version' >= version
  BY <1>1, ConnectionSteps
<1>3. Steady /\ TypeOK'
  BY <1>1, <1>2 DEF SteadyInv, Inv
<1>4. CountsAreRight' /\ RefusalsAreKnown'
  BY <1>1, <1>3, CountsStep, RefusalsStep DEF Steady
<1>5. ViewsFollowTargets' /\ AskedInTime'
  BY <1>1, <1>2, <1>3, ViewsStep, AskedStep DEF Steady
<1>6. ReadsAreFresh'
  BY <1>1, <1>3, ReadsFreshStep
<1>7. EventsAreFresh' /\ AnswersAreYoung'
  BY <1>1, <1>3, <1>6, EventsFreshStep, AnswersStep
<1> QED
  BY <1>4, <1>5, <1>6, <1>7 DEF Steady

\* The second invariant holds in every reachable state: as long as the server's rules
\* have not changed, counts are right and nothing on its way is too old for who waits.
THEOREM SteadyInvariance == Spec => []SteadyInv
BY InitSteady, StepSteady, PTL DEF Spec

\* "The expected number of pending responses we're due from watch" is that number
\* (remote_store.cc:193, 200), for any reads and queries and however often the stream
\* has broken, as long as nothing is refused that was not refused from the start.
THEOREM OwedIsOutstanding == Spec => []OutstandingIsOwed
<1>1. SteadyInv => OutstandingIsOwed
  BY DEF SteadyInv, Steady, CountsAreRight, OutstandingIsOwed
<1> QED
  BY <1>1, SteadyInvariance, PTL

\* A read that is alone on its query is not answered "from the server" with data from
\* before it was asked, although answers to an earlier listen of the same target can
\* still be on the stream (watch_change_aggregator.cc drops them by the count above).
THEOREM FreshAnswers == Spec => []AnswersAreFresh
<1>1. SteadyInv => AnswersAreFresh
  BY DEF SteadyInv, Steady, AnswersAreYoung, AnswersAreFresh
<1> QED
  BY <1>1, SteadyInvariance, PTL

=============================================================================
