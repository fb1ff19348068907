------------------------- MODULE ImageLoadingProofs -------------------------
(***************************************************************************)
(* Proofs about ImageLoading.tla, for any views, any images and any        *)
(* bounds: nothing is delivered that is not asked for any more, a view     *)
(* shows the picture of its article only, an image is downloaded once and  *)
(* only while somebody waits for it, and what is decoded is whole.         *)
(*                                                                         *)
(* The first two follow from the life of an ImageTask, which waits in      *)
(* three places one after the other: on the pipeline's queue, for its      *)
(* load, and on the main queue.  The others follow from the life of a load: what its        *)
(* operation, its connection and its blocks on the pipeline's queue say of *)
(* each other, and the count of the pieces of the image.                   *)
(***************************************************************************)
EXTENDS ImageLoading, SequenceFacts

Ids == Nat \ {0}

Kinds == {"start", "cancel", "load", "data", "finished", "failed", "decoded", "undecodable",
          "decompressed"}

BlockType == [kind : Kinds, id : Ids]
EventType == [task : TaskIds, loaded : BOOLEAN]
ImageType == [view : Views, url : Urls, completion : BOOLEAN, cancelled : BOOLEAN]
LoadType  == [url : Urls, disposed : BOOLEAN, op : {"waiting", "executing", "finished"},
              conn : {"none", "asked", "sending", "refused", "cancelled", "closed", "done"},
              work : {"none", "decode", "decompress"}, data : Nat, resumed : Nat,
              status : {"none", "whole", "rest"}, reply : {"none", "whole", "rest"}, left : Nat]

\* The kinds of the state that an ImageTask goes through.
ScreensShape ==
  /\ article \in [Views -> Urls \cup {None}]
  /\ shown \in [Views -> Urls \cup {None}]
  /\ rated \in [Views -> BOOLEAN]
  /\ task \in [Views -> Nat \cup {None}]
  /\ calling \in Views \cup {None}
TasksShape ==
  /\ main \in Seq(EventType)
  /\ tasks \in Seq(ImageType)
  /\ Len(tasks) <= MaxTasks
  /\ queue \in Seq(BlockType)
  /\ subscription \in [TaskIds -> Nat]

\* The loads and what is kept of them: whoever names a load names one that was made.
LoadsNamed ==
  /\ \A i \in DOMAIN queue :
       queue[i].kind \notin {"start", "cancel"} => queue[i].id \in LoadIds
  /\ \A t \in TaskIds : subscription[t] # 0 => subscription[t] \in LoadIds
LoadsShape ==
  /\ loads \in Seq(LoadType)
  /\ resumable \in [Urls -> Nat]
  /\ LoadsNamed

Shape == ScreensShape /\ TasksShape

Starting(t) == \E i \in DOMAIN queue : queue[i] = Block("start", t)
Answered(t) == \E i \in DOMAIN main : main[i].task = t

\* What is said of an ImageTask is said of one that has been made.
TasksExist ==
  /\ \A i \in DOMAIN queue :
       queue[i].kind \in {"start", "cancel"} => queue[i].id \in DOMAIN tasks
  /\ \A t \in TaskIds : subscription[t] # 0 => t \in DOMAIN tasks
  /\ \A i \in DOMAIN main : main[i].task \in DOMAIN tasks

\* An ImageTask waits to be started, then for its load, then for the main queue,
\* at most once each.
OneLife ==
  /\ \A i, j \in DOMAIN queue : queue[i].kind = "start" /\ queue[i] = queue[j] => i = j
  /\ \A i, j \in DOMAIN main : main[i].task = main[j].task => i = j
  /\ \A t \in TaskIds : Starting(t) => subscription[t] = 0 /\ ~Answered(t)
  /\ \A t \in TaskIds : subscription[t] # 0 => ~Answered(t)

\* Whoever still waits is the outstanding task of its view or has been cancelled.
WaitingIsOutstanding ==
  \A t \in DOMAIN tasks :
    Starting(t) \/ subscription[t] # 0 \/ Answered(t) =>
      tasks[t].cancelled \/ task[tasks[t].view] = t

Life == TasksExist /\ OneLife /\ WaitingIsOutstanding

\* The outstanding task of a view is for the image of its article and, but for the
\* moment between the two calls, tells the screen.
OutstandingFits ==
  \A v \in Views : task[v] # None =>
    /\ task[v] \in DOMAIN tasks
    /\ ~tasks[task[v]].cancelled
    /\ tasks[task[v]].view = v
    /\ tasks[task[v]].url = article[v]
    /\ tasks[task[v]].completion \/ calling = v

\* A screen without article shows nothing and calls nothing; there is room for the
\* second of two calls.
ClosedIsEmpty ==
  /\ \A v \in Views : article[v] = None => shown[v] = None /\ task[v] = None
  /\ calling # None => article[calling] # None /\ Len(tasks) < MaxTasks

Screens == OutstandingFits /\ ClosedIsEmpty /\ PictureFits

Inv == Shape /\ Life /\ Screens

\* What is known of any ImageTask.
LEMMA TaskFacts ==
  ASSUME TasksShape
  PROVE  /\ Len(tasks) \in Nat /\ DOMAIN tasks = 1 .. Len(tasks)
         /\ DOMAIN tasks \subseteq TaskIds /\ TaskIds \subseteq Ids
         /\ None \notin TaskIds /\ 0 \notin TaskIds
         /\ \A t \in DOMAIN tasks :
              /\ tasks[t] \in ImageType
              /\ tasks[t].view \in Views /\ tasks[t].url \in Urls
              /\ tasks[t].completion \in BOOLEAN /\ tasks[t].cancelled \in BOOLEAN
<1>1. /\ tasks \in Seq(ImageType) /\ Len(tasks) \in Nat /\ DOMAIN tasks = 1 .. Len(tasks)
      /\ Len(tasks) <= MaxTasks
  BY DEF TasksShape
<1>2. /\ DOMAIN tasks \subseteq TaskIds /\ TaskIds \subseteq Ids
      /\ None \notin TaskIds /\ 0 \notin TaskIds
  BY <1>1, ImageLoadingAssumption DEF TaskIds, Ids
<1>3. \A t \in DOMAIN tasks : tasks[t] \in ImageType
  BY <1>1
<1> QED
  BY <1>1, <1>2, <1>3 DEF ImageType

-----------------------------------------------------------------------------
\* The pipeline's queue.

\* No block about an ImageTask comes; the queue moves on by one at most.
Quiet ==
  /\ queue' \in Seq(BlockType)
  /\ \E k \in {0, 1} : \A i \in DOMAIN queue' :
       queue'[i].kind \in {"start", "cancel"} =>
         i + k \in DOMAIN queue /\ queue'[i] = queue[i + k]

\* A block that has been run is quiet.
LEMMA PopQuiet ==
  ASSUME queue \in Seq(BlockType), queue # <<>>, queue' = Tail(queue)
  PROVE  Quiet
<1>1. \A i \in DOMAIN queue' : i + 1 \in DOMAIN queue /\ queue'[i] = queue[i + 1]
  BY TailFacts
<1> QED
  BY <1>1, TailFacts DEF Quiet

\* A block about a load is quiet.
LEMMA PostQuiet ==
  ASSUME queue \in Seq(BlockType), NEW kind \in Kinds \ {"start", "cancel"},
         NEW id \in Ids, Post(kind, id)
  PROVE  Quiet
<1> DEFINE b == Block(kind, id)
<1>1. b \in BlockType /\ b.kind \notin {"start", "cancel"} /\ queue' = Append(queue, b)
  BY DEF Block, BlockType, Post
<1>2. /\ queue' \in Seq(BlockType)
      /\ Len(queue) \in Nat /\ DOMAIN queue = 1 .. Len(queue)
      /\ DOMAIN queue' = 1 .. Len(queue) + 1
      /\ \A i \in DOMAIN queue : queue'[i] = queue[i]
      /\ queue'[Len(queue) + 1] = b
  BY <1>1, AppendFacts
<1>3. \A i \in DOMAIN queue' :
        queue'[i].kind \in {"start", "cancel"} => i + 0 \in DOMAIN queue /\ queue'[i] = queue[i + 0]
  BY <1>1, <1>2
<1> QED
  BY <1>2, <1>3 DEF Quiet

\* Nothing is quieter than a queue that stays as it is.
LEMMA SameQuiet ==
  ASSUME queue \in Seq(BlockType), queue' = queue
  PROVE  Quiet
<1>1. \A i \in DOMAIN queue' : i + 0 \in DOMAIN queue /\ queue'[i] = queue[i + 0]
  OBVIOUS
<1> QED
  BY <1>1 DEF Quiet

\* A quiet queue starts nobody, and keeps apart what was apart.
LEMMA QuietFacts ==
  ASSUME queue \in Seq(BlockType), Quiet, OneLife, TasksExist
  PROVE  /\ \A t \in TaskIds : Starting(t)' => Starting(t)
         /\ \A i, j \in DOMAIN queue' : queue'[i].kind = "start" /\ queue'[i] = queue'[j] => i = j
         /\ \A i \in DOMAIN queue' :
              queue'[i].kind \in {"start", "cancel"} => queue'[i].id \in DOMAIN tasks
<1>1. PICK k \in {0, 1} : \A i \in DOMAIN queue' :
        queue'[i].kind \in {"start", "cancel"} =>
          i + k \in DOMAIN queue /\ queue'[i] = queue[i + k]
  BY DEF Quiet
<1>2. DOMAIN queue' \subseteq Nat
  <2>1. DOMAIN queue' = 1 .. Len(queue') /\ Len(queue') \in Nat
    BY DEF Quiet
  <2> QED
    BY <2>1
<1>3. ASSUME NEW t \in TaskIds, Starting(t)'
      PROVE  Starting(t)
  <2>1. PICK i \in DOMAIN queue' : queue'[i] = Block("start", t)
    BY <1>3 DEF Starting
  <2>2. queue'[i].kind = "start"
    BY <2>1 DEF Block
  <2> QED
    BY <1>1, <2>1, <2>2 DEF Starting
<1>4. ASSUME NEW i \in DOMAIN queue', NEW j \in DOMAIN queue',
             queue'[i].kind = "start", queue'[i] = queue'[j]
      PROVE  i = j
  <2>1. i + k = j + k
    BY <1>1, <1>4 DEF OneLife
  <2> QED
    BY <1>2, <2>1
<1>5. ASSUME NEW i \in DOMAIN queue', queue'[i].kind \in {"start", "cancel"}
      PROVE  queue'[i].id \in DOMAIN tasks
  BY <1>1, <1>5 DEF TasksExist
<1> QED
  BY <1>3, <1>4, <1>5

-----------------------------------------------------------------------------
\* Steps of the life of an ImageTask.

\* Whatever happens to loads and caches disturbs neither tasks nor screens.
LEMMA QuietStep ==
  ASSUME Inv, Quiet, UNCHANGED <<screens, main, tasks, subscription>>
  PROVE  Inv'
<1> USE DEF screens
<1>1. Shape'
  BY DEF Inv, Shape, ScreensShape, TasksShape, Quiet
<1>2. /\ \A t \in TaskIds : Starting(t)' => Starting(t)
      /\ \A i, j \in DOMAIN queue' : queue'[i].kind = "start" /\ queue'[i] = queue'[j] => i = j
      /\ \A i \in DOMAIN queue' :
           queue'[i].kind \in {"start", "cancel"} => queue'[i].id \in DOMAIN tasks
  BY QuietFacts DEF Inv, Life, Shape, TasksShape
<1>3. \A t : Answered(t)' <=> Answered(t)
  BY DEF Answered
<1>4. TasksExist' /\ OneLife'
  BY <1>2, <1>3 DEF Inv, Life, TasksExist, OneLife
<1>5. DOMAIN tasks \subseteq TaskIds
  BY ImageLoadingAssumption DEF Inv, Shape, TasksShape, TaskIds
<1>6. WaitingIsOutstanding'
  BY <1>2, <1>3, <1>5 DEF Inv, Life, WaitingIsOutstanding
<1>7. Screens'
  BY DEF Inv, Screens, OutstandingFits, ClosedIsEmpty, PictureFits
<1> QED
  BY <1>1, <1>4, <1>6, <1>7 DEF Inv, Life

\* What the last event of a load puts on the main queue: one answer for each of
\* its subscribers.
LEMMA FinishFacts ==
  ASSUME TasksShape, NEW l \in Ids, NEW loaded \in BOOLEAN, Finish(l, loaded)
  PROVE  /\ main' \in Seq(EventType)
         /\ Len(main) \in Nat
         /\ DOMAIN main = 1 .. Len(main)
         /\ \A i \in DOMAIN main : i \in DOMAIN main' /\ main'[i] = main[i]
         /\ \A i \in DOMAIN main' : i \notin DOMAIN main => main'[i].task \in Subscribers(l)
         /\ \A i, j \in DOMAIN main' :
              i \notin DOMAIN main /\ j \notin DOMAIN main /\ main'[i].task = main'[j].task
                => i = j
<1>1. IsFiniteSet(Subscribers(l)) /\ Subscribers(l) \subseteq TaskIds
  <2>1. IsFiniteSet(TaskIds)
    BY FS_Interval, ImageLoadingAssumption DEF TaskIds
  <2> QED
    BY <2>1, FS_Subset DEF Subscribers
<1>2. PICK order \in SetToSeqs(Subscribers(l)) :
        main' = main \o [i \in DOMAIN order |-> Event(order[i], loaded)]
  BY DEF Finish
<1> DEFINE events == [i \in DOMAIN order |-> Event(order[i], loaded)]
<1>3. /\ order \in Seq(Subscribers(l))
      /\ \A i, j \in DOMAIN order : order[i] = order[j] => i = j
  BY <1>1, OrderFacts
<1>4. /\ DOMAIN order = 1 .. Len(order) /\ Len(order) \in Nat
      /\ \A i \in DOMAIN order : order[i] \in Subscribers(l)
  BY <1>3
<1>5. events \in Seq(EventType)
  <2>1. events \in [1 .. Len(order) -> EventType]
    BY <1>1, <1>4 DEF Event, EventType
  <2> QED
    BY <1>4, <2>1
<1>6. /\ main' \in Seq(EventType)
      /\ Len(main) \in Nat /\ Len(events) \in Nat
      /\ DOMAIN main = 1 .. Len(main)
      /\ DOMAIN events = 1 .. Len(events)
      /\ DOMAIN main' = 1 .. Len(main) + Len(events)
      /\ \A i \in DOMAIN main : main'[i] = main[i]
      /\ \A i \in DOMAIN events : main'[Len(main) + i] = events[i]
  BY <1>2, <1>5, ConcatFacts DEF TasksShape
<1>7. ASSUME NEW i \in DOMAIN main', i \notin DOMAIN main
      PROVE  i - Len(main) \in DOMAIN order /\ main'[i].task = order[i - Len(main)]
  <2>1. i - Len(main) \in DOMAIN events /\ i = Len(main) + (i - Len(main)) /\ i \in Nat
    BY <1>6, <1>7
  <2>2. main'[i] = events[i - Len(main)]
    BY <1>6, <2>1
  <2> QED
    BY <2>1, <2>2 DEF Event
<1>8. ASSUME NEW i \in DOMAIN main', NEW j \in DOMAIN main',
             i \notin DOMAIN main, j \notin DOMAIN main, main'[i].task = main'[j].task
      PROVE  i = j
  <2>1. i - Len(main) = j - Len(main)
    BY <1>3, <1>7, <1>8
  <2> QED
    BY <1>6, <2>1
<1> QED
  BY <1>4, <1>6, <1>7, <1>8

\* A load ends: its subscribers go from their second place to their third.
LEMMA FinishStep ==
  ASSUME Inv, Quiet, NEW l \in Ids, NEW loaded \in BOOLEAN, Finish(l, loaded),
         UNCHANGED <<screens, tasks>>
  PROVE  Inv'
<1> USE DEF screens
<1>1. /\ main' \in Seq(EventType)
      /\ Len(main) \in Nat
      /\ DOMAIN main = 1 .. Len(main)
      /\ \A i \in DOMAIN main : i \in DOMAIN main' /\ main'[i] = main[i]
      /\ \A i \in DOMAIN main' : i \notin DOMAIN main => main'[i].task \in Subscribers(l)
      /\ \A i, j \in DOMAIN main' :
           i \notin DOMAIN main /\ j \notin DOMAIN main /\ main'[i].task = main'[j].task
             => i = j
  BY FinishFacts DEF Inv, Shape
<1>2. subscription' = [t \in TaskIds |-> IF subscription[t] = l THEN 0 ELSE subscription[t]]
  BY DEF Finish
<1>3. Shape'
  BY <1>1, <1>2 DEF Inv, Shape, ScreensShape, TasksShape, Quiet
<1>4. /\ \A t \in TaskIds : Starting(t)' => Starting(t)
      /\ \A i, j \in DOMAIN queue' : queue'[i].kind = "start" /\ queue'[i] = queue'[j] => i = j
      /\ \A i \in DOMAIN queue' :
           queue'[i].kind \in {"start", "cancel"} => queue'[i].id \in DOMAIN tasks
  BY QuietFacts DEF Inv, Life, Shape, TasksShape
<1>5. \A t \in Subscribers(l) :
        t \in TaskIds /\ subscription[t] # 0 /\ t \in DOMAIN tasks /\ ~Answered(t) /\ ~Starting(t)
  BY DEF Subscribers, Inv, Life, TasksExist, OneLife, Ids
<1>6. \A t : Answered(t)' => Answered(t) \/ t \in Subscribers(l)
  BY <1>1 DEF Answered
<1>7. TasksExist'
  BY <1>1, <1>2, <1>4, <1>5 DEF Inv, Life, TasksExist
<1>8. OneLife'
  <2>1. ASSUME NEW i \in DOMAIN main', NEW j \in DOMAIN main', main'[i].task = main'[j].task
        PROVE  i = j
    <3>1. CASE i \in DOMAIN main /\ j \in DOMAIN main
      BY <1>1, <2>1, <3>1 DEF Inv, Life, OneLife
    <3>2. CASE i \in DOMAIN main /\ j \notin DOMAIN main
      BY <1>1, <1>5, <2>1, <3>2 DEF Answered
    <3>3. CASE i \notin DOMAIN main /\ j \in DOMAIN main
      BY <1>1, <1>5, <2>1, <3>3 DEF Answered
    <3>4. CASE i \notin DOMAIN main /\ j \notin DOMAIN main
      BY <1>1, <2>1, <3>4
    <3> QED
      BY <3>1, <3>2, <3>3, <3>4
  <2>2. ASSUME NEW t \in TaskIds, Starting(t)'
        PROVE  subscription'[t] = 0 /\ ~Answered(t)'
    BY <1>2, <1>4, <1>5, <1>6, <2>2 DEF Inv, Life, OneLife
  <2>3. ASSUME NEW t \in TaskIds, subscription'[t] # 0
        PROVE  ~Answered(t)'
    BY <1>2, <1>6, <2>3 DEF Inv, Life, OneLife, Subscribers
  <2> QED
    BY <1>4, <2>1, <2>2, <2>3 DEF OneLife
<1>9. DOMAIN tasks \subseteq TaskIds
  BY ImageLoadingAssumption DEF Inv, Shape, TasksShape, TaskIds
<1>10. WaitingIsOutstanding'
  BY <1>2, <1>4, <1>5, <1>6, <1>9 DEF Inv, Life, WaitingIsOutstanding
<1>11. Screens'
  BY DEF Inv, Screens, OutstandingFits, ClosedIsEmpty, PictureFits
<1> QED
  BY <1>3, <1>7, <1>8, <1>10, <1>11 DEF Inv, Life

\* An answer reaches its view, or nobody: the end of a life.
LEMMA DeliverStep ==
  ASSUME Inv, Deliver
  PROVE  Inv'
<1> DEFINE t == Head(main).task
           v == tasks[t].view
<1> USE DEF screens
<1>1. /\ calling = None
      /\ main # <<>>
      /\ main' = Tail(main)
      /\ UNCHANGED <<article, calling, tasks, queue, subscription>>
  BY DEF Deliver
<1>2. /\ main' \in Seq(EventType)
      /\ Len(main) \in Nat /\ DOMAIN main = 1 .. Len(main) /\ 1 \in DOMAIN main
      /\ Head(main) = main[1] /\ Head(main) \in EventType
      /\ DOMAIN main' = 1 .. Len(main) - 1
      /\ \A i \in DOMAIN main' : main'[i] = main[i + 1] /\ i + 1 \in DOMAIN main
  BY <1>1, TailFacts DEF Inv, Shape, TasksShape
<1>3. /\ t \in DOMAIN tasks /\ t \in TaskIds /\ Answered(t)
      /\ tasks[t] \in ImageType /\ v \in Views
      /\ DOMAIN tasks \subseteq TaskIds
  <2>1. t \in DOMAIN tasks
    BY <1>2 DEF Inv, Life, TasksExist
  <2>2. Answered(t)
    BY <1>2 DEF Answered
  <2>3. tasks \in Seq(ImageType) /\ DOMAIN tasks \subseteq TaskIds
    BY ImageLoadingAssumption DEF Inv, Shape, TasksShape, TaskIds
  <2>4. tasks[t] \in ImageType
    BY <2>1, <2>3
  <2> QED
    BY <2>1, <2>2, <2>3, <2>4 DEF ImageType
<1>4. ASSUME NEW s, Answered(s)'
      PROVE  Answered(s) /\ s # t
  <2>1. PICK i \in DOMAIN main' : main'[i].task = s
    BY <1>4 DEF Answered
  <2>2. i + 1 \in DOMAIN main /\ main[i + 1].task = s /\ i + 1 # 1
    BY <1>2, <2>1
  <2>3. Answered(s)
    BY <2>2 DEF Answered
  <2>4. s # t
    BY <1>2, <2>2 DEF Inv, Life, OneLife
  <2> QED
    BY <2>3, <2>4
<1>5. \A s : Starting(s)' <=> Starting(s)
  BY <1>1 DEF Starting
<1>6. \A i, j \in DOMAIN main' : main'[i].task = main'[j].task => i = j
  <2>1. ASSUME NEW i \in DOMAIN main', NEW j \in DOMAIN main', main'[i].task = main'[j].task
        PROVE  i = j
    <3>1. i + 1 = j + 1
      BY <1>2, <2>1 DEF Inv, Life, OneLife
    <3> QED
      BY <1>2, <3>1
  <2> QED
    BY <2>1
<1>7. TasksExist' /\ OneLife'
  BY <1>1, <1>2, <1>4, <1>5, <1>6 DEF Inv, Life, TasksExist, OneLife
<1>8. CASE tasks[t].cancelled
  <2>1. UNCHANGED <<shown, rated, task>>
    BY <1>8 DEF Deliver
  <2>2. Shape'
    BY <1>1, <1>2, <2>1 DEF Inv, Shape, ScreensShape, TasksShape
  <2>3. WaitingIsOutstanding'
    BY <1>1, <1>4, <1>5, <2>1 DEF Inv, Life, WaitingIsOutstanding
  <2>4. Screens'
    BY <1>1, <2>1 DEF Inv, Screens, OutstandingFits, ClosedIsEmpty, PictureFits
  <2> QED
    BY <1>7, <2>2, <2>3, <2>4 DEF Inv, Life
<1>9. CASE ~tasks[t].cancelled
  <2>1. /\ shown' = IF Head(main).loaded THEN [shown EXCEPT ![v] = tasks[t].url] ELSE shown
        /\ rated' = [rated EXCEPT ![v] = rated[v] \/ (Head(main).loaded /\ tasks[t].completion)]
        /\ task' = [task EXCEPT ![v] = None]
    BY <1>9 DEF Deliver
  <2>2. task[v] = t /\ task[v] # None
    BY <1>3, <1>9, ImageLoadingAssumption DEF Inv, Life, WaitingIsOutstanding, TaskIds
  <2>3. tasks[t].url = article[v] /\ tasks[t].completion
    BY <1>1, <1>3, <2>2, ImageLoadingAssumption DEF Inv, Screens, OutstandingFits
  <2>4. Shape'
    BY <1>1, <1>2, <1>3, <2>1 DEF Inv, Shape, ScreensShape, TasksShape, ImageType, EventType
  <2>5. WaitingIsOutstanding'
    <3>1. ASSUME NEW s \in DOMAIN tasks, Starting(s)' \/ subscription'[s] # 0 \/ Answered(s)'
          PROVE  tasks'[s].cancelled \/ task'[tasks'[s].view] = s
      <4>1. tasks[s].cancelled \/ task[tasks[s].view] = s
        BY <1>1, <1>4, <1>5, <3>1 DEF Inv, Life, WaitingIsOutstanding
      <4>2. s # t
        BY <1>1, <1>3, <1>4, <1>5, <3>1 DEF Inv, Life, OneLife
      <4>3. tasks[s].view \in Views
        BY <3>1, TaskFacts DEF Inv, Shape
      <4>4. CASE tasks[s].view = v
        BY <1>1, <2>2, <4>1, <4>2, <4>4
      <4>5. CASE tasks[s].view # v
        <5>1. task'[tasks[s].view] = task[tasks[s].view]
          BY <2>1, <4>3, <4>5 DEF Inv, Shape, ScreensShape
        <5> QED
          BY <1>1, <4>1, <5>1
      <4> QED
        BY <4>4, <4>5
    <3> QED
      BY <1>1, <3>1 DEF WaitingIsOutstanding
  <2>6. OutstandingFits' /\ ClosedIsEmpty'
    BY <1>1, <1>3, <2>1, <2>2, <2>3
       DEF Inv, Shape, ScreensShape, Screens, OutstandingFits, ClosedIsEmpty
  <2>7. PictureFits'
    BY <1>1, <1>3, <2>1, <2>3 DEF Inv, Shape, ScreensShape, Screens, PictureFits
  <2> QED
    BY <1>7, <2>4, <2>5, <2>6, <2>7 DEF Inv, Life, Screens
<1> QED
  BY <1>8, <1>9

\* The block that a queue begins with has been run.
LEMMA RunFacts ==
  ASSUME TasksShape, queue # <<>>, queue' = Tail(queue)
  PROVE  /\ Quiet
         /\ 1 \in DOMAIN queue /\ Head(queue) = queue[1] /\ Head(queue) \in BlockType
         /\ Current \in Ids
         /\ OneLife /\ Head(queue).kind = "start" => \A t : t = Current => ~Starting(t)'
<1>1. /\ DOMAIN queue = 1 .. Len(queue) /\ Len(queue) \in Nat
      /\ 1 \in DOMAIN queue /\ Head(queue) = queue[1] /\ Head(queue) \in BlockType
      /\ DOMAIN queue' = 1 .. Len(queue) - 1
      /\ \A i \in DOMAIN queue' : queue'[i] = queue[i + 1] /\ i + 1 \in DOMAIN queue
  BY TailFacts DEF TasksShape
<1>2. Quiet
  BY PopQuiet DEF TasksShape
<1>3. Current \in Ids
  BY <1>1 DEF Current, BlockType
<1>4. ASSUME OneLife, Head(queue).kind = "start", NEW t, t = Current, Starting(t)'
      PROVE  FALSE
  <2>1. PICK i \in DOMAIN queue' : queue'[i] = Block("start", t)
    BY <1>4 DEF Starting
  <2>2. queue[1] = Block("start", t)
    BY <1>1, <1>4 DEF Current, Block, BlockType
  <2>3. i + 1 = 1
    BY <1>1, <1>4, <2>1, <2>2 DEF OneLife
  <2> QED
    BY <1>1, <2>3
<1> QED
  BY <1>1, <1>2, <1>3, <1>4

\* An ImageTask is started: it goes from its first place to its second, or to its
\* third.
LEMMA StartStep ==
  ASSUME Inv, StartImageTask, DOMAIN loads \subseteq Ids, Len(loads) \in Nat
  PROVE  Inv'
<1> USE DEF screens
<1>1. /\ queue # <<>> /\ queue' = Tail(queue) /\ Head(queue).kind = "start"
      /\ UNCHANGED <<screens, tasks>>
  BY DEF StartImageTask, Running
<1>2. /\ Quiet
      /\ 1 \in DOMAIN queue /\ Head(queue) = queue[1] /\ Head(queue) \in BlockType
      /\ Current \in Ids
      /\ \A t : t = Current => ~Starting(t)'
  BY <1>1, RunFacts DEF Inv, Shape, Life
<1>3. PICK t \in Ids : t = Current
  BY <1>2
<1>4. /\ DOMAIN tasks \subseteq TaskIds /\ TaskIds \subseteq Ids
      /\ None \notin TaskIds /\ 0 \notin TaskIds
  BY TaskFacts DEF Inv, Shape
<1>5. t \in DOMAIN tasks /\ Starting(t)
  <2>1. t \in DOMAIN tasks
    BY <1>1, <1>2, <1>3 DEF Inv, Life, TasksExist, Current
  <2>2. queue[1] = Block("start", t)
    BY <1>1, <1>2, <1>3 DEF Current, Block, BlockType
  <2> QED
    BY <1>2, <2>1, <2>2 DEF Starting
<1>6. subscription[t] = 0 /\ ~Answered(t) /\ ~Starting(t)'
  BY <1>2, <1>3, <1>4, <1>5 DEF Inv, Life, OneLife
<1>7. /\ \A s \in TaskIds : Starting(s)' => Starting(s)
      /\ \A i, j \in DOMAIN queue' : queue'[i].kind = "start" /\ queue'[i] = queue'[j] => i = j
      /\ \A i \in DOMAIN queue' :
           queue'[i].kind \in {"start", "cancel"} => queue'[i].id \in DOMAIN tasks
  BY <1>2, QuietFacts DEF Inv, Life, Shape, TasksShape
<1>8. Screens'
  BY <1>1 DEF Inv, Screens, OutstandingFits, ClosedIsEmpty, PictureFits
<1>9. /\ main \in Seq(EventType) /\ tasks \in Seq(ImageType) /\ Len(tasks) <= MaxTasks
      /\ subscription \in [TaskIds -> Nat] /\ queue' \in Seq(BlockType)
  BY <1>2 DEF Inv, Shape, TasksShape, Quiet
<1>10. ASSUME NEW l \in Ids, subscription' = [subscription EXCEPT ![t] = l], main' = main
       PROVE  Inv'
  <2>1. \A s : Answered(s)' <=> Answered(s)
    BY <1>10 DEF Answered
  <2>2. \A s \in TaskIds : subscription'[s] = IF s = t THEN l ELSE subscription[s]
    BY <1>9, <1>10
  <2>3. Shape'
    BY <1>1, <1>4, <1>5, <1>9, <1>10 DEF Inv, Shape, ScreensShape, TasksShape, Ids
  <2>4. TasksExist'
    BY <1>1, <1>5, <1>7, <1>10, <2>2 DEF Inv, Life, TasksExist
  <2>5. OneLife'
    BY <1>6, <1>7, <1>10, <2>1, <2>2 DEF Inv, Life, OneLife
  <2>6. WaitingIsOutstanding'
    BY <1>1, <1>4, <1>5, <1>7, <2>1, <2>2 DEF Inv, Life, WaitingIsOutstanding
  <2> QED
    BY <1>8, <2>3, <2>4, <2>5, <2>6 DEF Inv, Life
<1>11. ASSUME subscription' = subscription, main' = Append(main, Event(t, TRUE))
       PROVE  Inv'
  <2>1. PICK e \in EventType : e = Event(t, TRUE) /\ e.task = t
    <3>1. Event(t, TRUE) \in EventType /\ Event(t, TRUE).task = t
      BY <1>4, <1>5 DEF Event, EventType
    <3> QED
      BY <3>1, Zenon
  <2>2. /\ main' \in Seq(EventType)
        /\ Len(main) \in Nat /\ DOMAIN main = 1 .. Len(main)
        /\ DOMAIN main' = 1 .. Len(main) + 1
        /\ \A i \in DOMAIN main : main'[i] = main[i]
        /\ main'[Len(main) + 1] = e
    <3>1. main' = Append(main, e)
      BY <1>11, <2>1
    <3> QED
      BY <1>9, <3>1, AppendFacts
  <2>3. \A i \in DOMAIN main' :
          (i \in DOMAIN main /\ main'[i] = main[i]) \/ (i = Len(main) + 1 /\ main'[i].task = t)
    <3>1. \A i \in DOMAIN main' : i \in DOMAIN main \/ i = Len(main) + 1
      BY <2>2
    <3>2. main'[Len(main) + 1].task = t
      BY <2>1, <2>2
    <3> QED
      BY <2>2, <3>1, <3>2
  <2>4. \A s : Answered(s)' => Answered(s) \/ s = t
    BY <2>3 DEF Answered
  <2>5. Shape'
    BY <1>1, <1>9, <1>11, <2>2 DEF Inv, Shape, ScreensShape, TasksShape
  <2>6. TasksExist'
    BY <1>1, <1>5, <1>7, <1>11, <2>3 DEF Inv, Life, TasksExist
  <2>7. \A i, j \in DOMAIN main' : main'[i].task = main'[j].task => i = j
    BY <1>6, <2>3 DEF Inv, Life, OneLife, Answered
  <2>8. OneLife'
    BY <1>6, <1>7, <1>11, <2>4, <2>7 DEF Inv, Life, OneLife
  <2>9. WaitingIsOutstanding'
    BY <1>1, <1>4, <1>5, <1>7, <1>11, <2>4 DEF Inv, Life, WaitingIsOutstanding
  <2> QED
    BY <1>8, <2>5, <2>6, <2>8, <2>9 DEF Inv, Life
<1> QED
  <2>1. CASE \E l \in Pool(tasks[Current].url) :
               /\ subscription' = [subscription EXCEPT ![Current] = l]
               /\ UNCHANGED <<loads, main>>
    <3>1. PICK l \in Pool(tasks[Current].url) :
            subscription' = [subscription EXCEPT ![Current] = l] /\ main' = main
      BY <2>1
    <3>2. l \in Ids
      BY <3>1 DEF Pool, LoadIds
    <3>3. subscription' = [subscription EXCEPT ![t] = l]
      BY <1>3, <3>1
    <3> QED
      BY <1>10, <3>1, <3>2, <3>3
  <2>2. CASE main' = Append(main, Event(Current, TRUE)) /\ UNCHANGED <<loads, subscription>>
    <3>1. main' = Append(main, Event(t, TRUE)) /\ subscription' = subscription
      BY <1>3, <2>2 DEF Event
    <3> QED
      BY <1>11, <3>1
  <2>3. CASE /\ loads' = Append(loads, NewLoad(tasks[Current].url))
             /\ subscription' = [subscription EXCEPT ![Current] = Len(loads) + 1]
             /\ UNCHANGED main
    <3>1. main' = main /\ subscription' = [subscription EXCEPT ![t] = Len(loads) + 1]
      BY <1>3, <2>3
    <3>2. Len(loads) + 1 \in Ids
      BY DEF Ids
    <3> QED
      BY <1>10, <3>1, <3>2
  <2> QED
    BY <2>1, <2>2, <2>3 DEF StartImageTask

\* An ImageTask is cancelled: it leaves its second place for good.
LEMMA CancelStep ==
  ASSUME Inv, CancelImageTask
  PROVE  Inv'
<1> USE DEF screens
<1>1. /\ queue # <<>> /\ queue' = Tail(queue)
      /\ UNCHANGED <<screens, main, tasks>>
  BY DEF CancelImageTask, Running
<1>2. Quiet
  BY <1>1, RunFacts DEF Inv, Shape
<1>3. CASE subscription' = subscription
  BY <1>1, <1>2, <1>3, QuietStep
<1>4. CASE subscription' = [subscription EXCEPT ![Current] = 0]
  <2>1. /\ subscription \in [TaskIds -> Nat] /\ subscription' \in [TaskIds -> Nat]
        /\ \A t \in TaskIds : subscription'[t] = 0 \/ subscription'[t] = subscription[t]
    BY <1>4 DEF Inv, Shape, TasksShape
  <2>2. /\ \A t \in TaskIds : Starting(t)' => Starting(t)
        /\ \A i, j \in DOMAIN queue' : queue'[i].kind = "start" /\ queue'[i] = queue'[j] => i = j
        /\ \A i \in DOMAIN queue' :
             queue'[i].kind \in {"start", "cancel"} => queue'[i].id \in DOMAIN tasks
    BY <1>2, QuietFacts DEF Inv, Life, Shape, TasksShape
  <2>3. \A t : Answered(t)' <=> Answered(t)
    BY <1>1 DEF Answered
  <2>4. Shape'
    BY <1>1, <1>2, <2>1 DEF Inv, Shape, ScreensShape, TasksShape, Quiet
  <2>5. TasksExist' /\ OneLife'
    BY <1>1, <2>1, <2>2, <2>3 DEF Inv, Life, TasksExist, OneLife
  <2>6. DOMAIN tasks \subseteq TaskIds
    BY TaskFacts DEF Inv, Shape
  <2>7. WaitingIsOutstanding'
    BY <1>1, <2>1, <2>2, <2>3, <2>6 DEF Inv, Life, WaitingIsOutstanding
  <2>8. Screens'
    BY <1>1 DEF Inv, Screens, OutstandingFits, ClosedIsEmpty, PictureFits
  <2> QED
    BY <2>4, <2>5, <2>7, <2>8 DEF Inv, Life
<1> QED
  BY <1>3, <1>4 DEF CancelImageTask

-----------------------------------------------------------------------------
\* A call for an image.

\* Cancelling marks the outstanding task of the view and changes nothing else.
LEMMA CancelOutstandingFacts ==
  ASSUME Shape, OutstandingFits, NEW v \in Views
  PROVE  /\ CancelOutstanding(v) \in Seq(ImageType)
         /\ Len(CancelOutstanding(v)) = Len(tasks)
         /\ DOMAIN CancelOutstanding(v) = DOMAIN tasks
         /\ \A t \in DOMAIN tasks :
              /\ CancelOutstanding(v)[t].view = tasks[t].view
              /\ CancelOutstanding(v)[t].url = tasks[t].url
              /\ CancelOutstanding(v)[t].completion = tasks[t].completion
              /\ tasks[t].cancelled \/ t = task[v] => CancelOutstanding(v)[t].cancelled
              /\ CancelOutstanding(v)[t].cancelled => tasks[t].cancelled \/ t = task[v]
<1>1. /\ tasks \in Seq(ImageType) /\ None \notin TaskIds /\ DOMAIN tasks \subseteq TaskIds
      /\ \A t \in DOMAIN tasks : tasks[t] \in ImageType
  BY TaskFacts DEF Shape, TasksShape
<1>2. CASE task[v] = None
  BY <1>1, <1>2 DEF CancelOutstanding
<1>3. CASE task[v] # None
  <2> DEFINE c == [tasks[task[v]] EXCEPT !.cancelled = TRUE]
  <2>1. task[v] \in DOMAIN tasks
    BY <1>3 DEF OutstandingFits
  <2>2. CancelOutstanding(v) = [tasks EXCEPT ![task[v]] = c]
    BY <1>3 DEF CancelOutstanding
  <2>3. /\ c \in ImageType /\ c.cancelled = TRUE /\ c.view = tasks[task[v]].view
        /\ c.url = tasks[task[v]].url /\ c.completion = tasks[task[v]].completion
    BY <1>1, <2>1 DEF ImageType
  <2>4. /\ CancelOutstanding(v) \in Seq(ImageType)
        /\ Len(CancelOutstanding(v)) = Len(tasks)
        /\ DOMAIN CancelOutstanding(v) = DOMAIN tasks
    BY <1>1, <2>1, <2>2, <2>3, ExceptFacts
  <2>5. \A t \in DOMAIN tasks :
          CancelOutstanding(v)[t] = IF t = task[v] THEN c ELSE tasks[t]
    BY <1>1, <2>2
  <2> QED
    BY <2>3, <2>4, <2>5
<1> QED
  BY <1>2, <1>3

\* The pipeline hears of a cancellation after all it has been told before.
LEMMA CancelBlockFacts ==
  ASSUME Shape, OutstandingFits, NEW v \in Views
  PROVE  LET q == queue \o CancelBlock(v)
         IN  /\ q \in Seq(BlockType)
             /\ \A i \in DOMAIN queue : i \in DOMAIN q /\ q[i] = queue[i]
             /\ \A i \in DOMAIN q : i \notin DOMAIN queue =>
                  q[i].kind = "cancel" /\ q[i].id \in DOMAIN tasks
<1> DEFINE q == queue \o CancelBlock(v)
<1>1. queue \in Seq(BlockType) /\ DOMAIN tasks \subseteq Ids
  BY TaskFacts DEF Shape, TasksShape
<1>2. CASE task[v] = None
  <2>1. CancelBlock(v) = <<>>
    BY <1>2 DEF CancelBlock
  <2>2. q = queue
    BY <1>1, <2>1
  <2> QED
    BY <1>1, <2>2
<1>3. CASE task[v] # None
  <2>1. PICK t \in DOMAIN tasks : t = task[v]
    BY <1>3 DEF OutstandingFits
  <2>2. PICK b : b = Block("cancel", t)
    OBVIOUS
  <2>3. b \in BlockType /\ b.kind = "cancel" /\ b.id = t
    BY <1>1, <2>2 DEF Block, BlockType, Kinds
  <2>4. CancelBlock(v) = <<b>>
    BY <1>3, <2>1, <2>2 DEF CancelBlock
  <2>5. /\ q \in Seq(BlockType)
        /\ \A i \in DOMAIN queue : i \in DOMAIN q /\ q[i] = queue[i]
        /\ \A i \in DOMAIN q : i \notin DOMAIN queue => q[i] = b
    BY <1>1, <2>3, <2>4, PushFacts
  <2> QED
    BY <2>3, <2>5
<1> QED
  BY <1>2, <1>3

\* What a call does to the tasks: the outstanding one is cancelled, a new one
\* begins its life unless the image is at hand.
LEMMA LoadImageLife ==
  ASSUME Shape, Life, OutstandingFits, NEW v \in Views, NEW u \in Urls,
         NEW completion \in BOOLEAN, LoadImage(v, u, completion),
         Len(tasks) < MaxTasks, UNCHANGED <<main, subscription>>
  PROVE  /\ TasksShape' /\ Life'
         /\ task' \in [Views -> Nat \cup {None}]
         /\ \A w \in Views : w # v => task'[w] = task[w]
         /\ DOMAIN tasks \subseteq DOMAIN tasks'
         /\ \A t \in DOMAIN tasks :
              /\ tasks'[t].view = tasks[t].view
              /\ tasks'[t].url = tasks[t].url
              /\ tasks'[t].completion = tasks[t].completion
              /\ tasks'[t].cancelled => tasks[t].cancelled \/ t = task[v]
         /\ task'[v] # None =>
              /\ task'[v] \in DOMAIN tasks'
              /\ tasks'[task'[v]].view = v /\ tasks'[task'[v]].url = u
              /\ tasks'[task'[v]].completion = completion
              /\ ~tasks'[task'[v]].cancelled
         /\ Len(tasks') <= Len(tasks) + 1
<1> DEFINE new == Len(tasks) + 1
           c == CancelOutstanding(v)
           q == queue \o CancelBlock(v)
           r == [view |-> v, url |-> u, completion |-> completion, cancelled |-> FALSE]
           b == Block("start", new)
<1>1. /\ c \in Seq(ImageType)
      /\ Len(c) = Len(tasks) /\ DOMAIN c = DOMAIN tasks
      /\ \A t \in DOMAIN tasks :
           /\ c[t].view = tasks[t].view
           /\ c[t].url = tasks[t].url
           /\ c[t].completion = tasks[t].completion
           /\ tasks[t].cancelled \/ t = task[v] => c[t].cancelled
           /\ c[t].cancelled => tasks[t].cancelled \/ t = task[v]
  BY CancelOutstandingFacts
<1>2. /\ q \in Seq(BlockType)
      /\ \A i \in DOMAIN queue : i \in DOMAIN q /\ q[i] = queue[i]
      /\ \A i \in DOMAIN q : i \notin DOMAIN queue => q[i].kind = "cancel" /\ q[i].id \in DOMAIN tasks
  BY CancelBlockFacts
<1>3. /\ Len(tasks) \in Nat /\ DOMAIN tasks = 1 .. Len(tasks)
      /\ DOMAIN tasks \subseteq TaskIds /\ TaskIds \subseteq Ids
      /\ None \notin TaskIds /\ 0 \notin TaskIds
      /\ new \in TaskIds /\ new \notin DOMAIN tasks
      /\ task \in [Views -> Nat \cup {None}]
  <2>1. /\ Len(tasks) \in Nat /\ DOMAIN tasks = 1 .. Len(tasks)
        /\ DOMAIN tasks \subseteq TaskIds /\ TaskIds \subseteq Ids
        /\ None \notin TaskIds /\ 0 \notin TaskIds
    BY TaskFacts DEF Shape
  <2>2. new \in TaskIds /\ new \notin DOMAIN tasks
    BY <2>1, ImageLoadingAssumption DEF TaskIds
  <2> QED
    BY <2>1, <2>2 DEF Shape, ScreensShape
<1>4. \A t : Answered(t)' <=> Answered(t)
  BY DEF Answered
<1>5. /\ main \in Seq(EventType) /\ subscription \in [TaskIds -> Nat] /\ Len(tasks) <= MaxTasks
      /\ queue \in Seq(BlockType)
  BY DEF Shape, TasksShape
<1>6. \A t \in DOMAIN tasks :
        Starting(t) \/ subscription[t] # 0 \/ Answered(t) =>
          c[t].cancelled \/ (tasks[t].view # v /\ task[tasks[t].view] = t)
  BY <1>1 DEF Life, WaitingIsOutstanding
<1>7. \A t \in DOMAIN tasks : tasks[t].view \in Views
  BY TaskFacts DEF Shape
<1> HIDE DEF new, c, q
<1>8. CASE task' = [task EXCEPT ![v] = None] /\ tasks' = c /\ queue' = q
  <2>1. \A t \in TaskIds : Starting(t)' => Starting(t)
    BY <1>2, <1>8 DEF Starting, Block
  <2>2. TasksShape'
    BY <1>1, <1>2, <1>5, <1>8 DEF TasksShape
  <2>3. TasksExist'
    BY <1>1, <1>2, <1>8 DEF Life, TasksExist
  <2>4. OneLife'
    <3>1. \A i, j \in DOMAIN queue' : queue'[i].kind = "start" /\ queue'[i] = queue'[j] => i = j
      BY <1>2, <1>8 DEF Life, OneLife
    <3> QED
      BY <1>4, <2>1, <3>1 DEF Life, OneLife
  <2>5. WaitingIsOutstanding'
    BY <1>1, <1>3, <1>4, <1>6, <1>7, <1>8, <2>1 DEF WaitingIsOutstanding
  <2>6. task' \in [Views -> Nat \cup {None}] /\ task'[v] = None
    BY <1>3, <1>8
  <2> QED
    BY <1>1, <1>3, <1>8, <2>2, <2>3, <2>4, <2>5, <2>6 DEF Life
<1>9. CASE task' = [task EXCEPT ![v] = new] /\ tasks' = Append(c, r) /\ queue' = q \o <<b>>
  <2>1. /\ tasks' \in Seq(ImageType)
        /\ DOMAIN tasks' = 1 .. Len(tasks) + 1 /\ Len(tasks') = Len(tasks) + 1
        /\ \A t \in DOMAIN tasks : t \in DOMAIN tasks' /\ tasks'[t] = c[t]
        /\ new \in DOMAIN tasks' /\ tasks'[new] = r
        /\ \A t \in DOMAIN tasks' : t \in DOMAIN tasks \/ t = new
    <3>1. PICK e \in ImageType : e = r
      BY DEF ImageType
    <3>2. /\ tasks' \in Seq(ImageType)
          /\ DOMAIN tasks' = 1 .. Len(c) + 1
          /\ \A t \in DOMAIN c : tasks'[t] = c[t]
          /\ tasks'[Len(c) + 1] = e
      BY <1>1, <1>9, <3>1, AppendFacts
    <3>3. Len(tasks') = Len(tasks) + 1
      BY <1>1, <1>3, <3>2
    <3> QED
      BY <1>1, <1>3, <3>1, <3>2, <3>3 DEF new
  <2>2. b \in BlockType /\ b.kind = "start" /\ b.id = new
    BY <1>3 DEF Block, BlockType, Kinds
  <2>3. /\ queue' \in Seq(BlockType)
        /\ \A i \in DOMAIN q : i \in DOMAIN queue' /\ queue'[i] = q[i]
        /\ \A i \in DOMAIN queue' : i \notin DOMAIN q => queue'[i] = b
        /\ \A i, j \in DOMAIN queue' : i \notin DOMAIN q /\ j \notin DOMAIN q => i = j
    <3>1. PICK e \in BlockType : e = b
      BY <2>2
    <3> QED
      BY <1>2, <1>9, <3>1, PushFacts
  <2>4. subscription[new] = 0 /\ ~Answered(new) /\ ~Starting(new)
    BY <1>3 DEF Life, TasksExist, Answered, Starting, Block
  <2>5. \A t \in TaskIds : Starting(t)' => Starting(t) \/ t = new
    BY <1>2, <2>2, <2>3 DEF Starting, Block
  <2>6. \A i \in DOMAIN queue' : queue'[i].kind \in {"start", "cancel"} => queue'[i].id \in DOMAIN tasks'
    <3>1. \A i \in DOMAIN q : q[i].kind \in {"start", "cancel"} => q[i].id \in DOMAIN tasks
      BY <1>2 DEF Life, TasksExist
    <3> QED
      BY <2>1, <2>2, <2>3, <3>1
  <2>7. TasksExist'
    BY <2>1, <2>6 DEF Life, TasksExist
  <2>8. \A i, j \in DOMAIN queue' : queue'[i].kind = "start" /\ queue'[i] = queue'[j] => i = j
    <3>1. \A i \in DOMAIN q : q[i] # b
      <4>1. \A i \in DOMAIN queue : queue[i] # b
        BY <2>4 DEF Starting
      <4> QED
        BY <1>2, <2>2, <4>1
    <3>2. \A i, j \in DOMAIN q : q[i].kind = "start" /\ q[i] = q[j] => i = j
      BY <1>2 DEF Life, OneLife
    <3> QED
      BY <2>3, <3>1, <3>2
  <2>9. OneLife'
    BY <1>4, <2>4, <2>5, <2>8 DEF Life, OneLife
  <2>10. WaitingIsOutstanding'
    <3>1. ASSUME NEW t \in DOMAIN tasks', Starting(t)' \/ subscription'[t] # 0 \/ Answered(t)'
          PROVE  tasks'[t].cancelled \/ task'[tasks'[t].view] = t
      <4>1. CASE t = new
        BY <1>3, <1>9, <2>1, <4>1
      <4>2. CASE t # new
        <5>1. t \in DOMAIN tasks /\ tasks'[t] = c[t]
          BY <2>1, <4>2
        <5>2. c[t].cancelled \/ (tasks[t].view # v /\ task[tasks[t].view] = t)
          BY <1>3, <1>4, <1>6, <2>5, <3>1, <4>2, <5>1
        <5> QED
          BY <1>1, <1>3, <1>7, <1>9, <5>1, <5>2
      <4> QED
        BY <4>1, <4>2
    <3> QED
      BY <3>1 DEF WaitingIsOutstanding
  <2>11. TasksShape'
    <3>1. Len(tasks') <= MaxTasks
      BY <1>3, <2>1, ImageLoadingAssumption
    <3> QED
      BY <1>5, <2>1, <2>3, <3>1 DEF TasksShape
  <2>12. task' \in [Views -> Nat \cup {None}] /\ task'[v] = new
    BY <1>3, <1>9 DEF Ids
  <2> QED
    BY <1>1, <1>3, <1>9, <2>1, <2>7, <2>9, <2>10, <2>11, <2>12 DEF Life
<1> QED
  BY <1>8, <1>9 DEF LoadImage, new, c, q

\* The first of the two calls.  A screen without article has nothing to cancel.
LEMMA OpenStep ==
  ASSUME Inv, NEW v \in Views, NEW u \in Urls, OpenArticle(v, u)
  PROVE  Inv'
<1>1. /\ calling = None /\ article[v] = None /\ Len(tasks) + 2 <= MaxTasks
      /\ article' = [article EXCEPT ![v] = u] /\ calling' = v
      /\ LoadImage(v, u, FALSE) /\ UNCHANGED <<main, subscription>>
  BY DEF OpenArticle
<1>2. Len(tasks) \in Nat /\ MaxTasks \in Nat /\ None \notin Urls /\ None \notin Views
  BY TaskFacts, ImageLoadingAssumption DEF Inv, Shape
<1>3. Len(tasks) < MaxTasks
  BY <1>1, <1>2
<1>4. /\ TasksShape' /\ Life'
      /\ task' \in [Views -> Nat \cup {None}]
      /\ \A w \in Views : w # v => task'[w] = task[w]
      /\ DOMAIN tasks \subseteq DOMAIN tasks'
      /\ \A t \in DOMAIN tasks :
           /\ tasks'[t].view = tasks[t].view
           /\ tasks'[t].url = tasks[t].url
           /\ tasks'[t].completion = tasks[t].completion
           /\ tasks'[t].cancelled => tasks[t].cancelled \/ t = task[v]
      /\ task'[v] # None =>
           /\ task'[v] \in DOMAIN tasks'
           /\ tasks'[task'[v]].view = v /\ tasks'[task'[v]].url = u
           /\ tasks'[task'[v]].completion = FALSE
           /\ ~tasks'[task'[v]].cancelled
      /\ Len(tasks') <= Len(tasks) + 1
  BY <1>1, <1>3, LoadImageLife DEF Inv, Screens
<1>5. task[v] = None /\ shown[v] = None
  BY <1>1 DEF Inv, Screens, ClosedIsEmpty
<1>6. /\ article \in [Views -> Urls \cup {None}] /\ shown \in [Views -> Urls \cup {None}]
      /\ rated \in [Views -> BOOLEAN]
  BY DEF Inv, Shape, ScreensShape
<1>7. /\ shown' \in [Views -> Urls \cup {None}] /\ rated' \in [Views -> BOOLEAN]
      /\ shown'[v] \in {u, None} /\ rated' = rated
      /\ \A w \in Views : w # v => shown'[w] = shown[w]
  BY <1>1, <1>6, ZenonT(30) DEF LoadImage
<1>8. /\ article' \in [Views -> Urls \cup {None}] /\ article'[v] = u
      /\ \A w \in Views : w # v => article'[w] = article[w]
  BY <1>1, <1>6
<1>9. Shape'
  BY <1>1, <1>4, <1>7, <1>8 DEF Shape, ScreensShape
<1>10. OutstandingFits'
  <2>1. ASSUME NEW w \in Views, w # v, task'[w] # None
        PROVE  /\ task'[w] \in DOMAIN tasks'
               /\ ~tasks'[task'[w]].cancelled
               /\ tasks'[task'[w]].view = w
               /\ tasks'[task'[w]].url = article'[w]
               /\ tasks'[task'[w]].completion
    <3>1. PICK t \in DOMAIN tasks : /\ t = task[w] /\ ~tasks[t].cancelled /\ tasks[t].view = w
                                    /\ tasks[t].url = article[w] /\ tasks[t].completion
      BY <1>1, <1>2, <1>4, <2>1 DEF Inv, Screens, OutstandingFits
    <3>2. t # task[v]
      BY <1>5, <1>4, <2>1, <3>1
    <3> QED
      BY <1>4, <1>8, <2>1, <3>1, <3>2
  <2> QED
    BY <1>1, <1>4, <1>8, <2>1 DEF OutstandingFits
<1>11. ClosedIsEmpty'
  <2>1. \A w \in Views : article'[w] = None => shown'[w] = None /\ task'[w] = None
    BY <1>2, <1>4, <1>7, <1>8 DEF Inv, Screens, ClosedIsEmpty
  <2>2. TasksShape' => Len(tasks') \in Nat
    BY DEF TasksShape
  <2> QED
    BY <1>1, <1>2, <1>4, <1>8, <2>1, <2>2 DEF ClosedIsEmpty
<1>12. PictureFits'
  BY <1>1, <1>2, <1>7, <1>8 DEF Inv, Screens, PictureFits
<1> QED
  BY <1>4, <1>9, <1>10, <1>11, <1>12 DEF Inv, Screens

\* The second call puts the same image in the first one's place.
LEMMA CallStep ==
  ASSUME Inv, CallAgain
  PROVE  Inv'
<1>1. PICK v \in Views : v = calling
  BY DEF CallAgain, Inv, Shape, ScreensShape
<1>2. PICK u \in Urls : u = article[v]
  BY <1>1 DEF CallAgain, Inv, Shape, ScreensShape, Screens, ClosedIsEmpty
<1>3. /\ calling' = None /\ LoadImage(v, u, TRUE) /\ UNCHANGED <<article, main, subscription>>
  BY <1>1, <1>2 DEF CallAgain
<1>4. None \notin Urls /\ None \notin Views
  BY ImageLoadingAssumption
<1>5. Len(tasks) < MaxTasks
  BY <1>1, <1>4 DEF Inv, Screens, ClosedIsEmpty
<1>6. /\ TasksShape' /\ Life'
      /\ task' \in [Views -> Nat \cup {None}]
      /\ \A w \in Views : w # v => task'[w] = task[w]
      /\ DOMAIN tasks \subseteq DOMAIN tasks'
      /\ \A t \in DOMAIN tasks :
           /\ tasks'[t].view = tasks[t].view
           /\ tasks'[t].url = tasks[t].url
           /\ tasks'[t].completion = tasks[t].completion
           /\ tasks'[t].cancelled => tasks[t].cancelled \/ t = task[v]
      /\ task'[v] # None =>
           /\ task'[v] \in DOMAIN tasks'
           /\ tasks'[task'[v]].view = v /\ tasks'[task'[v]].url = u
           /\ tasks'[task'[v]].completion = TRUE
           /\ ~tasks'[task'[v]].cancelled
      /\ Len(tasks') <= Len(tasks) + 1
  BY <1>3, <1>5, LoadImageLife DEF Inv, Screens
<1>7. /\ article \in [Views -> Urls \cup {None}] /\ shown \in [Views -> Urls \cup {None}]
      /\ rated \in [Views -> BOOLEAN]
  BY DEF Inv, Shape, ScreensShape
<1>8. /\ shown' \in [Views -> Urls \cup {None}] /\ rated' \in [Views -> BOOLEAN]
      /\ shown'[v] = None \/ (shown'[v] = u /\ rated'[v])
      /\ \A w \in Views : w # v => shown'[w] = shown[w] /\ rated'[w] = rated[w]
  BY <1>3, <1>7 DEF LoadImage
<1>9. Shape'
  BY <1>3, <1>6, <1>7, <1>8 DEF Shape, ScreensShape
<1>10. OutstandingFits'
  <2>1. ASSUME NEW w \in Views, w # v, task'[w] # None
        PROVE  /\ task'[w] \in DOMAIN tasks'
               /\ ~tasks'[task'[w]].cancelled
               /\ tasks'[task'[w]].view = w
               /\ tasks'[task'[w]].url = article'[w]
               /\ tasks'[task'[w]].completion
    <3>1. PICK t \in DOMAIN tasks : /\ t = task[w] /\ ~tasks[t].cancelled /\ tasks[t].view = w
                                    /\ tasks[t].url = article[w] /\ tasks[t].completion
      BY <1>1, <1>6, <2>1 DEF Inv, Screens, OutstandingFits
    <3>2. t # task[v]
      <4>1. None \notin DOMAIN tasks
        BY TaskFacts DEF Inv, Shape
      <4> QED
        BY <2>1, <3>1, <4>1 DEF Inv, Screens, OutstandingFits
    <3> QED
      BY <1>3, <1>6, <2>1, <3>1, <3>2
  <2> QED
    BY <1>2, <1>3, <1>6, <2>1 DEF OutstandingFits
<1>11. ClosedIsEmpty'
  BY <1>2, <1>3, <1>4, <1>6, <1>8 DEF Inv, Screens, ClosedIsEmpty
<1>12. PictureFits'
  BY <1>1, <1>2, <1>3, <1>8 DEF Inv, Screens, PictureFits
<1> QED
  BY <1>6, <1>9, <1>10, <1>11, <1>12 DEF Inv, Screens

\* The view goes away, empty-handed.
LEMMA CloseStep ==
  ASSUME Inv, NEW v \in Views, CloseArticle(v)
  PROVE  Inv'
<1>1. /\ calling = None /\ task[v] = None
      /\ article' = [article EXCEPT ![v] = None]
      /\ shown' = [shown EXCEPT ![v] = None]
      /\ rated' = [rated EXCEPT ![v] = FALSE]
      /\ UNCHANGED <<task, calling, main, tasks, queue, subscription>>
  BY DEF CloseArticle
<1>2. /\ article \in [Views -> Urls \cup {None}] /\ shown \in [Views -> Urls \cup {None}]
      /\ rated \in [Views -> BOOLEAN]
  BY DEF Inv, Shape, ScreensShape
<1>3. /\ article' \in [Views -> Urls \cup {None}] /\ shown' \in [Views -> Urls \cup {None}]
      /\ rated' \in [Views -> BOOLEAN]
      /\ article'[v] = None /\ shown'[v] = None
      /\ \A w \in Views : w # v =>
           article'[w] = article[w] /\ shown'[w] = shown[w] /\ rated'[w] = rated[w]
  BY <1>1, <1>2
<1>4. Shape'
  BY <1>1, <1>3 DEF Inv, Shape, ScreensShape, TasksShape
<1>5. \A t : (Starting(t)' <=> Starting(t)) /\ (Answered(t)' <=> Answered(t))
  BY <1>1 DEF Starting, Answered
<1>6. Life'
  BY <1>1, <1>5 DEF Inv, Life, TasksExist, OneLife, WaitingIsOutstanding
<1>7. OutstandingFits'
  BY <1>1, <1>3 DEF Inv, Screens, OutstandingFits
<1>8. ClosedIsEmpty' /\ PictureFits'
  BY <1>1, <1>3 DEF Inv, Screens, ClosedIsEmpty, PictureFits
<1> QED
  BY <1>4, <1>6, <1>7, <1>8 DEF Inv, Screens

-----------------------------------------------------------------------------
\* The loads.

\* How a load ends.
LEMMA LoadRecords ==
  ASSUME NEW load \in LoadType, NEW running \in BOOLEAN
  PROVE  Gone(load) \in LoadType /\ Terminated(load, running) \in LoadType
<1>1. Gone(load) \in LoadType
  BY DEF Gone, NewLoad, LoadType
<1>2. Terminated(load, running) \in LoadType
  BY DEF Terminated, LoadType
<1> QED
  BY <1>1, <1>2

\* A load changes in place.
LEMMA LoadChanges ==
  ASSUME LoadsShape, NEW l \in LoadIds, NEW r \in LoadType,
         loads' = [loads EXCEPT ![l] = r]
  PROVE  loads' \in Seq(LoadType) /\ LoadIds' = LoadIds
BY ExceptFacts DEF LoadsShape, LoadIds

\* Loads are never taken away, so that names stay good.
LEMMA NamesStayGood ==
  ASSUME LoadsNamed, LoadIds \subseteq LoadIds',
         \A i \in DOMAIN queue' :
           queue'[i].kind \notin {"start", "cancel"} =>
             (\E j \in DOMAIN queue : queue[j] = queue'[i]) \/ queue'[i].id \in LoadIds',
         \A t \in TaskIds :
           subscription'[t] # 0 =>
             subscription'[t] = subscription[t] \/ subscription'[t] \in LoadIds'
  PROVE  LoadsNamed'
<1>1. ASSUME NEW i \in DOMAIN queue', queue'[i].kind \notin {"start", "cancel"}
      PROVE  queue'[i].id \in LoadIds'
  BY <1>1 DEF LoadsNamed
<1>2. ASSUME NEW t \in TaskIds, subscription'[t] # 0
      PROVE  subscription'[t] \in LoadIds'
  BY <1>2 DEF LoadsNamed
<1> QED
  BY <1>1, <1>2 DEF LoadsNamed

\* What the queue names after a block has been run.
LEMMA PopNames ==
  ASSUME queue \in Seq(BlockType), queue # <<>>, queue' = Tail(queue)
  PROVE  \A i \in DOMAIN queue' : \E j \in DOMAIN queue : queue[j] = queue'[i]
BY TailFacts

\* What the queue names after a block has been posted.
LEMMA PostNames ==
  ASSUME queue \in Seq(BlockType), NEW kind \in Kinds, NEW l \in Ids, Post(kind, l)
  PROVE  \A i \in DOMAIN queue' :
           (\E j \in DOMAIN queue : queue[j] = queue'[i]) \/ queue'[i].id = l
<1>1. PICK b \in BlockType : b = Block(kind, l) /\ b.id = l
  <2>1. Block(kind, l) \in BlockType /\ Block(kind, l).id = l
    BY DEF Block, BlockType
  <2> QED
    BY <2>1, Zenon
<1>2. /\ Len(queue) \in Nat /\ DOMAIN queue = 1 .. Len(queue)
      /\ DOMAIN queue' = 1 .. Len(queue) + 1
      /\ \A i \in DOMAIN queue : queue'[i] = queue[i]
      /\ queue'[Len(queue) + 1] = b
  BY <1>1, AppendFacts DEF Post
<1>3. \A i \in DOMAIN queue' : i \in DOMAIN queue \/ i = Len(queue) + 1
  BY <1>2
<1> QED
  BY <1>1, <1>2, <1>3

\* A call for an image puts blocks about ImageTasks on the queue, and no other.
LEMMA CallAppends ==
  ASSUME Shape, OutstandingFits, NEW v \in Views, NEW u \in Urls, NEW completion \in BOOLEAN,
         LoadImage(v, u, completion)
  PROVE  /\ queue' \in Seq(BlockType)
         /\ \A i \in DOMAIN queue : i \in DOMAIN queue' /\ queue'[i] = queue[i]
         /\ \A i \in DOMAIN queue' : i \notin DOMAIN queue => queue'[i].kind \in {"start", "cancel"}
<1> DEFINE q == queue \o CancelBlock(v)
           new == Len(tasks) + 1
<1>1. /\ q \in Seq(BlockType)
      /\ \A i \in DOMAIN queue : i \in DOMAIN q /\ q[i] = queue[i]
      /\ \A i \in DOMAIN q : i \notin DOMAIN queue => q[i].kind = "cancel"
  BY CancelBlockFacts
<1>2. PICK b \in BlockType : b = Block("start", new) /\ b.kind = "start"
  <2>1. new \in Ids
    BY TaskFacts DEF Shape, Ids
  <2> HIDE DEF new
  <2>2. Block("start", new) \in BlockType /\ Block("start", new).kind = "start"
    BY <2>1 DEF Block, BlockType, Kinds
  <2> QED
    BY <2>2
<1>3. queue' = q \/ queue' = q \o <<b>>
  BY <1>2 DEF LoadImage
<1> HIDE DEF q
<1>4. CASE queue' = q
  BY <1>1, <1>4
<1>5. CASE queue' = q \o <<b>>
  <2>1. /\ queue' \in Seq(BlockType)
        /\ \A i \in DOMAIN q : i \in DOMAIN queue' /\ queue'[i] = q[i]
        /\ \A i \in DOMAIN queue' : i \notin DOMAIN q => queue'[i] = b
    BY <1>1, <1>5, PushFacts
  <2> QED
    BY <1>1, <1>2, <2>1
<1> QED
  BY <1>3, <1>4, <1>5

\* A call for an image names no load.
LEMMA CallNames ==
  ASSUME Shape, OutstandingFits, NEW v \in Views, NEW u \in Urls, NEW completion \in BOOLEAN,
         LoadImage(v, u, completion)
  PROVE  \A i \in DOMAIN queue' :
           queue'[i].kind \notin {"start", "cancel"} => \E j \in DOMAIN queue : queue[j] = queue'[i]
BY CallAppends

\* What is known of the loads.
LEMMA LoadFacts ==
  ASSUME LoadsShape
  PROVE  /\ loads \in Seq(LoadType) /\ resumable \in [Urls -> Nat]
         /\ Len(loads) \in Nat /\ LoadIds = 1 .. Len(loads) /\ LoadIds \subseteq Ids
         /\ \A l \in LoadIds : loads[l] \in LoadType /\ Saved(l) \in [Urls -> Nat]
<1>1. /\ loads \in Seq(LoadType) /\ resumable \in [Urls -> Nat]
      /\ Len(loads) \in Nat /\ LoadIds = 1 .. Len(loads)
  BY DEF LoadsShape, LoadIds
<1>2. LoadIds \subseteq Ids
  BY <1>1 DEF Ids
<1>3. \A l \in LoadIds : loads[l] \in LoadType
  BY <1>1
<1>4. ASSUME NEW l \in LoadIds
      PROVE  Saved(l) \in [Urls -> Nat]
  <2>1. PICK n \in Nat : n = loads[l].data
    BY <1>3 DEF LoadType
  <2>2. [resumable EXCEPT ![loads[l].url] = n] \in [Urls -> Nat]
    BY <1>1
  <2> QED
    BY <1>1, <2>1, <2>2 DEF Saved
<1> QED
  BY <1>1, <1>2, <1>3, <1>4

\* The pipeline keeps its loads in shape.
LEMMA RunLoads ==
  ASSUME Inv, LoadsShape, PipelineRuns
  PROVE  LoadsShape'
<1>1. queue # <<>> /\ queue' = Tail(queue)
  BY DEF PipelineRuns, StartImageTask, CancelImageTask, LoadImageData, ReceiveData,
         DownloadFinished, DownloadFailed, DecodingEnded, DecodingFailed, DecompressionEnded,
         Running
<1>2. \A i \in DOMAIN queue' : \E j \in DOMAIN queue : queue[j] = queue'[i]
  BY <1>1, PopNames DEF Inv, Shape, TasksShape
<1>3. 1 \in DOMAIN queue /\ Head(queue) = queue[1]
  BY <1>1, RunFacts DEF Inv, Shape
<1>4. /\ loads \in Seq(LoadType) /\ resumable \in [Urls -> Nat]
      /\ Len(loads) \in Nat /\ LoadIds = 1 .. Len(loads) /\ LoadIds \subseteq Ids
      /\ \A l \in LoadIds : loads[l] \in LoadType /\ Saved(l) \in [Urls -> Nat]
  BY LoadFacts
<1>5. ASSUME loads' \in Seq(LoadType), LoadIds \subseteq LoadIds',
             resumable' \in [Urls -> Nat],
             \A t \in TaskIds :
               subscription'[t] # 0 =>
                 subscription'[t] = subscription[t] \/ subscription'[t] \in LoadIds'
      PROVE  LoadsShape'
  <2>1. LoadsNamed'
    BY <1>2, <1>5, NamesStayGood DEF LoadsShape
  <2> QED
    BY <1>5, <2>1 DEF LoadsShape
<1>6. subscription \in [TaskIds -> Nat]
  BY DEF Inv, Shape, TasksShape
<1>7. Head(queue).kind \in {"start", "cancel"} =>
        /\ Current \in DOMAIN tasks /\ Current \in TaskIds /\ tasks[Current].url \in Urls
  BY <1>3, TaskFacts DEF Inv, Shape, Life, TasksExist, Current
<1>8. Head(queue).kind \notin {"start", "cancel"} => Current \in LoadIds
  BY <1>3 DEF LoadsShape, LoadsNamed, Current
<1>9. CASE StartImageTask
  <2>1. Current \in TaskIds /\ tasks[Current].url \in Urls /\ resumable' = resumable
    BY <1>7, <1>9 DEF StartImageTask, Running
  <2>2. CASE UNCHANGED loads /\ \E l \in Pool(tasks[Current].url) :
               subscription' = [subscription EXCEPT ![Current] = l]
    <3>1. LoadIds' = LoadIds
      BY <2>2 DEF LoadIds
    <3>2. \A t \in TaskIds : subscription'[t] = subscription[t] \/ subscription'[t] \in LoadIds
      BY <1>6, <2>2 DEF Pool
    <3> QED
      BY <1>4, <1>5, <2>1, <2>2, <3>1, <3>2
  <2>3. CASE UNCHANGED <<loads, subscription>>
    <3>1. LoadIds' = LoadIds
      BY <2>3 DEF LoadIds
    <3> QED
      BY <1>4, <1>5, <2>1, <2>3, <3>1
  <2>4. CASE /\ loads' = Append(loads, NewLoad(tasks[Current].url))
             /\ subscription' = [subscription EXCEPT ![Current] = Len(loads) + 1]
    <3>1. PICK r \in LoadType : r = NewLoad(tasks[Current].url)
      BY <2>1 DEF NewLoad, LoadType
    <3>2. loads' \in Seq(LoadType) /\ DOMAIN loads' = 1 .. Len(loads) + 1
      BY <1>4, <2>4, <3>1, AppendFacts
    <3>3. LoadIds \subseteq LoadIds' /\ Len(loads) + 1 \in LoadIds'
      BY <1>4, <3>2 DEF LoadIds
    <3>4. \A t \in TaskIds :
            subscription'[t] = subscription[t] \/ subscription'[t] = Len(loads) + 1
      BY <1>6, <2>4
    <3> QED
      BY <1>4, <1>5, <2>1, <3>2, <3>3, <3>4
  <2> QED
    BY <1>9, <2>2, <2>3, <2>4 DEF StartImageTask
<1>10. CASE CancelImageTask
  <2>1. Current \in TaskIds
    BY <1>7, <1>10 DEF CancelImageTask, Running
  <2>2. \A t \in TaskIds : subscription'[t] # 0 => subscription'[t] = subscription[t]
    BY <1>6, <1>10, <2>1 DEF CancelImageTask
  <2>3. CASE UNCHANGED <<loads, resumable>>
    <3>1. LoadIds' = LoadIds
      BY <2>3 DEF LoadIds
    <3> QED
      BY <1>4, <1>5, <2>2, <2>3, <3>1
  <2>4. CASE ~UNCHANGED <<loads, resumable>>
    <3>1. PICK l \in LoadIds : /\ \E running \in BOOLEAN :
                                   loads' = [loads EXCEPT ![l] = Terminated(loads[l], running)]
                               /\ resumable' = resumable \/ resumable' = Saved(l)
      BY <1>10, <2>1, <2>4 DEF CancelImageTask, LoadsShape, LoadsNamed
    <3>2. PICK r \in LoadType : loads' = [loads EXCEPT ![l] = r]
      <4>1. PICK running \in BOOLEAN :
              loads' = [loads EXCEPT ![l] = Terminated(loads[l], running)]
        BY <3>1
      <4>2. Terminated(loads[l], running) \in LoadType
        BY <1>4, LoadRecords
      <4> QED
        BY <4>1, <4>2
    <3>3. loads' \in Seq(LoadType) /\ LoadIds' = LoadIds
      BY <3>2, LoadChanges
    <3> QED
      BY <1>4, <1>5, <2>2, <3>1, <3>3
  <2> QED
    BY <2>3, <2>4
<1>11. ASSUME Current \in LoadIds, resumable' \in [Urls -> Nat], UNCHANGED subscription,
              UNCHANGED loads \/ \E r \in LoadType : loads' = [loads EXCEPT ![Current] = r]
       PROVE  LoadsShape'
  <2>1. loads' \in Seq(LoadType) /\ LoadIds' = LoadIds
    <3>1. CASE UNCHANGED loads
      BY <1>4, <3>1 DEF LoadIds
    <3>2. CASE \E r \in LoadType : loads' = [loads EXCEPT ![Current] = r]
      BY <1>11, <3>2, LoadChanges
    <3> QED
      BY <1>11, <3>1, <3>2
  <2> QED
    BY <1>5, <1>11, <2>1
<1>12. ASSUME Current \in LoadIds, resumable' \in [Urls -> Nat], NEW loaded \in BOOLEAN,
              FinishUnlessDisposed(loaded)
       PROVE  LoadsShape'
  <2>1. CASE UNCHANGED <<loads, subscription>>
    BY <1>11, <1>12, <2>1
  <2>2. CASE Finish(Current, loaded)
    <3>1. PICK r \in LoadType : loads' = [loads EXCEPT ![Current] = r]
      <4>1. Gone(loads[Current]) \in LoadType
        BY <1>4, <1>12, LoadRecords
      <4> QED
        BY <2>2, <4>1 DEF Finish
    <3>2. loads' \in Seq(LoadType) /\ LoadIds' = LoadIds
      BY <1>12, <3>1, LoadChanges
    <3>3. \A t \in TaskIds : subscription'[t] # 0 => subscription'[t] = subscription[t]
      BY <2>2 DEF Finish
    <3> QED
      BY <1>5, <1>12, <3>2, <3>3
  <2> QED
    BY <1>12, <2>1, <2>2 DEF FinishUnlessDisposed
<1>13. CASE LoadImageData
  <2>1. Current \in LoadIds /\ UNCHANGED subscription
    BY <1>8, <1>13 DEF LoadImageData, Running
  <2>2. PICK load \in LoadType : load = loads[Current]
    BY <1>4, <2>1
  <2>3. CASE load.disposed
    <3>1. loads' = [loads EXCEPT ![Current] = [load EXCEPT !.op = "finished"]]
      BY <1>13, <2>2, <2>3 DEF LoadImageData
    <3>2. [load EXCEPT !.op = "finished"] \in LoadType
      BY DEF LoadType
    <3>3. resumable' = resumable
      BY <1>13, <2>2, <2>3 DEF LoadImageData
    <3> QED
      BY <1>4, <1>11, <2>1, <3>1, <3>2, <3>3
  <2>4. CASE ~load.disposed
    <3>1. PICK n \in Nat : n = resumable[load.url]
      BY <1>4 DEF LoadType
    <3>2. loads' = [loads EXCEPT ![Current] = [load EXCEPT !.conn = "asked", !.resumed = n]]
      BY <1>4, <1>13, <2>1, <2>2, <2>4, <3>1 DEF LoadImageData
    <3>3. [load EXCEPT !.conn = "asked", !.resumed = n] \in LoadType
      BY DEF LoadType
    <3>4. resumable' \in [Urls -> Nat]
      BY <1>4, <1>13, <2>2, <2>4 DEF LoadImageData
    <3> QED
      BY <1>11, <2>1, <3>2, <3>3, <3>4
  <2> QED
    BY <2>3, <2>4
<1>14. CASE ReceiveData
  <2>1. Current \in LoadIds /\ UNCHANGED <<subscription, resumable>>
    BY <1>8, <1>14 DEF ReceiveData, Running
  <2>2. PICK load \in LoadType : load = loads[Current]
    BY <1>4, <2>1
  <2>3. PICK n \in Nat : n = Received(load)
    BY DEF Received, LoadType
  <2>4. loads' = [loads EXCEPT ![Current] =
                    [load EXCEPT !.data = n, !.status = load.reply, !.resumed = 0]]
    BY <1>4, <1>14, <2>1, <2>2, <2>3 DEF ReceiveData
  <2>5. [load EXCEPT !.data = n, !.status = load.reply, !.resumed = 0] \in LoadType
    BY DEF LoadType
  <2> QED
    BY <1>4, <1>11, <2>1, <2>4, <2>5
<1>15. CASE DownloadFinished
  <2>1. Current \in LoadIds /\ UNCHANGED <<subscription, resumable>>
    BY <1>8, <1>15 DEF DownloadFinished, Running
  <2>2. PICK load \in LoadType : load = loads[Current]
    BY <1>4, <2>1
  <2>3. \/ UNCHANGED loads
        \/ loads' = [loads EXCEPT ![Current] = [load EXCEPT !.conn = "done", !.work = "decode"]]
    BY <1>4, <1>15, <2>1, <2>2 DEF DownloadFinished
  <2>4. [load EXCEPT !.conn = "done", !.work = "decode"] \in LoadType
    BY DEF LoadType
  <2> QED
    BY <1>4, <1>11, <2>1, <2>3, <2>4
<1>16. CASE DecodingEnded
  <2>1. Current \in LoadIds /\ UNCHANGED <<subscription, resumable>>
    BY <1>8, <1>16 DEF DecodingEnded, Running
  <2>2. PICK load \in LoadType : load = loads[Current]
    BY <1>4, <2>1
  <2>3. \/ UNCHANGED loads
        \/ loads' = [loads EXCEPT ![Current] = [load EXCEPT !.work = "decompress"]]
    BY <1>16, <2>2 DEF DecodingEnded
  <2>4. [load EXCEPT !.work = "decompress"] \in LoadType
    BY DEF LoadType
  <2> QED
    BY <1>4, <1>11, <2>1, <2>3, <2>4
<1>17. CASE DownloadFailed
  <2>1. Current \in LoadIds /\ resumable' = Saved(Current) /\ FinishUnlessDisposed(FALSE)
    BY <1>8, <1>17 DEF DownloadFailed, Running
  <2> QED
    BY <1>4, <1>12, <2>1
<1>18. CASE DecodingFailed
  <2>1. Current \in LoadIds /\ resumable' = resumable /\ FinishUnlessDisposed(FALSE)
    BY <1>8, <1>18 DEF DecodingFailed, Running
  <2> QED
    BY <1>4, <1>12, <2>1
<1>19. CASE DecompressionEnded
  <2>1. Current \in LoadIds /\ resumable' = resumable /\ FinishUnlessDisposed(TRUE)
    BY <1>8, <1>19 DEF DecompressionEnded, Running
  <2> QED
    BY <1>4, <1>12, <2>1
<1> QED
  BY <1>9, <1>10, <1>13, <1>14, <1>15, <1>16, <1>17, <1>18, <1>19 DEF PipelineRuns

\* A step of another thread: it changes one load and may post a block about it.
LEMMA ThreadStep ==
  ASSUME Inv, LoadsShape, NEW l \in LoadIds, NEW r \in LoadType,
         loads' = [loads EXCEPT ![l] = r],
         queue' = queue \/ \E kind \in Kinds \ {"start", "cancel"} : Post(kind, l),
         UNCHANGED <<screens, main, tasks, subscription, resumable>>
  PROVE  Inv' /\ LoadsShape'
<1>1. queue \in Seq(BlockType) /\ l \in Ids /\ resumable \in [Urls -> Nat]
  BY LoadFacts DEF Inv, Shape, TasksShape
<1>2. Inv'
  <2>1. Quiet
    <3>1. CASE queue' = queue
      BY <1>1, <3>1, SameQuiet
    <3>2. CASE \E kind \in Kinds \ {"start", "cancel"} : Post(kind, l)
      BY <1>1, <3>2, PostQuiet
    <3> QED
      BY <3>1, <3>2
  <2> QED
    BY <2>1, QuietStep
<1>3. loads' \in Seq(LoadType) /\ LoadIds' = LoadIds
  BY LoadChanges
<1>4. LoadsNamed'
  <2>1. \A i \in DOMAIN queue' :
          (\E j \in DOMAIN queue : queue[j] = queue'[i]) \/ queue'[i].id \in LoadIds'
    <3>1. CASE queue' = queue
      BY <3>1
    <3>2. CASE \E kind \in Kinds \ {"start", "cancel"} : Post(kind, l)
      BY <1>1, <1>3, <3>2, PostNames
    <3> QED
      BY <3>1, <3>2
  <2>2. LoadsNamed /\ LoadIds \subseteq LoadIds' /\ subscription' = subscription
    BY <1>3 DEF LoadsShape
  <2> QED
    BY <2>1, <2>2, NamesStayGood
<1> QED
  BY <1>1, <1>2, <1>3, <1>4 DEF LoadsShape

\* Operations, URLSession, decoders and decompressors.
LEMMA ThreadsStep ==
  ASSUME Inv, LoadsShape, NEW l \in LoadIds,
         OperationStarts(l) \/ Network(l) \/ Decoded(l) \/ Decompressed(l)
  PROVE  Inv' /\ LoadsShape'
<1>1. PICK load \in LoadType : load = loads[l]
  BY LoadFacts
<1>2. loads \in Seq(LoadType)
  BY LoadFacts
<1>3. CASE OperationStarts(l)
  <2>1. [load EXCEPT !.op = "executing"] \in LoadType
    BY DEF LoadType
  <2>2. loads' = [loads EXCEPT ![l] = [load EXCEPT !.op = "executing"]]
    BY <1>1, <1>3 DEF OperationStarts
  <2>3. Post("load", l) /\ UNCHANGED <<screens, main, tasks, subscription, resumable>>
    BY <1>3 DEF OperationStarts
  <2> QED
    BY <2>1, <2>2, <2>3, ThreadStep DEF Kinds
<1>4. CASE ServerResponds(l)
  <2>1. /\ queue' = queue /\ UNCHANGED <<screens, main, tasks, subscription, resumable>>
    BY <1>4 DEF ServerResponds
  <2>2. PICK n \in Nat, reply \in {"whole", "rest"} :
          loads' = [loads EXCEPT ![l] = [load EXCEPT !.conn = "sending", !.reply = reply, !.left = n]]
    <3>1. CASE loads' = [loads EXCEPT ![l].conn = "sending", ![l].reply = "whole", ![l].left = Size]
      <4>1. loads' = [loads EXCEPT ![l] =
                        [load EXCEPT !.conn = "sending", !.reply = "whole", !.left = Size]]
        BY <1>1, <1>2, <3>1 DEF LoadIds
      <4> QED
        BY <4>1, ImageLoadingAssumption
    <3>2. CASE /\ loads[l].resumed \in 1 .. Size - 1
               /\ loads' = [loads EXCEPT ![l].conn = "sending", ![l].reply = "rest",
                                         ![l].left = Size - loads[l].resumed]
      <4>1. PICK n \in Nat : n = Size - load.resumed
        BY <1>1, <3>2, ImageLoadingAssumption DEF LoadType
      <4>2. loads' = [loads EXCEPT ![l] =
                        [load EXCEPT !.conn = "sending", !.reply = "rest", !.left = n]]
        BY <1>1, <1>2, <3>2, <4>1 DEF LoadIds
      <4> QED
        BY <4>2
    <3> QED
      BY <1>4, <3>1, <3>2 DEF ServerResponds
  <2>3. [load EXCEPT !.conn = "sending", !.reply = reply, !.left = n] \in LoadType
    BY DEF LoadType
  <2> QED
    BY <2>1, <2>2, <2>3, ThreadStep
<1>5. ASSUME NEW conn \in {"refused", "closed"}, NEW kind \in {"failed", "finished"},
             loads' = [loads EXCEPT ![l] = Ended(l, conn)], Post(kind, l),
             UNCHANGED <<screens, main, tasks, subscription, resumable>>
      PROVE  Inv' /\ LoadsShape'
  <2>1. Ended(l, conn) \in LoadType
    BY <1>1 DEF Ended, LoadType
  <2>2. kind \in Kinds \ {"start", "cancel"}
    BY DEF Kinds
  <2> QED
    BY <1>5, <2>1, <2>2, ThreadStep
<1>6. CASE ServerRefuses(l)
  BY <1>5, <1>6 DEF ServerRefuses
<1>7. CASE PieceArrives(l)
  <2>1. PICK n \in Nat : n = load.left - 1
    BY <1>1, <1>7 DEF PieceArrives, LoadType
  <2>2. [load EXCEPT !.left = n] \in LoadType
    BY DEF LoadType
  <2>3. loads' = [loads EXCEPT ![l] = [load EXCEPT !.left = n]]
    BY <1>1, <1>7, <2>1 DEF PieceArrives
  <2>4. Post("data", l) /\ UNCHANGED <<screens, main, tasks, subscription, resumable>>
    BY <1>7 DEF PieceArrives
  <2> QED
    BY <2>2, <2>3, <2>4, ThreadStep DEF Kinds
<1>8. CASE DownloadCompletes(l)
  BY <1>5, <1>8 DEF DownloadCompletes
<1>9. CASE DownloadBreaks(l)
  BY <1>5, <1>9 DEF DownloadBreaks
<1>10. ASSUME NEW kind \in Kinds \ {"start", "cancel"}, Post(kind, l),
              loads' = [loads EXCEPT ![l].work = "none"],
              UNCHANGED <<screens, main, tasks, subscription, resumable>>
       PROVE  Inv' /\ LoadsShape'
  <2>1. [load EXCEPT !.work = "none"] \in LoadType
    BY DEF LoadType
  <2>2. loads' = [loads EXCEPT ![l] = [load EXCEPT !.work = "none"]]
    BY <1>1, <1>10
  <2> QED
    BY <1>10, <2>1, <2>2, ThreadStep
<1>11. CASE Decoded(l)
  <2>1. PICK kind \in {"decoded", "undecodable"} : Post(kind, l)
    BY <1>11 DEF Decoded
  <2>2. kind \in Kinds \ {"start", "cancel"}
    BY DEF Kinds
  <2> QED
    BY <1>10, <1>11, <2>1, <2>2 DEF Decoded
<1>12. CASE Decompressed(l)
  <2>1. "decompressed" \in Kinds \ {"start", "cancel"}
    BY DEF Kinds
  <2> QED
    BY <1>10, <1>12, <2>1 DEF Decompressed
<1>13. CASE Network(l)
  BY <1>4, <1>6, <1>7, <1>8, <1>9, <1>13 DEF Network
<1> QED
  BY <1>3, <1>11, <1>12, <1>13

\* The blocks of the pipeline's queue.
LEMMA PipelineStep ==
  ASSUME Inv, LoadsShape, PipelineRuns
  PROVE  Inv' /\ LoadsShape'
<1>1. LoadsShape'
  BY RunLoads
<1> SUFFICES Inv'
  BY <1>1
<1>2. queue # <<>> /\ queue' = Tail(queue)
  BY DEF PipelineRuns, StartImageTask, CancelImageTask, LoadImageData, ReceiveData,
         DownloadFinished, DownloadFailed, DecodingEnded, DecodingFailed, DecompressionEnded,
         Running
<1>3. Quiet /\ Current \in Ids
  BY <1>2, RunFacts DEF Inv, Shape
<1>4. ASSUME NEW loaded \in BOOLEAN, FinishUnlessDisposed(loaded), UNCHANGED <<screens, tasks>>
      PROVE  Inv'
  <2>1. CASE UNCHANGED <<loads, subscription, main>>
    BY <1>3, <1>4, <2>1, QuietStep
  <2>2. CASE Finish(Current, loaded)
    BY <1>3, <1>4, <2>2, FinishStep
  <2> QED
    BY <1>4, <2>1, <2>2 DEF FinishUnlessDisposed
<1>5. CASE StartImageTask
  BY <1>5, LoadFacts, StartStep DEF LoadIds
<1>6. CASE CancelImageTask
  BY <1>6, CancelStep
<1>7. CASE LoadImageData
  BY <1>3, <1>7, QuietStep DEF LoadImageData
<1>8. CASE ReceiveData
  BY <1>3, <1>8, QuietStep DEF ReceiveData
<1>9. CASE DownloadFinished
  BY <1>3, <1>9, QuietStep DEF DownloadFinished
<1>10. CASE DownloadFailed
  BY <1>4, <1>10 DEF DownloadFailed
<1>11. CASE DecodingEnded
  BY <1>3, <1>11, QuietStep DEF DecodingEnded
<1>12. CASE DecodingFailed
  BY <1>4, <1>12 DEF DecodingFailed
<1>13. CASE DecompressionEnded
  BY <1>4, <1>13 DEF DecompressionEnded
<1> QED
  BY <1>5, <1>6, <1>7, <1>8, <1>9, <1>10, <1>11, <1>12, <1>13 DEF PipelineRuns

\* The main queue starts and ends no load.
LEMMA MainStep ==
  ASSUME Inv, LoadsShape,
         \/ \E v \in Views, u \in Urls : OpenArticle(v, u)
         \/ \E v \in Views : CloseArticle(v)
         \/ CallAgain \/ Deliver
  PROVE  Inv' /\ LoadsShape'
<1>1. ASSUME UNCHANGED <<subscription, loads, resumable>>,
             \A i \in DOMAIN queue' :
               queue'[i].kind \notin {"start", "cancel"} =>
                 \E j \in DOMAIN queue : queue[j] = queue'[i]
      PROVE  LoadsShape'
  <2>1. LoadIds' = LoadIds
    BY <1>1 DEF LoadIds
  <2>2. LoadsNamed'
    BY <1>1, <2>1, NamesStayGood DEF LoadsShape
  <2> QED
    BY <1>1, <2>2 DEF LoadsShape
<1>2. ASSUME NEW v \in Views, NEW u \in Urls, OpenArticle(v, u)
      PROVE  Inv' /\ LoadsShape'
  <2>1. LoadImage(v, u, FALSE) /\ UNCHANGED <<subscription, loads, resumable>>
    BY <1>2 DEF OpenArticle
  <2>2. \A i \in DOMAIN queue' :
          queue'[i].kind \notin {"start", "cancel"} => \E j \in DOMAIN queue : queue[j] = queue'[i]
    BY <2>1, CallNames DEF Inv, Screens
  <2> QED
    BY <1>1, <1>2, <2>1, <2>2, OpenStep
<1>3. CASE CallAgain
  <2>1. PICK v \in Views, u \in Urls : v = calling /\ u = article[v]
    BY <1>3 DEF CallAgain, Inv, Shape, ScreensShape, Screens, ClosedIsEmpty
  <2>2. LoadImage(v, u, TRUE) /\ UNCHANGED <<subscription, loads, resumable>>
    BY <1>3, <2>1 DEF CallAgain
  <2>3. \A i \in DOMAIN queue' :
          queue'[i].kind \notin {"start", "cancel"} => \E j \in DOMAIN queue : queue[j] = queue'[i]
    BY <2>2, CallNames DEF Inv, Screens
  <2> QED
    BY <1>1, <1>3, <2>2, <2>3, CallStep
<1>4. ASSUME NEW v \in Views, CloseArticle(v)
      PROVE  Inv' /\ LoadsShape'
  <2>1. UNCHANGED <<queue, subscription, loads, resumable>>
    BY <1>4 DEF CloseArticle
  <2> QED
    BY <1>1, <1>4, <2>1, CloseStep
<1>5. CASE Deliver
  <2>1. UNCHANGED <<queue, subscription, loads, resumable>>
    BY <1>5 DEF Deliver
  <2> QED
    BY <1>1, <1>5, <2>1, DeliverStep
<1> QED
  BY <1>2, <1>3, <1>4, <1>5

\* The memory cache may lose an image at any time.
LEMMA TrimStep ==
  ASSUME Inv, LoadsShape,
         (\E u \in Urls : Trim(u)) \/ UNCHANGED vars
  PROVE  Inv' /\ LoadsShape'
<1>1. UNCHANGED <<screens, main, tasks, queue, subscription, loads, resumable>>
  BY DEF Trim, vars, screens
<1>2. Quiet
  BY <1>1, SameQuiet DEF Inv, Shape, TasksShape
<1>3. Inv'
  BY <1>1, <1>2, QuietStep
<1>4. LoadIds' = LoadIds
  BY <1>1 DEF LoadIds
<1>5. LoadsNamed'
  BY <1>1, <1>4 DEF LoadsShape, LoadsNamed
<1> QED
  BY <1>1, <1>3, <1>5 DEF LoadsShape

\* Nothing has been asked for yet.
LEMMA InitHolds ==
  ASSUME Init
  PROVE  Inv /\ LoadsShape
<1>1. /\ main = <<>> /\ queue = <<>> /\ tasks = <<>> /\ loads = <<>>
      /\ DOMAIN main = {} /\ DOMAIN queue = {} /\ DOMAIN tasks = {} /\ Len(tasks) = 0
  BY DEF Init
<1>2. Shape
  BY <1>1, ImageLoadingAssumption DEF Init, Shape, ScreensShape, TasksShape
<1>3. \A t \in TaskIds : subscription[t] = 0
  BY DEF Init
<1>4. Life
  BY <1>1, <1>3 DEF Life, TasksExist, OneLife, WaitingIsOutstanding, Starting, Answered
<1>5. Screens
  BY DEF Init, Screens, OutstandingFits, ClosedIsEmpty, PictureFits
<1>6. LoadsShape
  BY <1>1, <1>3 DEF Init, LoadsShape, LoadsNamed
<1> QED
  BY <1>2, <1>4, <1>5, <1>6 DEF Inv

\* The invariant of the image loading: the life of every ImageTask, the screens,
\* and loads that are there when they are named.
THEOREM Invariance == Spec => [](Inv /\ LoadsShape)
<1>1. Init => Inv /\ LoadsShape
  BY InitHolds
<1>2. ASSUME Inv, LoadsShape, [Next]_vars
      PROVE  Inv' /\ LoadsShape'
  <2>1. CASE \/ \E v \in Views, u \in Urls : OpenArticle(v, u)
             \/ \E v \in Views : CloseArticle(v)
             \/ CallAgain \/ Deliver
    BY <1>2, <2>1, MainStep
  <2>2. CASE PipelineRuns
    BY <1>2, <2>2, PipelineStep
  <2>3. CASE \E l \in LoadIds : OperationStarts(l) \/ Network(l) \/ Decoded(l) \/ Decompressed(l)
    BY <1>2, <2>3, ThreadsStep
  <2>4. CASE (\E u \in Urls : Trim(u)) \/ UNCHANGED vars
    BY <1>2, <2>4, TrimStep
  <2> QED
    BY <1>2, <2>1, <2>2, <2>3, <2>4 DEF Next
<1> QED
  BY <1>1, <1>2, PTL DEF Spec

\* No callback after cancellation (ImagePipeline.swift): whatever waits on the main
\* queue is for the outstanding task of its view or will be dropped, and no
\* ImageTask is answered twice, for any number of views, images and calls.
THEOREM NoCallbackAfterCancel == Spec => []CallbacksAreCurrent
<1>1. Inv => CallbacksAreCurrent
  <2> SUFFICES ASSUME Inv, NEW i \in DOMAIN main, NEW t, t = main[i].task
               PROVE  /\ tasks[t].cancelled \/ task[tasks[t].view] = t
                      /\ subscription[t] = 0
                      /\ \A j \in DOMAIN main : main[j].task = t => i = j
    BY DEF CallbacksAreCurrent
  <2>1. t \in DOMAIN tasks /\ t \in TaskIds /\ Answered(t)
    BY TaskFacts DEF Inv, Shape, Life, TasksExist, Answered
  <2>2. tasks[t].cancelled \/ task[tasks[t].view] = t
    BY <2>1 DEF Inv, Life, WaitingIsOutstanding
  <2>3. subscription[t] = 0
    BY <2>1 DEF Inv, Life, OneLife
  <2>4. \A j \in DOMAIN main : main[j].task = t => i = j
    BY DEF Inv, Life, OneLife
  <2> QED
    BY <2>2, <2>3, <2>4
<1> QED
  BY <1>1, Invariance, PTL

\* The picture in a view is its article's, with the image's own ratio once both
\* calls have been made (ArticleViewController.loadImage), for any number of views,
\* images and calls.
THEOREM RightPicture == Spec => []PictureFits
<1>1. Inv => PictureFits
  BY DEF Inv, Screens
<1> QED
  BY <1>1, Invariance, PTL

-----------------------------------------------------------------------------
(***************************************************************************)
(* The loads: what is downloaded, and for whom.  A load goes from its      *)
(* operation to its connection and on to decoder and decompressor, and     *)
(* what follows is told by blocks on the pipeline's queue, in this order.  *)
(***************************************************************************)

\* The blocks about loads, and those among them that are posted after the last piece.
LoadKinds == Kinds \ {"start", "cancel"}
LateKinds == {"finished", "failed", "decoded", "undecodable", "decompressed"}

Posted(l, K) == \E i \in DOMAIN queue : queue[i].id = l /\ queue[i].kind \in K
Pending(l)   == Occurrences(queue, {Block("data", l)})
Wanted(l)    == \E t \in TaskIds : subscription[t] = l

\* An operation runs its block once, and what URLSession reports of a download is
\* reported in order.
BlocksInOrder ==
  /\ \A i, j \in DOMAIN queue : queue[i].kind = "load" /\ queue[i] = queue[j] => i = j
  /\ \A i, j \in DOMAIN queue :
       queue[i].kind \in LateKinds /\ queue[j].kind = "data" /\ queue[i].id = queue[j].id => j < i

-----------------------------------------------------------------------------
\* The blocks about a load.

\* Nothing changes for load m.
Untouched(m) ==
  /\ \A K \in SUBSET LoadKinds : Posted(m, K)' <=> Posted(m, K)
  /\ Pending(m)' = Pending(m)
  /\ Wanted(m)' <=> Wanted(m)

\* A block is taken from the queue.
LEMMA PopBlocks ==
  ASSUME queue \in Seq(BlockType), queue # <<>>, queue' = Tail(queue), BlocksInOrder,
         NEW b, b = Head(queue)
  PROVE  /\ BlocksInOrder'
         /\ \A m, K : Posted(m, K)' => Posted(m, K)
         /\ \A m, K : Posted(m, K) => Posted(m, K)' \/ (b.id = m /\ b.kind \in K)
         /\ \A m, K : b.id = m /\ b.kind \in K => Posted(m, K)
         /\ \A m : Pending(m) = Pending(m)' + IF b = Block("data", m) THEN 1 ELSE 0
         /\ \A m : Pending(m) \in Nat /\ Pending(m)' \in Nat
         /\ b.kind = "load" => ~Posted(b.id, {"load"})'
         /\ b.kind \in LateKinds => Pending(b.id) = 0
<1>1. /\ queue' \in Seq(BlockType)
      /\ Len(queue) \in Nat /\ DOMAIN queue = 1 .. Len(queue) /\ 1 \in DOMAIN queue
      /\ b = queue[1] /\ b \in BlockType
      /\ DOMAIN queue' = 1 .. Len(queue) - 1
      /\ \A i \in DOMAIN queue' : queue'[i] = queue[i + 1] /\ i + 1 \in DOMAIN queue
  BY TailFacts
<1>2. BlocksInOrder'
  <2>1. ASSUME NEW i \in DOMAIN queue', NEW j \in DOMAIN queue',
               queue'[i].kind = "load", queue'[i] = queue'[j]
        PROVE  i = j
    <3>1. i + 1 = j + 1
      BY <1>1, <2>1 DEF BlocksInOrder
    <3> QED
      BY <1>1, <3>1
  <2>2. ASSUME NEW i \in DOMAIN queue', NEW j \in DOMAIN queue', queue'[i].kind \in LateKinds,
               queue'[j].kind = "data", queue'[i].id = queue'[j].id
        PROVE  j < i
    <3>1. j + 1 < i + 1
      BY <1>1, <2>2 DEF BlocksInOrder
    <3> QED
      BY <1>1, <3>1
  <2> QED
    BY <2>1, <2>2 DEF BlocksInOrder
<1>3. ASSUME NEW m, NEW K
      PROVE  /\ Posted(m, K)' => Posted(m, K)
             /\ Posted(m, K) => Posted(m, K)' \/ (b.id = m /\ b.kind \in K)
             /\ b.id = m /\ b.kind \in K => Posted(m, K)
  <2>1. Posted(m, K)' => Posted(m, K)
    BY <1>1 DEF Posted
  <2>2. ASSUME NEW i \in DOMAIN queue, queue[i].id = m, queue[i].kind \in K, i # 1
        PROVE  Posted(m, K)'
    <3>1. i - 1 \in DOMAIN queue' /\ queue'[i - 1] = queue[i]
      BY <1>1, <2>2
    <3> QED
      BY <2>2, <3>1 DEF Posted
  <2> QED
    BY <1>1, <2>1, <2>2 DEF Posted
<1>4. ASSUME NEW m
      PROVE  /\ Pending(m) = Pending(m)' + IF b = Block("data", m) THEN 1 ELSE 0
             /\ Pending(m) \in Nat /\ Pending(m)' \in Nat
  <2> DEFINE K == {Block("data", m)}
  <2>1. Occurrences(queue, K) = Occurrences(Tail(queue), K) + IF Head(queue) \in K THEN 1 ELSE 0
    BY CountTail
  <2>2. Occurrences(queue, K) \in Nat /\ Occurrences(Tail(queue), K) \in Nat
    BY <1>1, CountFacts
  <2> QED
    BY <2>1, <2>2 DEF Pending
<1>5. ASSUME b.kind = "load"
      PROVE  ~Posted(b.id, {"load"})'
  <2> SUFFICES ASSUME NEW i \in DOMAIN queue', queue'[i].id = b.id, queue'[i].kind = "load"
               PROVE  FALSE
    BY DEF Posted
  <2>1. PICK c \in BlockType : i + 1 \in DOMAIN queue /\ c = queue[i + 1] /\ c = queue'[i]
    BY <1>1
  <2>2. c = b
    BY <1>1, <1>5, <2>1 DEF BlockType
  <2>3. i + 1 = 1
    BY <1>1, <1>5, <2>1, <2>2 DEF BlocksInOrder
  <2> QED
    BY <1>1, <2>3
<1>6. ASSUME b.kind \in LateKinds
      PROVE  Pending(b.id) = 0
  <2>1. \A j \in DOMAIN queue : queue[j] # Block("data", b.id)
    BY <1>1, <1>6 DEF BlocksInOrder, Block
  <2> QED
    BY <2>1, CountFacts DEF Pending
<1> QED
  BY <1>2, <1>3, <1>4, <1>5, <1>6

\* A block about load l is put on the queue, in its order.
LEMMA PostBlocks ==
  ASSUME queue \in Seq(BlockType), NEW kind \in LoadKinds, NEW l \in Ids, Post(kind, l),
         BlocksInOrder,
         kind = "load" => ~Posted(l, {"load"}),
         kind = "data" => ~Posted(l, LateKinds)
  PROVE  /\ BlocksInOrder'
         /\ \A m, K : Posted(m, K)' <=> Posted(m, K) \/ (l = m /\ kind \in K)
         /\ \A m : Pending(m)' = Pending(m) + IF kind = "data" /\ m = l THEN 1 ELSE 0
         /\ \A m : Pending(m) \in Nat /\ Pending(m)' \in Nat
<1>1. PICK b \in BlockType : b = Block(kind, l) /\ b.kind = kind /\ b.id = l
  <2>1. Block(kind, l) \in BlockType /\ Block(kind, l).kind = kind /\ Block(kind, l).id = l
    BY DEF Block, BlockType, LoadKinds
  <2> QED
    BY <2>1, Zenon
<1>2. /\ queue' \in Seq(BlockType) /\ queue' = Append(queue, b)
      /\ Len(queue) \in Nat /\ DOMAIN queue = 1 .. Len(queue)
      /\ DOMAIN queue' = 1 .. Len(queue) + 1
      /\ \A i \in DOMAIN queue : queue'[i] = queue[i] /\ i \in DOMAIN queue'
      /\ queue'[Len(queue) + 1] = b /\ Len(queue) + 1 \in DOMAIN queue'
      /\ \A i \in DOMAIN queue' : i \in DOMAIN queue \/ i = Len(queue) + 1
  <2>1. queue' = Append(queue, b)
    BY <1>1 DEF Post
  <2>2. /\ queue' \in Seq(BlockType)
        /\ Len(queue) \in Nat /\ DOMAIN queue = 1 .. Len(queue)
        /\ DOMAIN queue' = 1 .. Len(queue) + 1
        /\ \A i \in DOMAIN queue : queue'[i] = queue[i]
        /\ queue'[Len(queue) + 1] = b
    BY <2>1, AppendFacts
  <2> QED
    BY <2>1, <2>2
<1>3. BlocksInOrder'
  <2>1. ASSUME NEW i \in DOMAIN queue', NEW j \in DOMAIN queue',
               queue'[i].kind = "load", queue'[i] = queue'[j]
        PROVE  i = j
    <3>1. \A k \in DOMAIN queue : queue[k].id = l /\ queue[k].kind = "load" => kind # "load"
      BY DEF Posted
    <3> QED
      BY <1>1, <1>2, <2>1, <3>1 DEF BlocksInOrder
  <2>2. ASSUME NEW i \in DOMAIN queue', NEW j \in DOMAIN queue', queue'[i].kind \in LateKinds,
               queue'[j].kind = "data", queue'[i].id = queue'[j].id
        PROVE  j < i
    <3>1. \A k \in DOMAIN queue : queue[k].id = l /\ queue[k].kind \in LateKinds => kind # "data"
      BY DEF Posted
    <3>2. CASE i \in DOMAIN queue /\ j \in DOMAIN queue
      BY <1>2, <2>2, <3>2 DEF BlocksInOrder
    <3>3. CASE j \notin DOMAIN queue
      <4>1. i \notin DOMAIN queue
        BY <1>1, <1>2, <2>2, <3>1, <3>3
      <4> QED
        BY <1>1, <1>2, <2>2, <3>3, <4>1 DEF LateKinds
    <3>4. CASE i \notin DOMAIN queue /\ j \in DOMAIN queue
      BY <1>2, <3>4
    <3> QED
      BY <3>2, <3>3, <3>4
  <2> QED
    BY <2>1, <2>2 DEF BlocksInOrder
<1>4. ASSUME NEW m, NEW K
      PROVE  Posted(m, K)' <=> Posted(m, K) \/ (l = m /\ kind \in K)
  BY <1>1, <1>2 DEF Posted
<1>5. ASSUME NEW m
      PROVE  /\ Pending(m)' = Pending(m) + IF kind = "data" /\ m = l THEN 1 ELSE 0
             /\ Pending(m) \in Nat /\ Pending(m)' \in Nat
  <2> DEFINE K == {Block("data", m)}
  <2>1. b \in K <=> kind = "data" /\ m = l
    BY <1>1 DEF Block
  <2>2. Occurrences(Append(queue, b), K) = Occurrences(queue, K) + IF b \in K THEN 1 ELSE 0
    BY CountAppend
  <2>3. Occurrences(queue, K) \in Nat /\ Occurrences(queue', K) \in Nat
    BY <1>2, CountFacts
  <2> HIDE DEF K
  <2>4. /\ Occurrences(queue', K) = Occurrences(queue, K) + IF kind = "data" /\ m = l THEN 1 ELSE 0
    BY <1>2, <2>1, <2>2
  <2> QED
    BY <2>3, <2>4 DEF Pending, K
<1> QED
  BY <1>3, <1>4, <1>5

\* Blocks about ImageTasks do not matter to loads.
LEMMA AppendBlocks ==
  ASSUME queue \in Seq(BlockType), queue' \in Seq(BlockType), BlocksInOrder,
         \A i \in DOMAIN queue : i \in DOMAIN queue' /\ queue'[i] = queue[i],
         \A i \in DOMAIN queue' : i \notin DOMAIN queue => queue'[i].kind \in {"start", "cancel"},
         UNCHANGED subscription
  PROVE  BlocksInOrder' /\ \A m : Untouched(m)
<1>1. \A i \in DOMAIN queue' :
        queue'[i].kind \notin {"start", "cancel"} => i \in DOMAIN queue /\ queue'[i] = queue[i]
  OBVIOUS
<1>2. BlocksInOrder'
  BY <1>1 DEF BlocksInOrder, LateKinds
<1>3. ASSUME NEW m
      PROVE  Untouched(m)
  <2>1. \A K \in SUBSET LoadKinds : Posted(m, K)' <=> Posted(m, K)
    BY <1>1 DEF Posted, LoadKinds
  <2>2. Pending(m)' = Pending(m)
    <3>1. {i \in DOMAIN queue' : queue'[i] \in {Block("data", m)}}
            = {i \in DOMAIN queue : queue[i] \in {Block("data", m)}}
      BY <1>1 DEF Block
    <3> QED
      BY <3>1 DEF Pending, Occurrences
  <2> QED
    BY <2>1, <2>2 DEF Untouched, Wanted
<1> QED
  BY <1>2, <1>3

\* A load occupies a connection from the start of its operation to its end, and
\* only as long as somebody waits for it; but for the block that has not noticed.
Occupied(l) ==
  LET r == loads[l]
  IN  /\ r.disposed <=> ~Wanted(l)
      /\ r.conn \in {"asked", "sending"} => ~r.disposed /\ r.op = "executing"
      /\ r.op = "executing" => r.conn \in {"none", "asked", "sending"}
      /\ r.op = "waiting" => r.conn = "none"
      /\ r.op = "executing" /\ r.conn = "none" <=> Posted(l, {"load"})

\* What is reported of the end of a download, and what it is for.
Reported(l) ==
  LET r == loads[l]
  IN  /\ Posted(l, LateKinds) => r.op = "finished" /\ r.conn # "cancelled"
      /\ Posted(l, {"finished"}) =>
           r.disposed \/ (r.conn \in {"closed", "done"} /\ r.left = 0 /\ r.reply # "none")
      /\ Posted(l, {"decoded"}) => r.disposed \/ r.conn = "done"
      /\ r.work # "none" => r.conn = "done"
      /\ r.conn = "done" => r.data = Size /\ r.left = 0 /\ r.reply # "none" /\ Pending(l) = 0

\* The pieces that have been received, the n on the queue and those still to come
\* make an image, together with those kept of an earlier download if it is resumed.
PiecesFit(r, n) ==
  /\ r.conn \in {"none", "asked"} => r.reply = "none"
  /\ r.conn = "sending" => r.reply # "none"
  /\ r.status = "none" => r.data = 0
  /\ r.resumed <= Size
  /\ \/ r.reply = "none" /\ r.status = "none" /\ r.left = 0 /\ n = 0
     \/ /\ r.reply = "rest" /\ r.status = "none"
        /\ r.resumed \in 1 .. Size - 1 /\ r.resumed + n + r.left = Size
     \/ /\ r.reply # "none" /\ (r.reply = "whole" \/ r.status # "none")
        /\ r.data + n + r.left = Size
Counted(l) == PiecesFit(loads[l], Pending(l))

LoadInv(l) == Occupied(l) /\ Reported(l) /\ Counted(l)

\* Loads that are not disposed of are of different images.
OneDownload ==
  \A l, m \in LoadIds :
    loads[l].url = loads[m].url /\ ~loads[l].disposed /\ ~loads[m].disposed => l = m

\* What the caches keep.
CachesFit ==
  /\ imageCache \subseteq Urls
  /\ \A u \in Urls : resumable[u] <= Size

LoadsInv ==
  /\ BlocksInOrder
  /\ OneDownload
  /\ CachesFit
  /\ \A l \in LoadIds : LoadInv(l)

-----------------------------------------------------------------------------
\* What is not touched keeps what is known of it.
LEMMA UntouchedKeeps ==
  ASSUME NEW m \in LoadIds, LoadInv(m), Untouched(m), loads'[m] = loads[m]
  PROVE  LoadInv(m)'
<1>1. \A K \in {{"load"}, LateKinds, {"finished"}, {"decoded"}} : K \in SUBSET LoadKinds
  BY DEF LoadKinds, Kinds, LateKinds
<1>2. /\ Posted(m, {"load"})' <=> Posted(m, {"load"})
      /\ Posted(m, LateKinds)' <=> Posted(m, LateKinds)
      /\ Posted(m, {"finished"})' <=> Posted(m, {"finished"})
      /\ Posted(m, {"decoded"})' <=> Posted(m, {"decoded"})
      /\ Pending(m)' = Pending(m)
      /\ Wanted(m)' <=> Wanted(m)
  BY <1>1 DEF Untouched
<1>3. Occupied(m)'
  BY <1>2 DEF LoadInv, Occupied
<1>4. Reported(m)'
  BY <1>2 DEF LoadInv, Reported
<1>5. Counted(m)'
  BY <1>2 DEF LoadInv, Counted
<1> QED
  BY <1>3, <1>4, <1>5 DEF LoadInv

\* A step that changes no load.
LEMMA NoLoadStep ==
  ASSUME LoadsInv, UNCHANGED loads, BlocksInOrder', CachesFit',
         \A m \in LoadIds : Untouched(m)
  PROVE  LoadsInv'
<1>1. LoadIds' = LoadIds
  BY DEF LoadIds
<1>2. \A m \in LoadIds : LoadInv(m)'
  BY UntouchedKeeps DEF LoadsInv
<1>3. OneDownload'
  BY <1>1 DEF LoadsInv, OneDownload
<1> QED
  BY <1>1, <1>2, <1>3 DEF LoadsInv

\* A step that changes one load, which stays what it is of and does not come back.
LEMMA OneLoadStep ==
  ASSUME LoadsShape, LoadsInv, NEW l \in LoadIds, NEW r \in LoadType,
         loads' = [loads EXCEPT ![l] = r],
         r.url = loads[l].url, loads[l].disposed => r.disposed,
         BlocksInOrder', CachesFit', LoadInv(l)',
         \A m \in LoadIds \ {l} : Untouched(m)
  PROVE  LoadsInv'
<1>1. LoadIds' = LoadIds /\ loads'[l] = r /\ \A m \in LoadIds \ {l} : loads'[m] = loads[m]
  BY ExceptFacts DEF LoadsShape, LoadIds
<1>2. \A m \in LoadIds \ {l} : LoadInv(m)'
  BY <1>1, UntouchedKeeps DEF LoadsInv
<1>3. OneDownload'
  BY <1>1 DEF LoadsInv, OneDownload
<1> QED
  BY <1>1, <1>2, <1>3 DEF LoadsInv

\* Blocks about one load leave the others alone.
LEMMA PopTouchesOne ==
  ASSUME queue \in Seq(BlockType), queue # <<>>, queue' = Tail(queue), BlocksInOrder,
         NEW m, Head(queue).id # m \/ Head(queue).kind \in {"start", "cancel"},
         Wanted(m)' <=> Wanted(m)
  PROVE  Untouched(m)
<1>1. PICK b : b = Head(queue)
  OBVIOUS
<1>2. /\ \A K : Posted(m, K)' => Posted(m, K)
      /\ \A K : Posted(m, K) => Posted(m, K)' \/ (b.id = m /\ b.kind \in K)
      /\ Pending(m) = Pending(m)' + IF b = Block("data", m) THEN 1 ELSE 0
      /\ Pending(m) \in Nat /\ Pending(m)' \in Nat
  BY <1>1, PopBlocks
<1>3. \A K \in SUBSET LoadKinds : Posted(m, K)' <=> Posted(m, K)
  BY <1>1, <1>2 DEF LoadKinds
<1>4. b # Block("data", m)
  BY <1>1 DEF Block
<1>5. Pending(m)' = Pending(m)
  BY <1>2, <1>4
<1> QED
  BY <1>3, <1>5 DEF Untouched

\* What posting a block about load l means to it.
Posting(l, kind) ==
  /\ Posted(l, {"load"})' <=> Posted(l, {"load"}) \/ kind = "load"
  /\ Posted(l, LateKinds)' <=> Posted(l, LateKinds) \/ kind \in LateKinds
  /\ Posted(l, {"finished"})' <=> Posted(l, {"finished"}) \/ kind = "finished"
  /\ Posted(l, {"decoded"})' <=> Posted(l, {"decoded"}) \/ kind = "decoded"
  /\ Pending(l)' = Pending(l) + IF kind = "data" THEN 1 ELSE 0
  /\ Pending(l) \in Nat /\ Pending(l)' \in Nat
  /\ Wanted(l)' <=> Wanted(l)

\* Nothing else happens to the loads when a block is posted.
LEMMA PostedAbout ==
  ASSUME queue \in Seq(BlockType), NEW kind \in LoadKinds, NEW l \in Ids, Post(kind, l),
         BlocksInOrder, UNCHANGED subscription,
         kind = "load" => ~Posted(l, {"load"}),
         kind = "data" => ~Posted(l, LateKinds)
  PROVE  /\ BlocksInOrder'
         /\ Posting(l, kind)
         /\ \A m \in LoadIds \ {l} : Untouched(m)
<1>1. /\ BlocksInOrder'
      /\ \A m, K : Posted(m, K)' <=> Posted(m, K) \/ (l = m /\ kind \in K)
      /\ \A m : Pending(m)' = Pending(m) + IF kind = "data" /\ m = l THEN 1 ELSE 0
      /\ \A m : Pending(m) \in Nat /\ Pending(m)' \in Nat
  BY PostBlocks
<1>2. \A m : Wanted(m)' <=> Wanted(m)
  BY DEF Wanted
<1>3. ASSUME NEW m \in LoadIds \ {l}
      PROVE  Untouched(m)
  BY <1>1, <1>2 DEF Untouched
<1>4. Posting(l, kind)
  BY <1>1, <1>2 DEF Posting
<1> QED
  BY <1>1, <1>3, <1>4

\* What running a block about load l means to it.
Popping(l, kind) ==
  /\ Posted(l, {"load"})' => Posted(l, {"load"})
  /\ Posted(l, LateKinds)' => Posted(l, LateKinds)
  /\ Posted(l, {"finished"})' => Posted(l, {"finished"})
  /\ Posted(l, {"decoded"})' => Posted(l, {"decoded"})
  /\ kind = "load" => Posted(l, {"load"}) /\ ~Posted(l, {"load"})'
  /\ kind # "load" => (Posted(l, {"load"})' <=> Posted(l, {"load"}))
  /\ kind \in LateKinds => Posted(l, LateKinds) /\ Pending(l) = 0
  /\ kind = "finished" => Posted(l, {"finished"})
  /\ kind = "decoded" => Posted(l, {"decoded"})
  /\ Pending(l) = Pending(l)' + IF kind = "data" THEN 1 ELSE 0
  /\ Pending(l) \in Nat /\ Pending(l)' \in Nat

\* Nothing else happens to the loads when a block is run, but what it does.
LEMMA PoppedAbout ==
  ASSUME queue \in Seq(BlockType), queue # <<>>, queue' = Tail(queue), BlocksInOrder,
         NEW l, l = Head(queue).id, NEW kind \in LoadKinds, kind = Head(queue).kind
  PROVE  /\ BlocksInOrder'
         /\ Popping(l, kind)
         /\ \A m \in LoadIds \ {l} : (Wanted(m)' <=> Wanted(m)) => Untouched(m)
<1>1. PICK b \in BlockType : b = Head(queue)
  BY TailFacts
<1>2. /\ BlocksInOrder'
      /\ \A m, K : Posted(m, K)' => Posted(m, K)
      /\ \A m, K : Posted(m, K) => Posted(m, K)' \/ (b.id = m /\ b.kind \in K)
      /\ \A m, K : b.id = m /\ b.kind \in K => Posted(m, K)
      /\ \A m : Pending(m) = Pending(m)' + IF b = Block("data", m) THEN 1 ELSE 0
      /\ \A m : Pending(m) \in Nat /\ Pending(m)' \in Nat
      /\ b.kind = "load" => ~Posted(b.id, {"load"})'
      /\ b.kind \in LateKinds => Pending(b.id) = 0
  BY <1>1, PopBlocks
<1>3. b = Block("data", l) <=> kind = "data"
  BY <1>1 DEF Block, BlockType
<1>4. \A m \in LoadIds \ {l} : (Wanted(m)' <=> Wanted(m)) => Untouched(m)
  BY <1>1, PopTouchesOne
<1>5. Popping(l, kind)
  BY <1>1, <1>2, <1>3 DEF Popping
<1> QED
  BY <1>2, <1>4, <1>5

\* The step of another thread that makes r of load l, and posts a block about it.
LEMMA ThreadLoad ==
  ASSUME Inv, LoadsShape, LoadsInv, NEW l \in LoadIds, NEW kind \in LoadKinds, Post(kind, l),
         NEW r \in LoadType, loads' = [loads EXCEPT ![l] = r],
         r.url = loads[l].url, r.disposed = loads[l].disposed,
         UNCHANGED <<subscription, imageCache, resumable>>,
         kind = "load" => ~Posted(l, {"load"}),
         kind = "data" => ~Posted(l, LateKinds),
         Posting(l, kind) /\ loads'[l] = r => LoadInv(l)'
  PROVE  LoadsInv'
<1>1. /\ loads \in Seq(LoadType) /\ queue \in Seq(BlockType) /\ l \in Ids
      /\ BlocksInOrder /\ CachesFit
  BY LoadFacts DEF Inv, Shape, TasksShape, LoadsInv
<1>2. loads'[l] = r
  BY <1>1, ExceptFacts DEF LoadIds
<1>3. /\ BlocksInOrder' /\ Posting(l, kind)
      /\ \A m \in LoadIds \ {l} : Untouched(m)
  BY <1>1, PostedAbout
<1>4. CachesFit'
  BY <1>1 DEF CachesFit
<1> QED
  BY <1>2, <1>3, <1>4, OneLoadStep

\* Operations, URLSession, decoders and decompressors.
LEMMA ThreadsLoads ==
  ASSUME Inv, LoadsShape, LoadsInv, NEW l \in LoadIds,
         OperationStarts(l) \/ Network(l) \/ Decoded(l) \/ Decompressed(l)
  PROVE  LoadsInv'
<1>1. PICK r0 \in LoadType : r0 = loads[l]
  BY LoadFacts
<1>2. loads \in Seq(LoadType) /\ queue \in Seq(BlockType) /\ LoadInv(l) /\ Size \in Nat \ {0}
  BY LoadFacts, ImageLoadingAssumption DEF Inv, Shape, TasksShape, LoadsInv
<1>3. /\ r0.data \in Nat /\ r0.resumed \in Nat /\ r0.left \in Nat /\ Pending(l) \in Nat
  BY <1>1, <1>2, CountFacts DEF LoadType, Pending
<1>fit. PICK p \in Nat : p = Pending(l) /\ PiecesFit(r0, p)
  BY <1>1, <1>2, <1>3 DEF LoadInv, Counted
<1>4. CASE OperationStarts(l)
  <2>1. PICK r \in LoadType : r = [r0 EXCEPT !.op = "executing"]
    BY DEF LoadType
  <2>2. loads' = [loads EXCEPT ![l] = r] /\ r0.op = "waiting" /\ Post("load", l)
    BY <1>1, <1>4, <2>1 DEF OperationStarts
  <2>3. "load" \in LoadKinds /\ ~Posted(l, {"load"}) /\ r0.conn = "none"
    BY <1>1, <1>2, <2>2 DEF LoadInv, Occupied, LoadKinds, Kinds
  <2>4. ASSUME Posting(l, "load"), loads'[l] = r
        PROVE  LoadInv(l)'
    <3>1. Occupied(l)'
      BY <1>1, <1>2, <2>1, <2>2, <2>3, <2>4 DEF LoadInv, Occupied, Posting, LoadType
    <3>2. Reported(l)'
      BY <1>1, <1>2, <2>1, <2>2, <2>4, SMTT(30) DEF LoadInv, Reported, Posting, LoadType, LateKinds
    <3>3. Counted(l)'
      <4>1. PiecesFit(r, p)
        BY <1>fit, <2>1 DEF PiecesFit, LoadType
      <4>2. Pending(l)' = p
        BY <1>fit, <2>4 DEF Posting
      <4> QED
        BY <2>4, <4>1, <4>2 DEF Counted
    <3> QED
      BY <3>1, <3>2, <3>3 DEF LoadInv
  <2>5. UNCHANGED <<subscription, imageCache, resumable>>
    BY <1>4 DEF OperationStarts
  <2>6. r.url = r0.url /\ r.disposed = r0.disposed
    BY <2>1 DEF LoadType
  <2> QED
    BY <1>1, <2>2, <2>3, <2>4, <2>5, <2>6, ThreadLoad
<1>5. CASE ServerResponds(l)
  <2>1. /\ r0.conn = "asked" /\ r0.op = "executing" /\ ~r0.disposed
        /\ r0.reply = "none" /\ r0.status = "none" /\ r0.data = 0 /\ r0.left = 0 /\ Pending(l) = 0
    BY <1>1, <1>2, <1>5, <1>fit DEF ServerResponds, LoadInv, Occupied, PiecesFit
  <2>2. PICK reply \in {"whole", "rest"}, n \in Nat :
          /\ loads' = [loads EXCEPT ![l] =
                         [r0 EXCEPT !.conn = "sending", !.reply = reply, !.left = n]]
          /\ IF reply = "whole" THEN n = Size
             ELSE r0.resumed \in 1 .. Size - 1 /\ r0.resumed + n = Size
    <3>1. CASE loads' = [loads EXCEPT ![l].conn = "sending", ![l].reply = "whole", ![l].left = Size]
      <4>1. loads' = [loads EXCEPT ![l] =
                        [r0 EXCEPT !.conn = "sending", !.reply = "whole", !.left = Size]]
        BY <1>1, <1>2, <3>1 DEF LoadIds
      <4> QED
        BY <1>2, <4>1
    <3>2. CASE /\ loads[l].resumed \in 1 .. Size - 1
               /\ loads' = [loads EXCEPT ![l].conn = "sending", ![l].reply = "rest",
                                         ![l].left = Size - loads[l].resumed]
      <4>1. PICK n \in Nat : n = Size - r0.resumed /\ r0.resumed + n = Size
        <5>1. r0.resumed \in 1 .. Size - 1
          BY <1>1, <3>2
        <5>2. Size - r0.resumed \in Nat /\ r0.resumed + (Size - r0.resumed) = Size
          BY <1>2, <1>3, <5>1
        <5> QED
          BY <5>2
      <4>2. loads' = [loads EXCEPT ![l] =
                        [r0 EXCEPT !.conn = "sending", !.reply = "rest", !.left = n]]
        BY <1>1, <1>2, <3>2, <4>1 DEF LoadIds
      <4> QED
        BY <1>1, <3>2, <4>1, <4>2
    <3> QED
      BY <1>5, <3>1, <3>2 DEF ServerResponds
  <2>3. PICK r \in LoadType : r = [r0 EXCEPT !.conn = "sending", !.reply = reply, !.left = n]
    BY DEF LoadType
  <2>4. loads' = [loads EXCEPT ![l] = r] /\ loads'[l] = r
    BY <1>2, <2>2, <2>3, ExceptFacts DEF LoadIds
  <2>5. UNCHANGED <<queue, subscription, imageCache, resumable>>
    BY <1>5 DEF ServerResponds
  <2>6. /\ \A K : Posted(l, K)' <=> Posted(l, K)
        /\ Pending(l)' = Pending(l)
        /\ Wanted(l)' <=> Wanted(l)
        /\ \A m : Untouched(m)
    BY <2>5 DEF Posted, Pending, Wanted, Untouched
  <2>7. Occupied(l)'
    BY <1>1, <1>2, <2>1, <2>3, <2>4, <2>6 DEF LoadInv, Occupied, LoadType
  <2>8. Reported(l)'
    BY <1>1, <1>2, <2>1, <2>3, <2>4, <2>6 DEF LoadInv, Reported, LoadType
  <2>9. Counted(l)'
    <3>1. PiecesFit(r, 0)
      BY <1>2, <1>3, <1>fit, <2>1, <2>2, <2>3 DEF PiecesFit, LoadType
    <3> QED
      BY <2>1, <2>4, <2>6, <3>1 DEF Counted
  <2>10. BlocksInOrder' /\ CachesFit'
    BY <2>5 DEF LoadsInv, BlocksInOrder, CachesFit
  <2>11. r.url = loads[l].url /\ r.disposed = loads[l].disposed
    BY <1>1, <2>3 DEF LoadType
  <2>12. LoadInv(l)'
    BY <2>7, <2>8, <2>9 DEF LoadInv
  <2> QED
    BY <2>4, <2>6, <2>10, <2>11, <2>12, OneLoadStep
<1>6. CASE PieceArrives(l)
  <2>1. /\ r0.conn \in {"sending", "cancelled"} /\ r0.left > 0 /\ r0.reply # "none"
        /\ ~Posted(l, LateKinds) /\ Post("data", l) /\ "data" \in LoadKinds
    BY <1>1, <1>2, <1>3, <1>6, <1>fit
       DEF PieceArrives, LoadInv, Occupied, Reported, PiecesFit, LoadKinds, Kinds
  <2>2. PICK n \in Nat : n = r0.left - 1 /\ n + 1 = r0.left
    BY <1>3, <2>1
  <2>3. PICK r \in LoadType : r = [r0 EXCEPT !.left = n]
    BY DEF LoadType
  <2>4. loads' = [loads EXCEPT ![l] = r] /\ UNCHANGED <<subscription, imageCache, resumable>>
    BY <1>1, <1>6, <2>2, <2>3 DEF PieceArrives
  <2>5. ASSUME Posting(l, "data"), loads'[l] = r
        PROVE  LoadInv(l)'
    <3>1. Occupied(l)'
      BY <1>1, <1>2, <2>1, <2>3, <2>5 DEF LoadInv, Occupied, Posting, LoadType
    <3>2. Reported(l)'
      <4>1. r.conn # "done" /\ r.work = "none"
        BY <1>1, <1>2, <2>1, <2>3 DEF LoadInv, Reported, LoadType
      <4>2. ~Posted(l, LateKinds)' /\ ~Posted(l, {"finished"})' /\ ~Posted(l, {"decoded"})'
        BY <2>1, <2>5 DEF Posting, LateKinds, Posted
      <4> QED
        BY <2>5, <4>1, <4>2 DEF Reported
    <3>3. Counted(l)'
      <4>1. PiecesFit(r, p + 1)
        <5>1. /\ r.reply = r0.reply /\ r.status = r0.status /\ r.conn = r0.conn
              /\ r.data = r0.data /\ r.resumed = r0.resumed /\ r.left + 1 = r0.left
              /\ r.left \in Nat
          BY <2>2, <2>3 DEF LoadType
        <5>2. CASE r0.reply = "rest" /\ r0.status = "none"
          <6>1. r0.resumed + p + r0.left = Size /\ r0.resumed \in 1 .. Size - 1
            BY <1>fit, <5>2 DEF PiecesFit
          <6>2. r.resumed + (p + 1) + r.left = Size
            BY <1>3, <5>1, <6>1
          <6> QED
            BY <1>fit, <2>1, <5>1, <5>2, <6>1, <6>2 DEF PiecesFit
        <5>3. CASE r0.reply = "whole" \/ r0.status # "none"
          <6>1. r0.data + p + r0.left = Size
            BY <1>fit, <2>1, <5>3 DEF PiecesFit
          <6>2. r.data + (p + 1) + r.left = Size
            BY <1>3, <5>1, <6>1
          <6> QED
            BY <1>fit, <2>1, <5>1, <5>3, <6>2 DEF PiecesFit
        <5> QED
          BY <2>1, <5>2, <5>3 DEF LoadType
      <4>2. Pending(l)' = p + 1
        BY <1>fit, <2>5 DEF Posting
      <4> QED
        BY <2>5, <4>1, <4>2 DEF Counted
    <3> QED
      BY <3>1, <3>2, <3>3 DEF LoadInv
  <2>6. r.url = r0.url /\ r.disposed = r0.disposed
    BY <2>3 DEF LoadType
  <2> QED
    BY <1>1, <2>1, <2>4, <2>5, <2>6, ThreadLoad
\* A URLSessionTask ends.
<1>7. ASSUME NEW conn \in {"refused", "closed"}, NEW kind \in {"failed", "finished"},
             loads' = [loads EXCEPT ![l] = Ended(l, conn)], Post(kind, l),
             r0.conn \in {"asked", "sending", "refused", "cancelled"},
             kind = "finished" => r0.conn = "sending" /\ r0.left = 0 /\ conn = "closed",
             UNCHANGED <<subscription, imageCache, resumable>>
      PROVE  LoadsInv'
  <2>1. PICK r \in LoadType : r = [r0 EXCEPT !.conn = conn, !.op = "finished"]
    BY DEF LoadType
  <2>2. loads' = [loads EXCEPT ![l] = r]
    BY <1>1, <1>7, <2>1 DEF Ended
  <2>3. kind \in LoadKinds /\ kind \in LateKinds
    BY DEF LoadKinds, Kinds, LateKinds
  <2>4. ~Posted(l, {"load"})
    BY <1>1, <1>2, <1>7 DEF LoadInv, Occupied
  <2>5. kind = "finished" => r0.reply # "none"
    BY <1>7, <1>fit DEF PiecesFit
  <2>6. ASSUME Posting(l, kind), loads'[l] = r
        PROVE  LoadInv(l)'
    <3>1. Occupied(l)'
      BY <1>1, <1>2, <1>7, <2>1, <2>4, <2>6 DEF LoadInv, Occupied, Posting, LoadType
    <3>2. Reported(l)'
      <4>1. /\ r.op = "finished" /\ r.conn = conn /\ r.disposed = r0.disposed /\ r.work = r0.work
            /\ r.left = r0.left /\ r.reply = r0.reply
        BY <2>1 DEF LoadType
      <4>2. r.work = "none"
        BY <1>1, <1>2, <1>7, <4>1 DEF LoadInv, Reported
      <4>3. Posted(l, {"finished"})' =>
              r.disposed \/ (r.conn \in {"closed", "done"} /\ r.left = 0 /\ r.reply # "none")
        <5>1. Posted(l, {"finished"}) => r0.disposed
          BY <1>1, <1>2, <1>7 DEF LoadInv, Reported
        <5> QED
          BY <1>7, <2>5, <2>6, <4>1, <5>1 DEF Posting
      <4>4. Posted(l, {"decoded"})' => r.disposed
        BY <1>1, <1>2, <1>7, <2>6, <4>1 DEF LoadInv, Reported, Posting
      <4> QED
        BY <2>6, <4>1, <4>2, <4>3, <4>4 DEF Reported
    <3>3. Counted(l)'
      <4>1. PiecesFit(r, p)
        BY <1>fit, <2>1 DEF PiecesFit, LoadType
      <4>2. Pending(l)' = p
        BY <1>fit, <2>6 DEF Posting
      <4> QED
        BY <2>6, <4>1, <4>2 DEF Counted
    <3> QED
      BY <3>1, <3>2, <3>3 DEF LoadInv
  <2>7. r.url = r0.url /\ r.disposed = r0.disposed
    BY <2>1 DEF LoadType
  <2> QED
    BY <1>1, <1>7, <2>2, <2>3, <2>6, <2>7, ThreadLoad DEF LateKinds
<1>8. CASE ServerRefuses(l)
  BY <1>1, <1>7, <1>8 DEF ServerRefuses
<1>9. CASE DownloadCompletes(l)
  BY <1>1, <1>7, <1>9 DEF DownloadCompletes
<1>10. CASE DownloadBreaks(l)
  BY <1>1, <1>7, <1>10 DEF DownloadBreaks
\* A background operation ends.
<1>11. ASSUME NEW kind \in {"decoded", "undecodable", "decompressed"}, Post(kind, l),
              loads' = [loads EXCEPT ![l].work = "none"], r0.work # "none",
              UNCHANGED <<subscription, imageCache, resumable>>
       PROVE  LoadsInv'
  <2>1. PICK r \in LoadType : r = [r0 EXCEPT !.work = "none"]
    BY DEF LoadType
  <2>2. loads' = [loads EXCEPT ![l] = r]
    BY <1>1, <1>11, <2>1
  <2>3. kind \in LoadKinds /\ kind \in LateKinds
    BY DEF LoadKinds, Kinds, LateKinds
  <2>4. r0.conn = "done" /\ r0.op = "finished" /\ ~Posted(l, {"load"})
    BY <1>1, <1>2, <1>11 DEF LoadInv, Occupied, Reported, LoadType
  <2>5. ASSUME Posting(l, kind), loads'[l] = r
        PROVE  LoadInv(l)'
    <3>1. Occupied(l)'
      BY <1>1, <1>2, <2>1, <2>4, <2>5 DEF LoadInv, Occupied, Posting, LoadType
    <3>2. Reported(l)'
      BY <1>1, <1>2, <2>1, <2>4, <2>5 DEF LoadInv, Reported, Posting, LoadType
    <3>3. Counted(l)'
      <4>1. PiecesFit(r, p)
        BY <1>fit, <2>1 DEF PiecesFit, LoadType
      <4>2. Pending(l)' = p
        BY <1>fit, <2>5 DEF Posting
      <4> QED
        BY <2>5, <4>1, <4>2 DEF Counted
    <3> QED
      BY <3>1, <3>2, <3>3 DEF LoadInv
  <2>6. r.url = r0.url /\ r.disposed = r0.disposed
    BY <2>1 DEF LoadType
  <2> QED
    BY <1>1, <1>11, <2>2, <2>3, <2>5, <2>6, ThreadLoad, ZenonT(30) DEF LateKinds
<1>12. CASE Decoded(l)
  BY <1>1, <1>11, <1>12 DEF Decoded
<1>13. CASE Decompressed(l)
  BY <1>1, <1>11, <1>13 DEF Decompressed
<1> QED
  BY <1>4, <1>5, <1>6, <1>8, <1>9, <1>10, <1>12, <1>13 DEF Network

\* The first block, which is about load l, is run and makes r of it.
LEMMA RunLoad ==
  ASSUME Inv, LoadsShape, LoadsInv, queue # <<>>, queue' = Tail(queue),
         NEW l \in LoadIds, l = Current, NEW kind \in LoadKinds, kind = Head(queue).kind,
         NEW r \in LoadType, loads' = [loads EXCEPT ![l] = r],
         r.url = loads[l].url, loads[l].disposed => r.disposed,
         \A m \in LoadIds \ {l} : Wanted(m)' <=> Wanted(m), CachesFit',
         Popping(l, kind) /\ loads'[l] = r => LoadInv(l)'
  PROVE  LoadsInv'
<1>1. loads \in Seq(LoadType) /\ queue \in Seq(BlockType) /\ BlocksInOrder
  BY LoadFacts DEF Inv, Shape, TasksShape, LoadsInv
<1>2. loads'[l] = r
  BY <1>1, ExceptFacts DEF LoadIds
<1>3. l = Head(queue).id
  BY DEF Current
<1>4. /\ BlocksInOrder' /\ Popping(l, kind)
      /\ \A m \in LoadIds \ {l} : (Wanted(m)' <=> Wanted(m)) => Untouched(m)
  BY <1>1, <1>3, PoppedAbout
<1> QED
  BY <1>2, <1>4, OneLoadStep

\* A late block that finds its load disposed of.
LEMMA RunDisposed ==
  ASSUME Inv, LoadsShape, LoadsInv, queue # <<>>, queue' = Tail(queue),
         Current \in LoadIds, Head(queue).kind \in LateKinds,
         UNCHANGED <<loads, subscription>>, CachesFit'
  PROVE  LoadsInv'
<1>1. PICK l \in LoadIds, kind \in LateKinds : l = Current /\ kind = Head(queue).kind
  OBVIOUS
<1>2. PICK r \in LoadType : r = loads[l]
  BY LoadFacts
<1>3. loads' = [loads EXCEPT ![l] = r]
  BY <1>2, LoadFacts DEF LoadIds
<1>4. \A m : Wanted(m)' <=> Wanted(m)
  BY DEF Wanted
<1>5. kind \in LoadKinds /\ kind \notin {"load", "data"}
  BY DEF LoadKinds, Kinds, LateKinds
<1>6. LoadInv(l)
  BY DEF LoadsInv
<1>7. ASSUME Popping(l, kind), loads'[l] = r
      PROVE  LoadInv(l)'
  <2>1. Occupied(l)'
    BY <1>2, <1>4, <1>5, <1>6, <1>7 DEF LoadInv, Occupied, Popping
  <2>2. Pending(l)' = Pending(l)
    BY <1>5, <1>7 DEF Popping
  <2>3. Reported(l)'
    BY <1>2, <1>6, <1>7, <2>2 DEF LoadInv, Reported, Popping
  <2>4. Counted(l)'
    BY <1>2, <1>6, <1>7, <2>2 DEF LoadInv, Counted
  <2> QED
    BY <2>1, <2>3, <2>4 DEF LoadInv
<1> QED
  BY <1>1, <1>2, <1>3, <1>4, <1>5, <1>7, RunLoad

\* A late block that ends its load.
LEMMA RunFinish ==
  ASSUME Inv, LoadsShape, LoadsInv, queue # <<>>, queue' = Tail(queue),
         Current \in LoadIds, Head(queue).kind \in LateKinds,
         NEW loaded \in BOOLEAN, Finish(Current, loaded), CachesFit'
  PROVE  LoadsInv'
<1>1. PICK l \in LoadIds, kind \in LateKinds : l = Current /\ kind = Head(queue).kind
  OBVIOUS
<1>2. PICK r0 \in LoadType : r0 = loads[l]
  BY LoadFacts
<1>3. PICK r \in LoadType : r = Gone(r0)
  BY <1>2, LoadRecords
<1>4. /\ r.url = r0.url /\ r.disposed /\ r.op = r0.op /\ r.conn = "closed" /\ r.work = "none"
      /\ r.data = 0 /\ r.resumed = 0 /\ r.status = "none" /\ r.reply = "none" /\ r.left = 0
  BY <1>3 DEF Gone, NewLoad
<1>5. loads' = [loads EXCEPT ![l] = r]
  BY <1>1, <1>2, <1>3 DEF Finish
<1>6. /\ subscription \in [TaskIds -> Nat] /\ l \in Nat \ {0}
      /\ \A t \in TaskIds : subscription'[t] = IF subscription[t] = l THEN 0 ELSE subscription[t]
  BY <1>1, LoadFacts DEF Finish, Inv, Shape, TasksShape, Ids
<1>7. ~Wanted(l)' /\ \A m \in LoadIds \ {l} : Wanted(m)' <=> Wanted(m)
  <2>1. 0 \notin LoadIds
    BY LoadFacts DEF Ids
  <2> QED
    BY <1>6, <2>1 DEF Wanted
<1>8. kind \in LoadKinds /\ kind \notin {"load", "data"}
  BY DEF LoadKinds, Kinds, LateKinds
<1>9. LoadInv(l) /\ Size \in Nat
  BY ImageLoadingAssumption DEF LoadsInv
<1>10. ASSUME Popping(l, kind), loads'[l] = r
       PROVE  LoadInv(l)'
  <2>1. r.op = "finished" /\ Pending(l)' = 0
    <3>1. Posted(l, LateKinds) /\ Pending(l) = 0
      BY <1>8, <1>10 DEF Popping
    <3>2. Pending(l) = Pending(l)' + 0 /\ Pending(l)' \in Nat
      BY <1>8, <1>10 DEF Popping
    <3>3. r0.op = "finished"
      BY <1>2, <1>9, <3>1 DEF LoadInv, Reported
    <3> QED
      BY <1>4, <3>1, <3>2, <3>3
  <2>2. ~Posted(l, {"load"})'
    BY <1>2, <1>4, <1>8, <1>9, <1>10, <2>1 DEF LoadInv, Occupied, Popping
  <2>3. Occupied(l)'
    BY <1>4, <1>7, <1>10, <2>1, <2>2 DEF Occupied
  <2>4. Reported(l)'
    BY <1>4, <1>10, <2>1 DEF Reported
  <2>5. Counted(l)'
    BY <1>4, <1>9, <1>10, <2>1 DEF Counted, PiecesFit
  <2> QED
    BY <2>3, <2>4, <2>5 DEF LoadInv
<1> QED
  BY <1>1, <1>2, <1>4, <1>5, <1>7, <1>8, <1>10, RunLoad

\* A load has no more pieces than its image.
LEMMA PiecesBound ==
  ASSUME Inv, LoadsShape, LoadsInv, NEW l \in LoadIds
  PROVE  loads[l].data <= Size /\ loads[l].left <= Size /\ loads[l].resumed <= Size
<1>1. PICK r \in LoadType : r = loads[l]
  BY LoadFacts
<1>2. PICK p \in Nat : p = Pending(l)
  BY CountFacts DEF Pending, Inv, Shape, TasksShape
<1>3. PiecesFit(r, p) /\ Size \in Nat
  BY <1>1, <1>2, ImageLoadingAssumption DEF LoadsInv, LoadInv, Counted
<1>4. r.data \in Nat /\ r.left \in Nat /\ r.resumed \in Nat
  BY DEF LoadType
<1>5. r.data <= Size /\ r.left <= Size /\ r.resumed <= Size
  BY <1>2, <1>3, <1>4 DEF PiecesFit
<1> QED
  BY <1>1, <1>5

\* What may be kept of a load is not more than there is of the image.
LEMMA SavedFits ==
  ASSUME Inv, LoadsShape, LoadsInv, NEW l \in LoadIds,
         resumable' = resumable \/ resumable' = Saved(l),
         imageCache' \subseteq Urls
  PROVE  CachesFit'
<1>1. PICK r \in LoadType : r = loads[l]
  BY LoadFacts
<1>2. resumable \in [Urls -> Nat] /\ CachesFit /\ r.data <= Size
  BY <1>1, LoadFacts, PiecesBound DEF LoadsInv
<1>3. CASE resumable' = resumable
  BY <1>2, <1>3 DEF CachesFit
<1>4. CASE resumable' = [resumable EXCEPT ![r.url] = r.data]
  BY <1>2, <1>4 DEF CachesFit
<1> QED
  BY <1>1, <1>3, <1>4 DEF Saved

\* A late block that ends its load, if that has not been disposed of.
LEMMA RunLate ==
  ASSUME Inv, LoadsShape, LoadsInv, queue # <<>>, queue' = Tail(queue),
         Head(queue).kind \in LateKinds, NEW loaded \in BOOLEAN, FinishUnlessDisposed(loaded),
         resumable' = resumable \/ resumable' = Saved(Current),
         imageCache' = imageCache \/ imageCache' = imageCache \cup {loads[Current].url}
  PROVE  LoadsInv'
<1>1. Current \in LoadIds
  <2>1. 1 \in DOMAIN queue /\ Head(queue) = queue[1]
    BY RunFacts DEF Inv, Shape
  <2> QED
    BY <2>1 DEF LoadsShape, LoadsNamed, Current, LateKinds
<1>2. imageCache' \subseteq Urls
  BY <1>1, LoadFacts, ZenonT(30) DEF LoadsInv, CachesFit, LoadType
<1>3. CachesFit'
  BY <1>1, <1>2, SavedFits
<1> QED
  BY <1>1, <1>3, RunDisposed, RunFinish DEF FinishUnlessDisposed

\* An ImageTask gets a load, which is already there, or a new one, or needs none.
LEMMA StartLoads ==
  ASSUME Inv, LoadsShape, LoadsInv, StartImageTask
  PROVE  LoadsInv'
<1> DEFINE u == tasks[Current].url
<1>1. /\ queue \in Seq(BlockType) /\ queue # <<>> /\ queue' = Tail(queue)
      /\ Head(queue).kind = "start" /\ BlocksInOrder
      /\ imageCache' = imageCache /\ resumable' = resumable
  BY DEF StartImageTask, Running, Inv, Shape, TasksShape, LoadsInv
<1>2. /\ Current \in DOMAIN tasks /\ Current \in TaskIds /\ u \in Urls
      /\ subscription[Current] = 0 /\ subscription \in [TaskIds -> Nat]
  <2>1. 1 \in DOMAIN queue /\ Head(queue) = queue[1] /\ Head(queue) \in BlockType
    BY <1>1, RunFacts DEF Inv, Shape
  <2>2. Current \in DOMAIN tasks
    BY <1>1, <2>1 DEF Inv, Life, TasksExist, Current
  <2>3. Current \in TaskIds /\ u \in Urls
    BY <2>2, TaskFacts DEF Inv, Shape
  <2>4. queue[1] = Block("start", Current)
    BY <1>1, <2>1 DEF Current, Block, BlockType
  <2>5. Starting(Current)
    BY <2>1, <2>4 DEF Starting
  <2> QED
    BY <2>2, <2>3, <2>5 DEF Inv, Life, OneLife, Shape, TasksShape
<1>3. LoadIds = 1 .. Len(loads) /\ Len(loads) \in Nat /\ 0 \notin LoadIds
  BY LoadFacts
<1>4. BlocksInOrder' /\ CachesFit'
  <2>1. BlocksInOrder'
    BY <1>1, PopBlocks
  <2> QED
    BY <1>1, <2>1 DEF CachesFit, LoadsInv
<1>5. \A m : (Wanted(m)' <=> Wanted(m)) => Untouched(m)
  BY <1>1, PopTouchesOne
<1>6. CASE UNCHANGED loads /\ \E l \in Pool(u) : subscription' = [subscription EXCEPT ![Current] = l]
  <2>1. PICK l \in Pool(u) : subscription' = [subscription EXCEPT ![Current] = l]
    BY <1>6
  <2>2. l \in LoadIds /\ Wanted(l) /\ Wanted(l)'
    BY <1>2, <2>1 DEF Pool, LoadsInv, LoadInv, Occupied, Wanted
  <2>3. \A m \in LoadIds \ {l} : Wanted(m)' <=> Wanted(m)
    BY <1>2, <1>3, <2>1 DEF Wanted
  <2>4. \A m \in LoadIds : Untouched(m)
    BY <1>5, <2>2, <2>3
  <2> QED
    BY <1>4, <1>6, <2>4, NoLoadStep
<1>7. CASE UNCHANGED <<loads, subscription>>
  <2>1. \A m \in LoadIds : Untouched(m)
    BY <1>5, <1>7 DEF Wanted
  <2> QED
    BY <1>4, <1>7, <2>1, NoLoadStep
<1>8. CASE /\ Pool(u) = {}
           /\ loads' = Append(loads, NewLoad(u))
           /\ subscription' = [subscription EXCEPT ![Current] = Len(loads) + 1]
  <2>1. PICK n \in Nat : n = Len(loads) + 1 /\ n \notin LoadIds /\ n # 0
    BY <1>3
  <2>2. PICK r \in LoadType : r = NewLoad(u)
    BY <1>2 DEF NewLoad, LoadType
  <2>3. /\ LoadIds' = LoadIds \cup {n}
        /\ loads'[n] = r
        /\ \A m \in LoadIds : loads'[m] = loads[m]
    <3>1. /\ DOMAIN loads = 1 .. Len(loads)
          /\ DOMAIN Append(loads, r) = 1 .. Len(loads) + 1
          /\ \A i \in DOMAIN loads : Append(loads, r)[i] = loads[i]
          /\ Append(loads, r)[Len(loads) + 1] = r
      BY LoadFacts, AppendFacts
    <3> QED
      BY <1>3, <1>8, <2>1, <2>2, <3>1 DEF LoadIds
  <2>4. /\ r.url = u /\ ~r.disposed /\ r.op = "waiting" /\ r.conn = "none" /\ r.work = "none"
        /\ r.data = 0 /\ r.resumed = 0 /\ r.status = "none" /\ r.reply = "none" /\ r.left = 0
    BY <2>2 DEF NewLoad
  <2>5. Wanted(n)' /\ \A m \in LoadIds : Wanted(m)' <=> Wanted(m)
    BY <1>2, <1>3, <1>8, <2>1 DEF Wanted
  <2>6. \A m \in LoadIds : LoadInv(m)'
    BY <1>5, <2>3, <2>5, UntouchedKeeps DEF LoadsInv
  <2>7. /\ \A K \in SUBSET LoadKinds : ~Posted(n, K)'
        /\ Pending(n)' = 0
    <3>1. \A K \in SUBSET LoadKinds : ~Posted(n, K)
      BY <2>1 DEF Posted, LoadKinds, LoadsShape, LoadsNamed
    <3>2. \A i \in DOMAIN queue : queue[i] # Block("data", n)
      BY <2>1 DEF Block, LoadsShape, LoadsNamed
    <3>3. Pending(n) = 0
      BY <1>1, <3>2, CountFacts DEF Pending
    <3>4. /\ \A K : Posted(n, K)' => Posted(n, K)
          /\ Pending(n) = Pending(n)' + IF Head(queue) = Block("data", n) THEN 1 ELSE 0
          /\ Pending(n)' \in Nat
      BY <1>1, PopBlocks
    <3>5. Head(queue) # Block("data", n)
      BY <1>1 DEF Block
    <3>6. Pending(n)' = 0
      BY <3>3, <3>4, <3>5
    <3> QED
      BY <3>1, <3>4, <3>6
  <2>8. LoadInv(n)'
    <3>1. {{"load"}, LateKinds, {"finished"}, {"decoded"}} \subseteq SUBSET LoadKinds
      BY DEF LoadKinds, Kinds, LateKinds
    <3>2. Occupied(n)'
      BY <2>3, <2>4, <2>5, <2>7, <3>1 DEF Occupied
    <3>3. Reported(n)'
      BY <2>3, <2>4, <2>7, <3>1 DEF Reported
    <3>4. Counted(n)'
      BY <2>3, <2>4, <2>7, ImageLoadingAssumption DEF Counted, PiecesFit
    <3> QED
      BY <3>2, <3>3, <3>4 DEF LoadInv
  <2>9. OneDownload'
    <3>1. \A m \in LoadIds : loads[m].url = u => loads[m].disposed
      BY <1>8 DEF Pool
    <3> QED
      BY <2>3, <2>4, <3>1 DEF LoadsInv, OneDownload
  <2> QED
    BY <1>4, <2>3, <2>6, <2>8, <2>9 DEF LoadsInv
<1> QED
  BY <1>6, <1>7, <1>8 DEF StartImageTask

\* An ImageTask leaves its load, which ends if it was the last.
LEMMA CancelLoads ==
  ASSUME Inv, LoadsShape, LoadsInv, CancelImageTask
  PROVE  LoadsInv'
<1>1. /\ queue \in Seq(BlockType) /\ queue # <<>> /\ queue' = Tail(queue)
      /\ Head(queue).kind = "cancel" /\ BlocksInOrder /\ imageCache' = imageCache
  BY DEF CancelImageTask, Running, Inv, Shape, TasksShape, LoadsInv
<1>2. /\ Current \in TaskIds /\ subscription \in [TaskIds -> Nat]
      /\ subscription[Current] # 0 => subscription[Current] \in LoadIds
  <2>1. 1 \in DOMAIN queue /\ Head(queue) = queue[1] /\ Head(queue) \in BlockType
    BY <1>1, RunFacts DEF Inv, Shape
  <2>2. Current \in DOMAIN tasks
    BY <1>1, <2>1 DEF Inv, Life, TasksExist, Current
  <2> QED
    BY <2>2, TaskFacts DEF Inv, Shape, TasksShape, LoadsShape, LoadsNamed
<1>3. 0 \notin LoadIds
  BY LoadFacts DEF Ids
<1>4. BlocksInOrder'
  BY <1>1, PopBlocks
<1>5. \A m : (Wanted(m)' <=> Wanted(m)) => Untouched(m)
  BY <1>1, PopTouchesOne
<1>6. CASE UNCHANGED <<loads, resumable>> /\ \A m \in LoadIds : Wanted(m)' <=> Wanted(m)
  <2>1. CachesFit'
    BY <1>1, <1>6 DEF CachesFit, LoadsInv
  <2> QED
    BY <1>4, <1>5, <1>6, <2>1, NoLoadStep
<1>7. CASE subscription[Current] = 0
  BY <1>6, <1>7 DEF CancelImageTask, Wanted
<1>8. ASSUME NEW l \in LoadIds, l = subscription[Current]
      PROVE  LoadsInv'
  <2>1. subscription' = [subscription EXCEPT ![Current] = 0]
    BY <1>3, <1>8 DEF CancelImageTask
  <2>2. \A m \in LoadIds \ {l} : Wanted(m)' <=> Wanted(m)
    BY <1>2, <1>3, <1>8, <2>1 DEF Wanted
  <2>3. CASE Subscribers(l) # {Current}
    <3>1. Wanted(l)' /\ Wanted(l)
      BY <1>2, <1>8, <2>1, <2>3 DEF Wanted, Subscribers
    <3>2. UNCHANGED <<loads, resumable>>
      BY <1>3, <1>8, <2>3 DEF CancelImageTask
    <3> QED
      BY <1>6, <2>2, <3>1, <3>2
  <2>4. CASE Subscribers(l) = {Current}
    <3>1. PICK running \in BOOLEAN : loads' = [loads EXCEPT ![l] = Terminated(loads[l], running)]
      BY <1>3, <1>8, <2>4 DEF CancelImageTask
    <3>2. PICK r0 \in LoadType : r0 = loads[l]
      BY LoadFacts
    <3>3. PICK r \in LoadType : r = Terminated(r0, running)
      BY LoadRecords
    <3>4. /\ r.url = r0.url /\ r.disposed
          /\ r.op = IF r0.op = "executing" /\ r0.conn = "none" THEN "executing" ELSE "finished"
          /\ r.conn = IF r0.conn \in {"asked", "sending"} THEN "cancelled" ELSE r0.conn
          /\ r.work # "none" => r0.work # "none"
          /\ r.data = r0.data /\ r.resumed = r0.resumed /\ r.status = r0.status
          /\ r.reply = r0.reply /\ r.left = r0.left
      BY <3>3 DEF Terminated, LoadType
    <3>5. loads' = [loads EXCEPT ![l] = r] /\ loads'[l] = r
      BY <3>1, <3>2, <3>3, LoadFacts, ExceptFacts DEF LoadIds
    <3>6. ~Wanted(l)' /\ Wanted(l)
      BY <1>2, <1>3, <1>8, <2>1, <2>4 DEF Wanted, Subscribers
    <3>7. LoadInv(l)
      BY DEF LoadsInv
    <3>8. /\ \A K \in {{"load"}, LateKinds, {"finished"}, {"decoded"}} : Posted(l, K)' <=> Posted(l, K)
          /\ Pending(l)' = Pending(l)
      <4>1. \A K \in {{"load"}, LateKinds, {"finished"}, {"decoded"}} : K \in SUBSET LoadKinds
        BY DEF LoadKinds, Kinds, LateKinds
      <4>2. \A K \in SUBSET LoadKinds : Posted(l, K)' <=> Posted(l, K)
        <5>1. /\ \A K : Posted(l, K)' => Posted(l, K)
              /\ \A K : Posted(l, K) => Posted(l, K)' \/ Head(queue).kind \in K
          BY <1>1, PopBlocks
        <5> QED
          BY <1>1, <5>1 DEF LoadKinds
      <4>3. Pending(l)' = Pending(l)
        <5>1. /\ Pending(l) = Pending(l)' + IF Head(queue) = Block("data", l) THEN 1 ELSE 0
              /\ Pending(l)' \in Nat
          BY <1>1, PopBlocks
        <5>2. Head(queue) # Block("data", l)
          BY <1>1 DEF Block
        <5> QED
          BY <5>1, <5>2
      <4> QED
        BY <4>1, <4>2, <4>3
    <3>9. Occupied(l)'
      <4>1. /\ r.conn \notin {"asked", "sending"}
            /\ r.op = "executing" => r.conn = "none"
            /\ r.op # "waiting"
            /\ r.op = "executing" /\ r.conn = "none" <=> r0.op = "executing" /\ r0.conn = "none"
        BY <3>4
      <4> QED
        BY <3>2, <3>4, <3>5, <3>6, <3>7, <3>8, <4>1 DEF LoadInv, Occupied
    <3>10. Reported(l)'
      <4>1. Posted(l, LateKinds) => r.op = "finished" /\ r.conn # "cancelled"
        BY <3>2, <3>4, <3>7 DEF LoadInv, Occupied, Reported
      <4>2. /\ r.work # "none" => r.conn = "done"
            /\ r.conn = "done" => r.data = Size /\ r.left = 0 /\ r.reply # "none" /\ Pending(l) = 0
        BY <3>2, <3>4, <3>7 DEF LoadInv, Reported
      <4> QED
        BY <3>4, <3>5, <3>8, <4>1, <4>2 DEF Reported
    <3>11. Counted(l)'
      <4>1. PICK p : p = Pending(l) /\ PiecesFit(r0, p)
        BY <3>2, <3>7 DEF LoadInv, Counted
      <4>2. PiecesFit(r, p)
        BY <3>4, <4>1 DEF PiecesFit
      <4> QED
        BY <3>5, <3>8, <4>1, <4>2 DEF Counted
    <3>12. CachesFit'
      <4>1. resumable' = resumable \/ resumable' = Saved(l)
        BY <1>3, <1>8, <2>4 DEF CancelImageTask
      <4> QED
        BY <1>1, <4>1, SavedFits DEF LoadsInv, CachesFit
    <3>13. LoadInv(l)' /\ r.url = loads[l].url /\ \A m \in LoadIds \ {l} : Untouched(m)
      BY <1>5, <2>2, <3>2, <3>4, <3>9, <3>10, <3>11 DEF LoadInv
    <3> QED
      BY <1>4, <3>4, <3>5, <3>12, <3>13, OneLoadStep
  <2> QED
    BY <2>3, <2>4
<1> QED
  BY <1>2, <1>7, <1>8

\* The operation of a download begins, or finds that nobody wants it.
LEMMA LoadDataLoads ==
  ASSUME Inv, LoadsShape, LoadsInv, LoadImageData
  PROVE  LoadsInv'
<1>1. /\ queue \in Seq(BlockType) /\ queue # <<>> /\ queue' = Tail(queue)
      /\ Head(queue).kind = "load" /\ "load" \in LoadKinds
      /\ imageCache' = imageCache /\ UNCHANGED subscription
  BY DEF LoadImageData, Running, Inv, Shape, TasksShape, LoadKinds, Kinds
<1>2. PICK l \in LoadIds : l = Current
  <2>1. 1 \in DOMAIN queue /\ Head(queue) = queue[1]
    BY <1>1, RunFacts DEF Inv, Shape
  <2> QED
    BY <1>1, <2>1 DEF LoadsShape, LoadsNamed, Current
<1>3. PICK r0 \in LoadType : r0 = loads[l]
  BY LoadFacts
<1>4. \A m : Wanted(m)' <=> Wanted(m)
  BY <1>1 DEF Wanted
<1>5. LoadInv(l) /\ CachesFit /\ resumable \in [Urls -> Nat] /\ Size \in Nat
  BY LoadFacts, ImageLoadingAssumption DEF LoadsInv
<1>6. CASE r0.disposed
  <2>1. PICK r \in LoadType : r = [r0 EXCEPT !.op = "finished"]
    BY DEF LoadType
  <2>2. /\ r.url = r0.url /\ r.disposed /\ r.op = "finished" /\ r.conn = r0.conn
        /\ r.work = r0.work /\ r.data = r0.data /\ r.resumed = r0.resumed
        /\ r.status = r0.status /\ r.reply = r0.reply /\ r.left = r0.left
    BY <1>6, <2>1 DEF LoadType
  <2>3. loads' = [loads EXCEPT ![l] = r]
    BY <1>2, <1>3, <1>6, <2>1 DEF LoadImageData
  <2>4. CachesFit'
    BY <1>1, <1>2, <1>3, <1>5, <1>6 DEF LoadImageData, CachesFit
  <2>5. ASSUME Popping(l, "load"), loads'[l] = r
        PROVE  LoadInv(l)'
    <3>1. Pending(l)' = Pending(l) /\ ~Posted(l, {"load"})' /\ Posted(l, {"load"})
      BY <2>5 DEF Popping
    <3>2. r0.op = "executing" /\ r0.conn = "none"
      BY <1>3, <1>5, <3>1 DEF LoadInv, Occupied
    <3>3. Occupied(l)'
      BY <1>3, <1>4, <1>5, <1>6, <2>2, <2>5, <3>1, <3>2 DEF LoadInv, Occupied
    <3>4. Reported(l)'
      BY <1>3, <1>5, <2>2, <2>5, <3>1, <3>2 DEF LoadInv, Reported, Popping
    <3>5. Counted(l)'
      BY <1>3, <1>5, <2>2, <2>5, <3>1 DEF LoadInv, Counted, PiecesFit
    <3> QED
      BY <3>3, <3>4, <3>5 DEF LoadInv
  <2> QED
    BY <1>1, <1>2, <1>3, <1>4, <2>2, <2>3, <2>4, <2>5, RunLoad
<1>7. CASE ~r0.disposed
  <2>1. PICK n \in Nat : n = resumable[r0.url] /\ n <= Size
    BY <1>5 DEF CachesFit, LoadType
  <2>2. PICK r \in LoadType : r = [r0 EXCEPT !.conn = "asked", !.resumed = n]
    BY DEF LoadType
  <2>3. /\ r.url = r0.url /\ ~r.disposed /\ r.op = r0.op /\ r.conn = "asked"
        /\ r.work = r0.work /\ r.data = r0.data /\ r.resumed = n
        /\ r.status = r0.status /\ r.reply = r0.reply /\ r.left = r0.left
    BY <1>7, <2>2 DEF LoadType
  <2>4. loads' = [loads EXCEPT ![l] = r]
    BY <1>2, <1>3, <1>7, <2>1, <2>2, LoadFacts DEF LoadImageData
  <2>5. CachesFit'
    <3>1. resumable' = [resumable EXCEPT ![r0.url] = 0]
      BY <1>2, <1>3, <1>7 DEF LoadImageData
    <3> QED
      BY <1>1, <1>5, <3>1 DEF CachesFit
  <2>6. ASSUME Popping(l, "load"), loads'[l] = r
        PROVE  LoadInv(l)'
    <3>1. Pending(l)' = Pending(l) /\ ~Posted(l, {"load"})' /\ Posted(l, {"load"})
      BY <2>6 DEF Popping
    <3>2. r0.op = "executing" /\ r0.conn = "none"
      BY <1>3, <1>5, <3>1 DEF LoadInv, Occupied
    <3>3. Occupied(l)'
      BY <1>3, <1>4, <1>5, <1>7, <2>3, <2>6, <3>1, <3>2 DEF LoadInv, Occupied
    <3>4. Reported(l)'
      <4>1. ~Posted(l, LateKinds) /\ r0.work = "none"
        BY <1>3, <1>5, <3>2 DEF LoadInv, Reported
      <4>2. ~Posted(l, {"finished"}) /\ ~Posted(l, {"decoded"})
        BY <4>1 DEF Posted, LateKinds
      <4> QED
        BY <2>3, <2>6, <4>1, <4>2 DEF Reported, Popping
    <3>5. Counted(l)'
      <4>1. PICK p : p = Pending(l) /\ PiecesFit(r0, p)
        BY <1>3, <1>5 DEF LoadInv, Counted
      <4>2. PiecesFit(r, p)
        BY <2>1, <2>3, <3>2, <4>1 DEF PiecesFit
      <4> QED
        BY <2>6, <3>1, <4>1, <4>2 DEF Counted
    <3> QED
      BY <3>3, <3>4, <3>5 DEF LoadInv
  <2> QED
    BY <1>1, <1>2, <1>3, <1>4, <1>7, <2>3, <2>4, <2>5, <2>6, RunLoad
<1> QED
  BY <1>6, <1>7

\* A piece is received.
LEMMA ReceiveLoads ==
  ASSUME Inv, LoadsShape, LoadsInv, ReceiveData
  PROVE  LoadsInv'
<1>1. /\ queue \in Seq(BlockType) /\ queue # <<>> /\ queue' = Tail(queue)
      /\ Head(queue).kind = "data" /\ "data" \in LoadKinds /\ "data" \notin LateKinds
      /\ UNCHANGED <<imageCache, resumable, subscription>>
  BY DEF ReceiveData, Running, Inv, Shape, TasksShape, LoadKinds, Kinds, LateKinds
<1>2. PICK l \in LoadIds : l = Current
  <2>1. 1 \in DOMAIN queue /\ Head(queue) = queue[1]
    BY <1>1, RunFacts DEF Inv, Shape
  <2> QED
    BY <1>1, <2>1 DEF LoadsShape, LoadsNamed, Current
<1>3. PICK r0 \in LoadType : r0 = loads[l]
  BY LoadFacts
<1>4. \A m : Wanted(m)' <=> Wanted(m)
  BY <1>1 DEF Wanted
<1>5. LoadInv(l) /\ Size \in Nat /\ CachesFit'
  BY <1>1, ImageLoadingAssumption DEF LoadsInv, CachesFit
<1>6. PICK n \in Nat : n = Received(r0)
  BY DEF Received, LoadType
<1>7. PICK r \in LoadType : r = [r0 EXCEPT !.data = n, !.status = r0.reply, !.resumed = 0]
  BY DEF LoadType
<1>8. /\ r.url = r0.url /\ r.disposed = r0.disposed /\ r.op = r0.op /\ r.conn = r0.conn
      /\ r.work = r0.work /\ r.data = n /\ r.resumed = 0
      /\ r.status = r0.reply /\ r.reply = r0.reply /\ r.left = r0.left
  BY <1>7 DEF LoadType
<1>9. loads' = [loads EXCEPT ![l] = r]
  BY <1>2, <1>3, <1>6, <1>7, LoadFacts DEF ReceiveData
<1>10. ASSUME Popping(l, "data"), loads'[l] = r
       PROVE  LoadInv(l)'
  <2>1. PICK p \in Nat : p = Pending(l)' /\ Pending(l) = p + 1
    BY <1>10 DEF Popping
  <2>2. Posted(l, {"load"})' <=> Posted(l, {"load"})
    BY <1>10 DEF Popping
  <2>3. PiecesFit(r0, p + 1)
    BY <1>3, <1>5, <2>1 DEF LoadInv, Counted
  <2>4. r0.conn # "done"
    BY <1>3, <1>5, <2>1 DEF LoadInv, Reported
  <2>5. Occupied(l)'
    BY <1>3, <1>4, <1>5, <1>8, <1>10, <2>2 DEF LoadInv, Occupied
  <2>6. Reported(l)'
    BY <1>3, <1>5, <1>8, <1>10, <2>4 DEF LoadInv, Reported, Popping
  <2>7. r0.reply # "none"
    BY <2>1, <2>3 DEF PiecesFit
  <2>8. n + p + r0.left = Size
    <3>1. r0.data \in Nat /\ r0.resumed \in Nat /\ r0.left \in Nat
      BY DEF LoadType
    <3>2. CASE r0.status = "none" /\ r0.reply = "rest"
      <4>1. n = r0.resumed + 1
        BY <1>6, <3>2 DEF Received
      <4>2. r0.resumed + (p + 1) + r0.left = Size
        BY <2>3, <3>2 DEF PiecesFit
      <4> QED
        BY <2>1, <3>1, <4>1, <4>2
    <3>3. CASE ~(r0.status = "none" /\ r0.reply = "rest")
      <4>1. n = r0.data + 1
        BY <1>6, <3>3 DEF Received
      <4>2. r0.data + (p + 1) + r0.left = Size
        BY <2>3, <2>7, <3>3 DEF PiecesFit
      <4> QED
        BY <2>1, <3>1, <4>1, <4>2
    <3> QED
      BY <3>2, <3>3
  <2>9. PiecesFit(r, p)
    BY <1>5, <1>8, <2>3, <2>7, <2>8 DEF PiecesFit
  <2> QED
    BY <1>10, <2>1, <2>5, <2>6, <2>9 DEF LoadInv, Counted
<1> QED
  BY <1>1, <1>2, <1>3, <1>4, <1>5, <1>8, <1>9, <1>10, RunLoad

\* The whole image has come, or it has been decoded: the next step.
LEMMA EndLoads ==
  ASSUME Inv, LoadsShape, LoadsInv, DownloadFinished \/ DecodingEnded
  PROVE  LoadsInv'
<1>1. /\ queue \in Seq(BlockType) /\ queue # <<>> /\ queue' = Tail(queue)
      /\ UNCHANGED <<imageCache, resumable, subscription>>
  BY DEF DownloadFinished, DecodingEnded, Running, Inv, Shape, TasksShape
<1>2. PICK kind \in LoadKinds \cap LateKinds :
        /\ kind = Head(queue).kind
        /\ kind \in {"finished", "decoded"}
        /\ kind = "finished" => DownloadFinished
        /\ kind = "decoded" => DecodingEnded
  <2>1. CASE DownloadFinished
    BY <2>1 DEF DownloadFinished, Running, LoadKinds, LateKinds, Kinds
  <2>2. CASE DecodingEnded
    BY <2>2 DEF DecodingEnded, Running, LoadKinds, LateKinds, Kinds
  <2> QED
    BY <2>1, <2>2
<1>3. PICK l \in LoadIds : l = Current
  <2>1. 1 \in DOMAIN queue /\ Head(queue) = queue[1]
    BY <1>1, RunFacts DEF Inv, Shape
  <2> QED
    BY <1>2, <2>1 DEF LoadsShape, LoadsNamed, Current
<1>4. PICK r0 \in LoadType : r0 = loads[l]
  BY LoadFacts
<1>5. LoadInv(l) /\ Size \in Nat /\ CachesFit'
  BY <1>1, ImageLoadingAssumption DEF LoadsInv, CachesFit
<1>6. CASE r0.disposed
  <2>1. UNCHANGED loads
    BY <1>2, <1>3, <1>4, <1>6 DEF DownloadFinished, DecodingEnded
  <2> QED
    BY <1>1, <1>2, <1>3, <1>5, <2>1, RunDisposed
<1>7. CASE ~r0.disposed
  <2>1. PICK work \in {"decode", "decompress"} :
          loads' = [loads EXCEPT ![l] =
                      [r0 EXCEPT !.conn = IF kind = "finished" THEN "done" ELSE @, !.work = work]]
    <3>1. CASE kind = "finished"
      <4>1. loads' = [loads EXCEPT ![l].conn = "done", ![l].work = "decode"]
        BY <1>2, <1>3, <1>4, <1>7, <3>1 DEF DownloadFinished
      <4>2. loads' = [loads EXCEPT ![l] = [r0 EXCEPT !.conn = "done", !.work = "decode"]]
        BY <1>4, <4>1, LoadFacts DEF LoadIds
      <4> QED
        BY <3>1, <4>2
    <3>2. CASE kind = "decoded"
      <4>1. loads' = [loads EXCEPT ![l].work = "decompress"]
        BY <1>2, <1>3, <1>4, <1>7, <3>2 DEF DecodingEnded
      <4>2. loads' = [loads EXCEPT ![l] = [r0 EXCEPT !.conn = r0.conn, !.work = "decompress"]]
        BY <1>4, <4>1, LoadFacts DEF LoadIds, LoadType
      <4> QED
        BY <3>2, <4>2
    <3> QED
      BY <1>2, <3>1, <3>2
  <2>2. PICK r \in LoadType :
          r = [r0 EXCEPT !.conn = IF kind = "finished" THEN "done" ELSE @, !.work = work]
    BY DEF LoadType
  <2>3. /\ r.url = r0.url /\ r.disposed = r0.disposed /\ r.op = r0.op
        /\ r.conn = IF kind = "finished" THEN "done" ELSE r0.conn
        /\ r.data = r0.data /\ r.resumed = r0.resumed
        /\ r.status = r0.status /\ r.reply = r0.reply /\ r.left = r0.left
    BY <2>2 DEF LoadType
  <2>4. \A m : Wanted(m)' <=> Wanted(m)
    BY <1>1 DEF Wanted
  <2>5. ASSUME Popping(l, kind), loads'[l] = r
        PROVE  LoadInv(l)'
    <3>1. /\ Pending(l) = 0 /\ Pending(l)' = 0
          /\ Posted(l, LateKinds)
          /\ Posted(l, {"load"})' <=> Posted(l, {"load"})
          /\ kind = "finished" => Posted(l, {"finished"})
          /\ kind = "decoded" => Posted(l, {"decoded"})
      <4>1. kind \notin {"load", "data"}
        BY <1>2
      <4>2. Pending(l) = 0 /\ Pending(l) = Pending(l)' + 0 /\ Pending(l)' \in Nat
        BY <1>2, <2>5, <4>1 DEF Popping
      <4> QED
        BY <1>2, <2>5, <4>1, <4>2 DEF Popping
    <3>2. PiecesFit(r0, 0) /\ r0.op = "finished" /\ r0.conn # "cancelled"
      BY <1>4, <1>5, <3>1 DEF LoadInv, Reported, Counted
    <3>3. /\ r.conn = "done"
          /\ r0.conn \in {"closed", "done"} /\ r0.left = 0 /\ r0.reply # "none"
          /\ r0.data = Size
      <4>1. CASE kind = "finished"
        <5>1. r0.conn \in {"closed", "done"} /\ r0.left = 0 /\ r0.reply # "none"
          BY <1>4, <1>5, <1>7, <3>1, <4>1 DEF LoadInv, Reported
        <5>2. r0.data \in Nat /\ r0.resumed \in Nat
          BY DEF LoadType
        <5>3. r0.data = Size
          BY <1>5, <3>2, <5>1, <5>2 DEF PiecesFit
        <5> QED
          BY <2>3, <4>1, <5>1, <5>3
      <4>2. CASE kind = "decoded"
        BY <1>4, <1>5, <1>7, <2>3, <3>1, <4>2 DEF LoadInv, Reported
      <4> QED
        BY <1>2, <4>1, <4>2
    <3>4. Occupied(l)'
      BY <1>4, <1>5, <2>3, <2>4, <2>5, <3>1, <3>2, <3>3 DEF LoadInv, Occupied
    <3>5. Reported(l)'
      BY <2>3, <2>5, <3>1, <3>2, <3>3 DEF Reported
    <3>6. Counted(l)'
      <4>1. PiecesFit(r, 0)
        BY <2>3, <3>2, <3>3 DEF PiecesFit
      <4> QED
        BY <2>5, <3>1, <4>1 DEF Counted
    <3> QED
      BY <3>4, <3>5, <3>6 DEF LoadInv
  <2>6. loads' = [loads EXCEPT ![l] = r]
    BY <2>1, <2>2
  <2>7. kind \in LoadKinds /\ r.url = loads[l].url /\ ~loads[l].disposed
    BY <1>2, <1>4, <1>7, <2>3
  <2> QED
    BY <1>1, <1>2, <1>3, <1>5, <2>4, <2>5, <2>6, <2>7, RunLoad
<1> QED
  BY <1>6, <1>7

\* The blocks of the pipeline's queue.
LEMMA PipelineLoads ==
  ASSUME Inv, LoadsShape, LoadsInv, PipelineRuns
  PROVE  LoadsInv'
<1>1. ASSUME Head(queue).kind \in LateKinds, queue # <<>>, queue' = Tail(queue),
             NEW loaded \in BOOLEAN, FinishUnlessDisposed(loaded),
             resumable' = resumable \/ resumable' = Saved(Current),
             imageCache' = imageCache \/ imageCache' = imageCache \cup {loads[Current].url}
      PROVE  LoadsInv'
  BY <1>1, RunLate
<1>2. CASE DownloadFailed
  BY <1>1, <1>2 DEF DownloadFailed, Running, LateKinds
<1>3. CASE DecodingFailed
  BY <1>1, <1>3 DEF DecodingFailed, Running, LateKinds
<1>4. CASE DecompressionEnded
  BY <1>1, <1>4 DEF DecompressionEnded, Running, LateKinds
<1> QED
  BY <1>2, <1>3, <1>4, StartLoads, CancelLoads, LoadDataLoads, ReceiveLoads, EndLoads
     DEF PipelineRuns

\* The main queue puts blocks about ImageTasks on the queue.
LEMMA MainLoads ==
  ASSUME Inv, LoadsInv,
         \/ \E v \in Views, u \in Urls : OpenArticle(v, u)
         \/ \E v \in Views : CloseArticle(v)
         \/ CallAgain \/ Deliver
  PROVE  LoadsInv'
<1>1. queue \in Seq(BlockType) /\ BlocksInOrder /\ CachesFit
  BY DEF Inv, Shape, TasksShape, LoadsInv
<1>2. UNCHANGED <<subscription, loads, imageCache, resumable>>
  BY DEF OpenArticle, CloseArticle, CallAgain, Deliver
<1>3. CachesFit'
  BY <1>1, <1>2 DEF CachesFit
<1>4. ASSUME NEW v \in Views, NEW u \in Urls, NEW completion \in BOOLEAN,
             LoadImage(v, u, completion)
      PROVE  LoadsInv'
  <2>1. /\ queue' \in Seq(BlockType)
        /\ \A i \in DOMAIN queue : i \in DOMAIN queue' /\ queue'[i] = queue[i]
        /\ \A i \in DOMAIN queue' : i \notin DOMAIN queue => queue'[i].kind \in {"start", "cancel"}
    BY <1>4, CallAppends DEF Inv, Screens
  <2>2. BlocksInOrder' /\ \A m : Untouched(m)
    BY <1>1, <1>2, <2>1, AppendBlocks
  <2> QED
    BY <1>2, <1>3, <2>2, NoLoadStep
<1>5. CASE UNCHANGED queue
  <2>1. BlocksInOrder' /\ \A m : Untouched(m)
    BY <1>1, <1>2, <1>5 DEF BlocksInOrder, Untouched, Posted, Pending, Wanted
  <2> QED
    BY <1>2, <1>3, <2>1, NoLoadStep
<1>6. CASE CallAgain
  <2>1. calling \in Views /\ article[calling] \in Urls /\ LoadImage(calling, article[calling], TRUE)
    BY <1>6 DEF CallAgain, Inv, Shape, ScreensShape, Screens, ClosedIsEmpty
  <2> QED
    BY <1>4, <2>1
<1> QED
  BY <1>4, <1>5, <1>6 DEF OpenArticle, CloseArticle, Deliver

\* The memory cache may lose an image at any time.
LEMMA TrimLoads ==
  ASSUME Inv, LoadsInv, (\E u \in Urls : Trim(u)) \/ UNCHANGED vars
  PROVE  LoadsInv'
<1>1. UNCHANGED <<queue, subscription, loads, resumable>> /\ imageCache' \subseteq imageCache
  BY DEF Trim, vars
<1>2. BlocksInOrder' /\ CachesFit' /\ \A m : Untouched(m)
  BY <1>1 DEF LoadsInv, BlocksInOrder, CachesFit, Untouched, Posted, Pending, Wanted
<1> QED
  BY <1>1, <1>2, NoLoadStep

\* The whole invariant: what has been asked for, and what is loaded for it.
THEOREM LoadsInvariance == Spec => [](Inv /\ LoadsShape /\ LoadsInv)
<1>1. Init => Inv /\ LoadsShape /\ LoadsInv
  <2> SUFFICES ASSUME Init
               PROVE  Inv /\ LoadsShape /\ LoadsInv
    OBVIOUS
  <2>1. LoadIds = {} /\ DOMAIN queue = {} /\ imageCache = {}
    BY DEF Init, LoadIds
  <2>2. CachesFit
    BY <2>1, ImageLoadingAssumption DEF Init, CachesFit
  <2>3. LoadsInv
    BY <2>1, <2>2 DEF LoadsInv, BlocksInOrder, OneDownload
  <2> QED
    BY <2>3, InitHolds
<1>2. ASSUME Inv, LoadsShape, LoadsInv, [Next]_vars
      PROVE  Inv' /\ LoadsShape' /\ LoadsInv'
  <2>1. CASE \/ \E v \in Views, u \in Urls : OpenArticle(v, u)
             \/ \E v \in Views : CloseArticle(v)
             \/ CallAgain \/ Deliver
    BY <1>2, <2>1, MainStep, MainLoads
  <2>2. CASE PipelineRuns
    BY <1>2, <2>2, PipelineStep, PipelineLoads
  <2>3. CASE \E l \in LoadIds : OperationStarts(l) \/ Network(l) \/ Decoded(l) \/ Decompressed(l)
    BY <1>2, <2>3, ThreadsStep, ThreadsLoads
  <2>4. CASE (\E u \in Urls : Trim(u)) \/ UNCHANGED vars
    BY <1>2, <2>4, TrimStep, TrimLoads
  <2> QED
    BY <1>2, <2>1, <2>2, <2>3, <2>4 DEF Next
<1> QED
  BY <1>1, <1>2, PTL DEF Spec

\* The types of the state, and that no more pieces of an image are received, kept
\* or expected than it has, for images and bounds of any size.
THEOREM TypeCorrect == Spec => []TypeOK
<1>1. Inv /\ LoadsShape /\ LoadsInv => TypeOK
  <2> SUFFICES ASSUME Inv, LoadsShape, LoadsInv
               PROVE  TypeOK
    OBVIOUS
  <2>1. /\ article \in [Views -> Urls \cup {None}]
        /\ shown \in [Views -> Urls \cup {None}]
        /\ rated \in [Views -> BOOLEAN]
        /\ task \in [Views -> Nat \cup {None}]
        /\ calling \in Views \cup {None}
        /\ tasks \in Seq([view : Views, url : Urls, completion : BOOLEAN, cancelled : BOOLEAN])
        /\ Len(tasks) <= MaxTasks
        /\ imageCache \subseteq Urls
    BY DEF Inv, Shape, ScreensShape, TasksShape, ImageType, LoadsInv, CachesFit
  <2>2. task \in [Views -> DOMAIN tasks \cup {None}]
    <3>1. \A v \in Views : task[v] \in DOMAIN tasks \cup {None}
      BY DEF Inv, Screens, OutstandingFits
    <3> QED
      BY <2>1, <3>1
  <2>3. main \in Seq([task : DOMAIN tasks, loaded : BOOLEAN])
    <3> DEFINE E == [task : DOMAIN tasks, loaded : BOOLEAN]
    <3>1. main \in Seq(EventType) /\ \A i \in DOMAIN main : main[i].task \in DOMAIN tasks
      BY DEF Inv, Shape, TasksShape, Life, TasksExist
    <3>2. \A i \in DOMAIN main : main[i] \in EventType
      BY <3>1
    <3>3. \A i \in DOMAIN main : main[i] \in E
      BY <3>1, <3>2 DEF EventType
    <3> HIDE DEF E
    <3>4. main \in Seq(E)
      BY <3>1, <3>3
    <3> QED
      BY <3>4 DEF E
  <2>4. subscription \in [TaskIds -> LoadIds \cup {0}]
    <3>1. subscription \in [TaskIds -> Nat] /\ \A t \in TaskIds : subscription[t] \in LoadIds \cup {0}
      BY DEF Inv, Shape, TasksShape, LoadsShape, LoadsNamed
    <3> QED
      BY <3>1
  <2>5. Size \in Nat
    BY ImageLoadingAssumption
  <2>6. loads \in Seq(Load)
    <3>1. ASSUME NEW l \in LoadIds
          PROVE  loads[l] \in Load
      <4>1. PICK r \in LoadType : r = loads[l]
        BY LoadFacts
      <4>2. r.data <= Size /\ r.left <= Size /\ r.resumed <= Size
        BY <4>1, PiecesBound
      <4>3. r \in Load
        BY <2>5, <4>2 DEF LoadType, Load
      <4> QED
        BY <4>1, <4>3
    <3>2. loads \in Seq(LoadType)
      BY LoadFacts
    <3> QED
      BY <3>1, <3>2 DEF LoadIds
  <2>7. resumable \in [Urls -> 0 .. Size]
    <3>1. resumable \in [Urls -> Nat] /\ \A u \in Urls : resumable[u] <= Size
      BY DEF LoadsShape, LoadsInv, CachesFit
    <3> QED
      BY <2>5, <3>1
  <2> QED
    BY <2>1, <2>2, <2>3, <2>4, <2>6, <2>7 DEF TypeOK
<1> QED
  BY <1>1, LoadsInvariance, PTL

\* An image is downloaded once however many views ask for it (TaskPool), only while
\* somebody waits for it, and no connection is occupied for nothing: for any number
\* of views, images, connections and tasks.
THEOREM OneDownloadEach == Spec => []DownloadsAreWanted
<1>1. Inv /\ LoadsShape /\ LoadsInv => DownloadsAreWanted
  <2> SUFFICES ASSUME Inv, LoadsShape, LoadsInv
               PROVE  DownloadsAreWanted
    OBVIOUS
  <2>1. ASSUME NEW u \in Urls
        PROVE  Cardinality(Pool(u)) <= 1
    <3>1. CASE Pool(u) = {}
      <4>1. Cardinality(Pool(u)) = 0
        BY <3>1, FS_EmptySet
      <4> QED
        BY <4>1
    <3>2. CASE Pool(u) # {}
      <4>1. PICK l : Pool(u) = {l}
        BY <3>2 DEF Pool, LoadsInv, OneDownload
      <4>2. Cardinality(Pool(u)) = 1
        BY <4>1, FS_Singleton
      <4> QED
        BY <4>2
    <3> QED
      BY <3>1, <3>2
  <2>2. ASSUME NEW l \in LoadIds
        PROVE  /\ loads[l].conn \in {"asked", "sending"} => Subscribers(l) # {}
               /\ loads[l].op = "executing" =>
                    Subscribers(l) # {} \/ Block("load", l) \in ToSet(queue)
    <3>1. Wanted(l) <=> Subscribers(l) # {}
      BY DEF Wanted, Subscribers
    <3>2. Posted(l, {"load"}) => Block("load", l) \in ToSet(queue)
      <4> SUFFICES ASSUME NEW i \in DOMAIN queue, queue[i].id = l, queue[i].kind = "load"
                   PROVE  Block("load", l) \in ToSet(queue)
        BY DEF Posted
      <4>1. queue[i] \in BlockType
        BY DEF Inv, Shape, TasksShape
      <4>2. queue[i] = Block("load", l)
        BY <4>1 DEF BlockType, Block
      <4> QED
        BY <4>2 DEF ToSet
    <3>3. Occupied(l)
      BY DEF LoadsInv, LoadInv
    <3> QED
      BY <3>1, <3>2, <3>3 DEF Occupied
  <2> QED
    BY <2>1, <2>2 DEF DownloadsAreWanted
<1> QED
  BY <1>1, LoadsInvariance, PTL

\* What is decoded is a whole image (didFinishLoadingDataWithError, tryToResume):
\* whether the server resumes a download or starts over, the pieces that have been
\* received when it has finished are all there are, for images of any length.
THEOREM NothingIsMissing == Spec => []DecodedIsWhole
<1>1. LoadsInv => DecodedIsWhole
  BY DEF LoadsInv, LoadInv, Reported, DecodedIsWhole
<1> QED
  BY <1>1, LoadsInvariance, PTL

=============================================================================
