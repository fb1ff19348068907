---------------------------- MODULE ImageLoading ----------------------------
(***************************************************************************)
(* How the Article screen gets its picture: the Nuke library.  Views and   *)
(* their ImageViewControllers live on the main queue; the ImagePipeline    *)
(* has a serial queue of its own; a download is an operation that occupies *)
(* one of a few connections, and URLSession reports to the pipeline's      *)
(* queue; decoding and decompression run in the background.                *)
(*                                                                         *)
(* A load is a chain of four Tasks (decompressed, original image, original *)
(* data) with one subscriber each but the first, which the ImageTasks of   *)
(* the same image share: it is modelled as one record.                     *)
(*                                                                         *)
(* The Article screen asks for its picture twice in a row                  *)
(* (ArticleViewController:58, :60).  Any number of screens may show any    *)
(* images, as the library allows; the app itself opens one after a release *)
(* (WritingAddViewController:213).  The limits of the cache of resumable   *)
(* data are left out.                                                      *)
(***************************************************************************)
EXTENDS Naturals, Sequences, FiniteSets, SequencesExt

CONSTANTS Views, Urls, None,
          Size,            \* length of an image, in pieces
          MaxConnections,  \* dataLoadingQueue.maxConcurrentOperationCount
          MaxTasks         \* bound: ImageTasks

ASSUME ImageLoadingAssumption ==
  /\ None \notin Views \cup Urls \cup Nat
  /\ {Size, MaxConnections, MaxTasks} \subseteq Nat \ {0}

VARIABLES
  \* the main queue
  article,      \* the image of the article a view shows
  shown,        \* the image in the view
  rated,        \* imageRateLayoutConstraint has the image's ratio
  task,         \* ImageViewController.task
  calling,      \* the view that has made the first of its two calls
  main,         \* events on their way to the main queue
  \* ImageTask
  tasks,        \* all that were made
  \* ImagePipeline
  queue,        \* blocks on the pipeline's queue
  subscription, \* ImagePipeline.tasks: the load an ImageTask waits for, or 0
  loads,        \* all that were started
  imageCache,   \* the memory cache
  resumable     \* ResumableData.cache: pieces kept of an image, 0 for none

screens == <<article, shown, rated, task, calling>>
vars == <<article, shown, rated, task, calling, main, tasks, queue, subscription,
          loads, imageCache, resumable>>

TaskIds == 1 .. MaxTasks
LoadIds == DOMAIN loads

Block(kind, id) == [kind |-> kind, id |-> id]
Post(kind, id)  == queue' = Append(queue, Block(kind, id))

\* op: the download's operation; conn: its URLSessionTask; work: the operation of
\* decoder or decompressor; data, resumed, status: the OriginalImageDataTaskContext,
\* status is that of urlResponse; reply, left: the server's answer and the pieces
\* of it still to come.
NewLoad(u) ==
  [url |-> u, disposed |-> FALSE, op |-> "waiting", conn |-> "none", work |-> "none",
   data |-> 0, resumed |-> 0, status |-> "none", reply |-> "none", left |-> 0]

\* The task pools: equal requests share a load until it is disposed of.
Pool(u) == {l \in LoadIds : loads[l].url = u /\ ~loads[l].disposed}

Subscribers(l) == {t \in TaskIds : subscription[t] = l}

\* A disposed load lives on as long as a block refers to it.
Alive(l) ==
  ~loads[l].disposed \/ \E i \in DOMAIN queue : queue[i].id = l /\ queue[i].kind \notin {"start", "cancel"}

Executing == {l \in LoadIds : loads[l].op = "executing"}

Init ==
  /\ article = [v \in Views |-> None]
  /\ shown = [v \in Views |-> None]
  /\ rated = [v \in Views |-> FALSE]
  /\ task = [v \in Views |-> None]
  /\ calling = None
  /\ main = <<>>
  /\ tasks = <<>>
  /\ queue = <<>>
  /\ subscription = [t \in TaskIds |-> 0]
  /\ loads = <<>>
  /\ imageCache = {}
  /\ resumable = [u \in Urls |-> 0]

-----------------------------------------------------------------------------
\* The main queue.

\* Fault: the cancelled task keeps its place on the main queue.
CancelOutstandingLater(v) == tasks

\* ImageTask.cancel of the outstanding task; the pipeline hears of it later.
CancelOutstanding(v) ==
  IF task[v] = None THEN tasks ELSE [tasks EXCEPT ![task[v]].cancelled = TRUE]

CancelBlock(v) == IF task[v] = None THEN <<>> ELSE <<Block("cancel", task[v])>>

\* ImageViewController.loadImage: from the memory cache at once, or by a task.
\* Without a completion handler nobody is told.
LoadImage(v, u, completion) ==
  LET new == Len(tasks) + 1
  IN  \/ /\ u \in imageCache
         /\ shown' = [shown EXCEPT ![v] = u]
         /\ rated' = [rated EXCEPT ![v] = rated[v] \/ completion]
         /\ task' = [task EXCEPT ![v] = None]
         /\ tasks' = CancelOutstanding(v)
         /\ queue' = queue \o CancelBlock(v)
      \/ /\ u \notin imageCache
         /\ shown' = [shown EXCEPT ![v] = None]
         /\ task' = [task EXCEPT ![v] = new]
         /\ tasks' = Append(CancelOutstanding(v),
                       [view |-> v, url |-> u, completion |-> completion, cancelled |-> FALSE])
         /\ queue' = queue \o CancelBlock(v) \o <<Block("start", new)>>
         /\ UNCHANGED rated

\* The screen has its document: the first call, without completion handler.
OpenArticle(v, u) ==
  /\ calling = None
  /\ article[v] = None
  /\ Len(tasks) + 2 <= MaxTasks
  /\ article' = [article EXCEPT ![v] = u]
  /\ calling' = v
  /\ LoadImage(v, u, FALSE)
  /\ UNCHANGED <<main, subscription, loads, imageCache, resumable>>

\* The second call, in the same block of the main queue.
CallAgain ==
  /\ calling # None
  /\ calling' = None
  /\ LoadImage(calling, article[calling], TRUE)
  /\ UNCHANGED <<article, main, subscription, loads, imageCache, resumable>>

\* The view goes away.  The completion handler holds the screen, so its load
\* has ended and deinit has nothing to cancel.
CloseArticle(v) ==
  /\ calling = None
  /\ article[v] # None
  /\ task[v] = None
  /\ article' = [article EXCEPT ![v] = None]
  /\ shown' = [shown EXCEPT ![v] = None]
  /\ rated' = [rated EXCEPT ![v] = FALSE]
  /\ UNCHANGED <<task, calling, main, tasks, queue, subscription, loads, imageCache,
                 resumable>>

\* ImageViewController.handle: the observer of startImageTask.
Deliver ==
  /\ calling = None
  /\ main # <<>>
  /\ main' = Tail(main)
  /\ LET t == Head(main).task
         v == tasks[t].view
     IN  IF tasks[t].cancelled
         THEN UNCHANGED screens
         ELSE /\ shown' = IF Head(main).loaded
                          THEN [shown EXCEPT ![v] = tasks[t].url] ELSE shown
              /\ rated' = [rated EXCEPT ![v] = rated[v] \/
                                (Head(main).loaded /\ tasks[t].completion)]
              /\ task' = [task EXCEPT ![v] = None]
              /\ UNCHANGED <<article, calling>>
  /\ UNCHANGED <<tasks, queue, subscription, loads, imageCache, resumable>>

-----------------------------------------------------------------------------
\* The pipeline's queue.

Running(kind) == queue # <<>> /\ Head(queue).kind = kind
Current == Head(queue).id

Event(t, loaded) == [task |-> t, loaded |-> loaded]

\* What is left of a load that has ended: a completion that comes a second time
\* finds nothing to do.
Gone(load) ==
  [NewLoad(load.url) EXCEPT !.disposed = TRUE, !.op = load.op, !.conn = "closed"]

\* Fault: the subscribers are told, but not taken out.
FinishKeepsSubscription(l, loaded) ==
  /\ loads' = [loads EXCEPT ![l] = Gone(@)]
  /\ UNCHANGED subscription
  /\ \E order \in SetToSeqs(Subscribers(l)) :
       main' = main \o [i \in DOMAIN order |-> Event(order[i], loaded)]

\* Task.send of the last event: the load is disposed of, every ImageTask is told,
\* in no particular order.
Finish(l, loaded) ==
  /\ loads' = [loads EXCEPT ![l] = Gone(@)]
  /\ subscription' = [t \in TaskIds |-> IF subscription[t] = l THEN 0 ELSE subscription[t]]
  /\ \E order \in SetToSeqs(Subscribers(l)) :
       main' = main \o [i \in DOMAIN order |-> Event(order[i], loaded)]

\* tryToSaveResumableData: what the context has received, if anything.
Saved(l) ==
  IF loads[l].status # "none" /\ loads[l].data > 0
  THEN [resumable EXCEPT ![loads[l].url] = loads[l].data]
  ELSE resumable

\* Subscribing starts the work unless it is under way or the image has come.
StartImageTask ==
  /\ Running("start")
  /\ queue' = Tail(queue)
  /\ LET u == tasks[Current].url
     IN  \/ \E l \in Pool(u) :
              /\ subscription' = [subscription EXCEPT ![Current] = l]
              /\ UNCHANGED <<loads, main>>
         \/ /\ Pool(u) = {}
            /\ u \in imageCache
            /\ main' = Append(main, Event(Current, TRUE))
            /\ UNCHANGED <<loads, subscription>>
         \/ /\ Pool(u) = {}
            /\ u \notin imageCache
            /\ loads' = Append(loads, NewLoad(u))
            /\ subscription' = [subscription EXCEPT ![Current] = Len(loads) + 1]
            /\ UNCHANGED main
  /\ UNCHANGED <<screens, tasks, imageCache, resumable>>

\* Task.terminate of a load that nobody waits for any more.  An operation that
\* has not begun is dropped, one that has goes on; onCancelled is there once the
\* download has been started.
Terminated(load, running) ==
  [load EXCEPT
     !.disposed = TRUE,
     !.op   = IF load.op = "executing" /\ load.conn = "none" THEN "executing" ELSE "finished",
     !.conn = IF load.conn \in {"asked", "sending"} THEN "cancelled" ELSE load.conn,
     !.work = IF running THEN load.work ELSE "none"]

\* Fault: the last subscriber goes and nobody tells the download.
CancelImageTaskOnly ==
  /\ Running("cancel")
  /\ queue' = Tail(queue)
  /\ subscription' = [subscription EXCEPT ![Current] = 0]
  /\ UNCHANGED <<screens, main, tasks, loads, imageCache, resumable>>

\* imageTaskCancelCalled
CancelImageTask ==
  /\ Running("cancel")
  /\ queue' = Tail(queue)
  /\ LET l == subscription[Current]
     IN  \/ /\ l = 0
            /\ UNCHANGED <<subscription, loads, resumable>>
         \/ /\ l # 0
            /\ subscription' = [subscription EXCEPT ![Current] = 0]
            /\ \/ /\ Subscribers(l) # {Current}
                  /\ UNCHANGED <<loads, resumable>>
               \/ /\ Subscribers(l) = {Current}
                  /\ \E running \in BOOLEAN :
                       loads' = [loads EXCEPT ![l] = Terminated(loads[l], running)]
                  /\ resumable' = IF loads[l].conn \in {"none", "done"} THEN resumable ELSE Saved(l)
  /\ UNCHANGED <<screens, main, tasks, imageCache>>

\* loadImageData, in the download's operation: what was kept of the image is
\* taken out of the cache and asked for as a range.
LoadImageData ==
  /\ Running("load")
  /\ queue' = Tail(queue)
  /\ LET load == loads[Current]
     IN  \/ /\ load.disposed
            /\ loads' = [loads EXCEPT ![Current].op = "finished"]
            /\ UNCHANGED resumable
         \/ /\ ~load.disposed
            /\ loads' = [loads EXCEPT ![Current].conn = "asked",
                                      ![Current].resumed = resumable[load.url]]
            /\ resumable' = [resumable EXCEPT ![load.url] = 0]
  /\ UNCHANGED <<screens, main, tasks, subscription, imageCache>>

\* Fault: the server is supposed to have resumed.
ReceivedResumed(load) == load.data + load.resumed + 1

\* Pieces received with the next one: the first response tells whether the server
\* goes on from where the last download ended.
Received(load) ==
  IF load.status = "none" /\ load.reply = "rest" THEN load.resumed + 1 ELSE load.data + 1

\* didReceiveData.  Progress is nobody's interest here.
ReceiveData ==
  /\ Running("data")
  /\ queue' = Tail(queue)
  /\ loads' = [loads EXCEPT ![Current].data = Received(loads[Current]),
                            ![Current].status = loads[Current].reply,
                            ![Current].resumed = 0]
  /\ UNCHANGED <<screens, main, tasks, subscription, imageCache, resumable>>

\* didFinishLoadingDataWithError(nil)
DownloadFinished ==
  /\ Running("finished")
  /\ queue' = Tail(queue)
  /\ loads' = IF loads[Current].disposed THEN loads
              ELSE [loads EXCEPT ![Current].conn = "done", ![Current].work = "decode"]
  /\ UNCHANGED <<screens, main, tasks, subscription, imageCache, resumable>>

FinishUnlessDisposed(loaded) ==
  IF loads[Current].disposed THEN UNCHANGED <<loads, subscription, main>>
  ELSE Finish(Current, loaded)

\* Fault: what has been received is taken for the image.
DownloadFailedIgnoresError ==
  /\ Running("failed")
  /\ queue' = Tail(queue)
  /\ loads' = IF loads[Current].disposed THEN loads
              ELSE [loads EXCEPT ![Current].conn = "done", ![Current].work = "decode"]
  /\ UNCHANGED <<screens, main, tasks, subscription, imageCache, resumable>>

\* didFinishLoadingDataWithError(error)
DownloadFailed ==
  /\ Running("failed")
  /\ queue' = Tail(queue)
  /\ resumable' = Saved(Current)
  /\ FinishUnlessDisposed(FALSE)
  /\ UNCHANGED <<screens, tasks, imageCache>>

DecodingEnded ==
  /\ Running("decoded")
  /\ queue' = Tail(queue)
  /\ loads' = IF loads[Current].disposed THEN loads
              ELSE [loads EXCEPT ![Current].work = "decompress"]
  /\ UNCHANGED <<screens, main, tasks, subscription, imageCache, resumable>>

DecodingFailed ==
  /\ Running("undecodable")
  /\ queue' = Tail(queue)
  /\ FinishUnlessDisposed(FALSE)
  /\ UNCHANGED <<screens, tasks, imageCache, resumable>>

\* The image is stored even if nobody waits for it any more.
DecompressionEnded ==
  /\ Running("decompressed")
  /\ queue' = Tail(queue)
  /\ imageCache' = imageCache \cup {loads[Current].url}
  /\ FinishUnlessDisposed(TRUE)
  /\ UNCHANGED <<screens, tasks, resumable>>

PipelineRuns ==
  \/ StartImageTask \/ CancelImageTask \/ LoadImageData
  \/ ReceiveData \/ DownloadFinished \/ DownloadFailed
  \/ DecodingEnded \/ DecodingFailed \/ DecompressionEnded

-----------------------------------------------------------------------------
\* Operations and URLSession: what happens on other threads.

\* Fault: a download that has failed keeps its connection.
EndedKeepsOperation(l, conn) == [loads[l] EXCEPT !.conn = conn]

\* The completion of a URLSessionTask finishes the operation before anything else.
Ended(l, conn) == [loads[l] EXCEPT !.conn = conn, !.op = "finished"]

\* The rate limiter and the operation queue let the download begin.
OperationStarts(l) ==
  /\ loads[l].op = "waiting"
  /\ Cardinality(Executing) < MaxConnections
  /\ loads' = [loads EXCEPT ![l].op = "executing"]
  /\ Post("load", l)
  /\ UNCHANGED <<screens, main, tasks, subscription, imageCache, resumable>>

\* The whole image or, if a range was asked for, the rest of it.
ServerResponds(l) ==
  /\ loads[l].conn = "asked"
  /\ \/ loads' = [loads EXCEPT ![l].conn = "sending", ![l].reply = "whole", ![l].left = Size]
     \/ /\ loads[l].resumed \in 1 .. Size - 1
        /\ loads' = [loads EXCEPT ![l].conn = "sending", ![l].reply = "rest",
                                  ![l].left = Size - loads[l].resumed]
  /\ UNCHANGED <<screens, main, tasks, queue, subscription, imageCache, resumable>>

\* Anything but 2xx, a range that begins at the end (416) for one.
ServerRefuses(l) ==
  /\ loads[l].conn = "asked"
  /\ loads' = [loads EXCEPT ![l] = Ended(l, "refused")]
  /\ Post("failed", l)
  /\ UNCHANGED <<screens, main, tasks, subscription, imageCache, resumable>>

\* URLSession may still deliver when the task has been cancelled.
PieceArrives(l) ==
  /\ loads[l].conn \in {"sending", "cancelled"}
  /\ loads[l].left > 0
  /\ loads' = [loads EXCEPT ![l].left = @ - 1]
  /\ Post("data", l)
  /\ UNCHANGED <<screens, main, tasks, subscription, imageCache, resumable>>

DownloadCompletes(l) ==
  /\ loads[l].conn = "sending"
  /\ loads[l].left = 0
  /\ loads' = [loads EXCEPT ![l] = Ended(l, "closed")]
  /\ Post("finished", l)
  /\ UNCHANGED <<screens, main, tasks, subscription, imageCache, resumable>>

\* The connection breaks, or times out; a task that was cancelled completes with
\* an error; one whose response was refused completes a second time.
DownloadBreaks(l) ==
  /\ loads[l].conn \in {"asked", "sending", "refused", "cancelled"}
  /\ loads' = [loads EXCEPT ![l] = Ended(l, "closed")]
  /\ Post("failed", l)
  /\ UNCHANGED <<screens, main, tasks, subscription, imageCache, resumable>>

Network(l) ==
  /\ Alive(l)
  /\ \/ ServerResponds(l) \/ ServerRefuses(l) \/ PieceArrives(l)
     \/ DownloadCompletes(l) \/ DownloadBreaks(l)

Decoded(l) ==
  /\ loads[l].work = "decode"
  /\ loads' = [loads EXCEPT ![l].work = "none"]
  /\ Post("decoded", l) \/ Post("undecodable", l)
  /\ UNCHANGED <<screens, main, tasks, subscription, imageCache, resumable>>

Decompressed(l) ==
  /\ loads[l].work = "decompress"
  /\ loads' = [loads EXCEPT ![l].work = "none"]
  /\ Post("decompressed", l)
  /\ UNCHANGED <<screens, main, tasks, subscription, imageCache, resumable>>

\* The memory cache is over its limits, memory is low, or the app has gone to the
\* background.
Trim(u) ==
  /\ u \in imageCache
  /\ imageCache' = imageCache \ {u}
  /\ UNCHANGED <<screens, main, tasks, queue, subscription, loads, resumable>>

Next ==
  \/ \E v \in Views, u \in Urls : OpenArticle(v, u)
  \/ \E v \in Views : CloseArticle(v)
  \/ CallAgain \/ Deliver
  \/ PipelineRuns
  \/ \E l \in LoadIds : OperationStarts(l) \/ Network(l) \/ Decoded(l) \/ Decompressed(l)
  \/ \E u \in Urls : Trim(u)

Spec == Init /\ [][Next]_vars

\* Queues and operations are run, also the main queue between the taps of a
\* restless reader; a URLSessionTask answers or times out.  Readers owe nothing.
FairSpec ==
  /\ Spec
  /\ WF_vars(CallAgain) /\ SF_vars(Deliver) /\ WF_vars(PipelineRuns)
  /\ \A l \in TaskIds :
       /\ WF_vars(l \in LoadIds /\ OperationStarts(l))
       /\ WF_vars(l \in LoadIds /\ Network(l))
       /\ WF_vars(l \in LoadIds /\ Decoded(l))
       /\ WF_vars(l \in LoadIds /\ Decompressed(l))

-----------------------------------------------------------------------------
(***************************************************************************)
(* Properties.                                                             *)
(***************************************************************************)

Load == [url : Urls, disposed : BOOLEAN, op : {"waiting", "executing", "finished"},
         conn : {"none", "asked", "sending", "refused", "cancelled", "closed", "done"},
         work : {"none", "decode", "decompress"}, data : 0 .. Size, resumed : 0 .. Size,
         status : {"none", "whole", "rest"}, reply : {"none", "whole", "rest"},
         left : 0 .. Size]

\* The types of the state; no more pieces of an image than it has.
TypeOK ==
  /\ article \in [Views -> Urls \cup {None}]
  /\ shown \in [Views -> Urls \cup {None}]
  /\ rated \in [Views -> BOOLEAN]
  /\ task \in [Views -> DOMAIN tasks \cup {None}]
  /\ calling \in Views \cup {None}
  /\ main \in Seq([task : DOMAIN tasks, loaded : BOOLEAN])
  /\ tasks \in Seq([view : Views, url : Urls, completion : BOOLEAN, cancelled : BOOLEAN])
  /\ Len(tasks) <= MaxTasks
  /\ subscription \in [TaskIds -> LoadIds \cup {0}]
  /\ loads \in Seq(Load)
  /\ imageCache \subseteq Urls
  /\ resumable \in [Urls -> 0 .. Size]

\* The picture is the article's, and it never appears in the ratio of another
\* one: of the two calls the screen makes (ArticleViewController:58, :60) only the
\* second sets the ratio, so the first must not show anything by itself.
PictureFits ==
  \A v \in Views :
    shown[v] # None => shown[v] = article[v] /\ (rated[v] \/ calling = v)

\* "The pipeline guarantees no callbacks to be deliver after cancellation": what
\* waits on the main queue is for the view's outstanding task or is dropped, and
\* a task is answered once.
CallbacksAreCurrent ==
  \A i \in DOMAIN main :
    LET t == main[i].task
    IN  /\ tasks[t].cancelled \/ task[tasks[t].view] = t
        /\ subscription[t] = 0
        /\ \A j \in DOMAIN main : main[j].task = t => i = j

\* An image is downloaded once however many views ask for it, and only while
\* somebody waits for it; a connection is not occupied by a load that has ended,
\* but for the moment until its block has noticed.
DownloadsAreWanted ==
  /\ \A u \in Urls : Cardinality(Pool(u)) <= 1
  /\ \A l \in LoadIds :
       /\ loads[l].conn \in {"asked", "sending"} => Subscribers(l) # {}
       /\ loads[l].op = "executing" =>
            Subscribers(l) # {} \/ Block("load", l) \in ToSet(queue)

\* What is decoded is the image from its first to its last piece, whether the
\* server has resumed the download or has started over.
DecodedIsWhole ==
  \A l \in LoadIds : loads[l].work # "none" => loads[l].data = Size

\* A view that waits for its picture does not wait forever: it gets the image, or
\* an error.
EveryLoadEnds ==
  \A v \in Views : task[v] # None ~> task[v] = None

\* "Read and remove resumable data from cache (we're going to insert it back in
\* the cache if the request fails to complete again)" (ImagePipeline.swift:749).
ResumableDataIsKept ==
  [][\A l \in LoadIds :
       (~loads[l].disposed /\ loads'[l].disposed /\ loads[l].work = "none")
         => resumable'[loads[l].url] >= loads[l].resumed]_vars

=============================================================================
