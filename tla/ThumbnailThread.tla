-------------------------- MODULE ThumbnailThread --------------------------
(***************************************************************************)
(* The thumbnail generator: the main thread hands requests to a worker     *)
(* thread and collects the images (src/src/gui/thumbnail_thread.cpp).      *)
(*                                                                         *)
(* A section under a wxMutexLocker is one step; "mutex" is the main thread *)
(* holding the lock from one step to a later one, which only abort and     *)
(* abortAll do.  An image is the version of its source it was made from,   *)
(* and a request is for a name of the image cache on behalf of an owner,   *)
(* an object of the main thread that dies some time after its last abort.  *)
(*                                                                         *)
(* wxMutex::Lock by the thread that holds the mutex is an error it returns,*)
(* and wxCondition::Wait returns after a Signal only.                      *)
(*                                                                         *)
(* A definition right before another whose name it extends is a mistake    *)
(* the code does not make, used by no action.                              *)
(***************************************************************************)
EXTENDS Naturals, Sequences, FiniteSets, Positions

CONSTANTS Owners, Names,
          UnsafeNames,      \* names whose requests are not threadSafe()
          None,             \* no request
          FailingNames,     \* names whose generate() may fail
          Pollers,          \* owners that call done() from their idle handler
          EarlierImages,    \* what the files that earlier sessions left may show
          MaxVersion,       \* bound: how often a source changes
          MaxClock,         \* bound: the clock behind wxDateTime::Now
          MaxClosed         \* bound: finished requests waiting for done()

ASSUME NamesAssumption ==
  UnsafeNames \subseteq Names /\ FailingNames \subseteq Names /\ Pollers \subseteq Owners
ASSUME EarlierAssumption == EarlierImages \subseteq Nat \ {0}
ASSUME BoundsAssumption == MaxVersion \in Nat /\ MaxClock \in Nat \ {0} /\ MaxClosed \in Nat
ASSUME NoneAssumption == None \notin [owner : Owners, name : Names, modified : Nat]

VARIABLES alive,            \* owners that exist
          content,          \* what generate() would make for a name now
          clock,
          cache,            \* image cache directory: time and image of a file
          open_requests, closed_requests, request_names,
          worker,           \* is ThumbnailThread::worker non-null
          current, stop,    \* of the worker object
          wpc, img,         \* where Entry is, and its local image
          mpc, aborting,    \* where the main thread is, and abort's owner
          mutex, signalled, \* held by the main thread; its wait was signalled
          stored            \* the image last store()d for a name

world == <<alive, content, clock>>
workerVars == <<current, wpc, img>>
mainVars == <<mpc, aborting, mutex, signalled>>
vars == <<world, cache, open_requests, closed_requests, request_names,
          worker, stop, workerVars, mainVars, stored>>

Failed == 0                 \* an image that is not Ok(), and no file
\* An image is the version of what it shows; a request is [owner, name, modified].

Key(r) == <<r.owner, r.name>>
Requests(s) == {s[i] : i \in 1..Len(s)}

ClosedRequests == {c.request : c \in Requests(closed_requests)}
Working == IF current = None THEN {} ELSE {current}

-----------------------------------------------------------------------------
\* The worker thread.  ThumbnailThreadWorker::Entry, one step per place where
\* another thread can come in between.
leaveStopLoop == /\ wpc = "loop" /\ ~stop
                 /\ wpc' = "take"
                 /\ UNCHANGED <<world, cache, open_requests, closed_requests,
                                request_names, worker, stop, current, img,
                                mainVars, stored>>

\* "no more requests": the worker takes itself off parent->worker
PointerAfterReturnForgotten == worker
PointerAfterReturn == FALSE

takeRequest ==
  /\ wpc = "take" /\ mutex = "free"
  /\ IF open_requests = <<>>
     THEN /\ worker' = PointerAfterReturn
          /\ wpc' = "ended"
          /\ UNCHANGED <<current, open_requests>>
     ELSE /\ current' = Head(open_requests)
          /\ open_requests' = Tail(open_requests)
          /\ wpc' = "generate"
          /\ UNCHANGED worker
  /\ UNCHANGED <<world, cache, closed_requests, request_names, stop, img,
                 mainVars, stored>>

\* generate() of a source of version v; a failure is caught
Generated(n, v) == {v} \cup (IF n \in FailingNames THEN {Failed} ELSE {})

generate ==
  /\ wpc = "generate"
  /\ img' \in Generated(current.name, content[current.name])
  /\ wpc' = "save"
  /\ UNCHANGED <<world, cache, open_requests, closed_requests, request_names,
                 worker, stop, current, mainVars, stored>>

\* The file gets the time of the request, not the time it was made.
Saved(r, i) == IF i = Failed THEN cache
               ELSE [cache EXCEPT ![r.name] = [time |-> r.modified, image |-> i]]

saveFile ==
  /\ wpc = "save"
  /\ cache' = Saved(current, img)
  /\ wpc' = "close"
  /\ UNCHANGED <<world, open_requests, closed_requests, request_names, worker,
                 stop, current, img, mainVars, stored>>

Waiting == mpc \in {"abort_wait", "exit_wait"}

\* completed.Signal() wakes the main thread if it is waiting
SignalForgotten == FALSE
Signal == Waiting

Result == [request |-> current, image |-> img]

closeRequest ==
  /\ wpc = "close" /\ mutex = "free"
  /\ closed_requests' = Append(closed_requests, Result)
  /\ current' = None
  /\ img' = Failed
  /\ signalled' = Signal
  /\ wpc' = "loop"
  /\ UNCHANGED <<world, cache, open_requests, request_names, worker, stop, mpc,
                 aborting, mutex, stored>>

Worker == leaveStopLoop \/ takeRequest \/ generate \/ saveFile \/ closeRequest

-----------------------------------------------------------------------------
\* The main thread.

CacheHit(n, m) == cache[n].image # Failed /\ cache[n].time >= m

\* request, up to the release of the lock; v is the version a request that is
\* not thread-safe is generated from at once
requestVersion(o, n, m, v) ==
  LET r == [owner |-> o, name |-> n, modified |-> m] IN
  /\ mpc = "idle" /\ o \in alive
  /\ \/ /\ Key(r) \in request_names
        /\ UNCHANGED <<cache, open_requests, closed_requests, request_names,
                       mpc, stored>>
     \/ /\ Key(r) \notin request_names
        /\ CacheHit(n, m)
        /\ stored' = [stored EXCEPT ![n] = cache[n].image]
        /\ UNCHANGED <<cache, open_requests, closed_requests, request_names, mpc>>
     \/ /\ Key(r) \notin request_names
        /\ ~CacheHit(n, m)
        /\ n \notin UnsafeNames
        /\ request_names' = request_names \cup {Key(r)}
        /\ open_requests' = Append(open_requests, r)
        /\ mpc' = "start"
        /\ UNCHANGED <<cache, closed_requests, stored>>
     \/ /\ Key(r) \notin request_names
        /\ ~CacheHit(n, m)
        /\ n \in UnsafeNames
        /\ Len(closed_requests) < MaxClosed
        /\ \E i \in Generated(n, v) :
             /\ cache' = Saved(r, i)
             /\ closed_requests' = Append(closed_requests, [request |-> r, image |-> i])
        /\ UNCHANGED <<open_requests, request_names, mpc, stored>>
  /\ UNCHANGED <<worker, stop, workerVars, aborting, mutex, signalled>>

request(o, n, m) == requestVersion(o, n, m, content[n]) /\ UNCHANGED world

\* the rest of request: "is there a worker?", read without the lock
startWorker ==
  /\ mpc = "start"
  /\ mpc' = "idle"
  /\ IF worker
     THEN UNCHANGED <<worker, wpc, stop>>
     ELSE worker' = TRUE /\ wpc' = "loop" /\ stop' = FALSE
  /\ UNCHANGED <<world, cache, open_requests, closed_requests, request_names,
                 current, img, aborting, mutex, signalled, stored>>

\* Positions of the lists: the requests of o and those of the others.
Opened(o) == {i \in 1..Len(open_requests) : open_requests[i].owner = o}
Closed(o) == {i \in 1..Len(closed_requests) : closed_requests[i].request.owner = o}
OpenOfOthers(o) == Only(open_requests, 1..Len(open_requests) \ Opened(o))
ClosedOfOthers(o) == Only(closed_requests, 1..Len(closed_requests) \ Closed(o))

Finished(o) == Only(closed_requests, Closed(o))
Images(n, s) ==
  Only(s, {i \in 1..Len(s) : s[i].request.name = n /\ s[i].image # Failed})
Newest(s) == s[Len(s)]

FinishedNamesForgotten(o) == {}
FinishedNames(o) == {Key(c.request) : c \in Requests(Finished(o))}

done(o) ==
  /\ mpc = "idle" /\ o \in alive
  /\ Finished(o) # <<>>
  /\ closed_requests' = ClosedOfOthers(o)
  /\ stored' = [n \in Names |-> IF Images(n, Finished(o)) = <<>> THEN stored[n]
                                ELSE Newest(Images(n, Finished(o))).image]
  /\ request_names' = request_names \ FinishedNames(o)
  /\ UNCHANGED <<world, cache, open_requests, worker, stop, workerVars, mainVars>>

\* The requests of o leave the lists and the name list.  The destructors of
\* the owners end with an abort, ImageCardList::onBeforeChangeSet does not.
Removed(o) == {r \in Requests(open_requests) \cup ClosedRequests : r.owner = o}

RemoveRequestsNameKept(o) ==
  /\ open_requests' = OpenOfOthers(o)
  /\ closed_requests' = ClosedOfOthers(o)
  /\ request_names' = request_names \ {Key(r) : r \in Requests(open_requests) \cap Removed(o)}
  /\ alive' \in {alive, alive \ {o}}

RemoveRequests(o) ==
  /\ open_requests' = OpenOfOthers(o)
  /\ closed_requests' = ClosedOfOthers(o)
  /\ request_names' = request_names \ {Key(r) : r \in Removed(o)}
  /\ alive' \in {alive, alive \ {o}}

InProgressNever(o) == FALSE
InProgress(o) == worker /\ current # None /\ current.owner = o

abort(o) ==
  /\ mpc = "idle" /\ o \in alive
  /\ IF InProgress(o)
     THEN /\ stop' = TRUE
          /\ mpc' = "abort_wait"
          /\ aborting' = o
          /\ UNCHANGED <<open_requests, closed_requests, request_names, alive>>
     ELSE /\ RemoveRequests(o)
          /\ UNCHANGED <<stop, mpc, aborting>>
  /\ UNCHANGED <<content, clock, cache, worker, workerVars, mutex, signalled, stored>>

\* completed.Wait() returns: the main thread holds the mutex again
wake ==
  /\ Waiting /\ mutex = "free"
  /\ signalled
  /\ signalled' = FALSE
  /\ mutex' = "main"
  /\ mpc' = IF mpc = "abort_wait" THEN "relock" ELSE "exited"
  /\ UNCHANGED <<world, cache, open_requests, closed_requests, request_names,
                 worker, stop, workerVars, aborting, stored>>

\* and fails to lock it a second time
relock ==
  /\ mpc = "relock"
  /\ stop' = FALSE
  /\ RemoveRequests(aborting)
  /\ mutex' = "free"
  /\ mpc' = "idle"
  /\ UNCHANGED <<content, clock, cache, worker, workerVars, aborting, signalled, stored>>

ExitWaitsNever == FALSE
ExitWaits == worker /\ current # None

abortAll ==
  /\ mpc = "idle"
  /\ open_requests' = <<>> /\ closed_requests' = <<>> /\ request_names' = {}
  /\ mpc' = IF ExitWaits THEN "exit_wait" ELSE "exited"
  /\ UNCHANGED <<world, cache, worker, stop, workerVars, aborting, mutex,
                 signalled, stored>>

-----------------------------------------------------------------------------
\* Owners are created; sources change and time passes in ChoiceThumbnails.
create(o) == /\ mpc = "idle"
             /\ alive' = alive \cup {o}
             /\ UNCHANGED <<content, clock, cache, open_requests, closed_requests,
                            request_names, worker, stop, workerVars, mainVars, stored>>

\* The cache directory is kept over sessions.  Time 0 stands for any time from
\* the package on disk to the start of the program, so a file of time 0 is one
\* an earlier session made for this package; an older file never counts.
Init == /\ alive = Owners
        /\ content = [n \in Names |-> 1]
        /\ clock = 1
        /\ cache \in [Names -> [time : {0}, image : {Failed} \cup EarlierImages]]
        /\ open_requests = <<>> /\ closed_requests = <<>> /\ request_names = {}
        /\ worker = FALSE /\ current = None /\ stop = FALSE
        /\ wpc = "ended" /\ img = Failed
        /\ mpc = "idle" /\ aborting \in Owners
        /\ mutex = "free" /\ signalled = FALSE
        /\ stored = [n \in Names |-> Failed]

Main == startWorker \/ wake \/ relock

\* A request is made for the time of the package on disk (0, before the
\* program was started), or for now.
Next == \/ Worker \/ Main \/ abortAll
        \/ \E o \in Owners, n \in Names, m \in {0, clock} : request(o, n, m)
        \/ \E o \in Pollers : done(o)
        \/ \E o \in Owners : abort(o) \/ create(o)

\* The scheduler runs the worker, the main thread finishes what it is doing,
\* and whenever it runs out of events again and again, idle events come to
\* the owners that poll.
Fairness == /\ WF_vars(Worker)
            /\ WF_vars(Main)
            /\ \A o \in Pollers : SF_vars(done(o))

Spec == Init /\ [][Next]_vars /\ Fairness

-----------------------------------------------------------------------------
\* The worker and the lists refer to living owners only: generate() and
\* store() use the owner through a bare pointer, and the destructors of the
\* editors and lists rely on abort for it.
OwnersOutliveRequests ==
  \A r \in Requests(open_requests) \cup ClosedRequests \cup Working : r.owner \in alive

\* An open request has a worker to make it: the worker that finds the list
\* empty is gone before the next request looks for it, though it looks
\* without the lock (thumbnail_thread.cpp:67-71, 138-146).
NoLostRequest ==
  /\ open_requests # <<>> => worker \/ mpc = "start"
  /\ worker <=> wpc # "ended"

\* request_names is exactly the thread-safe requests that are not stored yet,
\* each of them once: no thumbnail is made twice at a time, and none is
\* refused forever because its name was never taken off the list.
NamesMatchRequests ==
  LET closed == [i \in 1..Len(closed_requests) |-> closed_requests[i].request]
      all == open_requests \o closed \o (IF current = None THEN <<>> ELSE <<current>>)
      safe == {i \in 1..Len(all) : all[i].name \notin UnsafeNames}
  IN mpc \notin {"exit_wait", "exited"} =>
       /\ request_names = {Key(all[i]) : i \in safe}
       /\ \A i, j \in safe : Key(all[i]) = Key(all[j]) => i = j

\* A request is stored, refused or aborted in the end, if its owner polls.
RequestsComplete ==
  \A o \in Pollers, n \in Names :
    <<o, n>> \in request_names ~> <<o, n>> \notin request_names \/ o \notin alive

\* abort returns: "a request for this owner is in progress, wait until it is
\* done" (thumbnail_thread.cpp:202).
AbortReturns == mpc = "abort_wait" ~> mpc = "idle"

\* At exit "there may still be a worker, but if there is, it has no current
\* object" (thumbnail_thread.cpp:243): it never gets to work on a request
\* whose owner has gone with the program, waiting or not.
NoWorkAfterExit == mpc = "exited" => current = None /\ wpc \in {"loop", "take", "ended"}
=============================================================================
