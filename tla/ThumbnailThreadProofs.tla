----------------------- MODULE ThumbnailThreadProofs -----------------------
(***************************************************************************)
(* Theorems about ThumbnailThread, for any number of owners and names, for *)
(* lists of any length, and with no bound on how often anything happens.   *)
(*                                                                         *)
(* ThreadInv is inductive.  Its heart is Control, what each of the two     *)
(* threads may rely on while the other is where it is; without the clause  *)
(* that a worker told to stop waits in its loop until abort goes on,       *)
(* nothing keeps the owner and its request together between the signal     *)
(* and the main thread's return from wait.  The module ends with what      *)
(* follows for every behaviour; no step depends on the fairness of Spec.   *)
(*                                                                         *)
(* When the thumbnails of a choice field can be trusted is the last        *)
(* section: a theorem about ChoiceThumbnails for any number of editors,    *)
(* choices, changes and clock ticks, under the conditions of the run       *)
(* choice_calm.                                                            *)
(***************************************************************************)
EXTENDS ChoiceThumbnails, PositionsProofs

-----------------------------------------------------------------------------
(* The inductive invariant.                                                  *)

Request == [owner : Owners, name : Names, modified : Nat]
ClosedRequest == [request : Request, image : Nat]

Shape ==
  /\ alive \subseteq Owners /\ aborting \in Owners
  /\ clock \in Nat
  /\ content \in [Names -> Nat]
  /\ cache \in [Names -> [time : Nat, image : Nat]]
  /\ stored \in [Names -> Nat]
  /\ img \in Nat
  /\ open_requests \in Seq(Request)
  /\ closed_requests \in Seq(ClosedRequest)
  /\ current \in Request \cup {None}
  /\ worker \in BOOLEAN /\ stop \in BOOLEAN /\ signalled \in BOOLEAN
  /\ wpc \in {"loop", "take", "generate", "save", "close", "ended"}
  /\ mpc \in {"idle", "start", "abort_wait", "relock", "exit_wait", "exited"}

\* Where the two threads can be at the same time.  What keeps abort and its
\* owner together is that a worker which was told to stop, and has closed its
\* request, stays in its loop until abort goes on.
Control ==
  /\ current # None <=> wpc \in {"generate", "save", "close"}
  /\ worker <=> wpc # "ended"
  /\ open_requests # <<>> => worker \/ mpc = "start"
  /\ signalled => Waiting
  /\ mpc \in {"abort_wait", "relock"} => stop /\ aborting \in alive
  /\ mpc = "abort_wait" =>
       IF signalled THEN wpc = "loop" ELSE current # None /\ current.owner = aborting
  /\ mpc = "relock" => wpc = "loop"
  /\ mpc = "exit_wait" /\ signalled => current = None
  /\ mpc = "exited" => current = None
  /\ mpc \in {"exit_wait", "exited"} => open_requests = <<>>

\* The names of the requests on the lists, apart from each other.
ClosedSafe == {i \in 1..Len(closed_requests) : closed_requests[i].request.name \notin UnsafeNames}

OpenKeys == {Key(open_requests[i]) : i \in 1..Len(open_requests)}
ClosedKeys == {Key(closed_requests[i].request) : i \in ClosedSafe}
CurrentKeys == {Key(r) : r \in Working}

OpenOnce ==
  \A i, j \in 1..Len(open_requests) : Key(open_requests[i]) = Key(open_requests[j]) => i = j
ClosedOnce ==
  \A i, j \in ClosedSafe :
    Key(closed_requests[i].request) = Key(closed_requests[j].request) => i = j
Once == /\ OpenOnce /\ ClosedOnce
        /\ OpenKeys \cap ClosedKeys = {}
        /\ CurrentKeys \cap (OpenKeys \cup ClosedKeys) = {}

Lists ==
  /\ \A r \in Requests(open_requests) \cup Working : r.name \notin UnsafeNames
  /\ mpc \notin {"exit_wait", "exited"} =>
       request_names = OpenKeys \cup ClosedKeys \cup CurrentKeys /\ Once

ThreadInv == Shape /\ Control /\ OwnersOutliveRequests /\ Lists

-----------------------------------------------------------------------------
(* What the actions do to the lists.                                         *)

LEMMA KeyParts ==
  \A r, q \in Request : Key(r) \in Owners \X Names /\ Key(r)[1] = r.owner
                          /\ Key(r)[2] = r.name /\ (Key(r) = Key(q) <=> r.owner = q.owner /\ r.name = q.name)
  BY DEF Key, Request

LEMMA OpenAppend ==
  ASSUME Shape, NEW r \in Request, open_requests' = Append(open_requests, r)
  PROVE  /\ open_requests' \in Seq(Request)
         /\ Requests(open_requests)' = Requests(open_requests) \cup {r}
         /\ OpenKeys' = OpenKeys \cup {Key(r)}
         /\ OpenOnce /\ Key(r) \notin OpenKeys => OpenOnce'
  <1> DEFINE s == open_requests
             n == Len(open_requests)
  <1>1. s \in Seq(Request) /\ n \in Nat
    BY LenProperties DEF Shape
  <1>2. /\ s' \in Seq(Request) /\ Len(s') = n + 1 /\ s'[n + 1] = r
        /\ \A i \in 1..n : s'[i] = s[i]
    BY <1>1, AppendProperties
  <1>3. 1..(n + 1) = (1..n) \cup {n + 1} /\ n + 1 \notin 1..n
    BY <1>1
  <1>4. Requests(s)' = Requests(s) \cup {r}
    BY <1>2, <1>3 DEF Requests
  <1>5. OpenKeys' = OpenKeys \cup {Key(r)}
    BY <1>2, <1>3 DEF OpenKeys, Key
  <1>6. ASSUME OpenOnce, Key(r) \notin OpenKeys PROVE OpenOnce'
    BY <1>2, <1>3, <1>6 DEF OpenOnce, OpenKeys, Key
  <1> QED BY <1>2, <1>4, <1>5, <1>6

LEMMA OpenTail ==
  ASSUME Shape, open_requests # <<>>, open_requests' = Tail(open_requests)
  PROVE  /\ open_requests' \in Seq(Request) /\ Head(open_requests) \in Request
         /\ Requests(open_requests) = Requests(open_requests)' \cup {Head(open_requests)}
         /\ OpenKeys = OpenKeys' \cup {Key(Head(open_requests))}
         /\ OpenOnce => OpenOnce' /\ Key(Head(open_requests)) \notin OpenKeys'
  <1> DEFINE s == open_requests
             n == Len(open_requests)
  <1>1. s \in Seq(Request) /\ n \in Nat \ {0}
    BY LenProperties, EmptySeq DEF Shape
  <1>2. /\ s' \in Seq(Request) /\ Head(s) \in Request /\ Head(s) = s[1]
        /\ Len(s') = n - 1
        /\ \A i \in 1..(n - 1) : s'[i] = s[i + 1]
    BY <1>1, HeadTailProperties
  <1>3. \A i \in 1..n : i = 1 \/ (i - 1 \in 1..(n - 1) /\ s'[i - 1] = s[i])
    BY <1>1, <1>2
  <1>4. \A i \in 1..(n - 1) : i + 1 \in 1..n /\ i + 1 # 1
    BY <1>1
  <1>5. 1 \in 1..n
    BY <1>1
  <1>6. /\ \A i \in 1..n : s[i] = Head(s) \/ \E j \in 1..(n - 1) : s'[j] = s[i]
        /\ \A j \in 1..(n - 1) : \E i \in 1..n : s[i] = s'[j]
        /\ \E i \in 1..n : s[i] = Head(s)
    BY <1>2, <1>3, <1>4, <1>5
  <1>7. Requests(s) = Requests(s)' \cup {Head(s)}
    BY <1>2, <1>6 DEF Requests
  <1>8. OpenKeys = OpenKeys' \cup {Key(Head(s))}
    BY <1>2, <1>6 DEF OpenKeys, Key
  <1>9. ASSUME OpenOnce PROVE OpenOnce' /\ Key(Head(s)) \notin OpenKeys'
    <2>1. Key(Head(s)) \notin OpenKeys'
      BY <1>2, <1>4, <1>5, <1>9 DEF OpenOnce, OpenKeys, Key
    <2>2. ASSUME NEW i \in 1..(n - 1), NEW j \in 1..(n - 1), Key(s'[i]) = Key(s'[j])
          PROVE  i = j
      <3>1. i + 1 = j + 1
        BY <1>2, <1>4, <2>2, <1>9 DEF OpenOnce
      <3> QED BY <3>1
    <2> QED BY <1>2, <2>1, <2>2 DEF OpenOnce, Key
  <1> QED BY <1>2, <1>7, <1>8, <1>9

LEMMA ClosedAppend ==
  ASSUME Shape, NEW c \in ClosedRequest, closed_requests' = Append(closed_requests, c)
  PROVE  /\ closed_requests' \in Seq(ClosedRequest)
         /\ Requests(closed_requests)' = Requests(closed_requests) \cup {c}
         /\ ClosedRequests' = ClosedRequests \cup {c.request}
         /\ ClosedKeys' = ClosedKeys \cup
              (IF c.request.name \in UnsafeNames THEN {} ELSE {Key(c.request)})
         /\ ClosedOnce /\ Key(c.request) \notin ClosedKeys => ClosedOnce'
         /\ ClosedOnce /\ c.request.name \in UnsafeNames => ClosedOnce'
  <1> DEFINE s == closed_requests
             n == Len(closed_requests)
  <1>1. s \in Seq(ClosedRequest) /\ n \in Nat
    BY LenProperties DEF Shape
  <1>2. /\ s' \in Seq(ClosedRequest) /\ Len(s') = n + 1 /\ s'[n + 1] = c
        /\ \A i \in 1..n : s'[i] = s[i]
    BY <1>1, AppendProperties
  <1>3. 1..(n + 1) = (1..n) \cup {n + 1} /\ n + 1 \notin 1..n
    BY <1>1
  <1>4. Requests(s)' = Requests(s) \cup {c}
    BY <1>2, <1>3 DEF Requests
  <1>5. ClosedRequests' = ClosedRequests \cup {c.request}
    BY <1>4 DEF ClosedRequests
  <1>6. /\ \A i \in 1..n : i \in ClosedSafe' <=> i \in ClosedSafe
        /\ n + 1 \in ClosedSafe' <=> c.request.name \notin UnsafeNames
        /\ ClosedSafe' \subseteq 1..(n + 1) /\ ClosedSafe \subseteq 1..n
    BY <1>2, <1>3 DEF ClosedSafe
  <1>7. ClosedKeys' = ClosedKeys \cup
          (IF c.request.name \in UnsafeNames THEN {} ELSE {Key(c.request)})
    BY <1>2, <1>3, <1>6 DEF ClosedKeys, Key
  <1>8. ASSUME ClosedOnce, Key(c.request) \notin ClosedKeys \/ c.request.name \in UnsafeNames
        PROVE  ClosedOnce'
    <2>1. n + 1 \in ClosedSafe' => \A i \in ClosedSafe : Key(s[i].request) # Key(c.request)
      BY <1>6, <1>8 DEF ClosedKeys
    <2> QED BY <1>2, <1>3, <1>6, <1>8, <2>1 DEF ClosedOnce, Key
  <1> QED BY <1>2, <1>4, <1>5, <1>7, <1>8

\* Erasing the requests of o.
LEMMA OpenErase ==
  ASSUME Shape, NEW o, open_requests' = OpenOfOthers(o)
  PROVE  /\ open_requests' \in Seq(Request)
         /\ Requests(open_requests)' = {r \in Requests(open_requests) : r.owner # o}
         /\ OpenKeys' = {k \in OpenKeys : k[1] # o}
         /\ OpenOnce => OpenOnce'
  <1> DEFINE s == open_requests
             K == 1..Len(open_requests) \ Opened(o)
  <1>1. s \in Seq(Request) /\ K \in SUBSET (1..Len(s)) /\ s' = Only(s, K)
    BY DEF Shape, OpenOfOthers
  <1>2. \A i \in 1..Len(s) : s[i] \in Request /\ (i \in K <=> s[i].owner # o)
    BY <1>1, ElementOfSeq DEF Opened
  <1> HIDE DEF K
  <1>3. /\ s' \in Seq(Request)
        /\ \A n \in 1..Len(s') : Place(K, n) \in K /\ s'[n] = s[Place(K, n)]
        /\ \A i \in K : \E n \in 1..Len(s') : Place(K, n) = i
        /\ \A m, n \in 1..Len(s') : Place(K, m) = Place(K, n) => m = n
    <2> DEFINE t == Only(s, K)
    <2> HIDE DEF s
    <2>1. /\ t \in Seq(Request)
          /\ \A n \in 1..Len(t) : Place(K, n) \in K /\ t[n] = s[Place(K, n)]
          /\ \A i \in K : \E n \in 1..Len(t) : Place(K, n) = i
          /\ \A m, n \in 1..Len(t) : Place(K, m) = Place(K, n) => m = n
      BY <1>1, OnlyProperties, SMTT(60)
    <2> QED BY <1>1, <2>1
  <1>4. /\ \A n \in 1..Len(s') : \E i \in 1..Len(s) : s'[n] = s[i] /\ s[i].owner # o
        /\ \A i \in 1..Len(s) : s[i].owner # o => \E n \in 1..Len(s') : s'[n] = s[i]
    BY <1>1, <1>2, <1>3
  <1>5. Requests(s)' = {r \in Requests(s) : r.owner # o}
    <2>1. ASSUME NEW r \in Requests(s)' PROVE r \in Requests(s) /\ r.owner # o
      <3>1. PICK n \in 1..Len(s') : r = s'[n]
        BY DEF Requests
      <3> QED BY <1>4, <3>1 DEF Requests
    <2>2. ASSUME NEW r \in Requests(s), r.owner # o PROVE r \in Requests(s)'
      <3>1. PICK i \in 1..Len(s) : r = s[i]
        BY DEF Requests
      <3> QED BY <1>4, <2>2, <3>1 DEF Requests
    <2> QED BY <2>1, <2>2
  <1>6. OpenKeys' = {k \in OpenKeys : k[1] # o}
    <2>1. \A i \in 1..Len(s) : Key(s[i])[1] = s[i].owner
      BY <1>2, KeyParts
    <2>2. ASSUME NEW k \in OpenKeys' PROVE k \in OpenKeys /\ k[1] # o
      <3>1. PICK n \in 1..Len(s') : k = Key(s'[n])
        BY DEF OpenKeys, Key
      <3>2. PICK i \in 1..Len(s) : s'[n] = s[i] /\ s[i].owner # o
        BY <1>4
      <3> QED BY <2>1, <3>1, <3>2 DEF OpenKeys
    <2>3. ASSUME NEW k \in OpenKeys, k[1] # o PROVE k \in OpenKeys'
      <3>1. PICK i \in 1..Len(s) : k = Key(s[i])
        BY DEF OpenKeys
      <3>2. PICK n \in 1..Len(s') : s'[n] = s[i]
        BY <1>4, <2>1, <2>3, <3>1
      <3> QED BY <3>1, <3>2 DEF OpenKeys, Key
    <2> QED BY <2>2, <2>3
  <1>7. ASSUME OpenOnce PROVE OpenOnce'
    <2> SUFFICES ASSUME NEW m \in 1..Len(s'), NEW n \in 1..Len(s'), Key(s'[m]) = Key(s'[n])
                 PROVE  m = n
      BY DEF OpenOnce, Key
    <2>1. Place(K, m) = Place(K, n)
      BY <1>1, <1>3, <1>7 DEF OpenOnce
    <2> QED BY <1>3, <2>1
  <1> QED BY <1>3, <1>5, <1>6, <1>7

LEMMA ClosedErase ==
  ASSUME Shape, NEW o, closed_requests' = ClosedOfOthers(o)
  PROVE  /\ closed_requests' \in Seq(ClosedRequest)
         /\ Requests(closed_requests)' = {c \in Requests(closed_requests) : c.request.owner # o}
         /\ ClosedRequests' = {r \in ClosedRequests : r.owner # o}
         /\ ClosedKeys' = {k \in ClosedKeys : k[1] # o}
         /\ ClosedOnce => ClosedOnce'
  <1> DEFINE s == closed_requests
             K == 1..Len(closed_requests) \ Closed(o)
  <1>1. s \in Seq(ClosedRequest) /\ K \in SUBSET (1..Len(s)) /\ s' = Only(s, K)
    BY DEF Shape, ClosedOfOthers
  <1>2. \A i \in 1..Len(s) : s[i].request \in Request /\ (i \in K <=> s[i].request.owner # o)
    <2>1. \A i \in 1..Len(s) : s[i] \in ClosedRequest
      BY <1>1, ElementOfSeq
    <2> QED BY <2>1 DEF Closed, ClosedRequest
  <1> HIDE DEF K
  <1>3. /\ s' \in Seq(ClosedRequest)
        /\ \A n \in 1..Len(s') : Place(K, n) \in K /\ s'[n] = s[Place(K, n)]
        /\ \A i \in K : \E n \in 1..Len(s') : Place(K, n) = i
        /\ \A m, n \in 1..Len(s') : Place(K, m) = Place(K, n) => m = n
    <2> DEFINE t == Only(s, K)
    <2> HIDE DEF s
    <2>1. /\ t \in Seq(ClosedRequest)
          /\ \A n \in 1..Len(t) : Place(K, n) \in K /\ t[n] = s[Place(K, n)]
          /\ \A i \in K : \E n \in 1..Len(t) : Place(K, n) = i
          /\ \A m, n \in 1..Len(t) : Place(K, m) = Place(K, n) => m = n
      BY <1>1, OnlyProperties, SMTT(60)
    <2> QED BY <1>1, <2>1
  <1>4. /\ \A n \in 1..Len(s') : \E i \in 1..Len(s) : s'[n] = s[i] /\ s[i].request.owner # o
        /\ \A i \in 1..Len(s) : s[i].request.owner # o => \E n \in 1..Len(s') : s'[n] = s[i]
    BY <1>1, <1>2, <1>3
  <1>5. /\ Requests(s)' = {c \in Requests(s) : c.request.owner # o}
        /\ ClosedRequests' = {r \in ClosedRequests : r.owner # o}
    <2>1. \A c : c \in Requests(s)' <=> c \in Requests(s) /\ c.request.owner # o
      <3>1. ASSUME NEW c \in Requests(s)' PROVE c \in Requests(s) /\ c.request.owner # o
        <4>1. PICK n \in 1..Len(s') : c = s'[n]
          BY DEF Requests
        <4> QED BY <1>4, <4>1 DEF Requests
      <3>2. ASSUME NEW c \in Requests(s), c.request.owner # o PROVE c \in Requests(s)'
        <4>1. PICK i \in 1..Len(s) : c = s[i]
          BY DEF Requests
        <4> QED BY <1>4, <3>2, <4>1 DEF Requests
      <3> QED BY <3>1, <3>2
    <2> QED BY <2>1 DEF ClosedRequests
  <1>6. ClosedKeys' = {k \in ClosedKeys : k[1] # o}
    <2>1. \A i \in 1..Len(s) : Key(s[i].request)[1] = s[i].request.owner
      BY <1>2, KeyParts
    <2> QED BY SMTT(30), <1>4, <2>1 DEF ClosedKeys, ClosedSafe, Key
  <1>7. ASSUME ClosedOnce PROVE ClosedOnce'
    <2>1. \A n \in ClosedSafe' : n \in 1..Len(s') /\ Place(K, n) \in ClosedSafe
      BY <1>1, <1>3 DEF ClosedSafe
    <2> QED BY <1>3, <1>7, <2>1 DEF ClosedOnce, Key
  <1> QED BY <1>3, <1>5, <1>6, <1>7

-----------------------------------------------------------------------------
(* The invariant holds in the first state, and every step keeps it.          *)

LEMMA ListsUnchanged ==
  ASSUME UNCHANGED <<open_requests, closed_requests, current>>
  PROVE  /\ UNCHANGED <<OpenKeys, ClosedKeys, CurrentKeys, Once>>
         /\ UNCHANGED <<Requests(open_requests), ClosedRequests, Working>>
  BY DEF OpenKeys, ClosedKeys, CurrentKeys, Once, OpenOnce, ClosedOnce, ClosedSafe,
         Requests, ClosedRequests, Working, Key

LEMMA CurrentFacts ==
  ASSUME Shape, current # None
  PROVE  /\ current \in Request /\ Working = {current} /\ CurrentKeys = {Key(current)}
         /\ current.owner \in Owners /\ current.name \in Names /\ current.modified \in Nat
  BY DEF Shape, Working, CurrentKeys, Request

LEMMA SavedType ==
  ASSUME cache \in [Names -> [time : Nat, image : Nat]], NEW r \in Request, NEW i \in Nat
  PROVE  Saved(r, i) \in [Names -> [time : Nat, image : Nat]]
  BY DEF Saved, Request

LEMMA GeneratedType ==
  ASSUME NEW n, NEW v \in Nat
  PROVE  Generated(n, v) \subseteq Nat
  BY DEF Generated, Failed

LEMMA ThreadInit == Init => ThreadInv
  <1> SUFFICES ASSUME Init PROVE ThreadInv
    OBVIOUS
  <1>1. Shape
    <2>1. /\ content \in [Names -> Nat] /\ stored \in [Names -> Nat] /\ img \in Nat
      BY DEF Init, Failed
    <2>3. cache \in [Names -> [time : Nat, image : Nat]]
      <3>1. 0 \in Nat /\ \A i \in {Failed} \cup EarlierImages : i \in Nat
        BY EarlierAssumption DEF Failed
      <3>2. \A f \in [time : {0}, image : {Failed} \cup EarlierImages] : f \in [time : Nat, image : Nat]
        BY <3>1
      <3>3. cache \in [Names -> [time : {0}, image : {Failed} \cup EarlierImages]]
        BY DEF Init
      <3> QED BY <3>2, <3>3
    <2>2. open_requests \in Seq(Request) /\ closed_requests \in Seq(ClosedRequest)
      BY EmptySeq DEF Init
    <2> QED BY <2>1, <2>2, <2>3 DEF Init, Shape
  <1>2. Requests(open_requests) = {} /\ ClosedRequests = {} /\ Working = {}
    BY DEF Init, Requests, ClosedRequests, Working
  <1>3. Control
    BY DEF Init, Control, Waiting
  <1>4. Lists
    BY <1>2 DEF Init, Lists, Once, OpenOnce, ClosedOnce, OpenKeys, ClosedKeys, CurrentKeys, ClosedSafe
  <1> QED BY <1>1, <1>2, <1>3, <1>4 DEF ThreadInv, OwnersOutliveRequests

\* Steps of the worker that leave the lists as they are.
LEMMA WorkerOnItsOwn ==
  ASSUME ThreadInv, leaveStopLoop \/ generate \/ saveFile
  PROVE  ThreadInv'
  <1>1. UNCHANGED <<open_requests, closed_requests, current, alive, request_names, mpc, worker,
                    stop, signalled, aborting, content, clock, stored>>
    BY DEF leaveStopLoop, generate, saveFile, world, mainVars
  <1>2. Shape'
    <2>1. img' \in Nat
      <3>1. CASE generate
        BY <3>1, CurrentFacts, GeneratedType DEF generate, ThreadInv, Shape, Control
      <3> QED BY <3>1 DEF leaveStopLoop, saveFile, ThreadInv, Shape
    <2>2. cache' \in [Names -> [time : Nat, image : Nat]]
      <3>1. CASE saveFile
        BY <3>1, CurrentFacts, SavedType DEF saveFile, ThreadInv, Shape, Control
      <3> QED BY <3>1 DEF leaveStopLoop, generate, ThreadInv, Shape
    <2> QED BY <1>1, <2>1, <2>2 DEF leaveStopLoop, generate, saveFile, ThreadInv, Shape
  <1>3. Control'
    BY <1>1 DEF leaveStopLoop, generate, saveFile, ThreadInv, Control, Waiting
  <1>4. OwnersOutliveRequests' /\ Lists'
    BY <1>1, ListsUnchanged DEF ThreadInv, OwnersOutliveRequests, Lists
  <1> QED BY <1>2, <1>3, <1>4 DEF ThreadInv

LEMMA WorkerTakes ==
  ASSUME ThreadInv, takeRequest
  PROVE  ThreadInv'
  <1>1. UNCHANGED <<closed_requests, alive, request_names, mpc, cache, img,
                    stop, signalled, aborting, content, clock, stored>>
    BY DEF takeRequest, world, mainVars
  <1>2. wpc = "take" /\ current = None
    BY DEF takeRequest, ThreadInv, Control
  <1>3. CASE open_requests = <<>>
    <2>1. UNCHANGED <<open_requests, current>> /\ worker' = FALSE /\ wpc' = "ended"
      BY <1>3 DEF takeRequest, PointerAfterReturn
    <2>2. Shape' /\ Control'
      BY <1>1, <1>2, <1>3, <2>1 DEF ThreadInv, Shape, Control, Waiting
    <2> QED BY <1>1, <2>1, <2>2, ListsUnchanged DEF ThreadInv, OwnersOutliveRequests, Lists
  <1>4. CASE open_requests # <<>>
    <2> DEFINE r == Head(open_requests)
    <2>1. open_requests' = Tail(open_requests) /\ current' = r /\ wpc' = "generate" /\ worker' = worker
      BY <1>4 DEF takeRequest
    <2>2. /\ open_requests' \in Seq(Request) /\ r \in Request
          /\ Requests(open_requests) = Requests(open_requests)' \cup {r}
          /\ OpenKeys = OpenKeys' \cup {Key(r)}
          /\ OpenOnce => OpenOnce' /\ Key(r) \notin OpenKeys'
      BY <1>4, <2>1, OpenTail DEF ThreadInv
    <2>3. r # None
      BY <2>2, NoneAssumption DEF Request
    <2>4. Working = {} /\ Working' = {r} /\ CurrentKeys = {} /\ CurrentKeys' = {Key(r)}
      BY <1>2, <2>1, <2>3 DEF Working, CurrentKeys, Key
    <2>5. UNCHANGED <<ClosedKeys, ClosedOnce, ClosedRequests>>
      BY <1>1 DEF ClosedKeys, ClosedOnce, ClosedRequests, ClosedSafe, Requests, Key
    <2>6. Shape'
      BY <1>1, <2>1, <2>2 DEF ThreadInv, Shape
    <2>7. Control'
      BY <1>1, <1>2, <1>4, <2>1, <2>3 DEF ThreadInv, Control, Waiting
    <2>8. OwnersOutliveRequests'
      BY <1>1, <2>2, <2>4, <2>5 DEF ThreadInv, OwnersOutliveRequests
    <2>9. Lists'
      BY <1>1, <2>2, <2>4, <2>5 DEF ThreadInv, Lists, Once
    <2> QED BY <2>6, <2>7, <2>8, <2>9 DEF ThreadInv
  <1> QED BY <1>3, <1>4

LEMMA WorkerCloses ==
  ASSUME ThreadInv, closeRequest
  PROVE  ThreadInv'
  <1>1. UNCHANGED <<open_requests, alive, request_names, mpc, cache, worker,
                    stop, aborting, content, clock, stored>>
    BY DEF closeRequest, world
  <1>2. /\ closed_requests' = Append(closed_requests, Result) /\ current' = None
        /\ wpc = "close" /\ wpc' = "loop" /\ signalled' = Waiting /\ img' = Failed
    BY DEF closeRequest, Signal
  <1>3. current \in Request /\ Working = {current} /\ CurrentKeys = {Key(current)} /\ current # None
    BY <1>2, CurrentFacts DEF ThreadInv, Control
  <1>4. Result \in ClosedRequest /\ Result.request = current
    BY <1>3 DEF Result, ClosedRequest, ThreadInv, Shape
  <1>5. current.name \notin UnsafeNames
    BY <1>3 DEF ThreadInv, Lists
  <1>6. /\ closed_requests' \in Seq(ClosedRequest)
        /\ ClosedRequests' = ClosedRequests \cup {current}
        /\ ClosedKeys' = ClosedKeys \cup {Key(current)}
        /\ ClosedOnce /\ Key(current) \notin ClosedKeys => ClosedOnce'
    BY <1>2, <1>4, <1>5, ClosedAppend DEF ThreadInv
  <1>7. Working' = {} /\ CurrentKeys' = {}
    BY <1>2 DEF Working, CurrentKeys
  <1>8. UNCHANGED <<OpenKeys, OpenOnce, Requests(open_requests)>>
    BY <1>1 DEF OpenKeys, OpenOnce, Requests, Key
  <1>9. Shape'
    BY <1>1, <1>2, <1>6 DEF ThreadInv, Shape, Failed, Waiting
  <1>10. Control'
    BY <1>1, <1>2, <1>3 DEF ThreadInv, Control, Waiting
  <1>11. OwnersOutliveRequests'
    BY <1>1, <1>3, <1>6, <1>7, <1>8 DEF ThreadInv, OwnersOutliveRequests
  <1>12. Lists'
    BY <1>1, <1>3, <1>6, <1>7, <1>8 DEF ThreadInv, Lists, Once
  <1> QED BY <1>9, <1>10, <1>11, <1>12 DEF ThreadInv

\* The main thread makes a request, for whatever time and version.
LEMMA Requesting ==
  ASSUME ThreadInv, NEW o \in Owners, NEW n \in Names, NEW m \in Nat, NEW v \in Nat,
         requestVersion(o, n, m, v),
         UNCHANGED <<alive, clock>>, content' \in [Names -> Nat]
  PROVE  ThreadInv'
  <1> DEFINE r == [owner |-> o, name |-> n, modified |-> m]
  <1>1. /\ UNCHANGED <<alive, clock, worker, stop, current, wpc, img, aborting, mutex, signalled>>
        /\ mpc = "idle" /\ o \in alive
    BY DEF requestVersion, workerVars
  <1>2. r \in Request
    BY DEF Request
  <1>3. ASSUME UNCHANGED <<open_requests, closed_requests, request_names, mpc, cache>>,
               stored' \in [Names -> Nat]
        PROVE  ThreadInv'
    <2>1. Shape' /\ Control'
      BY <1>1, <1>3 DEF ThreadInv, Shape, Control, Waiting
    <2> QED BY <1>1, <1>3, <2>1, ListsUnchanged DEF ThreadInv, OwnersOutliveRequests, Lists
  <1>4. CASE Key(r) \in request_names
    BY <1>1, <1>3, <1>4 DEF requestVersion, ThreadInv, Shape
  <1>5. CASE Key(r) \notin request_names /\ CacheHit(n, m)
    <2>1. /\ UNCHANGED <<open_requests, closed_requests, request_names, mpc, cache>>
          /\ stored' = [stored EXCEPT ![n] = cache[n].image]
      BY <1>5 DEF requestVersion
    <2>2. stored' \in [Names -> Nat]
      BY <2>1 DEF ThreadInv, Shape
    <2> QED BY <1>3, <2>1, <2>2
  <1>6. CASE Key(r) \notin request_names /\ ~CacheHit(n, m) /\ n \notin UnsafeNames
    <2>1. /\ request_names' = request_names \cup {Key(r)}
          /\ open_requests' = Append(open_requests, r) /\ mpc' = "start"
          /\ UNCHANGED <<closed_requests, cache, stored>>
      BY <1>6 DEF requestVersion
    <2>2. /\ open_requests' \in Seq(Request)
          /\ Requests(open_requests)' = Requests(open_requests) \cup {r}
          /\ OpenKeys' = OpenKeys \cup {Key(r)}
          /\ OpenOnce /\ Key(r) \notin OpenKeys => OpenOnce'
      BY <1>2, <2>1, OpenAppend DEF ThreadInv
    <2>3. UNCHANGED <<ClosedKeys, ClosedOnce, ClosedRequests, CurrentKeys, Working>>
      BY <1>1, <2>1
         DEF ClosedKeys, ClosedOnce, ClosedRequests, ClosedSafe, Requests, CurrentKeys, Working, Key
    <2>4. Shape'
      BY <1>1, <2>1, <2>2 DEF ThreadInv, Shape
    <2>5. Control'
      BY <1>1, <2>1 DEF ThreadInv, Control, Waiting
    <2>6. OwnersOutliveRequests'
      BY <1>1, <2>2, <2>3 DEF ThreadInv, OwnersOutliveRequests
    <2>7. Lists'
      BY <1>1, <1>6, <2>1, <2>2, <2>3 DEF ThreadInv, Lists, Once
    <2> QED BY <2>4, <2>5, <2>6, <2>7 DEF ThreadInv
  <1>7. CASE Key(r) \notin request_names /\ ~CacheHit(n, m) /\ n \in UnsafeNames
    <2>1. PICK i \in Generated(n, v) :
            /\ cache' = Saved(r, i)
            /\ closed_requests' = Append(closed_requests, [request |-> r, image |-> i])
      BY <1>7 DEF requestVersion
    <2>2. UNCHANGED <<open_requests, request_names, mpc, stored>>
      BY <1>7 DEF requestVersion
    <2> DEFINE c == [request |-> r, image |-> i]
    <2>3. /\ c \in ClosedRequest /\ c.request = r /\ r.name = n /\ i \in Nat
          /\ closed_requests' = Append(closed_requests, c)
      BY <1>2, <2>1, GeneratedType DEF ClosedRequest
    <2> HIDE DEF c
    <2>4. /\ closed_requests' \in Seq(ClosedRequest)
          /\ ClosedRequests' = ClosedRequests \cup {r}
          /\ ClosedKeys' = ClosedKeys
          /\ ClosedOnce => ClosedOnce'
      BY <1>7, <2>3, ClosedAppend DEF ThreadInv
    <2>5. UNCHANGED <<OpenKeys, OpenOnce, Requests(open_requests), CurrentKeys, Working>>
      BY <1>1, <2>2 DEF OpenKeys, OpenOnce, Requests, CurrentKeys, Working, Key
    <2>6. Shape'
      BY <1>1, <1>2, <2>1, <2>2, <2>3, <2>4, SavedType DEF ThreadInv, Shape
    <2>7. Control'
      BY <1>1, <2>2 DEF ThreadInv, Control, Waiting
    <2>8. OwnersOutliveRequests'
      BY <1>1, <2>4, <2>5 DEF ThreadInv, OwnersOutliveRequests
    <2>9. Lists'
      BY <1>1, <2>2, <2>4, <2>5 DEF ThreadInv, Lists, Once
    <2> QED BY <2>6, <2>7, <2>8, <2>9 DEF ThreadInv
  <1> QED BY <1>4, <1>5, <1>6, <1>7

LEMMA Starting ==
  ASSUME ThreadInv, startWorker
  PROVE  ThreadInv'
  <1>1. /\ UNCHANGED <<alive, content, clock, cache, open_requests, closed_requests, request_names,
                       current, img, aborting, signalled, stored>>
        /\ mpc = "start" /\ mpc' = "idle"
    BY DEF startWorker, world
  <1>2. IF worker THEN UNCHANGED <<worker, wpc, stop>>
                  ELSE worker' = TRUE /\ wpc' = "loop" /\ stop' = FALSE
    BY DEF startWorker
  <1>3. Shape' /\ Control'
    BY <1>1, <1>2 DEF ThreadInv, Shape, Control, Waiting
  <1> QED BY <1>1, <1>3, ListsUnchanged DEF ThreadInv, OwnersOutliveRequests, Lists

\* A stored image is one of those that were closed.
LEMMA NewestImage ==
  ASSUME Shape, NEW o, NEW n, Images(n, Finished(o)) # <<>>
  PROVE  \E i \in Closed(o) : /\ closed_requests[i].request.name = n
                              /\ closed_requests[i].image # Failed
                              /\ Newest(Images(n, Finished(o))).image = closed_requests[i].image
  <1> DEFINE s == Finished(o)
             K == {i \in 1..Len(s) : s[i].request.name = n /\ s[i].image # Failed}
             t == Only(s, K)
  <1>1. /\ s \in Seq(ClosedRequest)
        /\ \A i \in 1..Len(s) : Place(Closed(o), i) \in Closed(o)
                                 /\ s[i] = closed_requests[Place(Closed(o), i)]
    <2>1. closed_requests \in Seq(ClosedRequest) /\ Closed(o) \in SUBSET (1..Len(closed_requests))
      BY DEF Shape, Closed
    <2> QED BY <2>1, OnlyProperties DEF Finished
  <1>2. K \in SUBSET (1..Len(s)) /\ t = Images(n, s) /\ t # <<>>
    BY DEF Images
  <1>3. \A i \in K : s[i].request.name = n /\ s[i].image # Failed
    OBVIOUS
  <1> HIDE DEF K, s
  <1>4. t \in Seq(ClosedRequest) /\ \A i \in 1..Len(t) : Place(K, i) \in K /\ t[i] = s[Place(K, i)]
    BY <1>1, <1>2, OnlyProperties
  <1>5. Len(t) \in 1..Len(t)
    BY <1>2, <1>4, LenProperties, EmptySeq
  <1>6. Newest(t) = s[Place(K, Len(t))] /\ Place(K, Len(t)) \in K
    BY <1>4, <1>5 DEF Newest
  <1>7. Newest(t) = closed_requests[Place(Closed(o), Place(K, Len(t)))]
          /\ Place(Closed(o), Place(K, Len(t))) \in Closed(o)
    BY <1>1, <1>2, <1>6
  <1> QED BY <1>2, <1>3, <1>6, <1>7 DEF s

\* If there is one to store, it is stored.
LEMMA SomeImage ==
  ASSUME Shape, NEW o, NEW i \in Closed(o), closed_requests[i].image # Failed
  PROVE  Images(closed_requests[i].request.name, Finished(o)) # <<>>
  <1> DEFINE s == Finished(o)
             n == closed_requests[i].request.name
             K == {k \in 1..Len(s) : s[k].request.name = n /\ s[k].image # Failed}
  <1>1. /\ s \in Seq(ClosedRequest)
        /\ \E k \in 1..Len(s) : Place(Closed(o), k) = i /\ s[k] = closed_requests[i]
    <2>1. closed_requests \in Seq(ClosedRequest) /\ Closed(o) \in SUBSET (1..Len(closed_requests))
      BY DEF Shape, Closed
    <2> QED BY <2>1, OnlyProperties DEF Finished
  <1>2. K \in SUBSET (1..Len(s)) /\ \E k \in K : TRUE
    BY <1>1
  <1>3. Images(n, s) = Only(s, K)
    BY DEF Images
  <1> HIDE DEF K, s
  <1>4. /\ Only(s, K) \in Seq(ClosedRequest)
        /\ \E k \in 1..Len(Only(s, K)) : TRUE
    BY <1>1, <1>2, OnlyProperties
  <1>5. Only(s, K) # <<>>
    BY <1>4, EmptySeq
  <1> QED BY <1>3, <1>5 DEF s

\* The names that done takes off are those of the closed requests of o, on
\* the name list or not.
LEMMA FinishedKeys ==
  ASSUME Shape, NEW o
  PROVE  /\ \A k \in FinishedNames(o) : k[1] = o /\ (k \in ClosedKeys \/ k[2] \in UnsafeNames)
         /\ \A k \in ClosedKeys : k[1] = o => k \in FinishedNames(o)
  <1> DEFINE s == Finished(o)
  <1>1. /\ \A n \in 1..Len(s) : Place(Closed(o), n) \in Closed(o)
                                 /\ s[n] = closed_requests[Place(Closed(o), n)]
        /\ \A i \in Closed(o) : \E n \in 1..Len(s) : Place(Closed(o), n) = i
    <2>1. closed_requests \in Seq(ClosedRequest) /\ Closed(o) \in SUBSET (1..Len(closed_requests))
      BY DEF Shape, Closed
    <2> QED BY <2>1, OnlyProperties DEF Finished
  <1>2. \A i \in 1..Len(closed_requests) :
          /\ closed_requests[i].request \in Request
          /\ Key(closed_requests[i].request)[1] = closed_requests[i].request.owner
          /\ Key(closed_requests[i].request)[2] = closed_requests[i].request.name
    <2>1. \A i \in 1..Len(closed_requests) : closed_requests[i] \in ClosedRequest
      BY ElementOfSeq DEF Shape
    <2> QED BY <2>1, KeyParts DEF ClosedRequest
  <1>3. ASSUME NEW k \in FinishedNames(o)
        PROVE  k[1] = o /\ (k \in ClosedKeys \/ k[2] \in UnsafeNames)
    <2>1. PICK n \in 1..Len(s) : k = Key(s[n].request)
      BY DEF FinishedNames, Requests
    <2>2. PICK i \in Closed(o) : k = Key(closed_requests[i].request)
      BY <1>1, <2>1
    <2>3. i \in 1..Len(closed_requests) /\ closed_requests[i].request.owner = o
      BY DEF Closed
    <2> QED BY <1>2, <2>2, <2>3 DEF ClosedKeys, ClosedSafe
  <1>4. ASSUME NEW k \in ClosedKeys, k[1] = o PROVE k \in FinishedNames(o)
    <2>1. PICK i \in 1..Len(closed_requests) : k = Key(closed_requests[i].request)
      BY DEF ClosedKeys, ClosedSafe
    <2>2. i \in Closed(o)
      BY <1>2, <1>4, <2>1 DEF Closed
    <2>3. PICK n \in 1..Len(s) : s[n] = closed_requests[i]
      BY <1>1, <2>2
    <2> QED BY <2>1, <2>3 DEF FinishedNames, Requests
  <1> QED BY <1>3, <1>4

\* The names of requests that are open or being made are those of safe requests.
LEMMA SafeKeys ==
  ASSUME Shape, Lists
  PROVE  \A k \in OpenKeys \cup CurrentKeys : k[2] \notin UnsafeNames
  <1>1. \A i \in 1..Len(open_requests) :
           open_requests[i] \in Request /\ open_requests[i] \in Requests(open_requests)
    BY ElementOfSeq DEF Shape, Requests
  <1>2. \A r \in Working : r \in Request
    BY DEF Shape, Working
  <1> QED BY <1>1, <1>2, KeyParts DEF Lists, OpenKeys, CurrentKeys

LEMMA Storing ==
  ASSUME ThreadInv, NEW o \in Owners, done(o)
  PROVE  ThreadInv'
  <1>1. /\ UNCHANGED <<alive, content, clock, cache, open_requests, worker, stop, current, wpc, img,
                       mpc, aborting, mutex, signalled>>
        /\ mpc = "idle" /\ closed_requests' = ClosedOfOthers(o)
        /\ request_names' = request_names \ FinishedNames(o)
        /\ stored' = [n \in Names |-> IF Images(n, Finished(o)) = <<>> THEN stored[n]
                                      ELSE Newest(Images(n, Finished(o))).image]
    BY DEF done, world, workerVars, mainVars
  <1>2. /\ closed_requests' \in Seq(ClosedRequest)
        /\ ClosedRequests' = {r \in ClosedRequests : r.owner # o}
        /\ ClosedKeys' = {k \in ClosedKeys : k[1] # o}
        /\ ClosedOnce => ClosedOnce'
    BY <1>1, ClosedErase DEF ThreadInv
  <1>3. stored' \in [Names -> Nat]
    <2>1. ASSUME NEW n \in Names, Images(n, Finished(o)) # <<>>
          PROVE  Newest(Images(n, Finished(o))).image \in Nat
      <3>1. PICK i \in Closed(o) :
              Newest(Images(n, Finished(o))).image = closed_requests[i].image
        BY <2>1, NewestImage DEF ThreadInv
      <3>2. closed_requests[i] \in ClosedRequest
        BY ElementOfSeq DEF Closed, ThreadInv, Shape
      <3> QED BY <3>1, <3>2 DEF ClosedRequest
    <2>2. stored \in [Names -> Nat]
      BY DEF ThreadInv, Shape
    <2>3. \A n \in Names : stored'[n] \in Nat
      BY <1>1, <2>1, <2>2
    <2> QED BY <1>1, <2>3
  <1>4. UNCHANGED <<OpenKeys, OpenOnce, Requests(open_requests), CurrentKeys, Working>>
    BY <1>1 DEF OpenKeys, OpenOnce, Requests, CurrentKeys, Working, Key
  <1>5. Shape'
    BY <1>1, <1>2, <1>3 DEF ThreadInv, Shape
  <1>6. Control'
    BY <1>1 DEF ThreadInv, Control, Waiting
  <1>7. OwnersOutliveRequests'
    BY <1>1, <1>2, <1>4 DEF ThreadInv, OwnersOutliveRequests
  <1>8. request_names = OpenKeys \cup ClosedKeys \cup CurrentKeys /\ Once
    BY <1>1 DEF ThreadInv, Lists
  <1>9. request_names' = OpenKeys \cup ClosedKeys' \cup CurrentKeys
    <2>1. \A k \in OpenKeys \cup CurrentKeys : k \notin FinishedNames(o)
      BY <1>8, FinishedKeys, SafeKeys DEF ThreadInv, Once
    <2>2. \A k \in ClosedKeys : k \in FinishedNames(o) <=> k[1] = o
      BY FinishedKeys DEF ThreadInv
    <2> QED BY <1>1, <1>2, <1>8, <2>1, <2>2
  <1>10. Lists'
    <2>1. Once'
      BY <1>2, <1>4, <1>8 DEF Once
    <2>2. \A r \in Requests(open_requests) \cup Working : r.name \notin UnsafeNames
      BY DEF ThreadInv, Lists
    <2> QED BY <1>4, <1>9, <2>1, <2>2 DEF Lists
  <1> QED BY <1>5, <1>6, <1>7, <1>10 DEF ThreadInv

\* The requests of o go, and o with them or not.
LEMMA Removing ==
  ASSUME ThreadInv, NEW o \in Owners, RemoveRequests(o), current # None => current.owner # o,
         mpc \notin {"exit_wait", "exited"}, UNCHANGED current
  PROVE  /\ open_requests' \in Seq(Request) /\ closed_requests' \in Seq(ClosedRequest)
         /\ alive' \subseteq Owners
         /\ open_requests' # <<>> => open_requests # <<>>
         /\ OwnersOutliveRequests'
         /\ Lists'
  <1>1. /\ open_requests' = OpenOfOthers(o) /\ closed_requests' = ClosedOfOthers(o)
        /\ request_names' = request_names \ {Key(r) : r \in Removed(o)}
        /\ alive' = alive \/ alive' = alive \ {o}
    BY DEF RemoveRequests
  <1>2. /\ open_requests' \in Seq(Request)
        /\ Requests(open_requests)' = {r \in Requests(open_requests) : r.owner # o}
        /\ OpenKeys' = {k \in OpenKeys : k[1] # o}
        /\ OpenOnce => OpenOnce'
    BY <1>1, OpenErase DEF ThreadInv
  <1>3. /\ closed_requests' \in Seq(ClosedRequest)
        /\ ClosedRequests' = {r \in ClosedRequests : r.owner # o}
        /\ ClosedKeys' = {k \in ClosedKeys : k[1] # o}
        /\ ClosedOnce => ClosedOnce'
    BY <1>1, ClosedErase DEF ThreadInv
  <1>4. UNCHANGED <<CurrentKeys, Working>>
    BY DEF CurrentKeys, Working, Key
  <1>5. \A r \in Working : r.owner # o /\ r \in Request
    BY DEF Working, ThreadInv, Shape
  <1>6. open_requests' # <<>> => open_requests # <<>>
    <2>1. ASSUME open_requests = <<>> PROVE open_requests' = <<>>
      <3>1. Requests(open_requests)' = {}
        BY <1>2, <2>1 DEF Requests
      <3>2. Len(open_requests') = 0
        BY <1>2, <3>1, LenProperties DEF Requests
      <3> QED BY <1>2, <3>2, EmptySeq
    <2> QED BY <2>1
  <1>7. OwnersOutliveRequests'
    BY <1>1, <1>2, <1>3, <1>4, <1>5 DEF ThreadInv, OwnersOutliveRequests
  <1>8. request_names = OpenKeys \cup ClosedKeys \cup CurrentKeys /\ Once
    BY DEF ThreadInv, Lists
  <1>9. request_names' = OpenKeys' \cup ClosedKeys' \cup CurrentKeys
    <2> DEFINE R == {Key(r) : r \in Removed(o)}
    <2>1. \A i \in 1..Len(open_requests) :
             open_requests[i] \in Request /\ open_requests[i] \in Requests(open_requests)
      BY ElementOfSeq DEF ThreadInv, Shape, Requests
    <2>2. \A i \in 1..Len(closed_requests) :
             closed_requests[i].request \in Request /\ closed_requests[i].request \in ClosedRequests
      <3>1. \A i \in 1..Len(closed_requests) : closed_requests[i] \in ClosedRequest
        BY ElementOfSeq DEF ThreadInv, Shape
      <3> QED BY <3>1 DEF ClosedRequest, ClosedRequests, Requests
    <2>3. ASSUME NEW k \in OpenKeys \cup ClosedKeys, k[1] = o PROVE k \in R
      <3>1. \E r \in Requests(open_requests) \cup ClosedRequests : r \in Request /\ k = Key(r)
        BY <2>1, <2>2 DEF OpenKeys, ClosedKeys, ClosedSafe
      <3> QED BY <2>3, <3>1, KeyParts DEF Removed
    <2>4. ASSUME NEW k \in R PROVE k[1] = o
      <3>1. PICK r \in Removed(o) : k = Key(r)
        OBVIOUS
      <3> QED BY <3>1 DEF Removed, Key
    <2>5. \A k \in CurrentKeys : k[1] # o
      BY <1>5, KeyParts DEF CurrentKeys
    <2> HIDE DEF R
    <2>6. request_names' = request_names \ R
      BY <1>1 DEF R
    <2> QED BY <1>2, <1>3, <1>8, <2>3, <2>4, <2>5, <2>6
  <1>10. Lists'
    <2>1. Once'
      BY <1>2, <1>3, <1>4, <1>8 DEF Once
    <2>2. \A r \in Requests(open_requests)' \cup Working' : r.name \notin UnsafeNames
      BY <1>2, <1>4 DEF ThreadInv, Lists
    <2> QED BY <1>4, <1>9, <2>1, <2>2 DEF Lists
  <1>11. alive' \subseteq Owners
    BY <1>1 DEF ThreadInv, Shape
  <1> QED BY <1>2, <1>3, <1>6, <1>7, <1>10, <1>11

LEMMA Aborting ==
  ASSUME ThreadInv, NEW o \in Owners, abort(o)
  PROVE  ThreadInv'
  <1>1. /\ UNCHANGED <<content, clock, cache, worker, current, wpc, img, mutex, signalled, stored>>
        /\ mpc = "idle" /\ o \in alive
    BY DEF abort, workerVars
  <1>2. CASE InProgress(o)
    <2>1. /\ stop' = TRUE /\ mpc' = "abort_wait" /\ aborting' = o
          /\ UNCHANGED <<open_requests, closed_requests, request_names, alive>>
      BY <1>2 DEF abort
    <2>2. Shape' /\ Control'
      BY <1>1, <1>2, <2>1 DEF ThreadInv, Shape, Control, Waiting, InProgress
    <2> QED BY <1>1, <2>1, <2>2, ListsUnchanged DEF ThreadInv, OwnersOutliveRequests, Lists
  <1>3. CASE ~InProgress(o)
    <2>1. RemoveRequests(o) /\ UNCHANGED <<stop, mpc, aborting>>
      BY <1>3 DEF abort
    <2>2. current # None => current.owner # o
      BY <1>3 DEF InProgress, ThreadInv, Control
    <2>3. /\ open_requests' \in Seq(Request) /\ closed_requests' \in Seq(ClosedRequest)
          /\ alive' \subseteq Owners
          /\ open_requests' # <<>> => open_requests # <<>>
          /\ OwnersOutliveRequests'
          /\ Lists'
      BY <1>1, <2>1, <2>2, Removing
    <2>4. Shape'
      BY <1>1, <2>1, <2>3 DEF ThreadInv, Shape
    <2>5. Control'
      BY <1>1, <2>1, <2>3 DEF ThreadInv, Control, Waiting
    <2> QED BY <2>3, <2>4, <2>5 DEF ThreadInv
  <1> QED BY <1>2, <1>3

LEMMA Waking ==
  ASSUME ThreadInv, wake
  PROVE  ThreadInv'
  <1>1. /\ UNCHANGED <<alive, content, clock, cache, open_requests, closed_requests, request_names,
                       worker, stop, current, wpc, img, aborting, stored>>
        /\ mpc \in {"abort_wait", "exit_wait"} /\ signalled /\ signalled' = FALSE
        /\ mpc' = IF mpc = "abort_wait" THEN "relock" ELSE "exited"
    BY DEF wake, Waiting, world, workerVars
  <1>2. Shape' /\ Control'
    BY <1>1 DEF ThreadInv, Shape, Control, Waiting
  <1>3. mpc' \notin {"exit_wait", "exited"} => mpc \notin {"exit_wait", "exited"}
    BY <1>1
  <1> QED BY <1>1, <1>2, <1>3, ListsUnchanged DEF ThreadInv, OwnersOutliveRequests, Lists

\* Only here is the invariant about the owner that abort waits for needed:
\* the worker is in its loop, so it makes nothing for that owner.
LEMMA Relocking ==
  ASSUME ThreadInv, relock
  PROVE  ThreadInv'
  <1>1. /\ UNCHANGED <<content, clock, cache, worker, current, wpc, img, aborting, signalled, stored>>
        /\ mpc = "relock" /\ stop' = FALSE /\ RemoveRequests(aborting) /\ mpc' = "idle"
    BY DEF relock, workerVars
  <1>2. aborting \in Owners /\ wpc = "loop" /\ current = None /\ ~signalled
    BY <1>1 DEF ThreadInv, Shape, Control, Waiting
  <1>3. /\ open_requests' \in Seq(Request) /\ closed_requests' \in Seq(ClosedRequest)
        /\ alive' \subseteq Owners
        /\ open_requests' # <<>> => open_requests # <<>>
        /\ OwnersOutliveRequests'
        /\ Lists'
    BY <1>1, <1>2, Removing
  <1>4. Shape'
    BY <1>1, <1>3 DEF ThreadInv, Shape
  <1>5. Control'
    BY <1>1, <1>2, <1>3 DEF ThreadInv, Control, Waiting
  <1> QED BY <1>3, <1>4, <1>5 DEF ThreadInv

LEMMA Exiting ==
  ASSUME ThreadInv, abortAll
  PROVE  ThreadInv'
  <1>1. /\ UNCHANGED <<alive, content, clock, cache, worker, stop, current, wpc, img, aborting,
                       signalled, stored>>
        /\ mpc = "idle" /\ open_requests' = <<>> /\ closed_requests' = <<>>
        /\ mpc' = IF ExitWaits THEN "exit_wait" ELSE "exited"
    BY DEF abortAll, world, workerVars
  <1>2. /\ Requests(open_requests)' = {} /\ ClosedRequests' = {} /\ Working' = Working
    BY <1>1 DEF Requests, ClosedRequests, Working
  <1>3. Shape'
    BY <1>1, EmptySeq DEF ThreadInv, Shape
  <1>4. Control'
    BY <1>1 DEF ThreadInv, Control, Waiting, ExitWaits
  <1>5. OwnersOutliveRequests' /\ Lists'
    BY <1>1, <1>2 DEF ThreadInv, OwnersOutliveRequests, Lists
  <1> QED BY <1>3, <1>4, <1>5 DEF ThreadInv

LEMMA Creating ==
  ASSUME ThreadInv, NEW o \in Owners, create(o)
  PROVE  ThreadInv'
  <1>1. /\ UNCHANGED <<content, clock, cache, open_requests, closed_requests, request_names, worker,
                       stop, current, wpc, img, mpc, aborting, signalled, stored>>
        /\ alive' = alive \cup {o}
    BY DEF create, workerVars, mainVars
  <1>2. Shape' /\ Control'
    BY <1>1 DEF ThreadInv, Shape, Control, Waiting
  <1> QED BY <1>1, <1>2, ListsUnchanged DEF ThreadInv, OwnersOutliveRequests, Lists

\* Time passes.
LEMMA ThreadWaits ==
  ASSUME ThreadInv, clock' \in Nat,
         UNCHANGED <<alive, content, cache, open_requests, closed_requests, request_names,
                     worker, stop, workerVars, mainVars, stored>>
  PROVE  ThreadInv'
  <1>1. UNCHANGED <<alive, content, cache, open_requests, closed_requests, request_names,
                    worker, stop, current, wpc, img, mpc, aborting, mutex, signalled, stored>>
    BY DEF workerVars, mainVars
  <1>2. Shape' /\ Control'
    BY <1>1 DEF ThreadInv, Shape, Control, Waiting
  <1> QED BY <1>1, <1>2, ListsUnchanged DEF ThreadInv, OwnersOutliveRequests, Lists

LEMMA ThreadStutters ==
  ASSUME ThreadInv, UNCHANGED vars
  PROVE  ThreadInv'
  <1>1. clock' \in Nat
    BY DEF vars, world, ThreadInv, Shape
  <1> QED BY <1>1, ThreadWaits DEF vars, world

LEMMA ThreadNext == ThreadInv /\ [Next]_vars => ThreadInv'
  <1> SUFFICES ASSUME ThreadInv, [Next]_vars PROVE ThreadInv'
    OBVIOUS
  <1>1. CASE Worker
    BY <1>1, WorkerOnItsOwn, WorkerTakes, WorkerCloses DEF Worker
  <1>2. CASE Main
    BY <1>2, Starting, Waking, Relocking DEF Main
  <1>3. CASE abortAll
    BY <1>3, Exiting
  <1>4. ASSUME NEW o \in Owners, NEW n \in Names, NEW m \in {0, clock}, request(o, n, m)
        PROVE  ThreadInv'
    <2>1. m \in Nat /\ content \in [Names -> Nat] /\ content[n] \in Nat
      BY DEF ThreadInv, Shape
    <2>2. requestVersion(o, n, m, content[n]) /\ UNCHANGED <<alive, content, clock>>
      BY <1>4 DEF request, world
    <2> QED BY <2>1, <2>2, Requesting
  <1>5. ASSUME NEW o \in Pollers, done(o) PROVE ThreadInv'
    BY <1>5, Storing, NamesAssumption
  <1>6. ASSUME NEW o \in Owners, abort(o) \/ create(o) PROVE ThreadInv'
    BY <1>6, Aborting, Creating
  <1>7. CASE UNCHANGED vars
    BY <1>7, ThreadStutters
  <1> QED BY <1>1, <1>2, <1>3, <1>4, <1>5, <1>6, <1>7 DEF Next

-----------------------------------------------------------------------------
(* What follows for every behaviour.                                         *)

LEMMA ThreadAlways == Spec => []ThreadInv
  <1> QED BY ThreadInit, ThreadNext, PTL DEF Spec

\* Whatever the two threads do, and in whatever order, no request outlives
\* the object it was made for: abort waits for the one that is being made.
THEOREM OwnersOutliveRequestsAlways == Spec => []OwnersOutliveRequests
  <1>1. ThreadInv => OwnersOutliveRequests
    BY DEF ThreadInv
  <1> QED BY <1>1, ThreadAlways, PTL

\* An open request always has a worker, or the main thread is about to look
\* for one: nothing is lost between the unlocked test and the worker's end.
THEOREM NoLostRequestAlways == Spec => []NoLostRequest
  <1>1. ThreadInv => NoLostRequest
    BY DEF ThreadInv, Control, NoLostRequest
  <1> QED BY <1>1, ThreadAlways, PTL

\* After the program has stopped the worker it never gets to work again.
THEOREM NoWorkAfterExitAlways == Spec => []NoWorkAfterExit
  <1>1. ThreadInv => NoWorkAfterExit
    BY DEF ThreadInv, Shape, Control, NoWorkAfterExit
  <1> QED BY <1>1, ThreadAlways, PTL

\* The list of all requests, as NamesMatchRequests writes it.
closed == [i \in 1..Len(closed_requests) |-> closed_requests[i].request]
all == open_requests \o closed \o (IF current = None THEN <<>> ELSE <<current>>)
safe == {i \in 1..Len(all) : all[i].name \notin UnsafeNames}

LEMMA AllRequests ==
  ASSUME Shape, NEW n, n = Len(open_requests), NEW m, m = Len(closed_requests)
  PROVE  /\ n \in Nat /\ m \in Nat
         /\ Len(all) = n + m + (IF current = None THEN 0 ELSE 1)
         /\ \A i \in 1..n : all[i] = open_requests[i]
         /\ \A i \in (n + 1)..(n + m) : all[i] = closed_requests[i - n].request
         /\ current # None => all[n + m + 1] = current
         /\ \A i \in 1..Len(all) : all[i] \in Request
  <1> DEFINE last == IF current = None THEN <<>> ELSE <<current>>
             both == open_requests \o closed
  <1>1. /\ open_requests \in Seq(Request) /\ n \in Nat /\ m \in Nat
        /\ closed_requests \in Seq(ClosedRequest)
    BY LenProperties DEF Shape
  <1>2. closed \in Seq(Request) /\ Len(closed) = m
    <2>1. \A i \in 1..m : closed_requests[i].request \in Request
      <3>1. \A i \in 1..m : closed_requests[i] \in ClosedRequest
        BY <1>1, ElementOfSeq
      <3> QED BY <3>1 DEF ClosedRequest
    <2> QED BY <1>1, <2>1 DEF closed
  <1>3. /\ last \in Seq(Request) /\ Len(last) = IF current = None THEN 0 ELSE 1
        /\ current # None => last[1] = current
    BY DEF Shape
  <1>4. /\ both \in Seq(Request) /\ Len(both) = n + m
        /\ \A i \in 1..(n + m) : both[i] = IF i <= n THEN open_requests[i] ELSE closed[i - n]
    <2>1. /\ both \in Seq(Request) /\ Len(both) = n + Len(closed)
          /\ \A i \in 1..(n + Len(closed)) :
               both[i] = IF i <= n THEN open_requests[i] ELSE closed[i - n]
      BY <1>1, <1>2, ConcatProperties
    <2> QED BY <1>2, <2>1
  <1> HIDE DEF both, last
  <1>5. /\ all \in Seq(Request) /\ Len(all) = n + m + Len(last)
        /\ \A i \in 1..(n + m + Len(last)) :
             all[i] = IF i <= n + m THEN both[i] ELSE last[i - (n + m)]
    <2>1. all = both \o last
      BY DEF both, last, all
    <2>2. \A i \in 1..(Len(both) + Len(last)) :
             (both \o last)[i] = IF i <= Len(both) THEN both[i] ELSE last[i - Len(both)]
      BY <1>3, <1>4, ConcatProperties
    <2>3. both \o last \in Seq(Request) /\ Len(both \o last) = Len(both) + Len(last)
      BY <1>3, <1>4, ConcatProperties
    <2> QED BY <1>4, <2>1, <2>2, <2>3
  <1>6. Len(last) \in Nat
    BY <1>3
  <1>7. \A i \in 1..n : all[i] = open_requests[i]
    BY <1>1, <1>4, <1>5, <1>6
  <1>8. \A i \in (n + 1)..(n + m) : all[i] = closed_requests[i - n].request
    <2> SUFFICES ASSUME NEW i \in (n + 1)..(n + m) PROVE all[i] = closed_requests[i - n].request
      OBVIOUS
    <2>1. i \in 1..(n + m) /\ i \in 1..(n + m + Len(last)) /\ ~(i <= n) /\ i - n \in 1..m
      BY <1>1, <1>6
    <2>2. both[i] = closed[i - n] /\ all[i] = both[i]
      BY <1>4, <1>5, <2>1
    <2> QED BY <2>1, <2>2 DEF closed
  <1>9. current # None => all[n + m + 1] = current
    BY SMTT(30), <1>1, <1>3, <1>5
  <1>10. \A i \in 1..Len(all) : all[i] \in Request
    BY <1>5, ElementOfSeq
  <1> QED BY <1>1, <1>3, <1>5, <1>7, <1>8, <1>9, <1>10

\* The keys of the safe positions of the one list are those of the three.
LEMMA NamesMatch == ThreadInv => NamesMatchRequests
  <1> SUFFICES ASSUME ThreadInv, mpc \notin {"exit_wait", "exited"}
               PROVE  /\ request_names = {Key(all[i]) : i \in safe}
                      /\ \A i, j \in safe : Key(all[i]) = Key(all[j]) => i = j
    BY DEF NamesMatchRequests, safe, all, closed
  <1> DEFINE n == Len(open_requests)
             m == Len(closed_requests)
  <1>1. /\ n \in Nat /\ m \in Nat
        /\ Len(all) = n + m + (IF current = None THEN 0 ELSE 1)
        /\ \A i \in 1..n : all[i] = open_requests[i]
        /\ \A i \in (n + 1)..(n + m) : all[i] = closed_requests[i - n].request
        /\ current # None => all[n + m + 1] = current
    BY AllRequests DEF ThreadInv
  <1>2. /\ request_names = OpenKeys \cup ClosedKeys \cup CurrentKeys /\ Once
        /\ \A r \in Requests(open_requests) \cup Working : r.name \notin UnsafeNames
    BY DEF ThreadInv, Lists
  <1>3. \A i \in 1..n : i \in safe /\ Key(all[i]) = Key(open_requests[i])
    <2>1. \A i \in 1..n : i \in 1..Len(all) /\ all[i] = open_requests[i]
      BY <1>1
    <2>2. \A i \in 1..n : open_requests[i] \in Requests(open_requests)
      BY DEF Requests
    <2> QED BY <1>2, <2>1, <2>2 DEF safe
  <1>4. \A i \in (n + 1)..(n + m) :
           /\ i - n \in 1..m
           /\ i \in safe <=> i - n \in ClosedSafe
           /\ Key(all[i]) = Key(closed_requests[i - n].request)
    <2> SUFFICES ASSUME NEW i \in (n + 1)..(n + m)
                 PROVE  /\ i - n \in 1..m
                        /\ i \in safe <=> i - n \in ClosedSafe
                        /\ Key(all[i]) = Key(closed_requests[i - n].request)
      OBVIOUS
    <2>1. i \in 1..Len(all) /\ i - n \in 1..m /\ all[i] = closed_requests[i - n].request
      BY <1>1
    <2> QED BY <2>1 DEF ClosedSafe, safe
  <1>5. current # None => n + m + 1 \in safe /\ Key(all[n + m + 1]) = Key(current)
                            /\ CurrentKeys = {Key(current)}
    <2>1. current # None => n + m + 1 \in 1..Len(all) /\ all[n + m + 1] = current
      BY <1>1
    <2>2. current # None => Working = {current}
      BY DEF Working
    <2> QED BY <1>2, <2>1, <2>2 DEF CurrentKeys, safe
  <1>6. current = None => CurrentKeys = {}
    BY DEF CurrentKeys, Working
  <1>7. \A i \in safe : \/ i \in 1..n
                        \/ i \in (n + 1)..(n + m)
                        \/ i = n + m + 1 /\ current # None
    BY <1>1 DEF safe
  <1>8. /\ \A i \in 1..n : Key(open_requests[i]) \in OpenKeys
        /\ \A i \in ClosedSafe : Key(closed_requests[i].request) \in ClosedKeys
    BY DEF OpenKeys, ClosedKeys
  <1>9. request_names = {Key(all[i]) : i \in safe}
    <2>1. ASSUME NEW k \in request_names PROVE \E i \in safe : k = Key(all[i])
      <3>1. CASE k \in OpenKeys
        BY <1>3, <3>1 DEF OpenKeys
      <3>2. CASE k \in ClosedKeys
        <4>1. PICK j \in ClosedSafe : k = Key(closed_requests[j].request)
          BY <3>2 DEF ClosedKeys
        <4>2. j \in 1..m
          BY DEF ClosedSafe
        <4>3. j + n \in (n + 1)..(n + m) /\ (j + n) - n = j
          BY <1>1, <4>2
        <4> QED BY <1>4, <4>1, <4>3
      <3>3. CASE k \in CurrentKeys
        BY <1>5, <1>6, <3>3
      <3> QED BY <1>2, <3>1, <3>2, <3>3
    <2>2. ASSUME NEW i \in safe PROVE Key(all[i]) \in request_names
      BY <1>2, <1>3, <1>4, <1>5, <1>7, <1>8
    <2> QED BY <2>1, <2>2
  <1>10. ASSUME NEW i \in safe, NEW j \in safe, Key(all[i]) = Key(all[j]) PROVE i = j
    <2>1. ASSUME NEW k \in safe
          PROVE  \/ k \in 1..n /\ Key(all[k]) \in OpenKeys
                 \/ k \in (n + 1)..(n + m) /\ Key(all[k]) \in ClosedKeys
                 \/ k = n + m + 1 /\ Key(all[k]) \in CurrentKeys
      BY <1>3, <1>4, <1>5, <1>7, <1>8
    <2>2. \/ i \in 1..n /\ j \in 1..n
          \/ i \in (n + 1)..(n + m) /\ j \in (n + 1)..(n + m)
          \/ i = n + m + 1 /\ j = n + m + 1
      BY <1>2, <1>10, <2>1 DEF Once
    <2>3. CASE i \in 1..n /\ j \in 1..n
      BY <1>2, <1>3, <1>10, <2>3 DEF Once, OpenOnce
    <2>4. CASE i \in (n + 1)..(n + m) /\ j \in (n + 1)..(n + m)
      <3>1. i - n = j - n
        BY <1>2, <1>4, <1>10, <2>4 DEF Once, ClosedOnce
      <3> QED BY <1>1, <2>4, <3>1
    <2> QED BY <2>2, <2>3, <2>4
  <1> QED BY <1>9, <1>10

\* The list of names is exactly the requests that the thread still owes, each
\* once, through every interleaving of the worker with abort and done.
THEOREM NamesMatchRequestsAlways == Spec => []NamesMatchRequests
  <1> QED BY NamesMatch, ThreadAlways, PTL

-----------------------------------------------------------------------------
(* The thumbnails of choice fields: when they can be trusted.                *)

\* The scripts' results do not change while a request for them is in progress
\* nor twice in a tick of the clock, editors stay until they are answered, all
\* images can be made, and by the worker.
Calm == /\ ~ChangeWhilePending /\ ~CloseWhilePending /\ ~FastChanges
        /\ UnsafeNames = {} /\ FailingNames = {}

-----------------------------------------------------------------------------
(* What is true of the thumbnails besides ThreadInv.                         *)

ChoiceShape ==
  /\ scripted \in [Names -> Nat \ {Failed}]
  /\ status \in [Names -> {"not made", "ok", "changed"}]
  /\ accepted \in [Names -> Nat]
  /\ clock # 0
  /\ mpc \in {"idle", "start"}

\* While a request is in progress, whatever is made for it is what the script
\* gives now.
Current ==
  /\ \A n \in Names : content[n] <= scripted[n]
  /\ \A n \in Names : Pending(n) => content[n] = scripted[n]
  /\ \A c \in Requests(closed_requests) : c.image = scripted[c.request.name]
  /\ wpc \in {"save", "close"} => img = scripted[current.name]

\* A file can be newer than its time, and never older.
Times ==
  /\ \A r \in Requests(open_requests) \cup Working : r.modified <= clock
  /\ \A n \in Names : cache[n].time <= clock

\* A file good enough for the next request shows what the script gives now, or
\* it is one of an earlier session and nothing was made yet.
Files ==
  \A n \in Names : cache[n].image # Failed =>
    /\ cache[n].time = clock => cache[n].image = scripted[n]
    /\ status[n] = "not made" =>
         (cache[n].image = scripted[n] /\ Pending(n)) \/ cache[n].image \in EarlierImages

Shown ==
  \A n \in Names :
    /\ status[n] = "ok" => content[n] = scripted[n]
    /\ status[n] # "not made" /\ content[n] = scripted[n] /\ ~Pending(n) =>
         stored[n] = scripted[n] \/ FromEarlierSession(n)

Trusted == ChoiceShape /\ Current /\ Times /\ Files /\ Shown

-----------------------------------------------------------------------------
(* Every step keeps it.                                                      *)

\* A request on one of the lists is in progress.
LEMMA RequestsPending ==
  ASSUME ThreadInv, Trusted, UnsafeNames = {}
  PROVE  \A r \in Requests(open_requests) \cup ClosedRequests \cup Working :
           r \in Request /\ <<r.owner, r.name>> \in request_names /\ Pending(r.name)
  <1>1. request_names = OpenKeys \cup ClosedKeys \cup CurrentKeys
    BY DEF ThreadInv, Lists, Trusted, ChoiceShape
  <1>2. \A r \in Requests(open_requests) : r \in Request /\ Key(r) \in OpenKeys
    <2>1. \A i \in 1..Len(open_requests) : open_requests[i] \in Request
      BY ElementOfSeq DEF ThreadInv, Shape
    <2> QED BY <2>1 DEF Requests, OpenKeys
  <1>3. \A r \in ClosedRequests : r \in Request /\ Key(r) \in ClosedKeys
    <2>1. \A i \in 1..Len(closed_requests) : closed_requests[i] \in ClosedRequest
      BY ElementOfSeq DEF ThreadInv, Shape
    <2> QED BY <2>1 DEF Requests, ClosedRequests, ClosedRequest, ClosedKeys, ClosedSafe
  <1>4. \A r \in Working : r \in Request /\ Key(r) \in CurrentKeys
    BY DEF Working, CurrentKeys, ThreadInv, Shape
  <1>5. \A r \in Requests(open_requests) \cup ClosedRequests \cup Working :
           r \in Request /\ Key(r) \in request_names
    BY <1>1, <1>2, <1>3, <1>4
  <1> QED BY <1>5 DEF Key, Request, Pending

\* Steps that make nothing and show nothing.
LEMMA NothingShown ==
  ASSUME Trusted,
         UNCHANGED <<scripted, status, accepted, content, clock, cache, stored, request_names>>,
         mpc' \in {"idle", "start"},
         Requests(closed_requests)' \subseteq Requests(closed_requests),
         Requests(open_requests)' \cup Working' \subseteq Requests(open_requests) \cup Working,
         wpc' \in {"save", "close"} => img' = scripted[current'.name]
  PROVE  Trusted'
  <1>1. \A n \in Names : Pending(n)' <=> Pending(n)
    BY DEF Pending
  <1> QED BY <1>1 DEF Trusted, ChoiceShape, Current, Times, Files, Shown, FromEarlierSession

LEMMA WorkerWorks ==
  ASSUME ThreadInv, Trusted, Calm, Worker, UNCHANGED <<scripted, status, accepted>>
  PROVE  Trusted'
  <1>1. UNCHANGED <<content, clock, request_names, stored, mpc>>
    BY DEF Worker, leaveStopLoop, takeRequest, generate, saveFile, closeRequest, world, mainVars
  <1>2. mpc \in {"idle", "start"} /\ \A n \in Names : Pending(n)' <=> Pending(n)
    BY <1>1 DEF Trusted, ChoiceShape, Pending
  <1>3. CASE leaveStopLoop
    <2>1. UNCHANGED <<cache, open_requests, closed_requests, current>> /\ wpc' = "take"
      BY <1>3 DEF leaveStopLoop
    <2>2. UNCHANGED <<Requests(open_requests), Requests(closed_requests), Working>>
      BY <2>1 DEF Requests, Working
    <2> QED BY <1>1, <1>2, <2>1, <2>2, NothingShown
  <1>4. CASE takeRequest
    <2>1. /\ UNCHANGED <<cache, closed_requests>> /\ wpc' \in {"ended", "generate"}
          /\ current = None
      BY <1>4 DEF takeRequest, ThreadInv, Control
    <2>2. Requests(open_requests)' \cup Working' \subseteq Requests(open_requests) \cup Working
      <3>1. CASE open_requests = <<>>
        BY <1>4, <3>1 DEF takeRequest, Requests, Working
      <3>2. CASE open_requests # <<>>
        <4>1. open_requests' = Tail(open_requests) /\ current' = Head(open_requests)
          BY <1>4, <3>2 DEF takeRequest
        <4>2. Requests(open_requests) = Requests(open_requests)' \cup {Head(open_requests)}
          BY <3>2, <4>1, OpenTail DEF ThreadInv
        <4>3. Working' \subseteq {Head(open_requests)}
          BY <4>1 DEF Working
        <4> QED BY <4>2, <4>3
      <3> QED BY <3>1, <3>2
    <2>3. UNCHANGED Requests(closed_requests)
      BY <2>1 DEF Requests
    <2> QED BY <1>1, <1>2, <2>1, <2>2, <2>3, NothingShown
  <1> DEFINE n == current.name
  <1>5. ASSUME generate \/ saveFile \/ closeRequest
        PROVE  /\ current # None /\ Working = {current} /\ current \in Request
               /\ n \in Names /\ Pending(n) /\ content[n] = scripted[n]
               /\ scripted[n] \in Nat \ {Failed}
    <2>1. current # None
      BY <1>5 DEF generate, saveFile, closeRequest, ThreadInv, Control
    <2>2. Working = {current} /\ current \in Request /\ n \in Names
      BY <2>1, CurrentFacts DEF ThreadInv
    <2>3. Pending(n)
      BY <2>2, RequestsPending DEF Calm
    <2> QED BY <2>1, <2>2, <2>3 DEF Trusted, Current, ChoiceShape
  <1>6. CASE generate
    <2>1. UNCHANGED <<cache, open_requests, closed_requests, current>>
          /\ img' \in Generated(n, content[n])
      BY <1>6 DEF generate
    <2>2. img' = scripted[n]
      BY <1>5, <1>6, <2>1 DEF Generated, Calm
    <2>3. UNCHANGED <<Requests(open_requests), Requests(closed_requests), Working>>
      BY <2>1 DEF Requests, Working
    <2> QED BY <1>1, <1>2, <2>1, <2>2, <2>3, NothingShown
  <1>7. CASE saveFile
    <2>1. /\ UNCHANGED <<open_requests, closed_requests, current, img>>
          /\ cache' = Saved(current, img) /\ wpc' = "close" /\ wpc = "save"
      BY <1>7 DEF saveFile
    <2>2. img = scripted[n] /\ img # Failed
      BY <1>5, <1>7, <2>1 DEF Trusted, Current
    <2>3. cache' = [cache EXCEPT ![n] = [time |-> current.modified, image |-> scripted[n]]]
      BY <2>1, <2>2 DEF Saved
    <2>4. UNCHANGED <<Requests(open_requests), Requests(closed_requests), Working>>
      BY <2>1 DEF Requests, Working
    <2>5. cache \in [Names -> [time : Nat, image : Nat]]
      BY DEF ThreadInv, Shape
    <2>6. current.modified <= clock
      BY <1>5, <1>7 DEF Trusted, Times
    <2>7. ChoiceShape' /\ Current' /\ Shown'
      BY <1>1, <1>2, <2>1, <2>2, <2>4
         DEF Trusted, ChoiceShape, Current, Shown, FromEarlierSession
    <2>8. Times'
      BY <1>1, <1>5, <1>7, <2>3, <2>4, <2>5, <2>6 DEF Trusted, Times
    <2>9. Files'
      BY <1>1, <1>2, <1>5, <1>7, <2>3, <2>5 DEF Trusted, Files
    <2> QED BY <2>7, <2>8, <2>9 DEF Trusted
  <1>8. CASE closeRequest
    <2>1. /\ UNCHANGED <<cache, open_requests>> /\ current' = None /\ wpc' = "loop" /\ wpc = "close"
          /\ closed_requests' = Append(closed_requests, Result)
      BY <1>8 DEF closeRequest
    <2>2. Result \in ClosedRequest /\ Result.request = current /\ Result.image = img
      BY <1>5, <1>8 DEF Result, ClosedRequest, ThreadInv, Shape
    <2>3. img = scripted[n]
      BY <2>1 DEF Trusted, Current
    <2>4. Requests(closed_requests)' = Requests(closed_requests) \cup {Result}
      BY <2>1, <2>2, ClosedAppend DEF ThreadInv
    <2>5. UNCHANGED Requests(open_requests) /\ Working' = {}
      BY <2>1 DEF Requests, Working
    <2>6. ChoiceShape' /\ Times' /\ Files' /\ Shown'
      BY <1>1, <1>2, <2>1, <2>5
         DEF Trusted, ChoiceShape, Times, Files, Shown, FromEarlierSession
    <2>7. Current'
      BY <1>1, <1>2, <2>1, <2>2, <2>3, <2>4 DEF Trusted, Current
    <2> QED BY <2>6, <2>7 DEF Trusted
  <1> QED BY <1>3, <1>4, <1>6, <1>7, <1>8 DEF Worker

\* The result of a script changes: not while a request is in progress, and
\* time goes on, so no file is from now.
LEMMA ScriptChanges ==
  ASSUME ThreadInv, Trusted, Calm, NEW n \in Names, scriptChanges(n)
  PROVE  ThreadInv' /\ Trusted'
  <1>1. /\ UNCHANGED <<alive, content, cache, open_requests, closed_requests, request_names,
                       worker, stop, workerVars, mainVars, stored, accepted>>
        /\ ~Pending(n)
        /\ scripted' = [scripted EXCEPT ![n] = @ + 1]
        /\ status' = [status EXCEPT ![n] = IF @ = "ok" THEN "changed" ELSE @]
    BY DEF scriptChanges, Invalidated, Calm
  <1>2. /\ UNCHANGED <<current, wpc, img, mpc>>
        /\ UNCHANGED <<Requests(open_requests), Requests(closed_requests), Working>>
    BY <1>1 DEF workerVars, mainVars, Requests, Working
  <1>3. \A k \in Names : Pending(k)' <=> Pending(k)
    BY <1>1 DEF Pending
  <1>4. clock \in Nat /\ clock' = clock + 1
    BY DEF scriptChanges, Calm, ThreadInv, Shape
  <1>5. ThreadInv'
    BY <1>1, <1>4, ThreadWaits
  <1>6. \A k \in Names : /\ content[k] \in Nat /\ scripted[k] \in Nat \ {Failed}
                         /\ cache[k].time \in Nat /\ stored[k] \in Nat
    BY DEF ThreadInv, Trusted, Shape, ChoiceShape
  <1>7. scripted \in [Names -> Nat \ {Failed}]
    BY DEF Trusted, ChoiceShape
  <1>8. /\ \A k \in Names \ {n} : scripted'[k] = scripted[k]
        /\ scripted'[n] = scripted[n] + 1
    BY <1>1, <1>7
  <1>9. /\ scripted[n] \in Nat /\ content[n] \in Nat /\ content[n] <= scripted[n]
        /\ content'[n] = content[n]
    BY <1>1, <1>6 DEF Trusted, Current
  <1>10. /\ scripted'[n] \in Nat /\ scripted'[n] # 0
         /\ content'[n] <= scripted'[n] /\ content'[n] # scripted'[n]
    BY <1>8, <1>9
  <1>11. status \in [Names -> {"not made", "ok", "changed"}]
    BY DEF Trusted, ChoiceShape
  <1>12. /\ \A k \in Names \ {n} : status'[k] = status[k]
         /\ status'[n] = IF status[n] = "ok" THEN "changed" ELSE status[n]
         /\ status' \in [Names -> {"not made", "ok", "changed"}]
    BY <1>1, <1>11
  <1>13. ChoiceShape'
    <2>1. \A k \in Names : scripted'[k] \in Nat \ {Failed}
      BY <1>6, <1>8, <1>10 DEF Failed
    <2>2. scripted' \in [Names -> Nat \ {Failed}]
      BY <1>1, <1>7, <2>1
    <2>3. clock # 0 /\ mpc \in {"idle", "start"} /\ accepted \in [Names -> Nat]
      BY DEF Trusted, ChoiceShape
    <2>4. clock' # 0
      BY <1>4
    <2> QED BY <1>1, <1>2, <1>12, <2>2, <2>3, <2>4 DEF ChoiceShape
  <1>14. Current'
    <2>1. \A k \in Names : content'[k] <= scripted'[k]
      <3>1. \A k \in Names : content[k] <= scripted[k] /\ content[k] \in Nat /\ scripted[k] \in Nat
        BY <1>6 DEF Trusted, Current
      <3>2. content' = content
        BY <1>1
      <3> QED BY <1>8, <1>10, <3>1, <3>2
    <2>2. \A r \in ClosedRequests \cup Working : r.name # n /\ r.name \in Names
      <3>1. \A r \in ClosedRequests \cup Working : r \in Request /\ Pending(r.name)
        BY RequestsPending DEF Calm
      <3> QED BY <1>1, <3>1 DEF Request
    <2>3. \A c \in Requests(closed_requests) : scripted'[c.request.name] = scripted[c.request.name]
      BY <1>8, <2>2 DEF ClosedRequests
    <2>4. wpc \in {"save", "close"} => scripted'[current.name] = scripted[current.name]
      BY <1>8, <2>2 DEF Working, ThreadInv, Control
    <2> QED BY <1>1, <1>2, <1>3, <1>8, <2>1, <2>3, <2>4 DEF Trusted, Current
  <1>15. Times'
    <2>1. \A r \in Requests(open_requests) \cup Working : r.modified <= clock /\ r.modified \in Nat
      <3>1. \A r \in Requests(open_requests) \cup Working : r \in Request
        BY RequestsPending DEF Calm
      <3> QED BY <3>1 DEF Trusted, Times, Request
    <2>2. \A r \in Requests(open_requests) \cup Working : r.modified <= clock' /\ r.modified \in Nat
      BY <1>4, <2>1
    <2>3. \A k \in Names : cache[k].time <= clock /\ cache[k].time \in Nat
      BY <1>6 DEF Trusted, Times
    <2>4. \A k \in Names : cache[k].time <= clock'
      BY <1>4, <2>3
    <2> QED BY <1>1, <1>2, <2>2, <2>4 DEF Times
  <1>16. Files'
    <2>1. \A k \in Names : cache[k].time <= clock /\ cache[k].time \in Nat
      BY <1>6 DEF Trusted, Times
    <2>2. \A k \in Names : cache[k].time # clock'
      BY <1>4, <2>1
    <2> QED BY <1>1, <1>3, <1>8, <1>12, <2>2 DEF Trusted, Files
  <1>17. Shown'
    <2> QED BY <1>1, <1>3, <1>8, <1>12, <1>10 DEF Trusted, Shown, FromEarlierSession
  <1> QED BY <1>5, <1>13, <1>14, <1>15, <1>16, <1>17 DEF Trusted

LEMMA ShownUpToDate ==
  ASSUME ThreadInv, Trusted, NEW o \in Owners, NEW n \in Names, showUpToDate(o, n)
  PROVE  ThreadInv' /\ Trusted'
  <1>1. /\ UNCHANGED vars /\ UNCHANGED <<scripted, accepted>>
        /\ status' = [status EXCEPT ![n] = "ok"]
        /\ status[n] = "changed" /\ scripted[n] = content[n]
    BY DEF showUpToDate, NeedNotRebuild, UpdateChanges
  <1>2. ThreadInv'
    BY <1>1, ThreadStutters
  <1>3. /\ UNCHANGED <<content, clock, cache, stored, request_names, mpc, wpc, img, current>>
        /\ UNCHANGED <<Requests(open_requests), Requests(closed_requests), Working>>
        /\ \A k \in Names : Pending(k)' <=> Pending(k)
    BY <1>1 DEF vars, world, workerVars, mainVars, Requests, Working, Pending
  <1>4. ChoiceShape' /\ Current' /\ Times'
    BY <1>1, <1>3 DEF Trusted, ChoiceShape, Current, Times
  <1>5. Files' /\ Shown'
    BY <1>1, <1>3 DEF Trusted, ChoiceShape, Files, Shown, FromEarlierSession
  <1> QED BY <1>2, <1>4, <1>5 DEF Trusted

\* The editor asks for an image, in each of the ways that can go.
LEMMA ShowRequested ==
  ASSUME ThreadInv, Trusted, Calm, NEW o \in Owners, NEW n \in Names, showRequest(o, n)
  PROVE  ThreadInv' /\ Trusted'
  <1> DEFINE m == RequestTime(n)
             r == [owner |-> o, name |-> n, modified |-> m]
  <1>1. /\ content' = [content EXCEPT ![n] = scripted[n]]
        /\ requestVersion(o, n, m, scripted[n])
        /\ UNCHANGED <<alive, clock, scripted>>
        /\ IF <<o, n>> \notin request_names /\ CacheHit(n, m)
           THEN /\ status' = [status EXCEPT ![n] = "ok"]
                /\ accepted' = IF FromDisk(n) THEN [accepted EXCEPT ![n] = scripted[n]] ELSE accepted
           ELSE UNCHANGED <<status, accepted>>
    BY DEF showRequest
  <1>2. /\ clock \in Nat /\ content \in [Names -> Nat] /\ stored \in [Names -> Nat]
        /\ \A k \in Names : cache[k].time \in Nat
        /\ scripted \in [Names -> Nat \ {Failed}]
        /\ status \in [Names -> {"not made", "ok", "changed"}]
        /\ accepted \in [Names -> Nat]
        /\ clock # 0
    BY DEF ThreadInv, Trusted, Shape, ChoiceShape
  <1>3. m \in Nat /\ m <= clock /\ (m = clock \/ FromDisk(n)) /\ r \in Request
        /\ Key(r) = <<o, n>>
    <2>1. (m = 0 /\ FromDisk(n)) \/ m = clock
      BY DEF RequestTime
    <2>2. m \in Nat /\ m <= clock
      <3>1. clock \in Nat /\ (m = 0 \/ m = clock)
        BY <1>2, <2>1
      <3> QED BY <3>1
    <2> QED BY <2>1, <2>2 DEF Request, Key
  <1>4. scripted[n] \in Nat /\ content' \in [Names -> Nat]
    BY <1>1, <1>2
  <1>5. ThreadInv'
    BY <1>1, <1>3, <1>4, Requesting
  <1>6. /\ UNCHANGED <<worker, stop, current, wpc, img, aborting, mutex, signalled>>
        /\ mpc = "idle"
        /\ UNCHANGED Working
    BY <1>1 DEF requestVersion, workerVars, Working
  <1>7. content'[n] = scripted[n] /\ \A k \in Names \ {n} : content'[k] = content[k]
    BY <1>1, <1>2
  <1>8. \A k \in Names : content'[k] <= scripted[k]
    <2>1. \A k \in Names : content[k] <= scripted[k]
      BY DEF Trusted, Current
    <2>2. scripted[n] <= scripted[n]
      BY <1>4
    <2> QED BY <1>7, <2>1, <2>2
  <1> HIDE DEF m, r
  <1>9. CASE Key(r) \in request_names
    <2>1. /\ UNCHANGED <<cache, open_requests, closed_requests, request_names, mpc, stored, status,
                         accepted>>
          /\ Pending(n) /\ content[n] = scripted[n]
      BY <1>1, <1>3, <1>9 DEF requestVersion, Pending, Trusted, Current, r
    <2>2. content' = content
      BY <1>1, <1>2, <2>1
    <2>3. UNCHANGED <<Requests(open_requests), Requests(closed_requests)>>
      BY <2>1 DEF Requests
    <2> QED BY <1>1, <1>5, <1>6, <2>1, <2>2, <2>3, NothingShown DEF Trusted, ChoiceShape, Current
  <1>10. CASE Key(r) \notin request_names /\ CacheHit(n, m)
    <2>1. /\ UNCHANGED <<cache, open_requests, closed_requests, request_names, mpc>>
          /\ stored' = [stored EXCEPT ![n] = cache[n].image]
          /\ status' = [status EXCEPT ![n] = "ok"]
      BY <1>1, <1>3, <1>10 DEF requestVersion, r
    <2>2. UNCHANGED <<Requests(open_requests), Requests(closed_requests)>>
          /\ \A k \in Names : Pending(k)' <=> Pending(k)
      BY <2>1 DEF Requests, Pending
    <2>3. cache[n].image = scripted[n] \/ (cache[n].image \in EarlierImages /\ FromDisk(n))
      <3>1. cache[n].image # Failed /\ cache[n].time >= m /\ cache[n].time <= clock
        BY <1>10 DEF CacheHit, Trusted, Times
      <3>2. cache[n].time = clock \/ FromDisk(n)
        <4>1. clock \in Nat /\ m \in Nat /\ cache[n].time \in Nat
          BY <1>2, <1>3
        <4>2. m = clock => cache[n].time = clock
          BY <3>1, <4>1
        <4> QED BY <1>3, <4>2
      <3> QED BY <3>1, <3>2 DEF Trusted, Files, FromDisk
    <2>4. /\ stored'[n] = cache[n].image
          /\ \A k \in Names \ {n} : stored'[k] = stored[k] /\ accepted'[k] = accepted[k]
          /\ FromDisk(n) => accepted'[n] = scripted[n] /\ scripted[n] \notin LocalVersions
          /\ accepted' \in [Names -> Nat]
      <3>1. accepted' = IF FromDisk(n) THEN [accepted EXCEPT ![n] = scripted[n]] ELSE accepted
        BY <1>1, <1>3, <1>10
      <3> QED BY <1>2, <1>4, <2>1, <3>1 DEF FromDisk
    <2>5. /\ status'[n] = "ok" /\ \A k \in Names \ {n} : status'[k] = status[k]
          /\ status' \in [Names -> {"not made", "ok", "changed"}]
      BY <1>2, <2>1
    <2>6. ChoiceShape' /\ Times'
      BY <1>1, <1>6, <2>1, <2>2, <2>4, <2>5 DEF Trusted, ChoiceShape, Times
    <2>7. Current'
      BY <1>1, <1>6, <1>7, <1>8, <2>1, <2>2 DEF Trusted, Current
    <2>8. Files'
      BY <1>1, <2>1, <2>2, <2>5 DEF Trusted, Files
    <2>9. Shown'
      <3>1. stored'[n] = scripted'[n] \/ FromEarlierSession(n)'
        BY <1>1, <2>3, <2>4 DEF FromEarlierSession
      <3>2. \A k \in Names \ {n} : FromEarlierSession(k)' <=> FromEarlierSession(k)
        BY <1>1, <2>4 DEF FromEarlierSession
      <3> QED BY <1>1, <1>7, <2>2, <2>4, <2>5, <3>1, <3>2 DEF Trusted, Shown
    <2> QED BY <1>5, <2>6, <2>7, <2>8, <2>9 DEF Trusted
  <1>11. CASE Key(r) \notin request_names /\ ~CacheHit(n, m)
    <2>1. /\ request_names' = request_names \cup {<<o, n>>}
          /\ open_requests' = Append(open_requests, r)
          /\ mpc' = "start"
          /\ UNCHANGED <<cache, closed_requests, stored, status, accepted>>
      BY <1>1, <1>3, <1>11 DEF requestVersion, r, Calm
    <2>2. Requests(open_requests)' = Requests(open_requests) \cup {r} /\ r.modified = m
      BY <1>3, <2>1, OpenAppend DEF ThreadInv, r
    <2>3. UNCHANGED Requests(closed_requests)
      BY <2>1 DEF Requests
    <2>4. Pending(n)' /\ \A k \in Names : k # n => (Pending(k)' <=> Pending(k))
      BY <2>1 DEF Pending
    <2>5. ChoiceShape'
      BY <1>1, <2>1 DEF Trusted, ChoiceShape
    <2>6. Current'
      <3>1. \A k \in Names : Pending(k)' => content'[k] = scripted[k]
        BY <1>7, <2>4 DEF Trusted, Current
      <3> QED BY <1>1, <1>6, <1>8, <2>3, <3>1 DEF Trusted, Current
    <2>7. Times'
      BY <1>1, <1>3, <1>6, <2>1, <2>2 DEF Trusted, Times
    <2>8. Files'
      BY <1>1, <2>1, <2>4 DEF Trusted, Files
    <2>9. Shown'
      BY <1>1, <1>7, <2>1, <2>4 DEF Trusted, Shown, FromEarlierSession
    <2> QED BY <1>5, <2>5, <2>6, <2>7, <2>8, <2>9 DEF Trusted
  <1> QED BY <1>9, <1>10, <1>11

\* done stores what was made for the names it takes off the list, and it was
\* made from what the script gives now.
LEMMA StoredDone ==
  ASSUME ThreadInv, Trusted, Calm, NEW o \in Owners, storeDone(o)
  PROVE  ThreadInv' /\ Trusted'
  <1> DEFINE none(n) == Images(n, Finished(o)) = <<>>
  <1>1. /\ done(o) /\ UNCHANGED <<scripted, accepted>>
        /\ status' = [n \in Names |-> IF none(n) THEN status[n] ELSE "ok"]
    BY DEF storeDone
  <1>2. /\ UNCHANGED <<content, clock, cache, open_requests, wpc, img, current, mpc>>
        /\ closed_requests' = ClosedOfOthers(o)
        /\ request_names' = request_names \ FinishedNames(o)
        /\ stored' = [n \in Names |-> IF none(n) THEN stored[n]
                                      ELSE Newest(Images(n, Finished(o))).image]
    BY <1>1 DEF done, world, workerVars, mainVars
  <1>3. ThreadInv'
    BY <1>1, Storing
  <1>4. /\ Requests(closed_requests)' \subseteq Requests(closed_requests)
        /\ UNCHANGED <<Requests(open_requests), Working>>
    BY ZenonT(40), <1>2, ClosedErase DEF ThreadInv, Requests, Working
  <1>5. \A n \in Names : Pending(n)' => Pending(n)
    BY <1>2 DEF Pending
  <1>6. \A i \in Closed(o) :
          /\ closed_requests[i] \in Requests(closed_requests)
          /\ closed_requests[i].request \in ClosedRequests
          /\ closed_requests[i].request.name \in Names
          /\ closed_requests[i].image = scripted[closed_requests[i].request.name]
          /\ closed_requests[i].image # Failed
    <2> SUFFICES ASSUME NEW i \in Closed(o)
                 PROVE  /\ closed_requests[i] \in Requests(closed_requests)
                        /\ closed_requests[i].request \in ClosedRequests
                        /\ closed_requests[i].request.name \in Names
                        /\ closed_requests[i].image = scripted[closed_requests[i].request.name]
                        /\ closed_requests[i].image # Failed
      OBVIOUS
    <2>1. /\ closed_requests[i] \in Requests(closed_requests)
          /\ closed_requests[i].request \in ClosedRequests
      BY DEF Closed, Requests, ClosedRequests
    <2>2. closed_requests[i].request.name \in Names
      <3>1. closed_requests[i].request \in Request
        BY <2>1, RequestsPending DEF Calm
      <3> QED BY <3>1 DEF Request
    <2>3. closed_requests[i].image = scripted[closed_requests[i].request.name]
      BY <2>1 DEF Trusted, Current
    <2> QED BY <2>1, <2>2, <2>3 DEF Trusted, ChoiceShape
  <1>7. ASSUME NEW n \in Names, none(n)
        PROVE  stored'[n] = stored[n] /\ status'[n] = status[n] /\ (Pending(n)' <=> Pending(n))
    <2>1. \A i \in Closed(o) : closed_requests[i].request.name # n
      BY <1>6, <1>7, SomeImage DEF ThreadInv
    <2>2. \A k \in FinishedNames(o) : k[2] # n
      <3>1. ASSUME NEW k \in FinishedNames(o) PROVE k[2] # n
        <4>1. k \in ClosedKeys /\ k[1] = o
          <5>1. k[1] = o /\ (k \in ClosedKeys \/ k[2] \in UnsafeNames)
            BY FinishedKeys DEF ThreadInv
          <5> QED BY <5>1 DEF Calm
        <4>2. PICK i \in ClosedSafe : k = Key(closed_requests[i].request)
          BY <4>1 DEF ClosedKeys
        <4>3. i \in Closed(o)
          BY <4>1, <4>2 DEF Key, ClosedSafe, Closed
        <4> QED BY <2>1, <4>2, <4>3 DEF Key
      <3> QED BY <3>1
    <2>3. \A q \in Owners : <<q, n>> \notin FinishedNames(o)
      BY <2>2
    <2> QED BY <1>1, <1>2, <1>7, <2>3 DEF Pending
  <1>8. ASSUME NEW n \in Names, ~none(n)
        PROVE  stored'[n] = scripted[n] /\ status'[n] = "ok" /\ content[n] = scripted[n]
    <2>1. PICK i \in Closed(o) :
            /\ closed_requests[i].request.name = n
            /\ Newest(Images(n, Finished(o))).image = closed_requests[i].image
      BY <1>8, NewestImage DEF ThreadInv
    <2>2. Pending(n)
      BY <1>6, <2>1, RequestsPending DEF Calm
    <2> QED BY <1>1, <1>2, <1>6, <1>8, <2>1, <2>2 DEF Trusted, Current
  <1> HIDE DEF none
  <1>9. ChoiceShape'
    <2>1. status \in [Names -> {"not made", "ok", "changed"}]
      BY DEF Trusted, ChoiceShape
    <2>2. status' \in [Names -> {"not made", "ok", "changed"}]
      BY <1>1, <2>1
    <2> QED BY <1>1, <1>2, <2>2 DEF Trusted, ChoiceShape
  <1>10. Current'
    BY <1>1, <1>2, <1>4, <1>5 DEF Trusted, Current
  <1>11. Times'
    BY <1>2, <1>4 DEF Trusted, Times
  <1>12. Files'
    <2>1. \A n \in Names : status'[n] = "not made" => status[n] = "not made" /\ (Pending(n)' <=> Pending(n))
      BY <1>7, <1>8
    <2> QED BY <1>1, <1>2, <2>1 DEF Trusted, Files
  <1>13. Shown'
    <2>1. ASSUME NEW n \in Names
          PROVE  /\ status'[n] = "ok" => content'[n] = scripted'[n]
                 /\ status'[n] # "not made" /\ content'[n] = scripted'[n] /\ ~Pending(n)' =>
                      stored'[n] = scripted'[n] \/ FromEarlierSession(n)'
      <3>1. CASE none(n)
        BY <1>1, <1>2, <1>7, <3>1 DEF Trusted, Shown, FromEarlierSession
      <3>2. CASE ~none(n)
        BY <1>1, <1>2, <1>8, <3>2
      <3> QED BY <3>1, <3>2
    <2> QED BY <2>1 DEF Shown
  <1> QED BY <1>3, <1>9, <1>10, <1>11, <1>12, <1>13 DEF Trusted

\* An editor that closes has no requests, so abort finds nothing and need not
\* wait for the worker.
LEMMA EditorCloses ==
  ASSUME ThreadInv, Trusted, Calm, NEW o \in Owners, closeEditor(o)
  PROVE  ThreadInv' /\ Trusted'
  <1>1. abort(o) /\ UNCHANGED <<scripted, status, accepted>> /\ ~OwnerPending(o)
    BY DEF closeEditor, Calm, styleVars
  <1>2. ThreadInv'
    BY <1>1, Aborting
  <1>3. \A r \in Requests(open_requests) \cup ClosedRequests \cup Working :
           r \in Request /\ <<r.owner, r.name>> \in request_names
    BY RequestsPending DEF Calm
  <1>4. \A r \in Requests(open_requests) \cup ClosedRequests \cup Working : r.owner # o
    BY <1>1, <1>3 DEF OwnerPending, Request
  <1>5. ~InProgress(o)
    BY <1>4 DEF InProgress, Working
  <1>6. /\ UNCHANGED <<content, clock, cache, current, wpc, img, stored, mpc>>
        /\ RemoveRequests(o)
    BY <1>1, <1>5 DEF abort, workerVars
  <1>7. request_names' = request_names
    <2>1. Removed(o) = {}
      BY <1>4 DEF Removed
    <2> QED BY <1>6, <2>1 DEF RemoveRequests
  <1>8. /\ Requests(closed_requests)' \subseteq Requests(closed_requests)
        /\ Requests(open_requests)' \subseteq Requests(open_requests)
        /\ UNCHANGED Working
    BY <1>6, ClosedErase, OpenErase DEF RemoveRequests, ThreadInv, Working
  <1> QED BY <1>1, <1>2, <1>6, <1>7, <1>8, NothingShown DEF Trusted, ChoiceShape, Current

LEMMA MainGoesOn ==
  ASSUME ThreadInv, Trusted, Main \/ (\E o \in Owners : create(o)), UNCHANGED <<scripted, status, accepted>>
  PROVE  ThreadInv' /\ Trusted'
  <1>1. startWorker \/ \E o \in Owners : create(o)
    BY DEF Main, wake, relock, Waiting, Trusted, ChoiceShape
  <1>2. /\ UNCHANGED <<content, clock, cache, open_requests, closed_requests, request_names,
                       current, img, stored>>
        /\ mpc' = "idle"
        /\ wpc' = wpc \/ wpc' = "loop"
    BY <1>1 DEF startWorker, create, world, workerVars, mainVars
  <1>3. UNCHANGED <<Requests(open_requests), Requests(closed_requests), Working>>
    BY <1>2 DEF Requests, Working
  <1>4. ThreadInv'
    BY <1>1, Starting, Creating
  <1>5. Trusted'
    BY <1>2, <1>3, NothingShown DEF Trusted, Current
  <1> QED BY <1>4, <1>5

LEMMA ChoiceStart == ChoiceInit => ThreadInv /\ Trusted
  <1> SUFFICES ASSUME ChoiceInit PROVE ThreadInv /\ Trusted
    OBVIOUS
  <1>1. ThreadInv
    BY ThreadInit DEF ChoiceInit
  <1>2. Requests(open_requests) = {} /\ Requests(closed_requests) = {} /\ Working = {}
    <2>1. open_requests = <<>> /\ closed_requests = <<>> /\ current = None
      BY DEF ChoiceInit, Init
    <2> QED BY <2>1 DEF Requests, Working
  <1>3. /\ content = [n \in Names |-> 1] /\ scripted = content
        /\ cache \in [Names -> [time : {0}, image : {Failed} \cup EarlierImages]]
        /\ status = [n \in Names |-> "not made"] /\ accepted = [n \in Names |-> 0]
        /\ clock = 1 /\ mpc = "idle" /\ wpc = "ended"
    BY DEF ChoiceInit, Init
  <1>4. /\ scripted \in [Names -> Nat \ {0}]
        /\ \A n \in Names : /\ content[n] <= scripted[n] /\ content[n] = scripted[n]
                           /\ cache[n].time <= clock /\ cache[n].time # clock
    <2>1. \A n \in Names : content[n] = 1 /\ scripted[n] = 1
      BY <1>3
    <2>2. \A n \in Names : cache[n].time = 0
      BY <1>3
    <2>3. scripted = [n \in Names |-> 1]
      BY <1>3
    <2>4. \A n \in Names : content[n] <= scripted[n] /\ content[n] = scripted[n]
      BY <2>1
    <2>5. \A n \in Names : cache[n].time <= clock /\ cache[n].time # clock
      <3>1. clock = 1
        BY <1>3
      <3> QED BY <2>2, <3>1
    <2> QED BY <2>3, <2>4, <2>5
  <1>5. /\ status \in [Names -> {"not made", "ok", "changed"}] /\ accepted \in [Names -> Nat]
        /\ \A n \in Names : status[n] = "not made"
    BY <1>3
  <1>6. ChoiceShape /\ Current /\ Times
    <2>1. clock # 0 /\ mpc = "idle" /\ wpc = "ended"
      <3>1. clock = 1
        BY <1>3
      <3>2. clock # 0
        BY <3>1
      <3> QED BY <1>3, <3>2
    <2>2. ChoiceShape
      BY <1>4, <1>5, <2>1 DEF ChoiceShape, Failed
    <2>3. Current
      BY <1>2, <1>4, <2>1 DEF Current
    <2>4. Times
      BY <1>2, <1>4 DEF Times
    <2> QED BY <2>2, <2>3, <2>4
  <1>7. Files /\ Shown
    <2>1. \A n \in Names : cache[n].image = Failed \/ cache[n].image \in EarlierImages
      BY <1>3
    <2> QED BY <1>4, <1>5, <2>1 DEF Files, Shown
  <1> QED BY <1>1, <1>6, <1>7 DEF Trusted

LEMMA ChoiceStep == ThreadInv /\ Trusted /\ Calm /\ [ChoiceNext]_choiceVars => ThreadInv' /\ Trusted'
  <1> SUFFICES ASSUME ThreadInv, Trusted, Calm, [ChoiceNext]_choiceVars PROVE ThreadInv' /\ Trusted'
    OBVIOUS
  <1>1. ASSUME NEW n \in Names, scriptChanges(n) PROVE ThreadInv' /\ Trusted'
    BY <1>1, ScriptChanges
  <1>2. ASSUME NEW o \in Owners, NEW n \in Names, showUpToDate(o, n) \/ showRequest(o, n)
        PROVE  ThreadInv' /\ Trusted'
    BY <1>2, ShownUpToDate, ShowRequested
  <1>3. ASSUME NEW o \in Owners, storeDone(o) \/ closeEditor(o) PROVE ThreadInv' /\ Trusted'
    BY <1>3, StoredDone, EditorCloses
  <1>4. CASE Worker /\ UNCHANGED <<scripted, status, accepted>>
    <2>1. ThreadInv'
      BY <1>4, WorkerOnItsOwn, WorkerTakes, WorkerCloses DEF Worker
    <2> QED BY <1>4, <2>1, WorkerWorks
  <1>5. CASE (Main \/ \E o \in Owners : create(o)) /\ UNCHANGED <<scripted, status, accepted>>
    BY <1>5, MainGoesOn
  <1>6. CASE UNCHANGED choiceVars
    <2>1. UNCHANGED vars /\ UNCHANGED <<scripted, status, accepted>>
      BY <1>6 DEF choiceVars, styleVars
    <2>2. ThreadInv'
      BY <2>1, ThreadStutters
    <2>3. /\ UNCHANGED <<content, clock, cache, stored, request_names, mpc, wpc, img, current>>
          /\ UNCHANGED <<Requests(open_requests), Requests(closed_requests), Working>>
      BY <2>1 DEF vars, world, workerVars, mainVars, Requests, Working
    <2>4. Trusted'
      BY <2>1, <2>3, NothingShown DEF Trusted, ChoiceShape, Current
    <2> QED BY <2>2, <2>4
  <1> QED BY <1>1, <1>2, <1>3, <1>4, <1>5, <1>6 DEF ChoiceNext, styleVars

\* When the scripts' results do not change while requests are in progress, a
\* tick of the clock lies between changes and editors wait for their answers,
\* a thumbnail that is marked ok, and not on its way, shows what the script
\* gives now, whatever files earlier sessions left, but for one case: one of
\* those files was taken when the image was first asked for, the image is none
\* of the set's, and the script has given the same since.  A file this session
\* made is never taken for a newer one.
THEOREM OkMeansUpToDateWhenCalm ==
  ASSUME Calm
  PROVE  ChoiceSpec => []OkMeansUpToDate
  <1>1. ThreadInv /\ Trusted => OkMeansUpToDate
    BY DEF Trusted, Shown, OkMeansUpToDate
  <1>2. ChoiceInit => ThreadInv /\ Trusted
    BY ChoiceStart
  <1>3. ThreadInv /\ Trusted /\ [ChoiceNext]_choiceVars => ThreadInv' /\ Trusted'
    BY ChoiceStep
  <1> QED BY <1>1, <1>2, <1>3, PTL DEF ChoiceSpec
=============================================================================
