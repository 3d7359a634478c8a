---------------------------- MODULE CollectXProofs ----------------------------
(***************************************************************************)
(* Proofs about the X signal collector, for any number of collectors and   *)
(* whatever the searches answer.                                           *)
(***************************************************************************)
EXTENDS CollectX, TLAPS

USE SearchesAssumption

Early == {"begin", "created", "started", "authorize", "call", "read"}
SessionStatus == {"none", "created", "running", "stopped", "failed"}
TaskStatus == {"none", "queued", "succeeded", "failed"}

-----------------------------------------------------------------------------
(* Posts and rows.                                                         *)

LEMMA UrlType == ASSUME NEW p \in Post PROVE PostURL(p) \in Url
<1>1. p.username \in STRING /\ p.id \in Nat
  BY DEF Post
<1>2. (IF p.username = "" THEN "i/web" ELSE p.username) \in STRING \cup {"i/web"}
  BY <1>1
<1> QED
  BY <1>1, <1>2 DEF PostURL, Url

\* normalizePosts keeps the number and the URLs of the posts.
LEMMA NormalizeKeepsUrls ==
  ASSUME NEW s \in Seq(Post)
  PROVE  /\ NormalizePosts(s) \in Seq(Signal)
         /\ DOMAIN NormalizePosts(s) = DOMAIN s
         /\ \A i \in DOMAIN s : NormalizePosts(s)[i].url = PostURL(s[i])
<1>1. \A i \in DOMAIN s : s[i] \in Post
  OBVIOUS
<1>2. ASSUME NEW p \in Post
      PROVE  NormalizePost(p) \in Signal /\ NormalizePost(p).url = PostURL(p)
  BY <1>2, UrlType DEF NormalizePost, Signal, Post
<1>3. DOMAIN s = 1..Len(s) /\ Len(s) \in Nat
  OBVIOUS
<1> QED
  BY <1>1, <1>2, <1>3 DEF NormalizePosts

\* The counts are not where run_collect_x looks for them.
LEMMA ScoreIsZero == ASSUME NEW p \in Signal PROVE Score(p) = 0
<1>1. DOMAIN p = {"url", "engagement"}
  BY DEF Signal
<1>2. "like_count" \notin DOMAIN p /\ "repost_count" \notin DOMAIN p
  BY <1>1
<1> QED
  BY <1>2 DEF Score, Field

LEMMA QueueRow ==
  ASSUME TypeOK, NEW k \in DOMAIN queue
  PROVE  queue[k] \in Row /\ queue[k].by \in Collectors /\ queue[k].url \in Url
<1>1. queue[k] \in Row
  BY DEF TypeOK
<1> QED
  BY <1>1 DEF Row

LEMMA InitIInv == Init => IInv
<1> SUFFICES ASSUME Init PROVE IInv
  OBVIOUS
<1> USE DEF Init
<1>1. queue = <<>> /\ queue \in Seq(Row) /\ DOMAIN queue = {}
  OBVIOUS
<1>2. TypeOK
  BY <1>1 DEF TypeOK, Working, Ended
<1>3. RowsAtPlace /\ PostsAccounted /\ ExistingIsQueued
  BY DEF RowsAtPlace, PostsAccounted, ExistingIsQueued
<1>4. NothingQueuedEarly /\ DuplicatesOnlyByOverlap
  BY <1>1 DEF NothingQueuedEarly, DuplicatesOnlyByOverlap
<1>5. SucceededIsComplete
  BY <1>1 DEF SucceededIsComplete
<1> QED
  BY <1>2, <1>3, <1>4, <1>5 DEF IInv

-----------------------------------------------------------------------------
(* The steps.                                                              *)

\* What a collector knows to be queued when it is through with its posts.
LEMMA ThroughIsComplete ==
  ASSUME IInv, NEW c \in Collectors, pc[c] = "finish"
  PROVE  \A i \in DOMAIN answer[c] : PostURL(answer[c][i]) \in Urls(queue)
<1>1. posts[c] = <<>> /\ DOMAIN posts[c] = {}
  BY DEF IInv, PostsAccounted
<1>2. \A i \in DOMAIN answer[c] : PostURL(answer[c][i]) \in existing[c]
  BY <1>1 DEF IInv, PostsAccounted
<1> QED
  BY <1>2 DEF IInv, ExistingIsQueued

\* A collector changes its place and its rows, and nothing else.
LEMMA PlaceMoves ==
  ASSUME IInv, NEW c \in Collectors, UNCHANGED <<answer, posts, existing, seen, queue>>,
         NEW to \in Working \cup Ended, pc' = [pc EXCEPT ![c] = to],
         to \notin {"read", "insert"},
         to = "finish" => pc[c] = "insert" /\ posts[c] = <<>>,
         to \in Early => pc[c] \in Early,
         session' \in [Collectors -> SessionStatus], task' \in [Collectors -> TaskStatus],
         audited' \in [Collectors -> {"none", "allow", "block"}],
         \A d \in Collectors : task'[d] = "succeeded" =>
           task[d] = "succeeded" \/ pc[d] = "finish",
         RowsAtPlace'
  PROVE  IInv'
<1>1. /\ pc \in [Collectors -> Working \cup Ended] /\ pc'[c] = to
      /\ \A d \in Collectors : d # c => pc'[d] = pc[d]
  BY DEF IInv, TypeOK
<1>2. TypeOK'
  BY <1>1 DEF IInv, TypeOK, SessionStatus, TaskStatus
<1>3. NothingQueuedEarly'
  <2>1. \A k \in DOMAIN queue : queue[k].by \in Collectors
    BY QueueRow DEF IInv
  <2> QED
    BY <1>1, <2>1 DEF IInv, NothingQueuedEarly, Early
<1>4. PostsAccounted'
  BY <1>1 DEF IInv, PostsAccounted, Early
<1>5. ExistingIsQueued'
  BY <1>1 DEF IInv, ExistingIsQueued
<1>6. DuplicatesOnlyByOverlap'
  BY DEF IInv, DuplicatesOnlyByOverlap
<1>7. SucceededIsComplete'
  BY ThroughIsComplete DEF IInv, SucceededIsComplete
<1> QED
  BY <1>2, <1>3, <1>4, <1>5, <1>6, <1>7 DEF IInv

\* The steps that write a row or none.
LEMMA RowStepKeeps ==
  ASSUME IInv, NEW c \in Collectors,
         \/ CreateSession(c) \/ StartSession(c) \/ CreateTask(c) \/ Authorize(c)
         \/ InsertDone(c) \/ FinishTask(c) \/ CloseSession(c) \/ FailTask(c)
         \/ FailSession(c) \/ StoreRaises(c)
  PROVE  IInv'
<1> USE DEF CreateSession, StartSession, CreateTask, Authorize, InsertDone, FinishTask,
            CloseSession, FailTask, FailSession, StoreRaises, Goes
<1>1. UNCHANGED <<answer, posts, existing, seen, queue>>
  BY DEF locals
<1>2. PICK to \in (Working \cup Ended) \ {"read", "insert"} : pc' = [pc EXCEPT ![c] = to]
  BY DEF Working, Ended
<1>3. /\ to = "finish" => pc[c] = "insert" /\ posts[c] = <<>>
      /\ to \in Early => pc[c] \in Early
  <2>1. pc'[c] = to
    BY <1>2 DEF IInv, TypeOK
  <2> QED
    BY <2>1 DEF IInv, TypeOK, Early
<1>4. /\ session' \in [Collectors -> SessionStatus]
      /\ task' \in [Collectors -> TaskStatus]
      /\ audited' \in [Collectors -> {"none", "allow", "block"}]
  BY DEF IInv, TypeOK, SessionStatus, TaskStatus, rows, Audit
<1>5. \A d \in Collectors : task'[d] = "succeeded" =>
        task[d] = "succeeded" \/ pc[d] = "finish"
  BY DEF IInv, TypeOK, rows
<1>6. RowsAtPlace'
  BY DEF IInv, TypeOK, RowsAtPlace, rows
<1> QED
  BY <1>1, <1>2, <1>3, <1>4, <1>5, <1>6, PlaceMoves

LEMMA CallToolKeeps == ASSUME IInv, NEW c \in Collectors, CallTool(c) PROVE IInv'
<1>1. /\ UNCHANGED <<existing, seen, session, task, queue>> /\ pc[c] = "call"
      /\ audited' \in [Collectors -> {"none", "allow", "block"}]
  BY DEF CallTool, Goes, rows, Audit, IInv, TypeOK
<1>2. CASE Goes(c, "call", "except") /\ UNCHANGED <<answer, posts>>
  <2>1. RowsAtPlace'
    BY <1>1, <1>2 DEF IInv, TypeOK, RowsAtPlace, Goes
  <2>2. "except" \in Working \cup Ended
    BY DEF Working
  <2> QED
    BY <1>1, <1>2, <2>1, <2>2, PlaceMoves
    DEF Goes, IInv, TypeOK, SessionStatus, TaskStatus, Early
<1>3. ASSUME NEW s \in Searches, Goes(c, "call", "read"),
             answer' = [answer EXCEPT ![c] = s],
             posts' = [posts EXCEPT ![c] = NormalizePosts(s)]
      PROVE  IInv'
  <2>1. s \in Seq(Post)
    OBVIOUS
  <2>2. /\ pc' = [pc EXCEPT ![c] = "read"] /\ pc'[c] = "read"
        /\ answer'[c] = s /\ posts'[c] = NormalizePosts(s)
        /\ \A d \in Collectors : d # c =>
             pc'[d] = pc[d] /\ answer'[d] = answer[d] /\ posts'[d] = posts[d]
    BY <1>3 DEF Goes, IInv, TypeOK
  <2>3. TypeOK'
    <3>1. pc' \in [Collectors -> Working \cup Ended]
      BY <2>2 DEF IInv, TypeOK, Working
    <3>2. /\ answer' \in [Collectors -> Seq(Post)]
          /\ posts' \in [Collectors -> Seq(Signal)]
      BY <1>3, <2>1, NormalizeKeepsUrls DEF IInv, TypeOK
    <3> QED
      BY <1>1, <3>1, <3>2 DEF IInv, TypeOK
  <2>4. RowsAtPlace'
    BY <1>1, <2>2 DEF IInv, RowsAtPlace
  <2>5. \A k \in DOMAIN queue : queue[k].by \in Collectors /\ queue[k].by # c
    BY <1>1, QueueRow DEF IInv, NothingQueuedEarly
  <2>6. NothingQueuedEarly' /\ DuplicatesOnlyByOverlap'
    BY <1>1, <2>2, <2>5 DEF IInv, NothingQueuedEarly, DuplicatesOnlyByOverlap
  <2>7. PostsAccounted'
    <3>1. ASSUME NEW d \in Collectors, d = c
          PROVE  /\ \A i \in DOMAIN answer'[d] :
                      \E j \in DOMAIN posts'[d] : posts'[d][j].url = PostURL(answer'[d][i])
                 /\ \A j \in DOMAIN posts'[d] :
                      \E i \in DOMAIN answer'[d] : posts'[d][j].url = PostURL(answer'[d][i])
      BY <2>1, <2>2, <3>1, NormalizeKeepsUrls
    <3>2. \A d \in Collectors : d = c => pc'[d] = "read"
      BY <2>2
    <3>3. ASSUME NEW d \in Collectors, d # c
          PROVE  UNCHANGED <<pc[d], answer[d], posts[d], existing[d]>>
      BY <1>1, <2>2, <3>3
    <3> QED
      BY <3>1, <3>2, <3>3 DEF IInv, PostsAccounted
  <2>8. ExistingIsQueued'
    BY <1>1, <2>2 DEF IInv, ExistingIsQueued
  <2>9. SucceededIsComplete'
    <3>1. task[c] # "succeeded"
      BY <1>1 DEF IInv, RowsAtPlace
    <3> QED
      BY <1>1, <2>2, <2>5, <3>1 DEF IInv, SucceededIsComplete
  <2> QED
    BY <2>3, <2>4, <2>6, <2>7, <2>8, <2>9 DEF IInv
<1> QED
  BY <1>2, <1>3 DEF CallTool

LEMMA ReadQueueKeeps == ASSUME IInv, NEW c \in Collectors, ReadQueue(c) PROVE IInv'
<1>1. /\ UNCHANGED <<answer, posts, session, task, queue, audited>>
      /\ pc[c] = "read" /\ pc' = [pc EXCEPT ![c] = "insert"]
      /\ existing' = [existing EXCEPT ![c] = Urls(queue)]
      /\ seen' = [seen EXCEPT ![c] = Len(queue)]
  BY DEF ReadQueue, Goes, rows
<1>2. /\ pc'[c] = "insert" /\ existing'[c] = Urls(queue) /\ seen'[c] = Len(queue)
      /\ \A d \in Collectors : d # c =>
           pc'[d] = pc[d] /\ existing'[d] = existing[d] /\ seen'[d] = seen[d]
  BY <1>1 DEF IInv, TypeOK
<1>3. Urls(queue) \subseteq Url /\ Len(queue) \in Nat
  BY QueueRow DEF IInv, TypeOK, Urls
<1>4. TypeOK'
  BY <1>1, <1>3 DEF IInv, TypeOK, Working
<1>5. RowsAtPlace'
  BY <1>1, <1>2 DEF IInv, RowsAtPlace
<1>6. \A k \in DOMAIN queue : queue[k].by \in Collectors /\ queue[k].by # c
  BY <1>1, QueueRow DEF IInv, NothingQueuedEarly
<1>7. NothingQueuedEarly' /\ DuplicatesOnlyByOverlap'
  BY <1>1, <1>2, <1>6 DEF IInv, NothingQueuedEarly, DuplicatesOnlyByOverlap
<1>8. PostsAccounted'
  BY <1>1, <1>2 DEF IInv, PostsAccounted
<1>9. ExistingIsQueued'
  <2>1. Urls(queue)' = Urls(queue)
    BY <1>1 DEF Urls
  <2>2. \A k \in DOMAIN queue : queue[k].url \in Urls(queue)
    BY DEF Urls
  <2> QED
    BY <1>1, <1>2, <1>3, <2>1, <2>2 DEF IInv, ExistingIsQueued
<1>10. SucceededIsComplete'
  BY <1>1 DEF IInv, SucceededIsComplete, Urls
<1> QED
  BY <1>4, <1>5, <1>7, <1>8, <1>9, <1>10 DEF IInv

\* A post that is known is passed over.
LEMMA PassOverKeeps ==
  ASSUME IInv, NEW c \in Collectors, InsertPost(c), Head(posts[c]).url \in existing[c]
  PROVE  IInv'
<1>1. /\ UNCHANGED <<pc, answer, seen, session, task, audited, existing, queue>>
      /\ pc[c] = "insert" /\ posts[c] # <<>>
      /\ posts' = [posts EXCEPT ![c] = Tail(posts[c])]
  BY DEF InsertPost, rows
<1>2. posts[c] \in Seq(Signal) /\ Tail(posts[c]) \in Seq(Signal)
  BY <1>1 DEF IInv, TypeOK
<1>3. /\ posts'[c] = Tail(posts[c])
      /\ \A d \in Collectors : d # c => posts'[d] = posts[d]
  BY <1>1 DEF IInv, TypeOK
<1>4. TypeOK'
  BY <1>1, <1>2 DEF IInv, TypeOK
<1>5. /\ RowsAtPlace' /\ NothingQueuedEarly' /\ ExistingIsQueued'
      /\ DuplicatesOnlyByOverlap' /\ SucceededIsComplete'
  BY <1>1
  DEF IInv, RowsAtPlace, NothingQueuedEarly, ExistingIsQueued, DuplicatesOnlyByOverlap,
      SucceededIsComplete, Urls
<1>6. /\ \A j \in DOMAIN Tail(posts[c]) :
           j + 1 \in DOMAIN posts[c] /\ Tail(posts[c])[j] = posts[c][j + 1]
      /\ \A j \in DOMAIN posts[c] :
           \/ j = 1 /\ posts[c][j] = Head(posts[c])
           \/ j - 1 \in DOMAIN Tail(posts[c]) /\ Tail(posts[c])[j - 1] = posts[c][j]
  BY <1>1, <1>2
<1>7. PostsAccounted'
  <2>1. ASSUME NEW i \in DOMAIN answer[c], PostURL(answer[c][i]) \notin existing[c]
        PROVE  \E j \in DOMAIN Tail(posts[c]) :
                 Tail(posts[c])[j].url = PostURL(answer[c][i])
    <3>1. PICK j \in DOMAIN posts[c] : posts[c][j].url = PostURL(answer[c][i])
      BY <1>1, <2>1 DEF IInv, PostsAccounted
    <3> QED
      BY <1>6, <2>1, <3>1
  <2>2. ASSUME NEW j \in DOMAIN Tail(posts[c])
        PROVE  \E i \in DOMAIN answer[c] :
                 Tail(posts[c])[j].url = PostURL(answer[c][i])
    <3>1. j + 1 \in DOMAIN posts[c] /\ Tail(posts[c])[j] = posts[c][j + 1]
      BY <1>6, <2>2
    <3>2. \A k \in DOMAIN posts[c] :
            \E i \in DOMAIN answer[c] : posts[c][k].url = PostURL(answer[c][i])
      BY <1>1 DEF IInv, PostsAccounted
    <3> QED
      BY <3>1, <3>2
  <2> QED
    BY <1>1, <1>3, <2>1, <2>2 DEF IInv, PostsAccounted
<1> QED
  BY <1>4, <1>5, <1>7 DEF IInv

\* A new one is appended, and remembered.
LEMMA InsertKeeps ==
  ASSUME IInv, NEW c \in Collectors, InsertPost(c), Head(posts[c]).url \notin existing[c]
  PROVE  IInv'
<1> DEFINE post == Head(posts[c])
           row  == [url |-> post.url, by |-> c, score |-> Score(post)]
           n    == Len(queue) + 1
<1>1. /\ UNCHANGED <<pc, answer, seen, session, task, audited>>
      /\ pc[c] = "insert" /\ posts[c] # <<>>
      /\ posts' = [posts EXCEPT ![c] = Tail(posts[c])]
      /\ queue' = Append(queue, row)
      /\ existing' = [existing EXCEPT ![c] = existing[c] \cup {post.url}]
  BY DEF InsertPost, rows
<1>2. /\ posts[c] \in Seq(Signal) /\ Tail(posts[c]) \in Seq(Signal)
      /\ post \in Signal /\ 1 \in DOMAIN posts[c] /\ post = posts[c][1]
      /\ queue \in Seq(Row)
  BY <1>1 DEF IInv, TypeOK
<1>3. post.url \in Url /\ Score(post) = 0
  BY <1>2, ScoreIsZero DEF Signal
<1>4. row \in Row /\ row.url = post.url /\ row.by = c
  <2> HIDE DEF post
  <2> QED
    BY <1>3 DEF Row
<1>5. /\ posts'[c] = Tail(posts[c]) /\ existing'[c] = existing[c] \cup {post.url}
      /\ \A d \in Collectors : d # c =>
           posts'[d] = posts[d] /\ existing'[d] = existing[d]
  BY <1>1 DEF IInv, TypeOK
<1> HIDE DEF post, row
<1>6. /\ queue' \in Seq(Row) /\ n \notin DOMAIN queue /\ n \in Nat
      /\ DOMAIN queue' = DOMAIN queue \cup {n} /\ queue'[n] = row
      /\ \A k \in DOMAIN queue : queue'[k] = queue[k] /\ k < n /\ k \in Nat
  BY <1>1, <1>2, <1>4
<1> HIDE DEF n
<1>7. Urls(queue)' = Urls(queue) \cup {post.url}
  BY <1>4, <1>6 DEF Urls
<1>8. TypeOK'
  BY <1>1, <1>2, <1>3, <1>6 DEF IInv, TypeOK
<1>9. RowsAtPlace'
  BY <1>1 DEF IInv, RowsAtPlace
<1>10. NothingQueuedEarly'
  BY <1>1, <1>4, <1>6 DEF IInv, NothingQueuedEarly
<1>11. ASSUME NEW k \in DOMAIN queue, queue[k].url = post.url
       PROVE  queue[k].by # c /\ ~(k <= seen[c])
  BY <1>1, <1>11 DEF IInv, ExistingIsQueued, post
<1>12. DuplicatesOnlyByOverlap'
  <2> SUFFICES ASSUME NEW i \in DOMAIN queue', NEW j \in DOMAIN queue', i < j,
                      queue'[i].url = queue'[j].url
               PROVE  queue'[i].by # queue'[j].by /\ seen'[queue'[j].by] < i
    BY DEF DuplicatesOnlyByOverlap
  <2>1. i \in DOMAIN queue
    BY <1>6
  <2>2. CASE j = n
    <3>1. queue[i].url = post.url /\ queue'[j].by = c
      BY <1>4, <1>6, <2>1, <2>2
    <3>2. queue[i].by # c /\ ~(i <= seen[c])
      BY <1>11, <2>1, <3>1
    <3>3. seen[c] \in Nat /\ i \in Nat
      BY <1>6, <2>1 DEF IInv, TypeOK
    <3> QED
      BY <1>1, <1>6, <2>1, <3>1, <3>2, <3>3
  <2>3. CASE j \in DOMAIN queue
    BY <1>1, <1>6, <2>1, <2>3 DEF IInv, DuplicatesOnlyByOverlap
  <2> QED
    BY <1>6, <2>2, <2>3
<1>13. ExistingIsQueued'
  <2> SUFFICES ASSUME NEW d \in Collectors, pc'[d] \in {"insert", "finish"}
               PROVE  /\ seen'[d] <= Len(queue')
                      /\ existing'[d] \subseteq Urls(queue)'
                      /\ \A k \in DOMAIN queue' :
                           k <= seen'[d] \/ queue'[k].by = d => queue'[k].url \in existing'[d]
    BY DEF ExistingIsQueued
  <2>1. /\ seen[d] <= Len(queue) /\ existing[d] \subseteq Urls(queue)
        /\ \A k \in DOMAIN queue :
             k <= seen[d] \/ queue[k].by = d => queue[k].url \in existing[d]
        /\ seen[d] \in Nat
    BY <1>1 DEF IInv, ExistingIsQueued, TypeOK
  <2>2. /\ Len(queue) \in Nat /\ n = Len(queue) + 1 /\ Len(queue') = Len(queue) + 1
        /\ ~(n <= seen[d])
    BY <1>1, <1>2, <2>1 DEF n
  <2>3. existing[d] \subseteq existing'[d] /\ existing'[d] \subseteq existing[d] \cup {post.url}
    BY <1>5
  <2>4. ASSUME NEW k \in DOMAIN queue', k <= seen[d] \/ queue'[k].by = d
        PROVE  queue'[k].url \in existing'[d]
    <3>1. CASE k = n
      BY <1>4, <1>5, <1>6, <2>2, <2>4, <3>1
    <3>2. CASE k \in DOMAIN queue
      BY <1>6, <2>1, <2>3, <2>4, <3>2
    <3> QED
      BY <1>6, <3>1, <3>2
  <2>5. seen[d] <= Len(queue')
    BY <2>1, <2>2
  <2> QED
    BY <1>1, <1>7, <2>1, <2>3, <2>4, <2>5
<1>14. PostsAccounted'
  <2>1. /\ \A j \in DOMAIN Tail(posts[c]) :
             j + 1 \in DOMAIN posts[c] /\ Tail(posts[c])[j] = posts[c][j + 1]
        /\ \A j \in DOMAIN posts[c] :
             \/ j = 1
             \/ j - 1 \in DOMAIN Tail(posts[c]) /\ Tail(posts[c])[j - 1] = posts[c][j]
    BY <1>1, <1>2
  <2>2. ASSUME NEW i \in DOMAIN answer[c], PostURL(answer[c][i]) \notin existing'[c]
        PROVE  \E j \in DOMAIN Tail(posts[c]) :
                 Tail(posts[c])[j].url = PostURL(answer[c][i])
    <3>1. PICK j \in DOMAIN posts[c] : posts[c][j].url = PostURL(answer[c][i])
      BY <1>1, <1>5, <2>2 DEF IInv, PostsAccounted
    <3>2. j # 1
      BY <1>2, <1>5, <2>2, <3>1
    <3> QED
      BY <2>1, <3>1, <3>2
  <2>3. ASSUME NEW j \in DOMAIN Tail(posts[c])
        PROVE  \E i \in DOMAIN answer[c] :
                 Tail(posts[c])[j].url = PostURL(answer[c][i])
    <3>1. j + 1 \in DOMAIN posts[c] /\ Tail(posts[c])[j] = posts[c][j + 1]
      BY <2>1
    <3>2. \E i \in DOMAIN answer[c] : posts[c][j + 1].url = PostURL(answer[c][i])
      BY <1>1, <3>1 DEF IInv, PostsAccounted
    <3> QED
      BY <3>1, <3>2
  <2> QED
    BY <1>1, <1>5, <2>2, <2>3 DEF IInv, PostsAccounted
<1>15. SucceededIsComplete'
  <2>1. \E i \in DOMAIN answer[c] : post.url = PostURL(answer[c][i])
    BY <1>1, <1>2 DEF IInv, PostsAccounted
  <2>2. \A k \in DOMAIN queue' :
          \E i \in DOMAIN answer'[queue'[k].by] :
            queue'[k].url = PostURL(answer'[queue'[k].by][i])
    <3>1. ASSUME NEW k \in DOMAIN queue
          PROVE  \E i \in DOMAIN answer[queue[k].by] :
                   queue[k].url = PostURL(answer[queue[k].by][i])
      BY DEF IInv, SucceededIsComplete
    <3>2. queue'[n].by = c /\ queue'[n].url = post.url
      BY <1>4, <1>6
    <3> SUFFICES ASSUME NEW k \in DOMAIN queue'
                 PROVE  \E i \in DOMAIN answer[queue'[k].by] :
                          queue'[k].url = PostURL(answer[queue'[k].by][i])
      BY <1>1
    <3>3. CASE k = n
      BY <2>1, <3>2, <3>3
    <3>4. CASE k \in DOMAIN queue
      <4>1. queue'[k] = queue[k]
        BY <1>6, <3>4
      <4> QED
        BY <3>1, <3>4, <4>1
    <3> QED
      BY <1>6, <3>3, <3>4
  <2>3. \A d \in Collectors : task'[d] = "succeeded" =>
          \A i \in DOMAIN answer'[d] : PostURL(answer'[d][i]) \in Urls(queue)'
    BY <1>1, <1>7 DEF IInv, SucceededIsComplete
  <2> QED
    BY <2>2, <2>3 DEF SucceededIsComplete
<1> QED
  BY <1>8, <1>9, <1>10, <1>12, <1>13, <1>14, <1>15 DEF IInv

LEMMA NextIInv == IInv /\ [Next]_vars => IInv'
<1> SUFFICES ASSUME IInv, [Next]_vars PROVE IInv'
  OBVIOUS
<1>1. CASE UNCHANGED vars
  <2> USE <1>1 DEF vars, locals, rows
  <2>1. TypeOK' /\ RowsAtPlace' /\ NothingQueuedEarly' /\ PostsAccounted'
    BY DEF IInv, TypeOK, RowsAtPlace, NothingQueuedEarly, PostsAccounted
  <2>2. ExistingIsQueued' /\ DuplicatesOnlyByOverlap' /\ SucceededIsComplete'
    BY DEF IInv, ExistingIsQueued, DuplicatesOnlyByOverlap, SucceededIsComplete, Urls
  <2> QED
    BY <2>1, <2>2 DEF IInv
<1>2. ASSUME NEW c \in Collectors, Step(c) PROVE IInv'
  BY <1>2, RowStepKeeps, CallToolKeeps, ReadQueueKeeps, PassOverKeeps, InsertKeeps DEF Step
<1> QED
  BY <1>1, <1>2 DEF Next, AllEnded

LEMMA Invariance == Spec => []IInv
BY InitIInv, NextIInv, PTL DEF Spec

-----------------------------------------------------------------------------
(* What the collector promises.                                            *)

\* However many collectors run, a URL is queued twice only by two that
\* overlapped (_existing_urls is read once, run_collect_x).
THEOREM DuplicatesNeedOverlap == Spec => []DuplicatesOnlyByOverlap
<1>1. IInv => DuplicatesOnlyByOverlap
  BY DEF IInv
<1> QED
  BY <1>1, Invariance, PTL

\* A succeeded task has its whole search in the queue, whatever failed, and a
\* collector queues nothing that is not of its search (run_collect_x).
THEOREM SuccessIsComplete == Spec => []SucceededIsComplete
<1>1. IInv => SucceededIsComplete
  BY DEF IInv
<1> QED
  BY <1>1, Invariance, PTL

-----------------------------------------------------------------------------
(* The rows implement TaskLifecycle.                                       *)

LEMMA StepIsLifecycle ==
  ASSUME IInv, NEW c \in Collectors, Step(c)
  PROVE  Lifecycle!Next \/ UNCHANGED <<session, task>>
<1> USE DEF Goes
<1>1. CASE CreateSession(c) \/ StartSession(c)
  BY <1>1 DEF CreateSession, StartSession, IInv, RowsAtPlace,
              Lifecycle!Next, Lifecycle!CreateSession, Lifecycle!StartSession,
              Lifecycle!SetSession
<1>2. CASE CreateTask(c)
  BY <1>2 DEF CreateTask, IInv, RowsAtPlace, Lifecycle!Next, Lifecycle!CreateTask
<1>3. CASE FinishTask(c) \/ FailTask(c)
  BY <1>3 DEF FinishTask, FailTask, IInv, RowsAtPlace, Lifecycle!Next, Lifecycle!FinishTask
<1>4. CASE CloseSession(c) \/ FailSession(c)
  BY <1>4 DEF CloseSession, FailSession, IInv, RowsAtPlace, Lifecycle!Next,
              Lifecycle!CloseSession, Lifecycle!SetSession, Lifecycle!ClosedAs
<1>5. CASE \/ Authorize(c) \/ CallTool(c) \/ ReadQueue(c) \/ InsertPost(c)
           \/ InsertDone(c) \/ StoreRaises(c)
  BY <1>5 DEF Authorize, CallTool, ReadQueue, InsertPost, InsertDone, StoreRaises, rows
<1> QED
  BY <1>1, <1>2, <1>3, <1>4, <1>5 DEF Step

\* The rows of every collector follow the lifecycle the tables promise, on the
\* error path too: finished once, closed after the task and to match it
\* (db/repository.py, run_collect_x's except clause).
THEOREM RowsImplementLifecycle == Spec => RowsFollowLifecycle
<1>1. Init => Lifecycle!Init
  BY DEF Init, Lifecycle!Init
<1>2. IInv /\ [Next]_vars => [Lifecycle!Next]_<<session, task>>
  BY StepIsLifecycle DEF Next, AllEnded, vars, rows
<1> QED
  BY <1>1, <1>2, Invariance, PTL DEF Spec, RowsFollowLifecycle, Lifecycle!Spec

=============================================================================
