------------------------------ MODULE CollectX ------------------------------
(***************************************************************************)
(* runner/collect_x.py on top of auth-proxy's normalizePosts: the posts of *)
(* an X search become rows of research_queue, one per URL.  The URLs       *)
(* already queued are read once, before the first insert; collectors that  *)
(* run at the same time (a detached scheduler attempt and its retry, a     *)
(* manual `collect x') do not see each other's inserts after that.         *)
(***************************************************************************)
EXTENDS Integers, Sequences, FiniteSets

CONSTANTS
  Collectors,  \* calls of run_collect_x
  Searches     \* what a search may answer: sequences of posts as X has them

Post == [id : Nat, username : STRING, like_count : Nat, retweet_count : Nat]

ASSUME SearchesAssumption == Searches \subseteq Seq(Post)

VARIABLES
  pc,        \* each collector's place in run_collect_x
  answer,    \* what X answered to it
  posts,     \* the posts it still has to look at
  existing,  \* existing_urls
  seen,      \* history: how long the queue was when existing_urls was read
  session, task,
  queue,     \* research_queue
  audited    \* tool_events: the decision recorded for the tool call

locals == <<answer, posts, existing, seen>>
rows   == <<session, task>>
vars   == <<pc, locals, rows, queue, audited>>

Working == {"begin", "created", "started", "authorize", "call", "read", "insert",
            "except", "finish", "close", "closeFailed"}
Ended   == {"returned", "raised"}

Field(record, name, default) == IF name \in DOMAIN record THEN record[name] ELSE default

\* postURL: an author X did not include becomes i/web.
PostURL(post) == <<IF post.username = "" THEN "i/web" ELSE post.username, post.id>>

\* normalizePosts, of one post: the counts go into a map of their own.
NormalizePost(post) ==
  [url |-> PostURL(post),
   engagement |-> [like_count   |-> post.like_count,
                   repost_count |-> post.retweet_count]]

NormalizePosts(s) == [i \in DOMAIN s |-> NormalizePost(s[i])]

Urls(q) == {q[i].url : i \in DOMAIN q}

\* run_collect_x's likes + reposts.
Score(post) == Field(post, "like_count", 0) + Field(post, "repost_count", 0)

Url    == (STRING \cup {"i/web"}) \X Nat
Signal == [url : Url, engagement : [like_count : Nat, repost_count : Nat]]
Row    == [url : Url, by : Collectors, score : Nat]

TypeOK ==
  /\ pc \in [Collectors -> Working \cup Ended]
  /\ answer \in [Collectors -> Seq(Post)]
  /\ posts \in [Collectors -> Seq(Signal)]
  /\ existing \in [Collectors -> SUBSET Url]
  /\ seen \in [Collectors -> Nat]
  /\ session \in [Collectors -> {"none", "created", "running", "stopped", "failed"}]
  /\ task \in [Collectors -> {"none", "queued", "succeeded", "failed"}]
  /\ queue \in Seq(Row)
  /\ audited \in [Collectors -> {"none", "allow", "block"}]

Init ==
  /\ pc = [c \in Collectors |-> "begin"]
  /\ answer = [c \in Collectors |-> <<>>]
  /\ posts = [c \in Collectors |-> <<>>]
  /\ existing = [c \in Collectors |-> {}]
  /\ seen = [c \in Collectors |-> 0]
  /\ session = [c \in Collectors |-> "none"]
  /\ task = [c \in Collectors |-> "none"]
  /\ queue = <<>>
  /\ audited = [c \in Collectors |-> "none"]

-----------------------------------------------------------------------------

Goes(c, from, to) == pc[c] = from /\ pc' = [pc EXCEPT ![c] = to]

CreateSession(c) ==
  /\ Goes(c, "begin", "created")
  /\ session' = [session EXCEPT ![c] = "created"]
  /\ UNCHANGED <<locals, task, queue, audited>>

StartSession(c) ==
  /\ Goes(c, "created", "started")
  /\ session' = [session EXCEPT ![c] = "running"]
  /\ UNCHANGED <<locals, task, queue, audited>>

CreateTask(c) ==
  /\ Goes(c, "started", "authorize")
  /\ task' = [task EXCEPT ![c] = "queued"]
  /\ UNCHANGED <<locals, session, queue, audited>>

\* run_post_tool_use is fail-open: the event is recorded or lost.
Audit(c, decision) ==
  audited' \in {audited, [audited EXCEPT ![c] = decision]}

\* PreToolUse; a block, like a configuration error before it, is an exception.
Authorize(c) ==
  /\ \/ Goes(c, "authorize", "call") /\ UNCHANGED audited
     \/ Goes(c, "authorize", "except") /\ Audit(c, "block")
  /\ UNCHANGED <<locals, rows, queue>>

\* tools/call: an answer that is an error, no answer, or the posts.
CallTool(c) ==
  /\ \/ /\ Goes(c, "call", "except")
        /\ Audit(c, "allow")
        /\ UNCHANGED <<answer, posts>>
     \/ \E s \in Searches :
          /\ Goes(c, "call", "read")
          /\ Audit(c, "allow")
          /\ answer' = [answer EXCEPT ![c] = s]
          /\ posts' = [posts EXCEPT ![c] = NormalizePosts(s)]
  /\ UNCHANGED <<existing, seen, rows, queue>>

\* _existing_urls
ReadQueue(c) ==
  /\ Goes(c, "read", "insert")
  /\ existing' = [existing EXCEPT ![c] = Urls(queue)]
  /\ seen' = [seen EXCEPT ![c] = Len(queue)]
  /\ UNCHANGED <<answer, posts, rows, queue, audited>>

\* Mutant: an inserted URL is not added to existing_urls.
InsertUnremembered(c) ==
  /\ pc[c] = "insert"
  /\ posts[c] # <<>>
  /\ LET post == Head(posts[c])
     IN  IF post.url \in existing[c]
           THEN UNCHANGED queue
           ELSE queue' = Append(queue, [url |-> post.url, by |-> c, score |-> Score(post)])
  /\ posts' = [posts EXCEPT ![c] = Tail(@)]
  /\ UNCHANGED <<pc, answer, existing, seen, rows, audited>>

\* One round of the loop: a URL that is known is passed over, a new one is
\* inserted and remembered.
InsertPost(c) ==
  /\ pc[c] = "insert"
  /\ posts[c] # <<>>
  /\ LET post == Head(posts[c])
     IN  IF post.url \in existing[c]
           THEN UNCHANGED <<existing, queue>>
           ELSE /\ queue' = Append(queue, [url |-> post.url, by |-> c,
                                           score |-> Score(post)])
                /\ existing' = [existing EXCEPT ![c] = @ \cup {post.url}]
  /\ posts' = [posts EXCEPT ![c] = Tail(@)]
  /\ UNCHANGED <<pc, answer, seen, rows, audited>>

InsertDone(c) ==
  /\ posts[c] = <<>>
  /\ Goes(c, "insert", "finish")
  /\ UNCHANGED <<locals, rows, queue, audited>>

FinishTask(c) ==
  /\ Goes(c, "finish", "close")
  /\ task' = [task EXCEPT ![c] = "succeeded"]
  /\ UNCHANGED <<locals, session, queue, audited>>

CloseSession(c) ==
  /\ Goes(c, "close", "returned")
  /\ session' = [session EXCEPT ![c] = "stopped"]
  /\ UNCHANGED <<locals, task, queue, audited>>

\* The except clause.
FailTask(c) ==
  /\ Goes(c, "except", "closeFailed")
  /\ task' = [task EXCEPT ![c] = "failed"]
  /\ UNCHANGED <<locals, session, queue, audited>>

\* Mutant: the except clause closes the session as the normal end does.
FailSessionStopped(c) ==
  /\ Goes(c, "closeFailed", "raised")
  /\ session' = [session EXCEPT ![c] = "stopped"]
  /\ UNCHANGED <<locals, task, queue, audited>>

FailSession(c) ==
  /\ Goes(c, "closeFailed", "raised")
  /\ session' = [session EXCEPT ![c] = "failed"]
  /\ UNCHANGED <<locals, task, queue, audited>>

\* Mutant: an insert that fails ends the loop but not the task.
StoreRaisesQuietly(c) ==
  /\ pc[c] = "insert"
  /\ pc' = [pc EXCEPT ![c] = "finish"]
  /\ UNCHANGED <<locals, rows, queue, audited>>

\* SQLite refuses: inside the try statement the row writes and the read of the
\* queue lead to the except clause, outside of it out of the function.
StoreRaises(c) ==
  /\ \/ pc[c] \in {"read", "insert"} /\ pc' = [pc EXCEPT ![c] = "except"]
     \/ /\ pc[c] \in {"begin", "created", "started", "except", "closeFailed",
                      "finish", "close"}
        /\ pc' = [pc EXCEPT ![c] = "raised"]
  /\ UNCHANGED <<locals, rows, queue, audited>>

AllEnded ==
  /\ \A c \in Collectors : pc[c] \in Ended
  /\ UNCHANGED vars

Step(c) ==
  \/ CreateSession(c) \/ StartSession(c) \/ CreateTask(c) \/ Authorize(c)
  \/ CallTool(c) \/ ReadQueue(c) \/ InsertPost(c) \/ InsertDone(c)
  \/ FinishTask(c) \/ CloseSession(c) \/ FailTask(c) \/ FailSession(c)
  \/ StoreRaises(c)

Next == (\E c \in Collectors : Step(c)) \/ AllEnded

Spec == Init /\ [][Next]_vars

-----------------------------------------------------------------------------
(* Properties.                                                             *)

\* A URL is queued twice only by collectors that overlapped: the second one had
\* read the queue before the first one's insert.  In particular a retry never
\* repeats what a failed or a finished collector left behind.
DuplicatesOnlyByOverlap ==
  \A i, j \in DOMAIN queue :
    i < j /\ queue[i].url = queue[j].url =>
      /\ queue[i].by # queue[j].by
      /\ seen[queue[j].by] < i

\* A succeeded task's search is in the queue entirely, and what a collector
\* inserted comes from its own search.
SucceededIsComplete ==
  /\ \A c \in Collectors : task[c] = "succeeded" =>
       \A i \in DOMAIN answer[c] : PostURL(answer[c][i]) \in Urls(queue)
  /\ \A k \in DOMAIN queue :
       \E i \in DOMAIN answer[queue[k].by] :
         queue[k].url = PostURL(answer[queue[k].by][i])

Lifecycle == INSTANCE TaskLifecycle WITH Executions <- Collectors, Revisable <- {}

\* The rows follow the lifecycle the tables promise, on the error path too.
RowsFollowLifecycle == Lifecycle!Spec

-----------------------------------------------------------------------------
(* What collect_x.py's header says is stored.                              *)

\* "only URL, handle, engagement, and a short redacted snippet are stored in
\* research_queue": the score of a row is the engagement X reported.
EngagementStored ==
  \A k \in DOMAIN queue :
    \E i \in DOMAIN answer[queue[k].by] :
      LET post == answer[queue[k].by][i]
      IN  /\ queue[k].url = PostURL(post)
          /\ queue[k].score = post.like_count + post.retweet_count

-----------------------------------------------------------------------------
(* The inductive invariant behind the properties.                          *)

\* The rows at each place of run_collect_x.
RowsAtPlace ==
  \A c \in Collectors :
    /\ pc[c] = "begin" => session[c] = "none" /\ task[c] = "none"
    /\ pc[c] = "created" => session[c] = "created" /\ task[c] = "none"
    /\ pc[c] = "started" => session[c] = "running" /\ task[c] = "none"
    /\ pc[c] \in {"authorize", "call", "read", "insert", "except", "finish"} =>
         session[c] = "running" /\ task[c] = "queued"
    /\ pc[c] = "close" => session[c] = "running" /\ task[c] = "succeeded"
    /\ pc[c] = "closeFailed" => session[c] = "running" /\ task[c] = "failed"

\* A collector has queued nothing before it reads the queue.
NothingQueuedEarly ==
  \A k \in DOMAIN queue :
    pc[queue[k].by] \notin {"begin", "created", "started", "authorize", "call", "read"}

\* Every post of the search is still to be looked at or known to be queued, and
\* what is to be looked at comes from the search.
PostsAccounted ==
  \A c \in Collectors :
    /\ pc[c] = "read" =>
         \A i \in DOMAIN answer[c] :
           \E j \in DOMAIN posts[c] : posts[c][j].url = PostURL(answer[c][i])
    /\ pc[c] \in {"insert", "finish"} =>
         \A i \in DOMAIN answer[c] :
           \/ PostURL(answer[c][i]) \in existing[c]
           \/ \E j \in DOMAIN posts[c] : posts[c][j].url = PostURL(answer[c][i])
    /\ pc[c] \in {"read", "insert"} =>
         \A j \in DOMAIN posts[c] :
           \E i \in DOMAIN answer[c] : posts[c][j].url = PostURL(answer[c][i])
    /\ pc[c] = "finish" => posts[c] = <<>>

\* existing_urls holds what was queued before it was read and what the collector
\* queued itself, and nothing that is not queued.
ExistingIsQueued ==
  \A c \in Collectors : pc[c] \in {"insert", "finish"} =>
    /\ seen[c] <= Len(queue)
    /\ existing[c] \subseteq Urls(queue)
    /\ \A k \in DOMAIN queue :
         k <= seen[c] \/ queue[k].by = c => queue[k].url \in existing[c]

IInv ==
  /\ TypeOK
  /\ RowsAtPlace
  /\ NothingQueuedEarly
  /\ PostsAccounted
  /\ ExistingIsQueued
  /\ DuplicatesOnlyByOverlap
  /\ SucceededIsComplete

=============================================================================
