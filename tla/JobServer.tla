----------------------------- MODULE JobServer -----------------------------
(***************************************************************************)
(* Connections, asynchronous jobs and POLL of one storage process:         *)
(* handle_client and the accept loop of src/server/storage_main.cpp, and   *)
(* src/server/job_queue.cpp.                                               *)
(*                                                                         *)
(* Every connection carries one request and has its own thread.  An        *)
(* asynchronous request leaves a job: a record in the queue and a detached *)
(* thread, which is handed REFERENCES to the request text, a local of      *)
(* handle_client.  The job thread reads the text twice, when it starts and *)
(* when the executor journals the statement; handle_client may have        *)
(* returned before either, and what is then in that memory is anything.    *)
(*                                                                         *)
(* Of the executor only this matters here: whether a text succeeds.        *)
(***************************************************************************)
EXTENDS Naturals

CONSTANTS
  Conns,        \* connections; a job's id is the connection that created it
  Texts,        \* request texts
  GoodTexts,    \* those the executor accepts
  Garbage,      \* what is found where a request text used to be
  MaxRestarts   \* bound: process deaths

None == "none"  \* no text, no line, no status

ASSUME JobAssumption ==
  GoodTexts \subseteq Texts /\ Garbage \notin Texts /\ None \notin Texts \cup {Garbage}

VARIABLES
  conn,      \* conn[c]: [at, kind, arg], the handler thread and its request
  reply,     \* reply[c]: the line the client received
  jobs,      \* jobs_: [status, ok] by id
  worker,    \* worker[c]: [at, ok], the job's thread
  executed,  \* history: the text connection c had executed
  journaled, \* history: the text journaled for it
  restarts

jobVars == <<conn, reply, jobs, worker, executed, journaled, restarts>>

NewConn   == [at |-> "free", kind |-> None, arg |-> None]
NoWorker  == [at |-> "none", ok |-> FALSE]
Requests  == {[kind |-> k, arg |-> x] : k \in {"sync", "async"}, x \in Texts}
               \cup {[kind |-> "poll", arg |-> c] : c \in Conns}

Line(l)     == [line |-> l, status |-> None, ok |-> FALSE]
RecordOf(j) == [line |-> "record", status |-> j.status, ok |-> j.ok]

JobInit ==
  /\ conn = [c \in Conns |-> NewConn]
  /\ reply = [c \in Conns |-> Line(None)]
  /\ jobs = [c \in {} |-> None]
  /\ worker = [c \in Conns |-> NoWorker]
  /\ executed = [c \in Conns |-> None]
  /\ journaled = [c \in Conns |-> None]
  /\ restarts = 0

MoveTo(c, at) == conn' = [conn EXCEPT ![c].at = at]

\* accept and read_line.
Accept(c, req) ==
  /\ conn[c].at = "free"
  /\ conn' = [conn EXCEPT ![c] = [at |-> "parsed", kind |-> req.kind, arg |-> req.arg]]
  /\ UNCHANGED <<reply, jobs, worker, executed, journaled, restarts>>

-----------------------------------------------------------------------------
PollJob_Erases(c) == \* mutant
  /\ conn[c].at = "parsed" /\ conn[c].kind = "poll"
  /\ LET id == conn[c].arg IN
     /\ reply' = [reply EXCEPT ![c] = IF id \in DOMAIN jobs THEN RecordOf(jobs[id])
                                                         ELSE Line("unknown job")]
     /\ jobs' = [i \in DOMAIN jobs \ {id} |-> jobs[i]]
  /\ MoveTo(c, "returned")
  /\ UNCHANGED <<worker, executed, journaled, restarts>>

\* POLL: one look at the record, under the queue's mutex.
PollJob(c) ==
  /\ conn[c].at = "parsed" /\ conn[c].kind = "poll"
  /\ LET id == conn[c].arg IN
     reply' = [reply EXCEPT ![c] = IF id \in DOMAIN jobs THEN RecordOf(jobs[id])
                                                         ELSE Line("unknown job")]
  /\ MoveTo(c, "returned")
  /\ UNCHANGED <<jobs, worker, executed, journaled, restarts>>

\* JobQueue::submit: a Pending record, then the thread.
Submit(c) ==
  /\ conn[c].at = "parsed" /\ conn[c].kind = "async"
  /\ jobs' = [i \in DOMAIN jobs \cup {c} |->
                IF i = c THEN [status |-> "pending", ok |-> FALSE] ELSE jobs[i]]
  /\ worker' = [worker EXCEPT ![c].at = "start"]
  /\ MoveTo(c, "submitted")
  /\ UNCHANGED <<reply, executed, journaled, restarts>>

SendJobId(c) ==
  /\ conn[c].at = "submitted"
  /\ reply' = [reply EXCEPT ![c] = Line("job")]
  /\ MoveTo(c, "answered")
  /\ UNCHANGED <<jobs, worker, executed, journaled, restarts>>

\* A synchronous request is executed and journaled in the handler's thread.
ExecuteSync(c) ==
  /\ conn[c].at = "parsed" /\ conn[c].kind = "sync"
  /\ executed' = [executed EXCEPT ![c] = conn[c].arg]
  /\ journaled' = IF conn[c].arg \in GoodTexts
                    THEN [journaled EXCEPT ![c] = conn[c].arg] ELSE journaled
  /\ MoveTo(c, "executed")
  /\ UNCHANGED <<reply, jobs, worker, restarts>>

\* The answer is the last use a synchronous request makes of its locals.
SendResult(c) ==
  /\ conn[c].at = "executed"
  /\ reply' = [reply EXCEPT ![c] = Line(IF executed[c] \in GoodTexts THEN "ok" ELSE "err")]
  /\ MoveTo(c, "returned")
  /\ UNCHANGED <<jobs, worker, executed, journaled, restarts>>

\* handle_client returns: its locals are gone.
Return(c) ==
  /\ conn[c].at = "answered"
  /\ MoveTo(c, "returned")
  /\ UNCHANGED <<reply, jobs, worker, executed, journaled, restarts>>

-----------------------------------------------------------------------------
TextSeen_Moved(c) == \* mutant: the text is given away with the job's id
  IF conn[c].at \in {"answered", "returned"} THEN {conn[c].arg, Garbage} ELSE {conn[c].arg}

\* What a reference to the request text of connection c yields now.
TextSeen(c) == IF conn[c].at = "returned" THEN {conn[c].arg, Garbage} ELSE {conn[c].arg}

\* The job's thread calls execute, which copies the text ...
RunJob(c) ==
  /\ worker[c].at = "start"
  /\ \E x \in TextSeen(c) :
       /\ executed' = [executed EXCEPT ![c] = x]
       /\ worker' = [worker EXCEPT ![c] = [at |-> "ran", ok |-> x \in GoodTexts]]
  /\ UNCHANGED <<conn, reply, jobs, journaled, restarts>>

\* ... and journals a successful statement from the reference, not the copy.
JournalJob(c) ==
  /\ worker[c].at = "ran"
  /\ \/ /\ worker[c].ok
        /\ \E x \in TextSeen(c) : journaled' = [journaled EXCEPT ![c] = x]
     \/ ~worker[c].ok /\ UNCHANGED journaled
  /\ worker' = [worker EXCEPT ![c].at = "journaled"]
  /\ UNCHANGED <<conn, reply, jobs, executed, restarts>>

FinishJob_StatusOnly(c) == \* mutant
  /\ worker[c].at = "journaled"
  /\ jobs' = IF c \in DOMAIN jobs
               THEN [jobs EXCEPT ![c].status = IF worker[c].ok THEN "done" ELSE "error"]
               ELSE jobs
  /\ worker' = [worker EXCEPT ![c].at = "ended"]
  /\ UNCHANGED <<conn, reply, executed, journaled, restarts>>
FinishJob_BeforeJournal(c) == \* mutant
  /\ worker[c].at = "ran"
  /\ jobs' = [jobs EXCEPT ![c] = [status |-> IF worker[c].ok THEN "done" ELSE "error",
                                  ok |-> worker[c].ok]]
  /\ worker' = [worker EXCEPT ![c].at = "ended"]
  /\ UNCHANGED <<conn, reply, executed, journaled, restarts>>
FinishJob_OnlySuccess(c) == \* mutant
  /\ worker[c].at = "journaled" /\ worker[c].ok
  /\ jobs' = [jobs EXCEPT ![c] = [status |-> "done", ok |-> TRUE]]
  /\ worker' = [worker EXCEPT ![c].at = "ended"]
  /\ UNCHANGED <<conn, reply, executed, journaled, restarts>>

\* Status and result change together, under the queue's mutex.
FinishJob(c) ==
  /\ worker[c].at = "journaled"
  /\ jobs' = IF c \in DOMAIN jobs
               THEN [jobs EXCEPT ![c] = [status |-> IF worker[c].ok THEN "done" ELSE "error",
                                         ok |-> worker[c].ok]]
               ELSE jobs
  /\ worker' = [worker EXCEPT ![c].at = "ended"]
  /\ UNCHANGED <<conn, reply, executed, journaled, restarts>>

\* The process dies, by itself or on a dangling reference, and is restarted:
\* the queue is empty, open connections are cut.
Dies ==
  /\ restarts < MaxRestarts
  /\ restarts' = restarts + 1
  /\ conn' = [c \in Conns |-> IF conn[c].at = "free" THEN conn[c]
                              ELSE [conn[c] EXCEPT !.at = "cut"]]
  /\ jobs' = [c \in {} |-> None]
  /\ worker' = [c \in Conns |-> NoWorker]
  /\ UNCHANGED <<reply, executed, journaled>>

Restart == Dies

\* A text that is refused may be so by an exception: an integer literal of more
\* than 64 bits makes std::stoll throw.  A job's thread catches it (RunJob); in a
\* handler's thread nothing does, and the process ends with it.
ThrowSync(c) ==
  /\ conn[c].at = "parsed" /\ conn[c].kind = "sync" /\ conn[c].arg \notin GoodTexts
  /\ Dies

Handler(c) ==
  \/ ThrowSync(c)
  \/ PollJob(c) \/ Submit(c) \/ SendJobId(c)
  \/ ExecuteSync(c) \/ SendResult(c) \/ Return(c)

Worker(c) == RunJob(c) \/ JournalJob(c) \/ FinishJob(c)

JobNext ==
  \/ \E c \in Conns, req \in Requests : Accept(c, req)
  \/ \E c \in Conns : Handler(c) \/ Worker(c)
  \/ Restart

\* Threads that have started keep running; nobody has to connect, and the
\* process does not have to die.
JobSpec ==
  /\ JobInit /\ [][JobNext]_jobVars
  /\ \A c \in Conns : WF_jobVars(Handler(c)) /\ WF_jobVars(Worker(c))

-----------------------------------------------------------------------------
JobRecords == {[status |-> "pending", ok |-> FALSE],
               [status |-> "done",    ok |-> TRUE],
               [status |-> "error",   ok |-> FALSE]}

\* Status and ok of a record always agree, so a POLL never sees half of a
\* result.
JobTypeOK ==
  /\ DOMAIN jobs \subseteq Conns
  /\ \A i \in DOMAIN jobs : jobs[i] \in JobRecords
  /\ \A c \in Conns : /\ conn[c].at \in {"free", "parsed", "submitted", "executed",
                                         "answered", "returned", "cut"}
                      /\ worker[c].at \in {"none", "start", "ran", "journaled", "ended"}
                      /\ executed[c] \in Texts \cup {None, Garbage}
                      /\ journaled[c] \in Texts \cup {None, Garbage}
                      /\ \/ reply[c] \in {RecordOf(j) : j \in JobRecords}
                         \/ reply[c] \in {Line(l) : l \in {None, "job", "ok", "err",
                                                           "unknown job"}}

\* A client that holds a job id can poll it: the record is in the queue before
\* the id is sent, and nothing but the end of the process takes it out.
IssuedIsKnown ==
  \A c \in Conns : reply[c].line = "job" /\ conn[c].at # "cut" => c \in DOMAIN jobs

\* What a POLL has answered about a job was so: "done" only after the job's
\* statement succeeded and its journal record was written, "error" only after
\* it was executed and failed.
PollTellsTruth ==
  \A p \in Conns :
    reply[p].line = "record" =>
      LET i == conn[p].arg IN
      /\ reply[p].status = "done" => executed[i] \in GoodTexts /\ journaled[i] # None
      /\ reply[p].status = "error" => executed[i] \notin GoodTexts \cup {None}

Final(i) == jobs[i].status \in {"done", "error"}

\* Every job in the queue gets its final status, whatever its thread read
\* through the dangling references, unless the process dies first.
JobsEnd == \A i \in Conns :
  i \in DOMAIN jobs ~> (i \notin DOMAIN jobs \/ Final(i))

\* What is executed and journaled for a request is the client's own text, except
\* for a job whose thread reads it only after handle_client has returned.  (Then
\* it may be anything: the thread is detached and holds references to locals of
\* handle_client.)  A request answered with its result is never affected.
OwnTextUnlessLate ==
  \A c \in Conns :
    \/ {executed[c], journaled[c]} \subseteq {None, conn[c].arg}
    \/ /\ conn[c].kind = "async"
       /\ conn[c].at \in {"returned", "cut"}
=============================================================================
