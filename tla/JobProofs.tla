----------------------------- MODULE JobProofs -----------------------------
(***************************************************************************)
(* What JobServer promises, for any connections, texts and number of       *)
(* deaths.  The inductive invariant follows one connection: which of its   *)
(* thread, its job's record and its job's thread exist, and how far each   *)
(* has come; and it says that what a POLL has reported can no longer       *)
(* change.                                                                 *)
(***************************************************************************)
EXTENDS JobServer, TLAPS

Stages == {"free", "parsed", "submitted", "executed", "answered", "returned", "cut"}
Kinds == {"sync", "async", "poll", None}
JobStages == {"none", "start", "ran", "journaled", "ended"}
Lines == {None, "job", "ok", "err", "unknown job"}
Replies == {RecordOf(j) : j \in JobRecords} \cup {Line(l) : l \in Lines}

Shapes ==
  /\ conn \in [Conns -> [at : Stages, kind : Kinds, arg : Texts \cup Conns \cup {None}]]
  /\ reply \in [Conns -> Replies]
  /\ DOMAIN jobs \subseteq Conns
  /\ \A i \in DOMAIN jobs : jobs[i] \in JobRecords
  /\ worker \in [Conns -> [at : JobStages, ok : BOOLEAN]]
  /\ executed \in [Conns -> Texts \cup {None, Garbage}]
  /\ journaled \in [Conns -> Texts \cup {None, Garbage}]

(* Which request is on the connection and what it has led to so far: a job's *)
(* record and its thread come and go together, and outlive only an           *)
(* asynchronous request.                                                     *)
Course(c) ==
  /\ conn[c].at \in {"free", "parsed"} =>
       /\ executed[c] = None /\ journaled[c] = None
       /\ c \notin DOMAIN jobs
       /\ reply[c] = Line(None)
  /\ conn[c].at # "free" =>
       \/ conn[c].kind \in {"sync", "async"} /\ conn[c].arg \in Texts
       \/ conn[c].kind = "poll" /\ conn[c].arg \in Conns
  /\ conn[c].at = "executed" => conn[c].kind = "sync"
  /\ conn[c].at \in {"submitted", "answered"} => c \in DOMAIN jobs
  /\ conn[c].at = "returned" /\ conn[c].kind = "async" => c \in DOMAIN jobs
  /\ c \in DOMAIN jobs =>
       conn[c].kind = "async" /\ conn[c].at \in {"submitted", "answered", "returned"}
  /\ worker[c].at # "none" <=> c \in DOMAIN jobs
  /\ reply[c].line = "job" => conn[c].at \in {"answered", "returned", "cut"} /\ conn[c].kind = "async"
  /\ reply[c].line = "record" => conn[c].at \in {"returned", "cut"} /\ conn[c].kind = "poll"

(* What a final status stands for. *)
Stands(i, status) ==
  /\ status = "done" => executed[i] \in GoodTexts /\ journaled[i] # None
  /\ status = "error" => executed[i] \notin GoodTexts \cup {None}

(* How far a job's thread has come, and what its record says meanwhile. *)
Progress(c) ==
  /\ worker[c].at = "start" => executed[c] = None /\ journaled[c] = None
  /\ worker[c].at = "ran" => journaled[c] = None
  /\ worker[c].at \in {"ran", "journaled"} =>
       executed[c] # None /\ (worker[c].ok <=> executed[c] \in GoodTexts)
  /\ worker[c].at = "journaled" => (worker[c].ok => journaled[c] # None)
  /\ c \in DOMAIN jobs =>
       /\ jobs[c].status # "pending" => worker[c].at = "ended"
       /\ Stands(c, jobs[c].status)

(* The texts read for a request are its own until its locals are gone. *)
OwnText(c) ==
  \/ {executed[c], journaled[c]} \subseteq {None, conn[c].arg}
  \/ conn[c].kind = "async" /\ conn[c].at \in {"returned", "cut"}

(* A final status once reported stands for ever: the job's thread has ended. *)
Settled(i, status) ==
  /\ conn[i].at \notin {"free", "parsed"}
  /\ worker[i].at \in {"none", "ended"}
  /\ Stands(i, status)

PolledStands(p) ==
  reply[p].line = "record" /\ reply[p].status # "pending" => Settled(conn[p].arg, reply[p].status)

JobInv ==
  /\ Shapes
  /\ \A c \in Conns : Course(c) /\ Progress(c) /\ OwnText(c) /\ PolledStands(c)

(* Nothing of connection d moves in the step. *)
Undisturbed(d) ==
  /\ UNCHANGED <<conn[d], reply[d], worker[d], executed[d], journaled[d]>>
  /\ d \in DOMAIN jobs' <=> d \in DOMAIN jobs
  /\ d \in DOMAIN jobs => jobs'[d] = jobs[d]

-----------------------------------------------------------------------------
LEMMA UndisturbedStays ==
  ASSUME NEW d, Undisturbed(d), Course(d), Progress(d), OwnText(d)
  PROVE  Course(d)' /\ Progress(d)' /\ OwnText(d)'
BY DEF Undisturbed, Course, Progress, OwnText, Stands

(* A connection's record after its thread has moved. *)
LEMMA Moving ==
  ASSUME Shapes, NEW c \in Conns, NEW at \in Stages, MoveTo(c, at)
  PROVE  /\ conn' \in [Conns -> [at : Stages, kind : Kinds, arg : Texts \cup Conns \cup {None}]]
         /\ conn'[c].at = at /\ conn'[c].kind = conn[c].kind /\ conn'[c].arg = conn[c].arg
         /\ \A d \in Conns \ {c} : conn'[d] = conn[d]
<1> DEFINE Args == Texts \cup Conns \cup {None}
<1> HIDE DEF Args
<1>1. conn \in [Conns -> [at : Stages, kind : Kinds, arg : Args]]
  BY DEF Shapes, Args
<1>2. conn[c] = [at |-> conn[c].at, kind |-> conn[c].kind, arg |-> conn[c].arg]
      /\ conn[c].kind \in Kinds /\ conn[c].arg \in Args
  BY <1>1
<1>3. [conn[c] EXCEPT !.at = at] = [at |-> at, kind |-> conn[c].kind, arg |-> conn[c].arg]
  BY <1>2
<1>4. conn' = [conn EXCEPT ![c] = [at |-> at, kind |-> conn[c].kind, arg |-> conn[c].arg]]
  BY <1>3 DEF MoveTo
<1>5. [at |-> at, kind |-> conn[c].kind, arg |-> conn[c].arg] \in [at : Stages, kind : Kinds, arg : Args]
  BY <1>2
<1>6. conn' \in [Conns -> [at : Stages, kind : Kinds, arg : Args]]
  BY <1>1, <1>4, <1>5
<1>7. conn'[c] = [at |-> at, kind |-> conn[c].kind, arg |-> conn[c].arg]
      /\ \A d \in Conns \ {c} : conn'[d] = conn[d]
  BY <1>1, <1>4
<1> QED BY <1>6, <1>7 DEF Args

(* The same for a job's thread. *)
LEMMA Working ==
  ASSUME Shapes, NEW c \in Conns, NEW at \in JobStages, worker' = [worker EXCEPT ![c].at = at]
  PROVE  /\ worker' \in [Conns -> [at : JobStages, ok : BOOLEAN]]
         /\ worker'[c].at = at /\ worker'[c].ok = worker[c].ok
         /\ \A d \in Conns \ {c} : worker'[d] = worker[d]
<1>1. worker \in [Conns -> [at : JobStages, ok : BOOLEAN]]
  BY DEF Shapes
<1>2. worker[c] = [at |-> worker[c].at, ok |-> worker[c].ok] /\ worker[c].ok \in BOOLEAN
  BY <1>1
<1>3. [worker[c] EXCEPT !.at = at] = [at |-> at, ok |-> worker[c].ok]
  BY <1>2
<1>4. worker' = [worker EXCEPT ![c] = [at |-> at, ok |-> worker[c].ok]]
  BY <1>3
<1>5. [at |-> at, ok |-> worker[c].ok] \in [at : JobStages, ok : BOOLEAN]
  BY <1>2
<1> QED BY <1>1, <1>4, <1>5

(* Every line that is sent is a reply; a line says only what it says. *)
LEMMA Sending ==
  ASSUME Shapes, NEW c \in Conns, NEW r \in Replies, reply' = [reply EXCEPT ![c] = r]
  PROVE  /\ reply' \in [Conns -> Replies]
         /\ reply'[c] = r
         /\ \A d \in Conns \ {c} : reply'[d] = reply[d]
BY DEF Shapes

LEMMA InvInit == JobAssumption /\ JobInit => JobInv
<1> SUFFICES ASSUME JobAssumption, JobInit PROVE JobInv
  OBVIOUS
<1>1. Line(None) \in Replies
  BY DEF Replies, Lines
<1>2. Shapes
  <2>1. NewConn \in [at : Stages, kind : Kinds, arg : Texts \cup Conns \cup {None}]
    BY DEF NewConn, Stages, Kinds
  <2>2. NoWorker \in [at : JobStages, ok : BOOLEAN]
    BY DEF NoWorker, JobStages
  <2>3. DOMAIN jobs = {}
    BY DEF JobInit
  <2> QED BY <1>1, <2>1, <2>2, <2>3 DEF JobInit, Shapes
<1>3. ASSUME NEW c \in Conns PROVE Course(c) /\ Progress(c) /\ OwnText(c) /\ PolledStands(c)
  <2>1. /\ conn[c].at = "free" /\ worker[c].at = "none" /\ reply[c] = Line(None)
        /\ executed[c] = None /\ journaled[c] = None /\ c \notin DOMAIN jobs
    BY DEF JobInit, NewConn, NoWorker
  <2>2. reply[c].line = None
    BY <2>1 DEF Line
  <2> QED BY <2>1, <2>2 DEF Course, Progress, OwnText, PolledStands, None
<1> QED BY <1>2, <1>3 DEF JobInv

-----------------------------------------------------------------------------
(* One lemma for each action: the shapes, the connection whose turn it is,  *)
(* and all the others.                                                      *)
Here(c) == Course(c) /\ Progress(c) /\ OwnText(c)
OthersRest(c) == \A d \in Conns \ {c} : Undisturbed(d)

LEMMA AcceptStep ==
  ASSUME JobAssumption, JobInv, NEW c \in Conns, NEW req \in Requests, Accept(c, req)
  PROVE  Shapes' /\ Here(c)' /\ OthersRest(c)
<1>0. Shapes /\ Here(c) /\ conn[c].at = "free"
  BY DEF JobInv, Accept, Here
<1> DEFINE r == [at |-> "parsed", kind |-> req.kind, arg |-> req.arg]
<1>1. \/ req.kind \in {"sync", "async"} /\ req.arg \in Texts
      \/ req.kind = "poll" /\ req.arg \in Conns
  BY DEF Requests
<1>2. r \in [at : Stages, kind : Kinds, arg : Texts \cup Conns \cup {None}]
  BY <1>1 DEF Stages, Kinds
<1>3. conn' = [conn EXCEPT ![c] = r]
      /\ UNCHANGED <<reply, jobs, worker, executed, journaled>>
  BY DEF Accept
<1>4. conn'[c].at = "parsed" /\ conn'[c].kind = req.kind /\ conn'[c].arg = req.arg
  BY <1>0, <1>3 DEF Shapes
<1> HIDE DEF r
<1>5. Shapes'
  BY <1>0, <1>2, <1>3 DEF Shapes
<1>6. Here(c)'
  <2>1. executed[c] = None /\ journaled[c] = None /\ c \notin DOMAIN jobs
        /\ reply[c] = Line(None) /\ worker[c].at = "none"
    BY <1>0 DEF Here, Course
  <2>2. reply[c].line = None
    BY <2>1 DEF Line
  <2>3. Course(c)'
    BY <1>1, <1>3, <1>4, <2>1, <2>2 DEF Course, None
  <2>4. Progress(c)' /\ OwnText(c)'
    BY <1>3, <1>4, <2>1 DEF Progress, OwnText
  <2> QED BY <2>3, <2>4 DEF Here
<1>7. OthersRest(c)
  BY <1>0, <1>3 DEF OthersRest, Undisturbed, Shapes
<1> QED BY <1>5, <1>6, <1>7

LEMMA PollStep ==
  ASSUME JobAssumption, JobInv, NEW c \in Conns, PollJob(c)
  PROVE  /\ Shapes' /\ Here(c)' /\ OthersRest(c)
         /\ reply'[c].line = "record" =>
              conn[c].arg \in DOMAIN jobs /\ reply'[c] = RecordOf(jobs[conn[c].arg])
<1> DEFINE id == conn[c].arg
           r == IF id \in DOMAIN jobs THEN RecordOf(jobs[id]) ELSE Line("unknown job")
<1>0. Shapes /\ Here(c) /\ conn[c].at = "parsed" /\ conn[c].kind = "poll"
  BY DEF JobInv, PollJob, Here
<1>1. r \in Replies /\ (r.line = "record" => id \in DOMAIN jobs) /\ r.line \in {"record", "unknown job"}
  <2>1. CASE id \in DOMAIN jobs
    BY <1>0, <2>1 DEF Shapes, Replies, RecordOf
  <2>2. CASE id \notin DOMAIN jobs
    BY <2>2 DEF Replies, Lines, Line
  <2> QED BY <2>1, <2>2
<1>2. reply' = [reply EXCEPT ![c] = r] /\ MoveTo(c, "returned")
      /\ UNCHANGED <<jobs, worker, executed, journaled>>
  BY DEF PollJob
<1>3. /\ conn' \in [Conns -> [at : Stages, kind : Kinds, arg : Texts \cup Conns \cup {None}]]
      /\ conn'[c].at = "returned" /\ conn'[c].kind = "poll" /\ conn'[c].arg = id
      /\ \A d \in Conns \ {c} : conn'[d] = conn[d]
  BY <1>0, <1>2, Moving DEF Stages
<1> HIDE DEF r
<1>4. reply' \in [Conns -> Replies] /\ reply'[c] = r
      /\ \A d \in Conns \ {c} : reply'[d] = reply[d]
  BY <1>0, <1>1, <1>2, Sending
<1>5. Shapes'
  BY <1>0, <1>2, <1>3, <1>4 DEF Shapes
<1>6. Here(c)'
  <2>1. executed[c] = None /\ journaled[c] = None /\ c \notin DOMAIN jobs /\ worker[c].at = "none"
        /\ conn[c].arg \in Conns
    BY <1>0 DEF Here, Course
  <2>2. Course(c)'
    BY <1>1, <1>2, <1>3, <1>4, <2>1 DEF Course
  <2>3. Progress(c)' /\ OwnText(c)'
    BY <1>2, <1>3, <2>1 DEF Progress, OwnText
  <2> QED BY <2>2, <2>3 DEF Here
<1>7. OthersRest(c)
  BY <1>2, <1>3, <1>4 DEF OthersRest, Undisturbed
<1> QED BY <1>1, <1>4, <1>5, <1>6, <1>7 DEF r

LEMMA SubmitStep ==
  ASSUME JobAssumption, JobInv, NEW c \in Conns, Submit(c)
  PROVE  Shapes' /\ Here(c)' /\ OthersRest(c)
<1> DEFINE new == [status |-> "pending", ok |-> FALSE]
<1>0. Shapes /\ Here(c) /\ conn[c].at = "parsed" /\ conn[c].kind = "async"
  BY DEF JobInv, Submit, Here
<1>1. /\ jobs' = [i \in DOMAIN jobs \cup {c} |-> IF i = c THEN new ELSE jobs[i]]
      /\ worker' = [worker EXCEPT ![c].at = "start"] /\ MoveTo(c, "submitted")
      /\ UNCHANGED <<reply, executed, journaled>>
  BY DEF Submit
<1>2. /\ conn' \in [Conns -> [at : Stages, kind : Kinds, arg : Texts \cup Conns \cup {None}]]
      /\ conn'[c].at = "submitted" /\ conn'[c].kind = "async" /\ conn'[c].arg = conn[c].arg
      /\ \A d \in Conns \ {c} : conn'[d] = conn[d]
  BY <1>0, <1>1, Moving DEF Stages
<1>3. /\ worker' \in [Conns -> [at : JobStages, ok : BOOLEAN]] /\ worker'[c].at = "start"
      /\ \A d \in Conns \ {c} : worker'[d] = worker[d]
  BY <1>0, <1>1, Working DEF JobStages
<1>4. /\ DOMAIN jobs' = DOMAIN jobs \cup {c} /\ jobs'[c] = new
      /\ \A d \in DOMAIN jobs \ {c} : jobs'[d] = jobs[d]
  BY <1>1
<1>5. new \in JobRecords /\ new.status = "pending"
  BY DEF JobRecords
<1> HIDE DEF new
<1>6. Shapes'
  <2>1. \A i \in DOMAIN jobs' : jobs'[i] \in JobRecords
    BY <1>0, <1>4, <1>5 DEF Shapes
  <2>2. DOMAIN jobs' \subseteq Conns
    BY <1>0, <1>4 DEF Shapes
  <2> QED BY <1>0, <1>1, <1>2, <1>3, <2>1, <2>2 DEF Shapes
<1>7. Here(c)'
  <2>1. executed[c] = None /\ journaled[c] = None /\ reply[c] = Line(None) /\ conn[c].arg \in Texts
    BY <1>0 DEF Here, Course
  <2>2. reply[c].line = None
    BY <2>1 DEF Line
  <2>3. Course(c)'
    BY <1>1, <1>2, <1>3, <1>4, <2>1, <2>2 DEF Course, None
  <2>4. Progress(c)'
    BY <1>1, <1>3, <1>4, <1>5, <2>1 DEF Progress, Stands
  <2>5. OwnText(c)'
    BY <1>1, <2>1 DEF OwnText
  <2> QED BY <2>3, <2>4, <2>5 DEF Here
<1>8. OthersRest(c)
  BY <1>1, <1>2, <1>3, <1>4 DEF OthersRest, Undisturbed
<1> QED BY <1>6, <1>7, <1>8

LEMMA SendStep ==
  ASSUME JobAssumption, JobInv, NEW c \in Conns, SendJobId(c) \/ SendResult(c) \/ Return(c)
  PROVE  Shapes' /\ Here(c)' /\ OthersRest(c)
<1>0. Shapes /\ Here(c) /\ JobInv
  BY DEF JobInv, Here
<1>1. PICK at \in Stages :
        /\ MoveTo(c, at)
        /\ \/ conn[c].at = "submitted" /\ at = "answered"
           \/ conn[c].at = "executed" /\ at = "returned"
           \/ conn[c].at = "answered" /\ at = "returned"
  BY DEF SendJobId, SendResult, Return, Stages
<1>2. PICK r \in Replies :
        /\ reply' = [reply EXCEPT ![c] = r]
        /\ \/ r.line = "job" /\ conn[c].at = "submitted"
           \/ r.line \in {"ok", "err"} /\ conn[c].at = "executed"
           \/ r = reply[c] /\ conn[c].at = "answered"
  <2>1. CASE SendJobId(c)
    <3>1. Line("job") \in Replies /\ Line("job").line = "job"
      BY DEF Line, Replies, Lines
    <3> QED BY <2>1, <3>1 DEF SendJobId
  <2>2. CASE SendResult(c)
    <3>1. ASSUME NEW l \in {"ok", "err"} PROVE Line(l) \in Replies /\ Line(l).line = l
      BY DEF Line, Replies, Lines
    <3> QED BY <2>2, <3>1 DEF SendResult
  <2>3. CASE Return(c)
    <3>1. reply' = [reply EXCEPT ![c] = reply[c]] /\ reply[c] \in Replies
      BY <1>0, <2>3 DEF Return, Shapes
    <3> QED BY <2>3, <3>1 DEF Return
  <2> QED BY <2>1, <2>2, <2>3
<1>3. UNCHANGED <<jobs, worker, executed, journaled>>
  BY DEF SendJobId, SendResult, Return
<1>4. /\ conn' \in [Conns -> [at : Stages, kind : Kinds, arg : Texts \cup Conns \cup {None}]]
      /\ conn'[c].at = at /\ conn'[c].kind = conn[c].kind /\ conn'[c].arg = conn[c].arg
      /\ \A d \in Conns \ {c} : conn'[d] = conn[d]
  BY <1>0, <1>1, Moving
<1>5. reply' \in [Conns -> Replies] /\ reply'[c] = r
      /\ \A d \in Conns \ {c} : reply'[d] = reply[d]
  BY <1>0, <1>2, Sending
<1>6. Shapes'
  BY <1>0, <1>3, <1>4, <1>5 DEF Shapes
<1>7. Here(c)'
  <2>1. Course(c) /\ Progress(c) /\ OwnText(c)
    BY <1>0 DEF Here
  <2>2. Course(c)'
    BY <1>1, <1>2, <1>3, <1>4, <1>5, <2>1 DEF Course
  <2>3. Progress(c)'
    BY <1>3, <2>1 DEF Progress, Stands
  <2>4. OwnText(c)'
    BY <1>1, <1>3, <1>4, <2>1 DEF OwnText
  <2> QED BY <2>2, <2>3, <2>4 DEF Here
<1>8. OthersRest(c)
  BY <1>3, <1>4, <1>5 DEF OthersRest, Undisturbed
<1> QED BY <1>6, <1>7, <1>8

LEMMA ExecuteStep ==
  ASSUME JobAssumption, JobInv, NEW c \in Conns, ExecuteSync(c)
  PROVE  Shapes' /\ Here(c)' /\ OthersRest(c)
<1>0. Shapes /\ Here(c) /\ conn[c].at = "parsed" /\ conn[c].kind = "sync"
  BY DEF JobInv, ExecuteSync, Here
<1>1. /\ executed' = [executed EXCEPT ![c] = conn[c].arg] /\ MoveTo(c, "executed")
      /\ UNCHANGED <<reply, jobs, worker>>
  BY DEF ExecuteSync
<1>2. PICK x \in {conn[c].arg, journaled[c]} : journaled' = [journaled EXCEPT ![c] = x]
  <2>1. journaled = [journaled EXCEPT ![c] = journaled[c]]
    BY <1>0 DEF Shapes
  <2> QED BY <2>1 DEF ExecuteSync
<1>3. /\ conn' \in [Conns -> [at : Stages, kind : Kinds, arg : Texts \cup Conns \cup {None}]]
      /\ conn'[c].at = "executed" /\ conn'[c].kind = "sync" /\ conn'[c].arg = conn[c].arg
      /\ \A d \in Conns \ {c} : conn'[d] = conn[d]
  BY <1>0, <1>1, Moving DEF Stages
<1>4. /\ conn[c].arg \in Texts /\ journaled[c] = None /\ c \notin DOMAIN jobs
      /\ worker[c].at = "none" /\ reply[c] = Line(None) /\ reply[c].line = None
  BY <1>0 DEF Here, Course, Line
<1>5. /\ executed'[c] = conn[c].arg /\ journaled'[c] \in {None, conn[c].arg}
      /\ \A d \in Conns \ {c} : executed'[d] = executed[d] /\ journaled'[d] = journaled[d]
  BY <1>0, <1>1, <1>2, <1>4 DEF Shapes
<1>6. Shapes'
  <2>1. executed' \in [Conns -> Texts \cup {None, Garbage}]
    BY <1>0, <1>1, <1>4 DEF Shapes
  <2>2. journaled' \in [Conns -> Texts \cup {None, Garbage}]
    BY <1>0, <1>2, <1>4 DEF Shapes
  <2> QED BY <1>0, <1>1, <1>3, <2>1, <2>2 DEF Shapes
<1>7. Here(c)'
  <2>1. Course(c)'
    BY <1>1, <1>3, <1>4 DEF Course, None
  <2>2. Progress(c)' /\ OwnText(c)'
    BY <1>1, <1>3, <1>4, <1>5 DEF Progress, OwnText
  <2> QED BY <2>1, <2>2 DEF Here
<1>8. OthersRest(c)
  BY <1>1, <1>3, <1>5 DEF OthersRest, Undisturbed
<1> QED BY <1>6, <1>7, <1>8

(* What a job's thread reads through its reference. *)
LEMMA Reading ==
  ASSUME JobAssumption, JobInv, NEW c \in Conns, c \in DOMAIN jobs, NEW x \in TextSeen(c)
  PROVE  /\ x \in Texts \cup {Garbage} /\ x # None
         /\ x = conn[c].arg \/ conn[c].at = "returned"
<1>1. conn[c].kind = "async" /\ conn[c].at # "free" /\ conn[c].arg \in Texts
  BY DEF JobInv, Course
<1>2. x = conn[c].arg \/ (x = Garbage /\ conn[c].at = "returned")
  BY DEF TextSeen
<1> QED BY <1>1, <1>2 DEF JobAssumption

LEMMA RunStep ==
  ASSUME JobAssumption, JobInv, NEW c \in Conns, RunJob(c)
  PROVE  Shapes' /\ Here(c)' /\ OthersRest(c)
<1>0. Shapes /\ Here(c) /\ worker[c].at = "start" /\ c \in DOMAIN jobs /\ conn[c].kind = "async"
  BY DEF JobInv, RunJob, Course, Here
<1>1. PICK x \in TextSeen(c) :
        /\ executed' = [executed EXCEPT ![c] = x]
        /\ worker' = [worker EXCEPT ![c] = [at |-> "ran", ok |-> x \in GoodTexts]]
  BY DEF RunJob
<1>2. UNCHANGED <<conn, reply, jobs, journaled>>
  BY DEF RunJob
<1>3. x \in Texts \cup {Garbage} /\ x # None /\ (x = conn[c].arg \/ conn[c].at = "returned")
  BY <1>0, Reading
<1>4. executed' \in [Conns -> Texts \cup {None, Garbage}] /\ executed'[c] = x
      /\ \A d \in Conns \ {c} : executed'[d] = executed[d]
  BY <1>0, <1>1, <1>3 DEF Shapes
<1> DEFINE w == [at |-> "ran", ok |-> x \in GoodTexts]
<1>5. w \in [at : JobStages, ok : BOOLEAN] /\ w.at = "ran" /\ (w.ok <=> x \in GoodTexts)
  <2>1. CASE x \in GoodTexts
    <3>1. w = [at |-> "ran", ok |-> TRUE]
      BY <2>1
    <3> QED BY <2>1, <3>1 DEF JobStages
  <2>2. CASE x \notin GoodTexts
    <3>1. (x \in GoodTexts) = FALSE
      BY <2>2
    <3>2. w = [at |-> "ran", ok |-> FALSE]
      BY <3>1
    <3> QED BY <2>2, <3>2 DEF JobStages
  <2> QED BY <2>1, <2>2
<1> HIDE DEF w
<1>6. worker' = [worker EXCEPT ![c] = w]
  BY <1>1 DEF w
<1>7. /\ worker' \in [Conns -> [at : JobStages, ok : BOOLEAN]] /\ worker'[c] = w
      /\ \A d \in Conns \ {c} : worker'[d] = worker[d]
  BY <1>0, <1>5, <1>6 DEF Shapes
<1>8. Shapes'
  BY <1>0, <1>2, <1>4, <1>7 DEF Shapes
<1>9. Here(c)'
  <2>1. /\ Course(c) /\ Progress(c) /\ OwnText(c) /\ journaled[c] = None
        /\ jobs[c].status = "pending"
    BY <1>0 DEF Here, Progress
  <2>2. Course(c)'
    BY <1>0, <1>2, <1>5, <1>7, <2>1 DEF Course
  <2>3. Progress(c)'
    BY <1>2, <1>3, <1>4, <1>5, <1>7, <2>1 DEF Progress, Stands
  <2>4. OwnText(c)'
    BY <1>0, <1>2, <1>3, <1>4, <2>1 DEF OwnText
  <2> QED BY <2>2, <2>3, <2>4 DEF Here
<1>10. OthersRest(c)
  BY <1>2, <1>4, <1>7 DEF OthersRest, Undisturbed
<1> QED BY <1>8, <1>9, <1>10

LEMMA JournalStep ==
  ASSUME JobAssumption, JobInv, NEW c \in Conns, JournalJob(c)
  PROVE  Shapes' /\ Here(c)' /\ OthersRest(c)
<1>0. Shapes /\ Here(c) /\ worker[c].at = "ran" /\ c \in DOMAIN jobs /\ conn[c].kind = "async"
  BY DEF JobInv, JournalJob, Course, Here
<1>1. journaled[c] = None
  BY <1>0 DEF Here, Progress
<1>2. PICK x : /\ journaled' = [journaled EXCEPT ![c] = x]
               /\ worker[c].ok => x \in TextSeen(c)
               /\ ~ worker[c].ok => x = None
  <2>1. journaled = [journaled EXCEPT ![c] = None]
    BY <1>0, <1>1 DEF Shapes
  <2> QED BY <2>1 DEF JournalJob
<1>3. worker' = [worker EXCEPT ![c].at = "journaled"] /\ UNCHANGED <<conn, reply, jobs, executed>>
  BY DEF JournalJob
<1>4. /\ x \in Texts \cup {None, Garbage}
      /\ worker[c].ok => x # None
      /\ x \in {None, conn[c].arg} \/ conn[c].at = "returned"
  <2>1. CASE worker[c].ok
    BY <1>0, <1>2, <2>1, Reading
  <2>2. CASE ~ worker[c].ok
    BY <1>2, <2>2
  <2> QED BY <2>1, <2>2
<1>5. journaled' \in [Conns -> Texts \cup {None, Garbage}] /\ journaled'[c] = x
      /\ \A d \in Conns \ {c} : journaled'[d] = journaled[d]
  BY <1>0, <1>2, <1>4 DEF Shapes
<1>6. /\ worker' \in [Conns -> [at : JobStages, ok : BOOLEAN]]
      /\ worker'[c].at = "journaled" /\ worker'[c].ok = worker[c].ok
      /\ \A d \in Conns \ {c} : worker'[d] = worker[d]
  BY <1>0, <1>3, Working DEF JobStages
<1>7. Shapes'
  BY <1>0, <1>3, <1>5, <1>6 DEF Shapes
<1>8. Here(c)'
  <2>1. Course(c) /\ Progress(c) /\ OwnText(c) /\ jobs[c].status = "pending"
    BY <1>0 DEF Here, Progress
  <2>2. Course(c)'
    BY <1>0, <1>3, <1>6, <2>1 DEF Course
  <2>3. Progress(c)'
    BY <1>0, <1>3, <1>4, <1>5, <1>6, <2>1 DEF Progress, Stands
  <2>4. OwnText(c)'
    BY <1>0, <1>3, <1>4, <1>5, <2>1 DEF OwnText
  <2> QED BY <2>2, <2>3, <2>4 DEF Here
<1>9. OthersRest(c)
  BY <1>3, <1>5, <1>6 DEF OthersRest, Undisturbed
<1> QED BY <1>7, <1>8, <1>9

LEMMA FinishStep ==
  ASSUME JobAssumption, JobInv, NEW c \in Conns, FinishJob(c)
  PROVE  Shapes' /\ Here(c)' /\ OthersRest(c)
<1> DEFINE j == [status |-> IF worker[c].ok THEN "done" ELSE "error", ok |-> worker[c].ok]
<1>0. Shapes /\ Here(c) /\ worker[c].at = "journaled" /\ c \in DOMAIN jobs
  BY DEF JobInv, FinishJob, Course, Here
<1>1. /\ jobs' = [jobs EXCEPT ![c] = j] /\ worker' = [worker EXCEPT ![c].at = "ended"]
      /\ UNCHANGED <<conn, reply, executed, journaled>>
  BY <1>0 DEF FinishJob
<1>2. /\ worker' \in [Conns -> [at : JobStages, ok : BOOLEAN]]
      /\ worker'[c].at = "ended"
      /\ \A d \in Conns \ {c} : worker'[d] = worker[d]
  BY <1>0, <1>1, Working DEF JobStages
<1>3. worker[c].ok \in BOOLEAN
  BY <1>0 DEF Shapes
<1>4. j \in JobRecords /\ j.status = (IF worker[c].ok THEN "done" ELSE "error")
  <2>1. CASE worker[c].ok
    BY <1>3, <2>1 DEF JobRecords
  <2>2. CASE ~ worker[c].ok
    BY <1>3, <2>2 DEF JobRecords
  <2> QED BY <2>1, <2>2
<1> HIDE DEF j
<1>5. /\ DOMAIN jobs' = DOMAIN jobs /\ jobs'[c] = j
      /\ \A d \in DOMAIN jobs \ {c} : jobs'[d] = jobs[d]
  BY <1>0, <1>1
<1>6. Shapes'
  <2>1. \A i \in DOMAIN jobs' : jobs'[i] \in JobRecords
    BY <1>0, <1>4, <1>5 DEF Shapes
  <2> QED BY <1>0, <1>1, <1>2, <1>5, <2>1 DEF Shapes
<1>7. Here(c)'
  <2>1. /\ Course(c) /\ OwnText(c) /\ executed[c] # None
        /\ (worker[c].ok <=> executed[c] \in GoodTexts) /\ (worker[c].ok => journaled[c] # None)
    BY <1>0 DEF Here, Progress
  <2>2. Course(c)'
    BY <1>0, <1>1, <1>2, <1>5, <2>1 DEF Course
  <2>3. Stands(c, j.status)
    BY <1>4, <2>1 DEF Stands
  <2>4. Progress(c)'
    BY <1>1, <1>2, <1>5, <2>3 DEF Progress, Stands
  <2>5. OwnText(c)'
    BY <1>1, <2>1 DEF OwnText
  <2> QED BY <2>2, <2>4, <2>5 DEF Here
<1>8. OthersRest(c)
  BY <1>1, <1>2, <1>5 DEF OthersRest, Undisturbed
<1> QED BY <1>6, <1>7, <1>8

(* The death of the process cuts every open connection and ends every job. *)
LEMMA DeathStep ==
  ASSUME JobAssumption, JobInv, Dies
  PROVE  /\ Shapes' /\ \A c \in Conns : Here(c)'
         /\ \A c \in Conns : /\ conn'[c].at = (IF conn[c].at = "free" THEN "free" ELSE "cut")
                             /\ conn'[c].arg = conn[c].arg
                             /\ worker'[c].at = "none"
<1>0. Shapes
  BY DEF JobInv
<1>1. /\ conn' = [c \in Conns |-> IF conn[c].at = "free" THEN conn[c] ELSE [conn[c] EXCEPT !.at = "cut"]]
      /\ DOMAIN jobs' = {}
      /\ worker' = [c \in Conns |-> NoWorker]
      /\ UNCHANGED <<reply, executed, journaled>>
  BY DEF Dies
<1> DEFINE Args == Texts \cup Conns \cup {None}
<1> HIDE DEF Args
<1>2. ASSUME NEW c \in Conns
      PROVE  /\ conn'[c] \in [at : Stages, kind : Kinds, arg : Args]
             /\ conn'[c].at = (IF conn[c].at = "free" THEN "free" ELSE "cut")
             /\ conn'[c].kind = conn[c].kind /\ conn'[c].arg = conn[c].arg
  <2>1. conn[c] \in [at : Stages, kind : Kinds, arg : Args]
    BY <1>0 DEF Shapes, Args
  <2>2. CASE conn[c].at = "free"
    BY <1>1, <2>1, <2>2
  <2>3. CASE conn[c].at # "free"
    <3>1. conn'[c] = [conn[c] EXCEPT !.at = "cut"]
      BY <1>1, <2>3
    <3>2. "cut" \in Stages
      BY DEF Stages
    <3> QED BY <2>1, <2>3, <3>1, <3>2
  <2> QED BY <2>2, <2>3
<1>3. NoWorker \in [at : JobStages, ok : BOOLEAN] /\ NoWorker.at = "none"
  BY DEF NoWorker, JobStages
<1>4. Shapes'
  <2>1. conn' \in [Conns -> [at : Stages, kind : Kinds, arg : Args]]
    BY <1>1, <1>2
  <2>2. worker' \in [Conns -> [at : JobStages, ok : BOOLEAN]]
    BY <1>1, <1>3
  <2> QED BY <1>0, <1>1, <2>1, <2>2 DEF Shapes, Args
<1>5. ASSUME NEW c \in Conns PROVE Here(c)'
  <2>1. Course(c) /\ Progress(c) /\ OwnText(c)
    BY DEF JobInv
  <2>2. worker'[c].at = "none"
    BY <1>1, <1>3
  <2>3. Course(c)'
    BY <1>1, <1>2, <2>1, <2>2 DEF Course
  <2>4. Progress(c)'
    BY <1>1, <2>2 DEF Progress
  <2>5. OwnText(c)'
    BY <1>1, <1>2, <2>1 DEF OwnText
  <2> QED BY <2>3, <2>4, <2>5 DEF Here
<1> QED BY <1>1, <1>2, <1>3, <1>4, <1>5

-----------------------------------------------------------------------------
(* Whichever connection moves, its own story and the others' go on.         *)
LEMMA StoriesStep ==
  ASSUME JobAssumption, JobInv, [JobNext]_jobVars
  PROVE  Shapes' /\ \A d \in Conns : Here(d)'
<1>1. ASSUME NEW c \in Conns, Shapes', Here(c)', OthersRest(c)
      PROVE  Shapes' /\ \A d \in Conns : Here(d)'
  <2>1. ASSUME NEW d \in Conns, d # c PROVE Here(d)'
    <3>1. Undisturbed(d) /\ Course(d) /\ Progress(d) /\ OwnText(d)
      BY <1>1, <2>1 DEF OthersRest, JobInv
    <3> QED BY <3>1, UndisturbedStays DEF Here
  <2> QED BY <1>1, <2>1
<1>2. ASSUME NEW c \in Conns, NEW req \in Requests, Accept(c, req)
      PROVE  Shapes' /\ \A d \in Conns : Here(d)'
  BY <1>1, <1>2, AcceptStep
<1>3. ASSUME NEW c \in Conns, PollJob(c)
      PROVE  Shapes' /\ \A d \in Conns : Here(d)'
  BY <1>1, <1>3, PollStep
<1>4. ASSUME NEW c \in Conns, Submit(c)
      PROVE  Shapes' /\ \A d \in Conns : Here(d)'
  BY <1>1, <1>4, SubmitStep
<1>5. ASSUME NEW c \in Conns, SendJobId(c) \/ SendResult(c) \/ Return(c)
      PROVE  Shapes' /\ \A d \in Conns : Here(d)'
  BY <1>1, <1>5, SendStep
<1>6. ASSUME NEW c \in Conns, ExecuteSync(c)
      PROVE  Shapes' /\ \A d \in Conns : Here(d)'
  BY <1>1, <1>6, ExecuteStep
<1>7. ASSUME NEW c \in Conns, Worker(c)
      PROVE  Shapes' /\ \A d \in Conns : Here(d)'
  BY <1>1, <1>7, RunStep, JournalStep, FinishStep DEF Worker
<1>8. CASE Dies
  BY <1>8, DeathStep
<1>9. CASE UNCHANGED jobVars
  <2>1. Shapes' BY <1>9 DEF JobInv, Shapes, jobVars
  <2>2. ASSUME NEW d \in Conns PROVE Here(d)'
    <3>1. Undisturbed(d) /\ Course(d) /\ Progress(d) /\ OwnText(d)
      BY <1>9 DEF jobVars, Undisturbed, JobInv
    <3> QED BY <3>1, UndisturbedStays DEF Here
  <2> QED BY <2>1, <2>2
<1> QED BY <1>2, <1>3, <1>4, <1>5, <1>6, <1>7, <1>8, <1>9
        DEF JobNext, Handler, ThrowSync, Restart

(* What a POLL has reported does not change any more.                        *)
LEMMA SettledStays ==
  ASSUME JobAssumption, JobInv, [JobNext]_jobVars,
         NEW i \in Conns, NEW status, Settled(i, status)
  PROVE  Settled(i, status)'
<1>0. Shapes /\ conn[i].at \notin {"free", "parsed"} /\ worker[i].at \in {"none", "ended"}
      /\ Stands(i, status)
  BY DEF JobInv, Settled
<1>1. CASE Undisturbed(i)
  BY <1>0, <1>1 DEF Undisturbed, Settled, Stands
<1>2. ASSUME NEW c \in Conns, c # i, OthersRest(c) PROVE Settled(i, status)'
  BY <1>1, <1>2 DEF OthersRest
<1>3. ASSUME NEW c \in Conns, SendJobId(c) \/ SendResult(c) \/ Return(c)
      PROVE  Settled(i, status)'
  <2>1. CASE c = i
    <3>1. PICK at \in Stages : MoveTo(c, at) /\ at \in {"answered", "returned"}
      BY <1>3 DEF SendJobId, SendResult, Return, Stages
    <3>2. conn'[i].at = at
      BY <1>0, <2>1, <3>1, Moving
    <3> QED BY <1>0, <1>3, <3>1, <3>2 DEF SendJobId, SendResult, Return, Settled, Stands
  <2> QED BY <1>2, <1>3, <2>1, SendStep
<1>4. ASSUME NEW c \in Conns, NEW req \in Requests, Accept(c, req) PROVE Settled(i, status)'
  <2>1. c # i BY <1>0, <1>4 DEF Accept
  <2> QED BY <1>2, <1>4, <2>1, AcceptStep
<1>5. ASSUME NEW c \in Conns, PollJob(c) PROVE Settled(i, status)'
  <2>1. c # i BY <1>0, <1>5 DEF PollJob
  <2> QED BY <1>2, <1>5, <2>1, PollStep
<1>6. ASSUME NEW c \in Conns, Submit(c) PROVE Settled(i, status)'
  <2>1. c # i BY <1>0, <1>6 DEF Submit
  <2> QED BY <1>2, <1>6, <2>1, SubmitStep
<1>7. ASSUME NEW c \in Conns, ExecuteSync(c) PROVE Settled(i, status)'
  <2>1. c # i BY <1>0, <1>7 DEF ExecuteSync
  <2> QED BY <1>2, <1>7, <2>1, ExecuteStep
<1>8. ASSUME NEW c \in Conns, Worker(c) PROVE Settled(i, status)'
  <2>1. c # i BY <1>0, <1>8 DEF Worker, RunJob, JournalJob, FinishJob
  <2> QED BY <1>2, <1>8, <2>1, RunStep, JournalStep, FinishStep DEF Worker
<1>9. CASE Dies
  <2>1. conn'[i].at = "cut" /\ worker'[i].at = "none"
    BY <1>0, <1>9, DeathStep
  <2> QED BY <1>0, <1>9, <2>1 DEF Dies, Settled, Stands
<1>10. CASE UNCHANGED jobVars
  BY <1>1, <1>10 DEF jobVars, Undisturbed
<1> QED BY <1>3, <1>4, <1>5, <1>6, <1>7, <1>8, <1>9, <1>10
        DEF JobNext, Handler, ThrowSync, Restart

(* A connection that has a job's record keeps it, and the question it asked. *)
LEMMA RecordKept ==
  ASSUME JobAssumption, JobInv, [JobNext]_jobVars,
         NEW p \in Conns, reply'[p].line = "record", ~ PollJob(p)
  PROVE  reply'[p] = reply[p] /\ conn'[p].arg = conn[p].arg
<1>0. Shapes /\ Course(p)
  BY DEF JobInv
<1>1. CASE Undisturbed(p)
  BY <1>1 DEF Undisturbed
<1>2. ASSUME NEW c \in Conns, c # p, OthersRest(c)
      PROVE  reply'[p] = reply[p] /\ conn'[p].arg = conn[p].arg
  BY <1>1, <1>2 DEF OthersRest
<1>3. ASSUME NEW c \in Conns, NEW req \in Requests, Accept(c, req)
      PROVE  reply'[p] = reply[p] /\ conn'[p].arg = conn[p].arg
  <2>1. CASE c = p
    <3>1. reply'[p].line = None
      BY <1>0, <1>3, <2>1 DEF Accept, Course, Line
    <3> QED BY <3>1 DEF None
  <2> QED BY <1>2, <1>3, <2>1, AcceptStep
<1>4. ASSUME NEW c \in Conns, PollJob(c)
      PROVE  reply'[p] = reply[p] /\ conn'[p].arg = conn[p].arg
  BY <1>2, <1>4, PollStep
<1>5. ASSUME NEW c \in Conns, SendJobId(c) \/ SendResult(c)
      PROVE  reply'[p] = reply[p] /\ conn'[p].arg = conn[p].arg
  <2>1. CASE c = p
    <3>1. PICK l \in {"job", "ok", "err"} : reply'[p] = Line(l)
      BY <1>0, <1>5, <2>1 DEF SendJobId, SendResult, Shapes
    <3> QED BY <3>1 DEF Line
  <2> QED BY <1>2, <1>5, <2>1, SendStep
<1>6. ASSUME NEW c \in Conns, Return(c) \/ Submit(c) \/ ExecuteSync(c)
      PROVE  reply'[p] = reply[p] /\ conn'[p].arg = conn[p].arg
  <2>1. reply' = reply
    BY <1>6 DEF Return, Submit, ExecuteSync
  <2>2. PICK at \in Stages : MoveTo(c, at)
    BY <1>6 DEF Return, Submit, ExecuteSync, Stages
  <2> QED BY <1>0, <2>1, <2>2, Moving
<1>7. ASSUME NEW c \in Conns, Worker(c)
      PROVE  reply'[p] = reply[p] /\ conn'[p].arg = conn[p].arg
  BY <1>7 DEF Worker, RunJob, JournalJob, FinishJob
<1>8. CASE Dies
  BY <1>8, DeathStep DEF Dies
<1>9. CASE UNCHANGED jobVars
  BY <1>9 DEF jobVars
<1> QED BY <1>3, <1>4, <1>5, <1>6, <1>7, <1>8, <1>9 DEF JobNext, Handler, ThrowSync, Restart

LEMMA PolledStep ==
  ASSUME JobAssumption, JobInv, [JobNext]_jobVars, NEW p \in Conns
  PROVE  PolledStands(p)'
<1> SUFFICES ASSUME NEW i, NEW status, i = conn'[p].arg, status = reply'[p].status,
                    reply'[p].line = "record", status # "pending"
             PROVE  Settled(i, status)'
  BY DEF PolledStands, Settled, Stands
<1>1. CASE PollJob(p)
  <2>1. /\ conn[p].arg \in DOMAIN jobs /\ reply'[p] = RecordOf(jobs[conn[p].arg])
        /\ OthersRest(p)
    BY <1>1, PollStep
  <2>2. i = conn[p].arg
    BY <1>1, Moving DEF PollJob, JobInv, Stages
  <2>3. status = jobs[i].status /\ i \in DOMAIN jobs
    BY <2>1, <2>2 DEF RecordOf
  <2>4. i \in Conns /\ p # i
    BY <1>1, <2>3 DEF JobInv, Shapes, Course, PollJob
  <2>5. Undisturbed(i)
    BY <2>1, <2>4 DEF OthersRest
  <2>6. /\ worker[i].at = "ended" /\ Stands(i, status)
        /\ conn[i].at \in {"submitted", "answered", "returned"}
    BY <2>3, <2>4 DEF JobInv, Progress, Course
  <2> QED BY <2>5, <2>6 DEF Settled, Stands, Undisturbed
<1>2. CASE ~ PollJob(p)
  <2>1. reply'[p] = reply[p] /\ conn'[p].arg = conn[p].arg
    BY <1>2, RecordKept
  <2>2. i \in Conns /\ Settled(i, status)
    BY <2>1 DEF JobInv, PolledStands, Course
  <2> QED BY <2>2, SettledStays
<1> QED BY <1>1, <1>2

LEMMA InvStep == JobAssumption /\ JobInv /\ [JobNext]_jobVars => JobInv'
BY StoriesStep, PolledStep DEF JobInv, Here

LEMMA Invariant == JobSpec => []JobInv
<1>1. JobInit => JobInv
  BY InvInit, JobAssumption
<1>2. JobInv /\ [JobNext]_jobVars => JobInv'
  BY InvStep, JobAssumption
<1> QED BY <1>1, <1>2, PTL DEF JobSpec

-----------------------------------------------------------------------------
(* A record's status and result always agree, so a POLL never sees half of a *)
(* result, and every variable keeps its type.                                *)
THEOREM Typing == JobSpec => []JobTypeOK
<1>1. JobInv => JobTypeOK
  <2> SUFFICES ASSUME JobInv PROVE JobTypeOK
    OBVIOUS
  <2>1. Shapes
    BY DEF JobInv
  <2>2. ASSUME NEW c \in Conns
        PROVE  /\ conn[c].at \in Stages /\ worker[c].at \in JobStages
               /\ executed[c] \in Texts \cup {None, Garbage}
               /\ journaled[c] \in Texts \cup {None, Garbage}
               /\ reply[c] \in Replies
    BY <2>1 DEF Shapes
  <2> QED BY <2>1, <2>2 DEF Shapes, JobTypeOK, Stages, JobStages, Replies, Lines
<1> QED BY <1>1, Invariant, PTL

(* A client that holds a job id can poll it until the process dies.          *)
THEOREM IssuedIdsAreKnown == JobSpec => []IssuedIsKnown
<1>1. JobInv => IssuedIsKnown
  BY DEF JobInv, Course, IssuedIsKnown
<1> QED BY <1>1, Invariant, PTL

(* What a POLL has answered about a job was so, and stays so.                *)
THEOREM PollsAreTrue == JobSpec => []PollTellsTruth
<1>1. JobInv => PollTellsTruth
  <2> SUFFICES ASSUME JobInv, NEW p \in Conns, reply[p].line = "record",
                      reply[p].status \in {"done", "error"}
               PROVE  Stands(conn[p].arg, reply[p].status)
    BY DEF PollTellsTruth, Stands
  <2> QED BY DEF JobInv, PolledStands, Settled
<1> QED BY <1>1, Invariant, PTL

(* A request is executed and journaled with the client's own text, unless it *)
(* is a job whose text is read after handle_client has returned.             *)
THEOREM OwnTexts == JobSpec => []OwnTextUnlessLate
<1>1. JobInv => OwnTextUnlessLate
  BY DEF JobInv, OwnText, OwnTextUnlessLate
<1> QED BY <1>1, Invariant, PTL
=============================================================================
