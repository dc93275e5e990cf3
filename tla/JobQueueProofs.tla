--------------------------- MODULE JobQueueProofs ---------------------------
(***************************************************************************)
(* Proofs about background jobs, for any number of jobs, workers, batches  *)
(* and deliveries, and however long handlers take.  Whole holds whatever   *)
(* overlaps.  Decided, the reason why what is acknowledged has an outcome, *)
(* says what a FailJob that fails leaves of it; Alone, Exact and InStep,   *)
(* the reason why nothing is imported twice and no result is lost, are     *)
(* about the jobs that no two workers have had in hand together.           *)
(***************************************************************************)
EXTENDS JobQueue, TLAPS

(* A worker that is at something is at a message it holds. *)
Bound == \A w \in Worker : workers[w].at # "free" => workers[w].job \in workers[w].hand

LEMMA LeaveStays ==
  ASSUME JobTypeOK, Bound, NEW w \in Worker, Leave(w)
  PROVE  /\ workers' \in [Worker -> WorkerState] /\ Bound'
         /\ workers'[w].at = "free"
         /\ workers'[w].hand = workers[w].hand \ {workers[w].job}
         /\ \A v \in Worker : v # w => workers'[v] = workers[v]
<1> DEFINE q == [AtRest EXCEPT !.hand = workers[w].hand \ {workers[w].job}]
<1>1. q \in WorkerState /\ q.at = "free" /\ q.hand = workers[w].hand \ {workers[w].job}
  BY JobAssumption DEF JobTypeOK, WorkerState, AtRest
<1>2. workers' = [workers EXCEPT ![w] = q]
  BY DEF Leave
<1> HIDE DEF q
<1> QED BY <1>1, <1>2 DEF JobTypeOK, Bound

LEMMA DeliverStays ==
  ASSUME JobTypeOK, Bound, NEW w \in Worker, NEW js \in SUBSET Job, Deliver(w, js)
  PROVE  JobTypeOK' /\ Bound'
<1>1. messages' \in [Job -> Message]
  <2>1. ASSUME NEW m \in Message PROVE Delivered(m) \in Message
    BY JobAssumption DEF Delivered, Message
  <2> QED BY <2>1 DEF Deliver, JobTypeOK
<1>2. workers[w].at = "free" /\ workers[w].hand = {}
  BY DEF Deliver, AtRest
<1> QED BY <1>1, <1>2 DEF Deliver, JobTypeOK, Bound, WorkerState

LEMMA TypeStep ==
  ASSUME JobTypeOK, Bound, [JobNext]_jobVars
  PROVE  JobTypeOK' /\ Bound'
<1> USE JobAssumption DEF JobTypeOK, Bound
<1>1. ASSUME NEW j \in Job, CreateJob(j) \/ Enqueue(j) \/ GoIdle(j) PROVE JobTypeOK' /\ Bound'
  <2>1. CASE CreateJob(j)
    BY <2>1 DEF CreateJob, JobRow, Message
  <2>2. CASE Enqueue(j)
    BY <2>2 DEF Enqueue, Message
  <2>3. CASE GoIdle(j)
    BY <2>3 DEF GoIdle, Message
  <2> QED BY <1>1, <2>1, <2>2, <2>3
<1>2. ASSUME NEW w \in Worker, Read(w) \/ Reclaim(w) PROVE JobTypeOK' /\ Bound'
  BY <1>2, DeliverStays DEF Read, Reclaim
<1>3. ASSUME NEW w \in Worker, Works(w) PROVE JobTypeOK' /\ Bound'
  <2>1. ASSUME NEW j \in Job, Start(w, j) PROVE JobTypeOK' /\ Bound'
    <3> DEFINE q == [at |-> "started", hand |-> workers[w].hand, job |-> j,
                     done |-> jobs[j].processed]
    <3>1. q \in WorkerState /\ q.job \in q.hand
      BY <2>1 DEF Start, WorkerState, JobRow
    <3>2. workers' = [workers EXCEPT ![w] = q]
      BY <2>1 DEF Start
    <3> HIDE DEF q
    <3>3. jobs' \in [Job -> JobRow]
      BY <2>1 DEF Start, JobRow
    <3> QED BY <2>1, <3>1, <3>2, <3>3 DEF Start
  <2>2. ASSUME NEW j \in Job, Skip(w, j) PROVE JobTypeOK' /\ Bound'
    BY <2>2 DEF Skip, WorkerState
  <2>3. CASE Report(w)
    <3>1. workers[w].done \in 0..Batches
      BY DEF WorkerState
    <3> DEFINE row == [jobs[workers[w].job] EXCEPT !.processed = workers[w].done]
    <3>a. workers[w].job \in Job
      BY <2>3 DEF Report, WorkerState
    <3>b. row \in JobRow
      BY <3>1, <3>a DEF JobRow
    <3>c. jobs' \in {jobs, [jobs EXCEPT ![workers[w].job] = row]}
      BY <2>3, <3>a DEF Report
    <3> HIDE DEF row
    <3>2. jobs' \in [Job -> JobRow]
      BY <3>a, <3>b, <3>c
    <3>3. workers' \in [Worker -> WorkerState] /\ Bound'
      BY <2>3 DEF Report, WorkerState
    <3> QED BY <2>3, <3>2, <3>3 DEF Report
  <2>4. CASE Batch(w)
    <3> DEFINE j == workers[w].job
               b == workers[w].done + 1
               row == [jobs[j] EXCEPT !.processed = b, !.result = "tally"]
    <3>a. j \in Job /\ b \in BatchNo /\ b \in 0..Batches
      BY <2>4 DEF Batch, WorkerState, BatchNo
    <3>b. row \in JobRow
      BY <3>a DEF JobRow
    <3>c. jobs' = [jobs EXCEPT ![j] = row]
      BY <2>4, <3>a DEF Batch
    <3> HIDE DEF row
    <3>1. jobs' \in [Job -> JobRow]
      BY <3>b, <3>c
    <3>2. applied' \in [Job -> [BatchNo -> {"never", "once", "again"}]]
      BY <2>4 DEF Batch, Again
    <3>d. workers' = [workers EXCEPT ![w].done = b]
      BY <2>4 DEF Batch
    <3> HIDE DEF b
    <3>3. workers' \in [Worker -> WorkerState] /\ Bound'
      BY <2>4, <3>a, <3>d DEF WorkerState
    <3> QED BY <2>4, <3>1, <3>2, <3>3 DEF Batch
  <2>5. CASE Finish(w)
    BY <2>5 DEF Finish, WorkerState, JobRow, Ended
  <2>6. CASE Retry(w)
    BY <2>6, LeaveStays DEF Retry
  <2>7. CASE GiveUp(w)
    <3>1. jobs' = jobs \/ jobs' = [jobs EXCEPT ![workers[w].job].state = "failed"]
      BY <2>7 DEF GiveUp
    <3>a. workers[w].job \in Job
      BY <2>7 DEF GiveUp, Running, WorkerState
    <3>b. [jobs[workers[w].job] EXCEPT !.state = "failed"] \in JobRow
      BY <3>a DEF JobRow, Ended
    <3>2. jobs' \in [Job -> JobRow]
      BY <3>1, <3>a, <3>b
    <3>3. workers' \in [Worker -> WorkerState] /\ Bound'
      BY <2>7 DEF GiveUp, Running, WorkerState
    <3>4. unrecorded' \subseteq Job
      BY <2>7, <3>a DEF GiveUp
    <3> QED BY <2>7, <3>2, <3>3, <3>4 DEF GiveUp
  <2>8. ASSUME NEW reached \in BOOLEAN, Ack(w, reached) PROVE JobTypeOK' /\ Bound'
    <3>1. messages' \in [Job -> Message]
      BY <2>8 DEF Ack, Message
    <3> QED BY <2>8, <3>1, LeaveStays DEF Ack
  <2> QED BY <1>3, <2>1, <2>2, <2>3, <2>4, <2>5, <2>6, <2>7, <2>8 DEF Works
<1>4. ASSUME NEW w \in Worker, Breaks(w) PROVE JobTypeOK' /\ Bound'
  <2>1. CASE Die(w)
    BY <2>1 DEF Die, AtRest, WorkerState
  <2>2. CASE FinishFails(w)
    BY <2>2, LeaveStays DEF FinishFails
  <2>3. ASSUME NEW j \in Job, StartFails(w, j) PROVE JobTypeOK' /\ Bound'
    BY <2>3 DEF StartFails, WorkerState
  <2> QED BY <1>4, <2>1, <2>2, <2>3 DEF Breaks
<1>5. CASE UNCHANGED jobVars
  BY <1>5 DEF jobVars
<1> QED BY <1>1, <1>2, <1>3, <1>4, <1>5 DEF JobNext

LEMMA TypesAlways == JobSpec => [](JobTypeOK /\ Bound)
<1>1. JobInit => JobTypeOK /\ Bound
  BY JobAssumption DEF JobInit, JobTypeOK, Bound, AtRest, JobRow, Message, WorkerState, Ended
<1>2. JobTypeOK /\ Bound /\ [JobNext]_jobVars => (JobTypeOK /\ Bound)'
  BY TypeStep
<1> QED BY <1>1, <1>2, PTL DEF JobSpec

(***************************************************************************)
(* Rows, messages and workers of the job runner keep their types.          *)
(***************************************************************************)
THEOREM JobTypesCorrect == JobSpec => []JobTypeOK
  BY TypesAlways, PTL
-----------------------------------------------------------------------------
Acts(w) == Read(w) \/ Reclaim(w) \/ Works(w) \/ Breaks(w)

(* A step of one worker is no other worker's. *)
LEMMA OthersStay ==
  ASSUME JobTypeOK, NEW w \in Worker, NEW v \in Worker, v # w, Acts(w)
  PROVE  workers'[v] = workers[v]
  BY DEF Acts, Read, Reclaim, Deliver, Works, Breaks, Start, Skip, Report, Batch, Finish,
     Retry, GiveUp, Ack, Die, FinishFails, StartFails, Leave, JobTypeOK

(* A row's state moves on only: it is created, runs, and stays as it ended. *)
LEMMA Onward ==
  ASSUME JobTypeOK, Bound, [JobNext]_jobVars, NEW j \in Job
  PROVE  /\ jobs[j].state # "none" => jobs'[j].state # "none"
         /\ jobs[j].state = "running" => jobs'[j].state \in {"running"} \cup Ended
         /\ jobs[j].state \in Ended => jobs'[j].state = jobs[j].state
<1> USE DEF Ended, JobTypeOK
<1>1. ASSUME NEW i \in Job, CreateJob(i) \/ Enqueue(i) \/ GoIdle(i)
      PROVE  jobs'[j].state = jobs[j].state \/ jobs[j].state = "none"
  BY <1>1 DEF CreateJob, Enqueue, GoIdle, JobRow
<1>2. ASSUME NEW w \in Worker, Works(w)
      PROVE  \/ jobs'[j].state = jobs[j].state
             \/ jobs[j].state = "queued" /\ jobs'[j].state = "running"
             \/ jobs[j].state \in {"queued", "running"} /\ jobs'[j].state \in Ended
  <2>1. ASSUME NEW i \in Job, Start(w, i) \/ Skip(w, i)
        PROVE  \/ jobs'[j].state = jobs[j].state
               \/ jobs[j].state = "queued" /\ jobs'[j].state = "running"
    BY <2>1 DEF Start, Skip, Startable, JobRow
  <2>2. CASE Report(w)
    BY <2>2 DEF Report, JobRow
  <2>3. CASE Batch(w)
    BY <2>3 DEF Batch, JobRow
  <2>4. CASE Finish(w)
    BY <2>4 DEF Finish, JobRow
  <2>5. CASE GiveUp(w)
    BY <2>5 DEF GiveUp, Startable, JobRow
  <2>6. ASSUME Retry(w) \/ \E reached \in BOOLEAN : Ack(w, reached)
        PROVE  jobs' = jobs
    BY <2>6 DEF Retry, Ack
  <2> QED BY <1>2, <2>1, <2>2, <2>3, <2>4, <2>5, <2>6 DEF Works
<1>3. ASSUME \/ UNCHANGED jobVars
             \/ \E w \in Worker : Read(w) \/ Reclaim(w) \/ Breaks(w)
      PROVE  jobs' = jobs
  BY <1>3 DEF jobVars, Read, Reclaim, Deliver, Breaks, Die, FinishFails, StartFails
<1> QED BY <1>1, <1>2, <1>3 DEF JobNext

(***************************************************************************)
(* A job that is done or failed stays so, whatever late workers, further   *)
(* deliveries and crashes do.                                              *)
(***************************************************************************)
THEOREM OutcomeAlwaysFinal == JobSpec => OutcomeIsFinal
<1>1. JobTypeOK /\ Bound /\ [JobNext]_jobVars =>
        (\A j \in Job : jobs[j].state \in Ended => jobs'[j].state = jobs[j].state)
  BY Onward
<1> QED BY <1>1, TypesAlways, PTL DEF OutcomeIsFinal, JobSpec
-----------------------------------------------------------------------------
(* A message is about a job that was created, and so is one in a hand. *)
Known == /\ \A j \in Job : messages[j].at # "none" => jobs[j].state # "none"
         /\ \A w \in Worker : \A j \in workers[w].hand : jobs[j].state # "none"

(* What a worker runs has started, and what it acknowledges has ended, unless
   that could not be recorded. *)
Decided == \A w \in Worker :
  /\ Running(w) => jobs[workers[w].job].state \in {"running"} \cup Ended
  /\ workers[w].at = "acking" =>
       jobs[workers[w].job].state \in Ended \/ workers[w].job \in unrecorded

(* The two histories only grow. *)
LEMMA HistoryGrows ==
  ASSUME [JobNext]_jobVars
  PROVE  shared \subseteq shared' /\ unrecorded \subseteq unrecorded'
  BY DEF JobNext, jobVars, CreateJob, Enqueue, GoIdle, Read, Reclaim, Deliver, Works, Breaks,
     Start, Skip, Report, Batch, Finish, Retry, GiveUp, Ack, Die, FinishFails, StartFails

(* A hand fills with what is read or taken over, and only so. *)
LEMMA HandsFill ==
  ASSUME JobTypeOK, Bound, [JobNext]_jobVars, NEW w \in Worker, NEW j \in workers'[w].hand,
         j \notin workers[w].hand
  PROVE  /\ Read(w) \/ Reclaim(w)
         /\ j \in Job /\ messages'[j] = Delivered(messages[j])
         /\ messages[j].at \in {"new", "pending"}
         /\ messages[j].at = "pending" => messages[j].idle
<1> USE DEF JobTypeOK
<1>1. ASSUME ~Read(w), ~Reclaim(w) PROVE FALSE
  <2>1. ASSUME NEW v \in Worker, Acts(v), v # w PROVE FALSE
    BY <2>1, OthersStay
  <2>2. CASE Works(w) \/ Breaks(w)
    <3>1. ASSUME Leave(w) PROVE FALSE
      BY <3>1, LeaveStays
    <3>2. ASSUME workers' = [workers EXCEPT ![w] = AtRest] PROVE FALSE
      BY <3>2 DEF AtRest
    <3>3. ASSUME NEW i \in Job, Start(w, i) \/ Skip(w, i) \/ StartFails(w, i)
          PROVE  FALSE
      BY <3>3 DEF Start, Skip, StartFails, WorkerState
    <3>4. ASSUME Report(w) \/ Batch(w) \/ Finish(w) \/ GiveUp(w) PROVE FALSE
      BY <3>4 DEF Report, Batch, Finish, GiveUp, WorkerState
    <3> QED BY <2>2, <3>1, <3>2, <3>3, <3>4
        DEF Works, Breaks, Retry, Ack, Die, FinishFails
  <2>3. ASSUME UNCHANGED workers PROVE FALSE
    BY <2>3
  <2> QED BY <1>1, <2>1, <2>2, <2>3 DEF JobNext, jobVars, Acts, CreateJob, Enqueue, GoIdle
<1>2. ASSUME Read(w) \/ Reclaim(w)
      PROVE  /\ j \in Job /\ messages'[j] = Delivered(messages[j])
             /\ messages[j].at \in {"new", "pending"}
             /\ messages[j].at = "pending" => messages[j].idle
  <2>1. PICK js \in SUBSET Job :
           /\ Deliver(w, js)
           /\ \A i \in js : /\ messages[i].at \in {"new", "pending"}
                            /\ messages[i].at = "pending" => messages[i].idle
    BY <1>2 DEF Read, Reclaim
  <2>2. workers'[w].hand = js
    BY <2>1 DEF Deliver
  <2> QED BY <2>1, <2>2 DEF Deliver
<1> QED BY <1>1, <1>2

LEMMA KnownStep ==
  ASSUME JobTypeOK, Bound, Known, [JobNext]_jobVars
  PROVE  Known'
<1> USE DEF JobTypeOK
<1>1. ASSUME NEW j \in Job, messages'[j].at # "none"
      PROVE  jobs'[j].state # "none"
  <2>1. CASE messages[j].at # "none"
    BY <2>1, Onward DEF Known
  <2>2. ASSUME messages[j].at = "none", jobs'[j].state = "none" PROVE FALSE
    <3>1. ASSUME NEW i \in Job, CreateJob(i) \/ Enqueue(i) \/ GoIdle(i) PROVE FALSE
      BY <1>1, <2>2, <3>1 DEF CreateJob, Enqueue, GoIdle, JobRow, Message
    <3>2. ASSUME NEW w \in Worker, Read(w) \/ Reclaim(w) PROVE FALSE
      BY <1>1, <2>2, <3>2 DEF Read, Reclaim, Deliver
    <3>3. ASSUME NEW w \in Worker, NEW reached \in BOOLEAN, Ack(w, reached) PROVE FALSE
      <4>1. jobs[j].state # "none"
        BY <1>1, <2>2, <3>3 DEF Ack, Known, Bound, Message
      <4> QED BY <2>2, <4>1, Onward
    <3>4. ASSUME NEW w \in Worker,
                 Works(w) \/ Breaks(w), ~\E reached \in BOOLEAN : Ack(w, reached)
          PROVE  messages' = messages
      BY <3>4 DEF Works, Breaks, Start, Skip, Report, Batch, Finish, Retry, GiveUp, Die,
         FinishFails, StartFails
    <3>5. CASE UNCHANGED jobVars
      BY <1>1, <2>2, <3>5 DEF jobVars
    <3> QED BY <1>1, <2>2, <3>1, <3>2, <3>3, <3>4, <3>5 DEF JobNext
  <2> QED BY <2>1, <2>2
<1>2. ASSUME NEW w \in Worker, NEW j \in workers'[w].hand
      PROVE  jobs[j].state # "none" /\ j \in Job
  <2>1. CASE j \in workers[w].hand
    BY <2>1 DEF Known, WorkerState
  <2>2. CASE j \notin workers[w].hand
    BY <1>2, <2>2, HandsFill DEF Known
  <2> QED BY <2>1, <2>2
<1> QED BY <1>1, <1>2, Onward DEF Known

LEMMA DecidedStep ==
  ASSUME JobTypeOK, Bound, Known, Decided, [JobNext]_jobVars, NEW w \in Worker
  PROVE  /\ Running(w)' => jobs'[workers'[w].job].state \in {"running"} \cup Ended
         /\ workers'[w].at = "acking" =>
              jobs'[workers'[w].job].state \in Ended \/ workers'[w].job \in unrecorded'
<1>1. ASSUME UNCHANGED workers[w]
      PROVE  /\ Running(w)' => jobs'[workers'[w].job].state \in {"running"} \cup Ended
             /\ workers'[w].at = "acking" =>
                  jobs'[workers'[w].job].state \in Ended \/ workers'[w].job \in unrecorded'
  BY <1>1, Onward, HistoryGrows DEF Decided, Running, Bound, JobTypeOK, WorkerState
<1>2. ASSUME NEW j \in Job, Start(w, j)
      PROVE  workers'[w].at = "started" /\ jobs'[workers'[w].job].state = "running"
  BY <1>2 DEF Start, JobTypeOK, JobRow
<1>3. ASSUME NEW j \in Job, Skip(w, j)
      PROVE  jobs'[workers'[w].job].state \in Ended
  BY <1>3 DEF Skip, Startable, Known, JobTypeOK, JobRow, WorkerState
<1>4. ASSUME Report(w) \/ Batch(w)
      PROVE  /\ workers'[w].at = "working"
             /\ jobs'[workers'[w].job].state \in {"running"} \cup Ended
  <2>1. /\ workers'[w].at = "working" /\ workers'[w].job = workers[w].job
        /\ Running(w) /\ workers[w].job \in Job
    BY <1>4 DEF Report, Batch, Running, JobTypeOK, WorkerState, Bound
  <2> QED BY <2>1, Onward DEF Decided
<1>5. ASSUME Finish(w) \/ GiveUp(w)
      PROVE  /\ workers'[w].at = "acking"
             /\ jobs'[workers'[w].job].state \in Ended \/ workers'[w].job \in unrecorded'
  <2>1. /\ workers'[w].at = "acking" /\ workers'[w].job = workers[w].job
        /\ Running(w) /\ workers[w].job \in Job
    BY <1>5 DEF Finish, GiveUp, Running, JobTypeOK, WorkerState, Bound
  <2>2. jobs[workers[w].job].state \in {"running"} \cup Ended
    BY <2>1 DEF Decided
  <2>3. jobs'[workers[w].job].state \in Ended \/ workers[w].job \in unrecorded'
    BY <1>5, <2>1, <2>2 DEF Finish, GiveUp, Startable, Ended, JobTypeOK, JobRow
  <2> QED BY <2>1, <2>3
<1>6. ASSUME Read(w) \/ Reclaim(w) \/ Retry(w) \/ Breaks(w)
             \/ \E reached \in BOOLEAN : Ack(w, reached)
      PROVE  workers'[w].at = "free"
  BY <1>6, LeaveStays DEF Read, Reclaim, Deliver, Retry, Breaks, Die, FinishFails,
     StartFails, Ack, AtRest, JobTypeOK, WorkerState
<1>7. ASSUME NEW v \in Worker, v # w, Acts(v) PROVE UNCHANGED workers[w]
  BY <1>7, OthersStay
<1>8. ASSUME NEW j \in Job, CreateJob(j) \/ Enqueue(j) \/ GoIdle(j)
      PROVE  UNCHANGED workers[w]
  BY <1>8 DEF CreateJob, Enqueue, GoIdle
<1>9. CASE UNCHANGED jobVars
  BY <1>1, <1>9 DEF jobVars
<1> QED
  BY <1>1, <1>2, <1>3, <1>4, <1>5, <1>6, <1>7, <1>8, <1>9
     DEF JobNext, Acts, Works, Running, Ended

LEMMA AckedStep ==
  ASSUME JobTypeOK, Bound, Decided, AckedUnlessUnrecorded, [JobNext]_jobVars
  PROVE  AckedUnlessUnrecorded'
<1> SUFFICES ASSUME NEW j \in Job, messages'[j].at = "acked"
             PROVE  jobs[j].state \in Ended \/ j \in unrecorded
  BY Onward, HistoryGrows DEF AckedUnlessUnrecorded
<1>1. CASE messages[j].at = "acked"
  BY <1>1 DEF AckedUnlessUnrecorded
<1>2. ASSUME messages[j].at # "acked"
      PROVE  \E w \in Worker : workers[w].at = "acking" /\ workers[w].job = j
  <2>1. ASSUME NEW i \in Job, CreateJob(i) \/ Enqueue(i) \/ GoIdle(i) PROVE FALSE
    BY <1>2, <2>1 DEF CreateJob, Enqueue, GoIdle, JobTypeOK, Message
  <2>2. ASSUME NEW w \in Worker, Read(w) \/ Reclaim(w) PROVE FALSE
    BY <1>2, <2>2 DEF Read, Reclaim, Deliver, Delivered
  <2>3. ASSUME NEW w \in Worker, NEW reached \in BOOLEAN, Ack(w, reached)
        PROVE  workers[w].at = "acking" /\ workers[w].job = j
    BY <1>2, <2>3 DEF Ack, JobTypeOK, Message
  <2>4. ASSUME NEW w \in Worker,
               Works(w) \/ Breaks(w), ~\E reached \in BOOLEAN : Ack(w, reached)
        PROVE  FALSE
    BY <1>2, <2>4 DEF Works, Breaks, Start, Skip, Report, Batch, Finish, Retry, GiveUp,
       Die, FinishFails, StartFails
  <2>5. CASE UNCHANGED jobVars
    BY <1>2, <2>5 DEF jobVars
  <2> QED BY <2>1, <2>2, <2>3, <2>4, <2>5 DEF JobNext
<1> QED BY <1>1, <1>2 DEF Decided

(***************************************************************************)
(* A message that is gone for good leaves no job without an outcome, but   *)
(* one whose FailJob failed.                                               *)
(***************************************************************************)
THEOREM AckedAlwaysUnlessUnrecorded == JobSpec => []AckedUnlessUnrecorded
<1>1. JobInit => Known /\ Decided /\ AckedUnlessUnrecorded
  BY DEF JobInit, Known, Decided, AckedUnlessUnrecorded, AtRest, Running
<1>2. JobTypeOK /\ Bound /\ Known /\ Decided /\ AckedUnlessUnrecorded /\ [JobNext]_jobVars
        => (Known /\ Decided /\ AckedUnlessUnrecorded)'
  <2> SUFFICES ASSUME JobTypeOK, Bound, Known, Decided, AckedUnlessUnrecorded, [JobNext]_jobVars
               PROVE  (Known /\ Decided /\ AckedUnlessUnrecorded)'
    OBVIOUS
  <2> QED BY KnownStep, DecidedStep, AckedStep DEF Decided, Running
<1> QED BY <1>1, <1>2, TypesAlways, PTL DEF JobSpec
-----------------------------------------------------------------------------
(* What the counts count is in the shop: the row's, each worker's, and all of
   a job that is done. *)
Whole ==
  /\ \A j \in Job, b \in BatchNo : b <= jobs[j].processed => applied[j][b] # "never"
  /\ \A w \in Worker : Running(w) =>
        \A b \in BatchNo : b <= workers[w].done => applied[workers[w].job][b] # "never"
  /\ DoneIsWhole

LEMMA BatchLands ==
  ASSUME JobTypeOK, Bound, NEW w \in Worker, Batch(w)
  PROVE  /\ applied'[workers[w].job][workers[w].done + 1] # "never"
         /\ workers[w].job \in Job /\ workers[w].done + 1 \in BatchNo
<1>1. workers[w].job \in Job /\ workers[w].done + 1 \in BatchNo
  BY DEF Batch, Bound, JobTypeOK, WorkerState
<1> DEFINE j == workers[w].job
           b == workers[w].done + 1
<1>2. applied' = [applied EXCEPT ![j][b] = Again(applied[j][b])]
  BY DEF Batch
<1> HIDE DEF j, b
<1>3. applied'[j][b] = Again(applied[j][b])
  BY <1>1, <1>2 DEF JobTypeOK, j, b
<1> QED BY <1>1, <1>3 DEF Again, j, b

LEMMA AppliedGrows ==
  ASSUME JobTypeOK, Bound, [JobNext]_jobVars, NEW j \in Job, NEW b \in BatchNo,
         applied[j][b] # "never"
  PROVE  applied'[j][b] # "never"
<1>1. ASSUME NEW w \in Worker, Batch(w) PROVE applied'[j][b] # "never"
  <2> DEFINE i == workers[w].job
             c == workers[w].done + 1
  <2>1. i \in Job /\ c \in BatchNo /\ applied'[i][c] # "never"
    BY <1>1, BatchLands
  <2>2. applied' = [applied EXCEPT ![i][c] = Again(applied[i][c])]
    BY <1>1 DEF Batch
  <2> HIDE DEF i, c
  <2> QED BY <2>1, <2>2 DEF JobTypeOK
<1>2. ASSUME ~\E w \in Worker : Batch(w) PROVE applied' = applied
  BY <1>2 DEF JobNext, jobVars, CreateJob, Enqueue, GoIdle, Read, Reclaim, Deliver, Works, Breaks,
     Start, Skip, Report, Finish, Retry, GiveUp, Ack, Die, FinishFails, StartFails
<1> QED BY <1>1, <1>2

(* How the counts and the states that matter here change. *)
LEMMA CountsMove ==
  ASSUME JobTypeOK, Bound, [JobNext]_jobVars, NEW j \in Job
  PROVE  \/ /\ jobs'[j].processed = jobs[j].processed
            /\ jobs'[j].state = "done" => jobs[j].state = "done"
         \/ \E w \in Worker : Report(w) /\ workers[w].job = j
                  /\ jobs'[j] = [jobs[j] EXCEPT !.processed = workers[w].done]
         \/ \E w \in Worker : Batch(w) /\ workers[w].job = j
                  /\ jobs'[j].processed = workers[w].done + 1
                  /\ jobs'[j].state = jobs[j].state
         \/ \E w \in Worker : Finish(w) /\ workers[w].job = j
                  /\ jobs'[j].processed = jobs[j].processed
<1> USE DEF JobTypeOK, JobRow
<1>1. ASSUME NEW i \in Job, CreateJob(i) \/ Enqueue(i) \/ GoIdle(i)
      PROVE  /\ jobs'[j].processed = jobs[j].processed
             /\ jobs'[j].state = "done" => jobs[j].state = "done"
  <2>1. jobs' = jobs \/ jobs' = [jobs EXCEPT ![i].state = "queued"]
    BY <1>1 DEF CreateJob, Enqueue, GoIdle
  <2> QED BY <2>1
<1>2. ASSUME NEW w \in Worker, NEW i \in Job, Start(w, i)
      PROVE  /\ jobs'[j].processed = jobs[j].processed
             /\ jobs'[j].state = "done" => jobs[j].state = "done"
  BY <1>2 DEF Start
<1>3. ASSUME NEW w \in Worker, Report(w)
      PROVE  \/ jobs'[j] = jobs[j]
             \/ /\ workers[w].job = j
                /\ jobs'[j] = [jobs[j] EXCEPT !.processed = workers[w].done]
  BY <1>3 DEF Report
<1>4. ASSUME NEW w \in Worker, Batch(w)
      PROVE  \/ jobs'[j] = jobs[j]
             \/ /\ workers[w].job = j
                /\ jobs'[j].processed = workers[w].done + 1
                /\ jobs'[j].state = jobs[j].state
  <2> DEFINE i == workers[w].job
             row == [jobs[i] EXCEPT !.processed = workers[w].done + 1, !.result = "tally"]
  <2>1. row.processed = workers[w].done + 1 /\ row.state = jobs[i].state /\ i \in Job
    BY <1>4, BatchLands
  <2>2. jobs' = [jobs EXCEPT ![i] = row]
    BY <1>4, <2>1 DEF Batch
  <2> HIDE DEF row
  <2> QED BY <2>1, <2>2
<1>5. ASSUME NEW w \in Worker, Finish(w)
      PROVE  \/ jobs'[j] = jobs[j]
             \/ workers[w].job = j /\ jobs'[j].processed = jobs[j].processed
  BY <1>5 DEF Finish
<1>6. ASSUME NEW w \in Worker, GiveUp(w)
      PROVE  /\ jobs'[j].processed = jobs[j].processed
             /\ jobs'[j].state = "done" => jobs[j].state = "done"
  BY <1>6 DEF GiveUp
<1>7. ASSUME \/ UNCHANGED jobVars
             \/ \E w \in Worker : \/ Read(w) \/ Reclaim(w) \/ Breaks(w) \/ Retry(w)
                                  \/ \E i \in Job : Skip(w, i)
                                  \/ \E reached \in BOOLEAN : Ack(w, reached)
      PROVE  jobs' = jobs
  BY <1>7 DEF jobVars, Read, Reclaim, Deliver, Breaks, Die, FinishFails, StartFails, Retry,
     Skip, Ack
<1> QED BY <1>1, <1>2, <1>3, <1>4, <1>5, <1>6, <1>7 DEF JobNext, Works

LEMMA RunsOn ==
  ASSUME JobTypeOK, Bound, NEW w \in Worker, [JobNext]_jobVars, Running(w)'
  PROVE  \/ workers'[w] = workers[w]
         \/ \E j \in Job : Start(w, j) /\ workers'[w].job = j
                             /\ workers'[w].done = jobs[j].processed
         \/ Report(w) /\ workers'[w].job = workers[w].job
                      /\ workers'[w].done = workers[w].done
         \/ Batch(w) /\ workers'[w].job = workers[w].job
                     /\ workers'[w].done = workers[w].done + 1
<1> USE DEF JobTypeOK, WorkerState
<1>1. ASSUME Read(w) \/ Reclaim(w) \/ Retry(w) \/ Breaks(w)
             \/ \E reached \in BOOLEAN : Ack(w, reached)
      PROVE  workers'[w].at = "free"
  BY <1>1, LeaveStays DEF Read, Reclaim, Deliver, Retry, Breaks, Die, FinishFails,
     StartFails, Ack, AtRest
<1>2. ASSUME Finish(w) \/ GiveUp(w) \/ \E j \in Job : Skip(w, j)
      PROVE  workers'[w].at = "acking"
  BY <1>2 DEF Finish, GiveUp, Skip
<1>3. ASSUME NEW j \in Job, Start(w, j)
      PROVE  workers'[w].job = j /\ workers'[w].done = jobs[j].processed
  BY <1>3 DEF Start
<1>4. ASSUME Report(w) PROVE /\ workers'[w].job = workers[w].job
                             /\ workers'[w].done = workers[w].done
  BY <1>4 DEF Report
<1>5. ASSUME Batch(w) PROVE /\ workers'[w].job = workers[w].job
                            /\ workers'[w].done = workers[w].done + 1
  <2> DEFINE b == workers[w].done + 1
  <2>1. workers' = [workers EXCEPT ![w].done = b]
    BY <1>5 DEF Batch
  <2> HIDE DEF b
  <2>2. workers'[w].job = workers[w].job /\ workers'[w].done = b
    BY <2>1
  <2> QED BY <2>2 DEF b
<1>6. ASSUME NEW v \in Worker, v # w, Acts(v) PROVE workers'[w] = workers[w]
  BY <1>6, OthersStay
<1>7. ASSUME UNCHANGED jobVars \/ \E j \in Job : CreateJob(j) \/ Enqueue(j) \/ GoIdle(j)
      PROVE  workers'[w] = workers[w]
  BY <1>7 DEF jobVars, CreateJob, Enqueue, GoIdle
<1> QED BY <1>1, <1>2, <1>3, <1>4, <1>5, <1>6, <1>7 DEF JobNext, Acts, Works, Running

LEMMA WholeStep ==
  ASSUME JobTypeOK, Bound, Whole, [JobNext]_jobVars
  PROVE  Whole'
<1>1. ASSUME NEW j \in Job, NEW b \in BatchNo, b <= jobs'[j].processed
      PROVE  applied'[j][b] # "never"
  <2>1. CASE b <= jobs[j].processed
    BY <2>1, AppliedGrows DEF Whole
  <2>2. ASSUME NEW w \in Worker, Report(w), workers[w].job = j, jobs'[j].processed = workers[w].done
        PROVE  applied'[j][b] # "never"
    BY <1>1, <2>2, AppliedGrows DEF Whole, Report, Running
  <2>3. ASSUME NEW w \in Worker, Batch(w), workers[w].job = j,
               jobs'[j].processed = workers[w].done + 1
        PROVE  applied'[j][b] # "never"
    <3>1. CASE b <= workers[w].done
      BY <2>3, <3>1, AppliedGrows DEF Whole, Batch, Running
    <3>2. CASE b = workers[w].done + 1
      BY <2>3, <3>2, BatchLands
    <3> QED BY <1>1, <2>3, <3>1, <3>2, BatchLands DEF BatchNo, JobTypeOK, WorkerState
  <2> QED BY <1>1, <2>1, <2>2, <2>3, CountsMove DEF JobTypeOK, JobRow
<1>2. ASSUME NEW w \in Worker, Running(w)', NEW b \in BatchNo, b <= workers'[w].done
      PROVE  applied'[workers'[w].job][b] # "never"
  <2>1. CASE workers'[w] = workers[w]
    BY <1>2, <2>1, AppliedGrows DEF Whole, Running, Bound, JobTypeOK, WorkerState
  <2>2. ASSUME NEW j \in Job, Start(w, j), workers'[w].job = j,
               workers'[w].done = jobs[j].processed
        PROVE  applied'[workers'[w].job][b] # "never"
    BY <1>2, <2>2, AppliedGrows DEF Whole
  <2>3. CASE Report(w) /\ workers'[w].job = workers[w].job /\ workers'[w].done = workers[w].done
    BY <1>2, <2>3, AppliedGrows DEF Whole, Running, Report, Bound, JobTypeOK, WorkerState
  <2>4. CASE Batch(w) /\ workers'[w].job = workers[w].job
             /\ workers'[w].done = workers[w].done + 1
    <3>1. CASE b <= workers[w].done
      BY <2>4, <3>1, AppliedGrows, BatchLands DEF Whole, Batch, Running
    <3>2. CASE b = workers[w].done + 1
      BY <2>4, <3>2, BatchLands
    <3> QED BY <1>2, <2>4, <3>1, <3>2, BatchLands DEF BatchNo, JobTypeOK, WorkerState
  <2> QED BY <1>2, <2>1, <2>2, <2>3, <2>4, RunsOn
<1>3. ASSUME NEW j \in Job, jobs'[j].state = "done", NEW b \in BatchNo
      PROVE  applied[j][b] # "never"
  <2>1. CASE jobs[j].state = "done"
    BY <2>1 DEF Whole, DoneIsWhole
  <2>2. ASSUME NEW w \in Worker, Finish(w), workers[w].job = j PROVE applied[j][b] # "never"
    <3>1. Running(w) /\ workers[w].done = Batches
      BY <2>2 DEF Finish, Running
    <3> QED BY <2>2, <3>1, JobAssumption DEF Whole, BatchNo
  <2>3. \/ jobs[j].state = "done"
        \/ \E w \in Worker : Finish(w) /\ workers[w].job = j
    <3>1. ASSUME NEW w \in Worker, jobs'[j] = [jobs[j] EXCEPT !.processed = workers[w].done]
          PROVE  jobs[j].state = "done"
      BY <1>3, <3>1 DEF JobTypeOK, JobRow
    <3> QED BY <1>3, <3>1, CountsMove
  <2> QED BY <2>1, <2>2, <2>3
<1>4. \A w \in Worker : Running(w)' =>
        \A b \in BatchNo : b <= workers'[w].done => applied'[workers'[w].job][b] # "never"
  BY <1>2
<1>5. DoneIsWhole'
  BY <1>3, AppliedGrows DEF DoneIsWhole
<1> QED BY <1>1, <1>4, <1>5 DEF Whole

(***************************************************************************)
(* A job that is done has every batch in the shop, also when two workers   *)
(* run it at once and checkpoint over each other.                          *)
(***************************************************************************)
THEOREM DoneAlwaysWhole == JobSpec => []DoneIsWhole
<1>1. JobInit => Whole
  BY JobAssumption DEF JobInit, Whole, DoneIsWhole, BatchNo, AtRest, Running
<1>2. JobTypeOK /\ Bound /\ Whole /\ [JobNext]_jobVars => Whole'
  BY WholeStep
<1>3. Whole => DoneIsWhole
  BY DEF Whole
<1> QED BY <1>1, <1>2, <1>3, TypesAlways, PTL DEF JobSpec
-----------------------------------------------------------------------------
(* What two workers have in hand together is known to be shared. *)
Alone == \A v, w \in Worker : v # w => workers[v].hand \cap workers[w].hand \subseteq shared

LEMMA AloneStep ==
  ASSUME JobTypeOK, Bound, Alone, [JobNext]_jobVars
  PROVE  Alone'
<1> SUFFICES ASSUME NEW v \in Worker, NEW w \in Worker, v # w,
                    NEW j \in workers'[v].hand, j \in workers'[w].hand
             PROVE  j \in shared'
  BY DEF Alone
<1>1. CASE j \in workers[v].hand /\ j \in workers[w].hand
  BY <1>1, HistoryGrows DEF Alone
<1>2. ASSUME NEW x \in Worker, NEW y \in Worker, x # y,
             j \in workers'[x].hand, j \notin workers[x].hand, j \in workers'[y].hand
      PROVE  j \in shared'
  <2>1. Read(x) \/ Reclaim(x)
    BY <1>2, HandsFill
  <2>2. j \in workers[y].hand
    BY <1>2, <2>1, OthersStay DEF Acts
  <2>3. PICK js \in SUBSET Job : Deliver(x, js)
    BY <2>1 DEF Read, Reclaim
  <2>4. workers'[x].hand = js
    BY <2>3 DEF Deliver, JobTypeOK
  <2> QED BY <1>2, <2>2, <2>3, <2>4 DEF Deliver, Held
<1> QED BY <1>1, <1>2

(* The counts of a job that is not shared say exactly what is in the shop, and
   a worker's count is its job's. *)
Exact == \A j \in Job \ shared, b \in BatchNo :
           applied[j][b] = IF b <= jobs[j].processed THEN "once" ELSE "never"

InStep == \A w \in Worker : Running(w) /\ workers[w].job \notin shared =>
            /\ jobs[workers[w].job].state = "running"
            /\ workers[w].done = jobs[workers[w].job].processed

(* The steps of a worker at a job, by what they do to the row and the shop. *)
LEMMA OthersJobs ==
  ASSUME JobTypeOK, Bound, Alone, Known, [JobNext]_jobVars, NEW w \in Worker, Running(w),
         NEW j \in Job \ shared, j = workers[w].job
  PROVE  \/ jobs'[j] = jobs[j]
         \/ Report(w) \/ Batch(w) \/ Finish(w) \/ GiveUp(w)
         \/ jobs'[j] = [jobs[j] EXCEPT !.state = "running"]
<1> USE DEF JobTypeOK
<1>1. j \in workers[w].hand /\ jobs[j].state # "none"
  BY DEF Running, Bound, Known
<1>2. ASSUME NEW i \in Job, CreateJob(i) \/ Enqueue(i) \/ GoIdle(i)
      PROVE  jobs'[j] = jobs[j]
  BY <1>1, <1>2 DEF CreateJob, Enqueue, GoIdle
<1>3. ASSUME NEW v \in Worker, v # w,
             Report(v) \/ Batch(v) \/ Finish(v) \/ GiveUp(v)
      PROVE  jobs'[j] = jobs[j]
  <2>1. workers[v].job # j
    BY <1>1, <1>3 DEF Report, Batch, Finish, GiveUp, Running, Bound, Alone
  <2> QED BY <1>3, <2>1 DEF Report, Batch, Finish, GiveUp
<1>4. ASSUME NEW v \in Worker, NEW i \in Job, Start(v, i)
      PROVE  jobs'[j] = jobs[j] \/ jobs'[j] = [jobs[j] EXCEPT !.state = "running"]
  BY <1>4 DEF Start
<1>5. ASSUME \/ UNCHANGED jobVars
             \/ \E v \in Worker : \/ Read(v) \/ Reclaim(v) \/ Breaks(v) \/ Retry(v)
                                  \/ \E i \in Job : Skip(v, i)
                                  \/ \E reached \in BOOLEAN : Ack(v, reached)
      PROVE  jobs' = jobs
  BY <1>5 DEF jobVars, Read, Reclaim, Deliver, Breaks, Die, FinishFails, StartFails, Retry,
     Skip, Ack
<1> QED BY <1>2, <1>3, <1>4, <1>5 DEF JobNext, Works

LEMMA InStepStep ==
  ASSUME JobTypeOK, Bound, Known, Alone, InStep, [JobNext]_jobVars
  PROVE  InStep'
<1> SUFFICES ASSUME NEW w \in Worker, Running(w)', workers'[w].job \notin shared
             PROVE  /\ jobs'[workers'[w].job].state = "running"
                    /\ workers'[w].done = jobs'[workers'[w].job].processed
  BY HistoryGrows DEF InStep, Running
<1> DEFINE i == workers[w].job
<1>1. CASE workers'[w] = workers[w]
  <2>1. Running(w) /\ i \in Job
    BY <1>1 DEF Running, Bound, JobTypeOK, WorkerState
  <2>2. \/ ~Report(w) /\ ~Batch(w) /\ ~Finish(w) /\ ~GiveUp(w)
       \/ jobs'[i] = jobs[i]
    <3>1. ASSUME Finish(w) \/ GiveUp(w) PROVE FALSE
      BY <1>1, <2>1, <3>1 DEF Finish, GiveUp, Running, JobTypeOK, WorkerState
    <3>2. ASSUME Report(w) PROVE FALSE
      BY <1>1, <2>1, <3>2 DEF Report, JobTypeOK, WorkerState
    <3>3. ASSUME Batch(w) PROVE FALSE
      BY <1>1, <3>3, RunsOn, BatchLands DEF Batch, JobTypeOK, WorkerState
    <3> QED BY <3>1, <3>2, <3>3
  <2> QED BY <1>1, <2>1, <2>2, OthersJobs DEF InStep, JobTypeOK, JobRow
<1>2. ASSUME NEW j \in Job, Start(w, j), workers'[w].job = j,
             workers'[w].done = jobs[j].processed
      PROVE  /\ jobs'[workers'[w].job].state = "running"
             /\ workers'[w].done = jobs'[workers'[w].job].processed
  BY <1>2 DEF Start, JobTypeOK, JobRow
<1>3. CASE Report(w) /\ workers'[w].job = i /\ workers'[w].done = workers[w].done
  BY <1>3 DEF Report, InStep, Running, Bound, JobTypeOK, JobRow, WorkerState
<1>4. CASE Batch(w) /\ workers'[w].job = i /\ workers'[w].done = workers[w].done + 1
  <2> DEFINE row == [jobs[i] EXCEPT !.processed = workers[w].done + 1, !.result = "tally"]
  <2>1. /\ i \in Job /\ jobs[i].state = "running"
        /\ row.processed = workers[w].done + 1 /\ row.state = jobs[i].state
    BY <1>4, BatchLands DEF Batch, Running, InStep, JobTypeOK, JobRow
  <2>2. jobs' = [jobs EXCEPT ![i] = row]
    BY <1>4 DEF Batch
  <2> HIDE DEF row
  <2> QED BY <1>4, <2>1, <2>2 DEF JobTypeOK
<1> QED BY <1>1, <1>2, <1>3, <1>4, RunsOn

LEMMA ExactStep ==
  ASSUME JobTypeOK, Bound, Exact, InStep, [JobNext]_jobVars
  PROVE  Exact'
<1>1. ASSUME NEW w \in Worker, Batch(w), NEW j \in Job \ shared, NEW b \in BatchNo
      PROVE  applied'[j][b] = IF b <= jobs'[j].processed THEN "once" ELSE "never"
  <2> DEFINE i == workers[w].job
             c == workers[w].done + 1
             row == [jobs[i] EXCEPT !.processed = c, !.result = "tally"]
  <2>1. i \in Job /\ c \in BatchNo /\ row.processed = c
    BY <1>1, BatchLands DEF JobTypeOK, JobRow
  <2>2. /\ jobs' = [jobs EXCEPT ![i] = row]
        /\ applied' = [applied EXCEPT ![i][c] = Again(applied[i][c])]
    BY <1>1 DEF Batch
  <2>3. j = i => jobs[i].processed = workers[w].done
    BY <1>1 DEF Batch, Running, InStep
  <2> HIDE DEF row
  <2>4. CASE j # i
    BY <2>1, <2>2, <2>4 DEF Exact, JobTypeOK
  <2>5. CASE j = i
    <3>1. applied[i][c] = "never"
      BY <2>1, <2>3, <2>5 DEF Exact, BatchNo, JobTypeOK, JobRow
    <3> DEFINE one == Again(applied[i][c])
    <3>2. one = "once"
      BY <3>1 DEF Again
    <3>3. applied' = [applied EXCEPT ![i][c] = one]
      BY <2>2
    <3> HIDE DEF one, c
    <3>4. jobs'[i].processed = c
      BY <2>1, <2>2 DEF JobTypeOK
    <3>5. CASE b = c
      <4>1. applied'[i][c] = "once"
        BY <2>1, <3>2, <3>3 DEF JobTypeOK
      <4>2. c <= c
        BY <2>1, JobAssumption DEF BatchNo
      <4> QED BY <2>5, <3>4, <3>5, <4>1, <4>2
    <3>6. CASE b # c
      <4>1. applied'[j][b] = applied[j][b]
        BY <2>1, <3>3, <3>6 DEF JobTypeOK
      <4>2. b <= c <=> b <= jobs[j].processed
        BY <2>1, <2>3, <2>5, <3>6, JobAssumption DEF BatchNo, JobTypeOK, JobRow, c
      <4> QED BY <2>5, <3>4, <4>1, <4>2 DEF Exact
    <3> QED BY <3>5, <3>6
  <2> QED BY <2>4, <2>5
<1>2. ASSUME ~\E w \in Worker : Batch(w), NEW j \in Job \ shared
      PROVE  applied' = applied /\ jobs'[j].processed = jobs[j].processed
  <2>1. applied' = applied
    BY <1>2 DEF JobNext, jobVars, CreateJob, Enqueue, GoIdle, Read, Reclaim, Deliver, Works, Breaks,
       Start, Skip, Report, Finish, Retry, GiveUp, Ack, Die, FinishFails, StartFails
  <2>2. ASSUME NEW w \in Worker, Report(w), workers[w].job = j
        PROVE  workers[w].done = jobs[j].processed
    BY <1>2, <2>2 DEF Report, Running, InStep
  <2>3. \/ jobs'[j].processed = jobs[j].processed
        \/ \E w \in Worker : /\ Report(w) /\ workers[w].job = j
                              /\ jobs'[j] = [jobs[j] EXCEPT !.processed = workers[w].done]
    BY <1>2, CountsMove
  <2>4. jobs[j] \in JobRow
    BY DEF JobTypeOK
  <2> QED BY <2>1, <2>2, <2>3, <2>4 DEF JobRow
<1> QED BY <1>1, <1>2, HistoryGrows DEF Exact

LEMMA ResultStep ==
  ASSUME JobTypeOK, Bound, InStep, DoneHasResult, [JobNext]_jobVars
  PROVE  DoneHasResult'
<1> SUFFICES ASSUME NEW j \in Job \ shared, jobs'[j].state = "done"
             PROVE  jobs'[j].result = "final"
  BY HistoryGrows DEF DoneHasResult
<1> USE DEF JobTypeOK, JobRow
<1>1. ASSUME jobs'[j] = jobs[j] PROVE jobs'[j].result = "final"
  BY <1>1 DEF DoneHasResult
<1>2. ASSUME NEW i \in Job, CreateJob(i) \/ Enqueue(i) \/ GoIdle(i)
      PROVE  jobs'[j] = jobs[j]
  <2>1. jobs' = jobs \/ jobs' = [jobs EXCEPT ![i].state = "queued"]
    BY <1>2 DEF CreateJob, Enqueue, GoIdle
  <2> QED BY <2>1
<1>3. ASSUME NEW w \in Worker, NEW i \in Job, Start(w, i)
      PROVE  jobs'[j] = jobs[j]
  BY <1>3 DEF Start
<1>4. ASSUME NEW w \in Worker, Report(w) \/ Batch(w)
      PROVE  jobs'[j] = jobs[j]
  <2>1. workers[w].job = j => jobs[j].state = "running"
    BY <1>4 DEF Report, Batch, Running, InStep
  <2>2. jobs'[j].state = jobs[j].state
    <3>1. CASE Report(w)
      BY <3>1 DEF Report
    <3>2. CASE Batch(w)
      <4> DEFINE row == [jobs[workers[w].job] EXCEPT
                           !.processed = workers[w].done + 1, !.result = "tally"]
      <4>1. row.state = jobs[workers[w].job].state
        BY <3>2, BatchLands
      <4>2. jobs' = [jobs EXCEPT ![workers[w].job] = row]
        BY <3>2 DEF Batch
      <4> HIDE DEF row
      <4> QED BY <3>2, <4>1, <4>2, BatchLands
    <3> QED BY <1>4, <3>1, <3>2
  <2>3. workers[w].job # j
    BY <2>1, <2>2
  <2> QED BY <1>4, <2>3 DEF Report, Batch
<1>5. ASSUME NEW w \in Worker, Finish(w)
      PROVE  jobs'[j] = jobs[j] \/ jobs'[j].result = "final"
  BY <1>5 DEF Finish
<1>6. ASSUME NEW w \in Worker, GiveUp(w)
      PROVE  jobs'[j] = jobs[j]
  BY <1>6 DEF GiveUp
<1>7. ASSUME \/ UNCHANGED jobVars
             \/ \E w \in Worker : \/ Read(w) \/ Reclaim(w) \/ Breaks(w) \/ Retry(w)
                                  \/ \E i \in Job : Skip(w, i)
                                  \/ \E reached \in BOOLEAN : Ack(w, reached)
      PROVE  jobs' = jobs
  BY <1>7 DEF jobVars, Read, Reclaim, Deliver, Breaks, Die, FinishFails, StartFails, Retry,
     Skip, Ack
<1> QED BY <1>1, <1>2, <1>3, <1>4, <1>5, <1>6, <1>7 DEF JobNext, Works

LEMMA UndisturbedAlways == JobSpec => [](Exact /\ DoneHasResult)
<1> DEFINE Undisturbed == Known /\ Alone /\ InStep /\ Exact /\ DoneHasResult
<1>1. JobInit => Undisturbed
  BY JobAssumption DEF JobInit, Known, Alone, InStep, Exact, DoneHasResult, BatchNo, AtRest, Running
<1>2. JobTypeOK /\ Bound /\ Undisturbed /\ [JobNext]_jobVars => Undisturbed'
  BY KnownStep, AloneStep, InStepStep, ExactStep, ResultStep
<1>3. Undisturbed => Exact /\ DoneHasResult
  OBVIOUS
<1> QED BY <1>1, <1>2, <1>3, TypesAlways, PTL DEF JobSpec

(***************************************************************************)
(* No batch of a job is imported twice, however often and wherever workers *)
(* die, unless two workers have had the job in hand together.              *)
(***************************************************************************)
THEOREM AlwaysAppliedOnce == JobSpec => []AppliedOnceUnlessShared
<1>1. JobTypeOK /\ Exact => AppliedOnceUnlessShared
  BY DEF Exact, AppliedOnceUnlessShared, JobTypeOK
<1> QED BY <1>1, TypesAlways, UndisturbedAlways, PTL

(***************************************************************************)
(* A job that is done keeps the result its handler returned, unless two    *)
(* workers have had it in hand together.                                   *)
(***************************************************************************)
THEOREM DoneAlwaysHasResult == JobSpec => []DoneHasResult
  BY UndisturbedAlways, PTL
=============================================================================
