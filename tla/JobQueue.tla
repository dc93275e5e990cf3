------------------------------ MODULE JobQueue ------------------------------
(***************************************************************************)
(* Background jobs (src/internal/jobs, src/internal/queue, the checkpoints *)
(* of src/internal/catalog/import.go): a row in jobs, a message about it   *)
(* on a Redis stream, and workers that read messages, take over those that *)
(* have been pending for ClaimIdle, run the handler in batches and record  *)
(* the outcome.  Each database transaction and each Redis command is one   *)
(* action; a worker may be killed between any two of them.                 *)
(***************************************************************************)
EXTENDS Naturals, FiniteSets

CONSTANTS
  Job,              (* jobs; fewer than the 10 messages a worker reads     *)
  Worker,           (* worker processes, restarted when they die           *)
  Batches,          (* how many batches a job's handler commits            *)
  MaxDeliveries,    (* the delivery that fails at this count fails the job *)
  Slow,             (* may a message go idle while it is handled?          *)
  NoJob

ASSUME JobAssumption == /\ Batches \in Nat
                        /\ MaxDeliveries \in Nat \ {0}
                        /\ Slow \in BOOLEAN
                        /\ NoJob \notin Job

VARIABLES
  jobs,             (* the jobs table                                      *)
  applied,          (* how often a batch's rows were moved into the shop   *)
  messages,         (* the stream's message about each job                 *)
  workers,          (* what each worker is doing                           *)
  shared,           (* history: jobs delivered to a worker while another   *)
                    (* one still had them in hand                          *)
  unrecorded        (* history: jobs given up by a FailJob that failed     *)

jobVars == <<jobs, applied, messages, workers, shared, unrecorded>>

BatchNo == 1..Batches
Ended == {"done", "failed"}

(* result is what jobs.result holds: the tally of a checkpoint, or what the
   handler returned in the end. *)
JobRow == [state : {"none", "queued", "running"} \cup Ended,
           processed : 0..Batches, result : {"null", "tally", "final"}]

(* unsent and lost are a committed job whose XADD is still to come, or never
   will; idle says that ClaimIdle has passed since the last delivery. *)
Message == [at : {"none", "unsent", "lost", "new", "pending", "acked"},
            idle : BOOLEAN, deliveries : 0..MaxDeliveries]

(* hand holds the messages read and not yet processed, job the one being
   processed, done the handler's own count of batches. *)
WorkerState == [at : {"free", "started", "working", "acking"}, hand : SUBSET Job,
                job : Job \cup {NoJob}, done : 0..Batches]

JobTypeOK == /\ jobs \in [Job -> JobRow]
             /\ applied \in [Job -> [BatchNo -> {"never", "once", "again"}]]
             /\ messages \in [Job -> Message]
             /\ workers \in [Worker -> WorkerState]
             /\ shared \subseteq Job
             /\ unrecorded \subseteq Job

AtRest == [at |-> "free", hand |-> {}, job |-> NoJob, done |-> 0]

JobInit == /\ jobs = [j \in Job |-> [state |-> "none", processed |-> 0, result |-> "null"]]
           /\ applied = [j \in Job |-> [b \in BatchNo |-> "never"]]
           /\ messages = [j \in Job |-> [at |-> "none", idle |-> FALSE, deliveries |-> 0]]
           /\ workers = [w \in Worker |-> AtRest]
           /\ shared = {} /\ unrecorded = {}
-----------------------------------------------------------------------------
(* CreateWithID, in the transaction of the request that asks for the job. *)
CreateJob(j) == /\ jobs[j].state = "none"
                /\ jobs' = [jobs EXCEPT ![j].state = "queued"]
                /\ messages' = [messages EXCEPT ![j].at = "unsent"]
                /\ UNCHANGED <<applied, workers, shared, unrecorded>>

(* Enqueue, once that has committed; or never, when the caller dies first or
   Redis does not answer. *)
Enqueue(j) == /\ messages[j].at = "unsent"
              /\ \E at \in {"new", "lost"} :
                   messages' = [messages EXCEPT ![j].at = at]
              /\ UNCHANGED <<jobs, applied, workers, shared, unrecorded>>

(* One more delivery, as far as it is counted. *)
Delivered(m) == [at |-> "pending", idle |-> FALSE,
                 deliveries |-> IF m.deliveries = MaxDeliveries THEN MaxDeliveries
                                ELSE m.deliveries + 1]

Held(j) == \E w \in Worker : j \in workers[w].hand

(* A delivery of every message in js to w. *)
Deliver(w, js) ==
  /\ js # {}
  /\ workers[w] = AtRest
  /\ messages' = [j \in Job |-> IF j \in js THEN Delivered(messages[j]) ELSE messages[j]]
  /\ workers' = [workers EXCEPT ![w].hand = js]
  /\ shared' = shared \cup {j \in js : Held(j)}
  /\ UNCHANGED <<jobs, applied, unrecorded>>

(* XREADGROUP: what is new. *)
Read(w) == Deliver(w, {j \in Job : messages[j].at = "new"})

(* XAUTOCLAIM: what has been pending too long, with whomever. *)
Reclaim(w) == Deliver(w, {j \in Job : messages[j].at = "pending" /\ messages[j].idle})

(* ClaimIdle passes, counted from the delivery: a worker takes its messages
   one after another, so also for one that waits in its hand.  Without Slow
   only the one it is at is spared. *)
GoIdle(j) == /\ messages[j].at = "pending" /\ ~messages[j].idle
             /\ Slow \/ \A w \in Worker : workers[w].job # j
             /\ messages' = [messages EXCEPT ![j].idle = TRUE]
             /\ UNCHANGED <<jobs, applied, workers, shared, unrecorded>>

(* What StartJob's WHERE lets start. *)
Startable(j) == jobs[j].state \in {"queued", "running"}

(* process, from the top: StartJob, whose RETURNING tells where to resume. *)
Start(w, j) ==
  /\ workers[w].at = "free" /\ j \in workers[w].hand
  /\ Startable(j)
  /\ jobs' = [jobs EXCEPT ![j].state = "running"]
  /\ workers' = [workers EXCEPT ![w] =
       [at |-> "started", hand |-> workers[w].hand, job |-> j, done |-> jobs[j].processed]]
  /\ UNCHANGED <<applied, messages, shared, unrecorded>>

(* StartJob finds the job done or failed: nothing left to do but the ack. *)
Skip(w, j) ==
  /\ workers[w].at = "free" /\ j \in workers[w].hand
  /\ ~Startable(j)
  /\ workers' = [workers EXCEPT ![w].at = "acking", ![w].job = j]
  /\ UNCHANGED <<jobs, applied, messages, shared, unrecorded>>

(* The worker turns to the next message of its hand. *)
Leave(w) == workers' = [workers EXCEPT ![w] =
  [AtRest EXCEPT !.hand = workers[w].hand \ {workers[w].job}]]

(* StartJob fails: the message stays pending. *)
StartFails(w, j) == /\ workers[w].at = "free" /\ j \in workers[w].hand
                    /\ workers' = [workers EXCEPT ![w].hand = @ \ {j}]
                    /\ UNCHANGED <<jobs, applied, messages, shared, unrecorded>>

(* ImportHandler, up to its first batch: the file is read, then JobProgress
   writes the counts as StartJob had returned them. *)
Report(w) ==
  LET j == workers[w].job IN
  /\ workers[w].at = "started"
  /\ jobs' = IF jobs[j].state = "running"
             THEN [jobs EXCEPT ![j].processed = workers[w].done] ELSE jobs
  /\ workers' = [workers EXCEPT ![w].at = "working"]
  /\ UNCHANGED <<applied, messages, shared, unrecorded>>

(* How often a batch is in once it is applied again. *)
Again(times) == IF times = "never" THEN "once" ELSE "again"

(* Mutation: the checkpoint commits on its own, before the rows do. *)
CheckpointFirst(w) ==
  LET j == workers[w].job
      b == workers[w].done + 1
  IN
  /\ workers[w].at = "working" /\ b \in BatchNo
  /\ IF jobs[j].processed < b
     THEN /\ jobs' = [jobs EXCEPT ![j].processed = b]
          /\ UNCHANGED <<applied, workers>>
     ELSE /\ applied' = [applied EXCEPT ![j][b] = Again(applied[j][b])]
          /\ workers' = [workers EXCEPT ![w].done = b]
          /\ UNCHANGED jobs
  /\ UNCHANGED <<messages, shared, unrecorded>>

(* Mutation: no checkpoint is written. *)
BatchUncounted(w) ==
  LET j == workers[w].job
      b == workers[w].done + 1
  IN
  /\ workers[w].at = "working" /\ b \in BatchNo
  /\ applied' = [applied EXCEPT ![j][b] = Again(applied[j][b])]
  /\ workers' = [workers EXCEPT ![w].done = b]
  /\ UNCHANGED <<jobs, messages, shared, unrecorded>>

(* importBatch: the rows and CheckpointJob, in one transaction. *)
Batch(w) ==
  LET j == workers[w].job
      b == workers[w].done + 1
  IN
  /\ workers[w].at = "working" /\ b \in BatchNo
  /\ applied' = [applied EXCEPT ![j][b] = Again(applied[j][b])]
  /\ jobs' = [jobs EXCEPT ![j].processed = b, ![j].result = "tally"]
  /\ workers' = [workers EXCEPT ![w].done = b]
  /\ UNCHANGED <<messages, shared, unrecorded>>

(* FinishJob: only a running job is done. *)
Finish(w) ==
  LET j == workers[w].job IN
  /\ workers[w].at = "working" /\ workers[w].done = Batches
  /\ jobs' = IF jobs[j].state = "running"
             THEN [jobs EXCEPT ![j].state = "done", ![j].result = "final"] ELSE jobs
  /\ workers' = [workers EXCEPT ![w].at = "acking"]
  /\ UNCHANGED <<applied, messages, shared, unrecorded>>

(* FinishJob fails: the message stays pending. *)
FinishFails(w) == /\ workers[w].at = "working" /\ workers[w].done = Batches
                  /\ Leave(w)
                  /\ UNCHANGED <<jobs, applied, messages, shared, unrecorded>>

Running(w) == workers[w].at \in {"started", "working"}

(* The handler fails, and has deliveries left: it stays pending. *)
Retry(w) == /\ Running(w)
            /\ messages[workers[w].job].deliveries < MaxDeliveries
            /\ Leave(w)
            /\ UNCHANGED <<jobs, applied, messages, shared, unrecorded>>

(* Mutation: the failure is only logged. *)
GiveUpSilently(w) ==
  /\ Running(w)
  /\ workers' = [workers EXCEPT ![w].at = "acking"]
  /\ UNCHANGED <<jobs, applied, messages, shared, unrecorded>>

(* The handler fails for the last time, or XPENDING does too: FailJob.  A
   FailJob that fails is logged, and the message is acknowledged all the same. *)
GiveUp(w) ==
  LET j == workers[w].job IN
  /\ Running(w)
  /\ \/ /\ jobs' = IF Startable(j) THEN [jobs EXCEPT ![j].state = "failed"] ELSE jobs
        /\ UNCHANGED unrecorded
     \/ unrecorded' = unrecorded \cup {j} /\ UNCHANGED jobs
  /\ workers' = [workers EXCEPT ![w].at = "acking"]
  /\ UNCHANGED <<applied, messages, shared>>

(* XACK, or an error that is only logged. *)
Ack(w, reached) ==
  /\ workers[w].at = "acking"
  /\ messages' = IF reached THEN [messages EXCEPT ![workers[w].job].at = "acked"]
                 ELSE messages
  /\ Leave(w)
  /\ UNCHANGED <<jobs, applied, shared, unrecorded>>

(* The process is killed, and started again with a new consumer name. *)
Die(w) == /\ workers[w] # AtRest
          /\ workers' = [workers EXCEPT ![w] = AtRest]
          /\ UNCHANGED <<jobs, applied, messages, shared, unrecorded>>
-----------------------------------------------------------------------------
Works(w) == \/ \E j \in Job : Start(w, j) \/ Skip(w, j)
            \/ Report(w) \/ Batch(w) \/ Finish(w) \/ Retry(w) \/ GiveUp(w)
            \/ \E reached \in BOOLEAN : Ack(w, reached)

Breaks(w) == Die(w) \/ FinishFails(w) \/ \E j \in Job : StartFails(w, j)

JobNext == \/ \E j \in Job : CreateJob(j) \/ Enqueue(j) \/ GoIdle(j)
           \/ \E w \in Worker : Read(w) \/ Reclaim(w) \/ Works(w) \/ Breaks(w)

JobSpec == JobInit /\ [][JobNext]_jobVars

(***************************************************************************)
(* Workers run (a handler ends, well or with an error), time passes, and   *)
(* the database and the processes stop breaking some day.  (A Retry of the *)
(* only message in hand is a step that Die takes too; no message has more  *)
(* than MaxDeliveries of them, so that forbids nothing that goes on.)      *)
(***************************************************************************)
JobFair == /\ <>[][~\E w \in Worker : Breaks(w)]_jobVars
           /\ \A w \in Worker : /\ WF_jobVars(Works(w)) /\ WF_jobVars(Read(w))
                                /\ WF_jobVars(Reclaim(w))
           /\ \A j \in Job : WF_jobVars(GoIdle(j))

FairJobSpec == JobSpec /\ JobFair
-----------------------------------------------------------------------------
(***************************************************************************)
(* A job that says done is done: every batch of it is in the shop, however *)
(* many workers it was taken over by, and even while two of them run it at *)
(* once and write each other's checkpoints (import.go, BR-060).            *)
(***************************************************************************)
DoneIsWhole ==
  \A j \in Job : jobs[j].state = "done" =>
    \A b \in BatchNo : applied[j][b] # "never"

(***************************************************************************)
(* An outcome is final: a job that was done or failed when a late worker   *)
(* gets to it stays so (StartJob, FinishJob, FailJob).                     *)
(***************************************************************************)
OutcomeIsFinal ==
  [][\A j \in Job : jobs[j].state \in Ended => jobs'[j].state = jobs[j].state]_jobVars

(***************************************************************************)
(* "A redelivered job resumes after the last batch it committed, so a row  *)
(* is never applied twice" (04-api-spec.md 7), as it is said there.        *)
(***************************************************************************)
AppliedOnce == \A j \in Job, b \in BatchNo : applied[j][b] # "again"

(***************************************************************************)
(* And as it is: however often and wherever workers die, the counts of the *)
(* row say which batches are in, as long as no worker was handed a job     *)
(* that another one, alive, still had in hand, begun or not (jobs.go,      *)
(* import.go).                                                             *)
(***************************************************************************)
AppliedOnceUnlessShared ==
  \A j \in Job \ shared, b \in BatchNo : applied[j][b] # "again"

(***************************************************************************)
(* "It acknowledges only once the row records an outcome" (jobs.go:130),   *)
(* as it is said there.                                                    *)
(***************************************************************************)
AckedHasOutcome ==
  \A j \in Job : messages[j].at = "acked" => jobs[j].state \in Ended

(***************************************************************************)
(* And as it is: a message that is gone for good leaves no job that waits  *)
(* for it, but one whose FailJob failed (process, fail in jobs.go).        *)
(***************************************************************************)
AckedUnlessUnrecorded ==
  \A j \in Job \ unrecorded : messages[j].at = "acked" => jobs[j].state \in Ended

(***************************************************************************)
(* A job done is finished once (jobs.go: "a redelivery finishes a job      *)
(* once"): its row holds the handler's result and no worker's tally,       *)
(* unless two had the job in hand.                                         *)
(***************************************************************************)
DoneHasResult == \A j \in Job \ shared : jobs[j].state = "done" => jobs[j].result = "final"

(***************************************************************************)
(* Every job that reached the stream has an outcome in the end: taken over *)
(* from workers that died, retried while deliveries are left, given up     *)
(* after that, if FailJob does not fail then.                              *)
(***************************************************************************)
JobsEnd == \A j \in Job :
  messages[j].at = "new" ~> jobs[j].state \in Ended \/ j \in unrecorded
=============================================================================
