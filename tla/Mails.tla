------------------------------- MODULE Mails --------------------------------
(***************************************************************************)
(* Email (src/internal/email, src/internal/orders mail.go): an envelope is *)
(* put on a stream of its own once the change it tells of has committed;   *)
(* workers read envelopes, render them from the database and send them     *)
(* through Resend, which knows a message again by its key.  Each Redis     *)
(* command, database transaction and call to Resend is an action, and a    *)
(* worker may be killed between any two.                                   *)
(***************************************************************************)
EXTENDS Naturals

CONSTANTS
  Mail,             (* changes that send a mail; fewer than the 10 of a read *)
  Worker,           (* worker processes, restarted when they die           *)
  MaxDeliveries,    (* a failure of this delivery drops the mail           *)
  None

ASSUME MailAssumption == MaxDeliveries \in Nat \ {0} /\ None \notin Mail

VARIABLES
  wanted,           (* is there still somebody to tell?                    *)
  messages,         (* the stream's entry about each change                *)
  workers,          (* what each worker is doing                           *)
  sent,             (* the keys Resend has seen                            *)
  received          (* history: how often each mail was sent out           *)

mailVars == <<wanted, messages, workers, sent, received>>

Delivery == 0..MaxDeliveries

(* unsent and lost are a committed change whose XADD is to come, or never
   will; idle says that the group's idle time passed since the last delivery. *)
Message == [at : {"none", "unsent", "lost", "new", "pending", "acked"},
            idle : BOOLEAN, deliveries : Delivery]

WorkerState == [at : {"free", "sending", "failed", "uncounted", "acking", "dead"},
                hand : SUBSET Mail, mail : Mail \cup {None}]

MailTypeOK == /\ wanted \in [Mail -> BOOLEAN]
          /\ messages \in [Mail -> Message]
          /\ workers \in [Worker -> WorkerState]
          /\ sent \subseteq (Mail \X Delivery)
          /\ received \in [Mail -> Nat]

Free == [at |-> "free", hand |-> {}, mail |-> None]

MailInit == /\ wanted = [m \in Mail |-> TRUE]
        /\ messages = [m \in Mail |-> [at |-> "none", idle |-> FALSE, deliveries |-> 0]]
        /\ workers = [w \in Worker |-> Free]
        /\ sent = {}
        /\ received = [m \in Mail |-> 0]
-----------------------------------------------------------------------------
(* The transaction of the change commits. *)
Commit(m) == /\ messages[m].at = "none"
             /\ messages' = [messages EXCEPT ![m].at = "unsent"]
             /\ UNCHANGED <<wanted, workers, sent, received>>

(* queueMail and Enqueue, after that; or never, when the process dies first
   or Redis does not answer: that costs the mail and never the change. *)
Enqueue(m) == /\ messages[m].at = "unsent"
              /\ \E at \in {"new", "lost"} : messages' = [messages EXCEPT ![m].at = at]
              /\ UNCHANGED <<wanted, workers, sent, received>>

(* The invited user has accepted, the customer was purged, ... *)
Unwanted(m) == /\ wanted[m]
               /\ wanted' = [wanted EXCEPT ![m] = FALSE]
               /\ UNCHANGED <<messages, workers, sent, received>>

(* One more delivery, as far as it is counted. *)
Delivered(msg) == [at |-> "pending", idle |-> FALSE,
                   deliveries |-> IF msg.deliveries = MaxDeliveries THEN MaxDeliveries
                                  ELSE msg.deliveries + 1]

Deliver(w, ms) ==
  /\ ms # {}
  /\ workers[w] = Free
  /\ messages' = [m \in Mail |-> IF m \in ms THEN Delivered(messages[m]) ELSE messages[m]]
  /\ workers' = [workers EXCEPT ![w].hand = ms]
  /\ UNCHANGED <<wanted, sent, received>>

Idle == {m \in Mail : messages[m].at = "pending" /\ messages[m].idle}

(* XAUTOCLAIM first: what has been pending too long, with whomever. *)
Reclaim(w) == Deliver(w, Idle)

(* XREADGROUP, when there is nothing of the kind: what is new. *)
ReadNew(w) == Idle = {} /\ Deliver(w, {m \in Mail : messages[m].at = "new"})

(* The idle time passes, also for a mail that waits in a worker's hand: ten
   sends of ten seconds outlast it. *)
GoIdle(m) == /\ messages[m].at = "pending" /\ ~messages[m].idle
             /\ messages' = [messages EXCEPT ![m].idle = TRUE]
             /\ UNCHANGED <<wanted, workers, sent, received>>

(* deliver renders the next mail of the hand, which may fail; there may be
   nothing to send any more. *)
Render(w, m) ==
  /\ workers[w].at = "free" /\ m \in workers[w].hand
  /\ \E at \in {IF wanted[m] THEN "sending" ELSE "acking", "failed"} :
       workers' = [workers EXCEPT ![w].at = at, ![w].mail = m]
  /\ UNCHANGED <<wanted, messages, sent, received>>

(* Mutation: every delivery sends under a key of its own. *)
KeyOfDelivery(m) == <<m, messages[m].deliveries>>

(* The key a mail is sent under: an order's and its event, or the message's. *)
Key(m) == <<m, 0>>

(* Resend takes the mail, sends it unless it has seen the key, and its answer
   may be lost. *)
Send(w, answered) ==
  LET m == workers[w].mail IN
  /\ workers[w].at = "sending"
  /\ sent' = sent \cup {Key(m)}
  /\ received' = IF Key(m) \in sent THEN received ELSE [received EXCEPT ![m] = @ + 1]
  /\ workers' = [workers EXCEPT ![w].at = IF answered THEN "acking" ELSE "failed"]
  /\ UNCHANGED <<wanted, messages>>

(* Resend refuses, or is not reached. *)
SendFails(w) == /\ workers[w].at = "sending"
                /\ workers' = [workers EXCEPT ![w].at = "failed"]
                /\ UNCHANGED <<wanted, messages, sent, received>>

Leave(w) == workers' = [workers EXCEPT ![w] =
  [Free EXCEPT !.hand = workers[w].hand \ {workers[w].mail}]]

(* Mutation: a failed mail is never dropped. *)
GiveUpNever(w) == /\ workers[w].at = "failed"
                  /\ Leave(w)
                  /\ UNCHANGED <<wanted, messages, sent, received>>

(* A failure with deliveries left stays pending; the last one is dropped. *)
GiveUp(w) ==
  /\ workers[w].at = "failed"
  /\ IF messages[workers[w].mail].deliveries < MaxDeliveries THEN Leave(w)
     ELSE workers' = [workers EXCEPT ![w].at = "acking"]
  /\ UNCHANGED <<wanted, messages, sent, received>>

(* XPENDING itself fails, which counts as no delivery at all. *)
Uncounted(w) == /\ workers[w].at = "failed"
                /\ workers' = [workers EXCEPT ![w].at = "uncounted"]
                /\ UNCHANGED <<wanted, messages, sent, received>>

StaysPending(w) == /\ workers[w].at = "uncounted"
                   /\ Leave(w)
                   /\ UNCHANGED <<wanted, messages, sent, received>>

(* XACK, whose error is not looked at. *)
Ack(w, reached) ==
  /\ workers[w].at = "acking"
  /\ messages' = IF reached THEN [messages EXCEPT ![workers[w].mail].at = "acked"]
                 ELSE messages
  /\ Leave(w)
  /\ UNCHANGED <<wanted, sent, received>>

(* A worker dies, and is started again under another name. *)
Dead == [Free EXCEPT !.at = "dead"]

Die(w) == /\ workers[w] \notin {Free, Dead}
          /\ workers' = [workers EXCEPT ![w] = Dead]
          /\ UNCHANGED <<wanted, messages, sent, received>>

Restart(w) == /\ workers[w] = Dead
              /\ workers' = [workers EXCEPT ![w] = Free]
              /\ UNCHANGED <<wanted, messages, sent, received>>
-----------------------------------------------------------------------------
Works(w) == \/ \E m \in Mail : Render(w, m)
            \/ \E answered \in BOOLEAN : Send(w, answered)
            \/ SendFails(w) \/ GiveUp(w) \/ StaysPending(w) \/ Ack(w, TRUE) \/ Restart(w)

Breaks(w) == Die(w) \/ Uncounted(w) \/ Ack(w, FALSE)

MailNext == \/ \E m \in Mail : Commit(m) \/ Enqueue(m) \/ Unwanted(m) \/ GoIdle(m)
        \/ \E w \in Worker : ReadNew(w) \/ Reclaim(w) \/ Works(w) \/ Breaks(w)

MailSpec == MailInit /\ [][MailNext]_mailVars

(***************************************************************************)
(* Workers loop, a call to Resend has a deadline, time passes, and Redis   *)
(* and the processes stop breaking some day.  Resend may refuse for ever.  *)
(***************************************************************************)
MailFair == /\ <>[][~\E w \in Worker : Breaks(w)]_mailVars
        /\ \A w \in Worker : WF_mailVars(Works(w)) /\ WF_mailVars(ReadNew(w)) /\ WF_mailVars(Reclaim(w))
        /\ \A m \in Mail : WF_mailVars(GoIdle(m))

MailFairSpec == MailSpec /\ MailFair
-----------------------------------------------------------------------------
(***************************************************************************)
(* "Key makes a redelivered send a no-op at Resend" (email.go): a change   *)
(* is told of once, however often its envelope was delivered, taken over   *)
(* from a worker still at it, or sent with the answer lost.                *)
(***************************************************************************)
ToldOnce == \A m \in Mail : received[m] <= 1

(***************************************************************************)
(* "One that keeps failing is dropped after maxDeliveries" (Consume), and  *)
(* none before: an envelope leaves the stream once its mail was sent, or   *)
(* nobody wants it, or no delivery is left.                                *)
(***************************************************************************)
NoneSkipped ==
  \A m \in Mail : messages[m].at = "acked" =>
    received[m] = 1 \/ ~wanted[m] \/ messages[m].deliveries = MaxDeliveries

(***************************************************************************)
(* An envelope on the stream is done with in the end, sent, or "dropped    *)
(* after maxDeliveries" (Consume) when Resend refuses it for ever, also if *)
(* the workers that held it died: no envelope holds up the others.         *)
(***************************************************************************)
MailsEnd == \A m \in Mail : messages[m].at = "new" ~> messages[m].at = "acked"
=============================================================================
