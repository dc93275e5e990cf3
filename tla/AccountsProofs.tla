--------------------------- MODULE AccountsProofs ---------------------------
(***************************************************************************)
(* Proofs about customer accounts, for any number of customers, Google     *)
(* accounts and sign-ins.  What a step may do to one row of a table is     *)
(* said once for each table (CustomerSteps, RequestSteps, SessionSteps,    *)
(* LoginSteps); Found, that what names a customer names one that was made, *)
(* and that a sign-in about to link found its customer there unless that   *)
(* was signed out since, is the invariant the others stand on.             *)
(***************************************************************************)
EXTENDS Accounts, TLAPS

Made(c) == customers[c].state # "absent"

(* What the sign-in r names. *)
Names(r) ==
  /\ req[r].at \in {"linking", "signing"} =>
       /\ req[r].customer \in Customer /\ Made(req[r].customer)
       /\ req[r].epoch <= customers[req[r].customer].epoch
  /\ req[r].at = "linking" /\ req[r].epoch = customers[req[r].customer].epoch =>
       There(req[r].customer)
  /\ req[r].at \in {"look", "unknown", "linking", "creating"} =>
       req[r].subject \in Subject /\ req[r].email \in Email
  /\ req[r].at # "idle" /\ req[r].pass = 2 => req[r].subject \in Subject
  /\ req[r].at = "idle" => req[r] = NoReq

CustomersFound == \A c \in Customer :
  /\ customers[c].email # None => There(c)
  /\ customers[c].hash <= customers[c].epoch
  /\ ~Made(c) => customers[c].hash = 0

LoginsFound == \A g \in Subject : identities[g] # None => Made(identities[g])

SessionsFound == \A s \in Session : sessions[s].live =>
  sessions[s].customer \in Customer /\ Made(sessions[s].customer)

LinksFound == \A l \in links : Made(l[1]) /\ l[2] <= customers[l[1]].epoch

Found == /\ CustomersFound /\ LoginsFound /\ SessionsFound /\ LinksFound
         /\ \A r \in Req : Names(r)

-----------------------------------------------------------------------------
(* What a step does to the customers. *)

Makes(c, e, hash) == /\ customers[c].state = "absent" /\ hash \in {0, 1}
                     /\ customers' = Created(c, e, hash)
                     /\ \/ hash = 1 /\ identities' = identities
                        \/ \E g \in Subject : /\ identities[g] = None
                                              /\ identities' = [identities EXCEPT ![g] = c]

LEMMA CustomerSteps ==
  ASSUME TypeOK, Found, [Next]_vars
  PROVE  \/ customers' = customers
         \/ \E c \in Customer, e \in Email, hash \in {0, 1} : Makes(c, e, hash)
         \/ \E c \in Customer, hash \in Epoch : ConfirmReset(c, hash)
         \/ \E c \in Customer : Purge(c)
<1>1. ASSUME NEW c \in Customer, NEW e \in Email, NEW s \in Session, Register(c, e, s)
      PROVE  Makes(c, e, 1)
  BY <1>1 DEF Register, Makes
<1>2. ASSUME NEW r \in Req, NEW c \in Customer, NEW s \in Session, Create(r, c, s)
      PROVE  customers' = customers \/ \E e \in Email : Makes(c, e, 0)
  <2>1. req[r].subject \in Subject /\ req[r].email \in Email
    BY <1>2 DEF Create, Found, Names
  <2> QED BY <1>2, <2>1 DEF Create, Again, Makes
<1>3. ASSUME NEW r \in Req, NEW s \in Session, Link(r, s) PROVE customers' = customers
  BY <1>3 DEF Link, Again
<1> QED BY <1>1, <1>2, <1>3 DEF Next, PasswordNext, GoogleNext, SessionNext, Login, SignIn, Abandon,
        MintLink, Rotate, Reuse, Logout, End, Google, Look, ByEmail, vars

(* What a step may do to the row of one customer. *)
RowStep(c) ==
  \/ customers'[c] = customers[c]
  \/ /\ customers[c].state = "absent" /\ customers'[c].state = "there"
     /\ customers'[c].hash = customers'[c].epoch
  \/ /\ Made(c) /\ customers'[c].state = customers[c].state
     /\ customers'[c].email = customers[c].email
     /\ customers'[c].epoch = customers[c].epoch + 1
     /\ customers'[c].hash = customers[c].epoch + 1
  \/ /\ Made(c) /\ customers'[c].state = "purged" /\ customers'[c].email = None
     /\ customers'[c].epoch = customers[c].epoch + 1 /\ customers'[c].hash = 0

LEMMA RowSteps ==
  ASSUME TypeOK, Found, [Next]_vars
  PROVE  customers' \in [Customer -> CustomerRow] /\ \A c \in Customer : RowStep(c)
<1> USE DEF TypeOK
<1>1. CASE customers' = customers
  BY <1>1 DEF RowStep
<1>2. ASSUME NEW c \in Customer, NEW e \in Email, NEW hash \in {0, 1}, Makes(c, e, hash)
      PROVE  customers' \in [Customer -> CustomerRow] /\ \A d \in Customer : RowStep(d)
  <2>1. hash \in Epoch
    BY AccountsAssumption DEF Epoch
  <2> QED BY <1>2, <2>1 DEF Makes, Created, CustomerRow, RowStep
<1>3. ASSUME NEW c \in Customer, NEW hash \in Epoch, ConfirmReset(c, hash)
      PROVE  customers' \in [Customer -> CustomerRow] /\ \A d \in Customer : RowStep(d)
  <2>1. /\ customers[c].epoch + 1 \in Epoch
        /\ customers' = [customers EXCEPT ![c] = [customers[c] EXCEPT
             !.hash = customers[c].epoch + 1, !.epoch = customers[c].epoch + 1]]
    BY <1>3, AccountsAssumption DEF ConfirmReset, PasswordSet, CustomerRow, Epoch
  <2>2. Made(c)
    BY <1>3 DEF ConfirmReset, Found, LinksFound
  <2> QED BY <2>1, <2>2 DEF CustomerRow, RowStep
<1>4. ASSUME NEW c \in Customer, Purge(c)
      PROVE  customers' \in [Customer -> CustomerRow] /\ \A d \in Customer : RowStep(d)
  <2> DEFINE row == [state |-> "purged", email |-> None, hash |-> 0,
                     epoch |-> customers[c].epoch + 1]
  <2>1. row \in CustomerRow
    BY <1>4, AccountsAssumption DEF Purge, CustomerRow, Epoch
  <2>2. customers' = [customers EXCEPT ![c] = row] /\ Made(c)
    BY <1>4 DEF Purge, Made
  <2> QED BY <2>1, <2>2 DEF RowStep
<1> QED BY <1>1, <1>2, <1>3, <1>4, CustomerSteps

(* A customer once made stays, its epoch grows, and with an unchanged      *)
(* epoch nothing about it has changed.                                     *)
LEMMA RowsKept ==
  ASSUME TypeOK, Found, [Next]_vars, NEW c \in Customer, Made(c)
  PROVE  /\ Made(c)'
         /\ customers[c].epoch \in Nat /\ customers'[c].epoch \in Nat
         /\ customers'[c].epoch >= customers[c].epoch
         /\ customers'[c].epoch = customers[c].epoch => customers'[c] = customers[c]
         /\ There(c)' => There(c)
         /\ customers[c].state = "purged" => customers'[c].state = "purged"
<1>1. customers[c].epoch \in Nat /\ customers'[c].epoch \in Nat /\ RowStep(c)
  BY RowSteps DEF TypeOK, CustomerRow, Epoch
<1> QED BY <1>1 DEF RowStep, Made, There

-----------------------------------------------------------------------------
(* What a step does to the sign-ins. *)

Same(p, q) == p.subject = q.subject /\ p.email = q.email /\ p.pass = q.pass

RequestStep(r, q) ==
  \/ q = NoReq
  \/ /\ req[r].at = "idle" /\ q.at = "look" /\ q.pass = 1
     /\ q.subject \in Subject /\ q.email \in Email
  \/ /\ req[r].at \in {"idle", "look"} /\ q.at = "signing" /\ Same(q, req[r])
     /\ q.customer \in Customer /\ Made(q.customer) /\ q.epoch = customers[q.customer].epoch
  \/ /\ req[r].at = "look" /\ q.at = "unknown" /\ Same(q, req[r])
     /\ identities[req[r].subject] = None
  \/ /\ req[r].at = "unknown" /\ q.at = "linking" /\ Same(q, req[r])
     /\ q.customer \in Customer /\ There(q.customer) /\ q.epoch = customers[q.customer].epoch
  \/ req[r].at = "unknown" /\ q.at = "creating" /\ Same(q, req[r])
  \/ req[r].at = "creating" /\ q.at = "failed" /\ Same(q, req[r])
  \/ /\ req[r].at \in {"linking", "creating"} /\ q.at \in {"look", "failed"}
     /\ q.pass = 2 /\ q.subject = req[r].subject /\ q.email = req[r].email
     /\ identities[req[r].subject] # None

RequestsStep == \E r \in Req, q \in ReqRow : RequestStep(r, q) /\ req' = [req EXCEPT ![r] = q]

LEMMA NoRows == NoReq \in ReqRow /\ NoSession \in SessionRow /\ NoCustomer \in CustomerRow
  BY AccountsAssumption DEF NoReq, NoSession, NoCustomer, ReqRow, SessionRow, CustomerRow, Epoch

LEMMA AgainSteps ==
  ASSUME TypeOK, NEW r \in Req, req[r].at \in {"linking", "creating"}, Again(r)
  PROVE  RequestsStep
<1> DEFINE q == [req[r] EXCEPT !.at = IF req[r].pass = 1 THEN "look" ELSE "failed",
                               !.customer = None, !.epoch = 0, !.pass = 2]
<1>1. q \in ReqRow
  <2>1. req[r] \in ReqRow /\ 0 \in Epoch
    BY AccountsAssumption DEF TypeOK, Epoch
  <2> QED BY <2>1 DEF ReqRow
<1>2. req' = [req EXCEPT ![r] = q]
  BY DEF Again, TypeOK
<1>3. RequestStep(r, q)
  BY DEF Again, RequestStep, TypeOK, ReqRow
<1> QED BY <1>1, <1>2, <1>3 DEF RequestsStep

LEMMA RequestSteps ==
  ASSUME TypeOK, Found, [Next]_vars
  PROVE  req' = req \/ RequestsStep
<1> USE DEF TypeOK
<1> DEFINE To(r, q) == /\ q \in ReqRow /\ RequestStep(r, q)
                       /\ req' = [req EXCEPT ![r] = q]
<1>1. ASSUME NEW r \in Req, NEW c \in Customer, Login(r, c)
      PROVE  \E q : To(r, q)
  <2> DEFINE q == [NoReq EXCEPT !.at = "signing", !.customer = c, !.epoch = customers[c].epoch]
  <2>1. q \in ReqRow
    BY NoRows DEF ReqRow, CustomerRow
  <2>2. Made(c)
    BY <1>1 DEF Login, Found, CustomersFound
  <2>3. Same(q, req[r])
    BY <1>1 DEF Login, Same, NoReq, Found, Names
  <2>4. RequestStep(r, q)
    BY <1>1, <2>2, <2>3 DEF Login, RequestStep, NoReq
  <2> QED BY <1>1, <2>1, <2>4 DEF Login
<1>2. ASSUME NEW r \in Req, NEW g \in Subject, NEW e \in Email, Google(r, g, e)
      PROVE  \E q : To(r, q)
  <2> DEFINE q == [NoReq EXCEPT !.at = "look", !.subject = g, !.email = e]
  <2>1. q \in ReqRow
    BY NoRows DEF ReqRow
  <2>2. RequestStep(r, q)
    BY <1>2 DEF Google, RequestStep, NoReq
  <2> QED BY <1>2, <2>1, <2>2 DEF Google
<1>3. ASSUME NEW r \in Req, Look(r)
      PROVE  \E q : To(r, q)
  <2> DEFINE c == identities[req[r].subject]
             q == [req[r] EXCEPT !.at = "signing", !.customer = c, !.epoch = customers[c].epoch]
             p == [req[r] EXCEPT !.at = "unknown"]
  <2>1. req[r].subject \in Subject /\ req[r] \in ReqRow /\ req[r].at = "look"
    BY <1>3 DEF Look, Found, Names
  <2>2. CASE c # None
    <3>1. c \in Customer /\ Made(c)
      BY <2>1, <2>2 DEF Found, LoginsFound
    <3>2. q \in ReqRow
      BY <2>1, <3>1 DEF ReqRow, CustomerRow
    <3>3. RequestStep(r, q)
      BY <2>1, <3>1 DEF RequestStep, Same, ReqRow
    <3>4. req' = [req EXCEPT ![r] = q]
      BY <1>3, <2>2 DEF Look
    <3> QED BY <3>2, <3>3, <3>4
  <2>3. CASE c = None
    <3>1. p \in ReqRow /\ RequestStep(r, p)
      BY <2>1, <2>3 DEF RequestStep, Same, ReqRow
    <3>2. req' = [req EXCEPT ![r] = p]
      BY <1>3, <2>3 DEF Look
    <3> QED BY <3>1, <3>2
  <2> QED BY <2>2, <2>3
<1>4. ASSUME NEW r \in Req, ByEmail(r)
      PROVE  \E q : To(r, q)
  <2>1. req[r] \in ReqRow /\ req[r].at = "unknown" /\ req[r].email \in Email
    BY <1>4 DEF ByEmail, Found, Names
  <2>2. ASSUME NEW c \in WithEmail(req[r].email),
               req' = [req EXCEPT ![r].at = "linking", ![r].customer = c, ![r].epoch = customers[c].epoch]
        PROVE  \E q : To(r, q)
    <3> DEFINE q == [req[r] EXCEPT !.at = "linking", !.customer = c, !.epoch = customers[c].epoch]
    <3>1. c \in Customer /\ There(c)
      BY <2>1, AccountsAssumption DEF WithEmail, Found, CustomersFound
    <3>2. q \in ReqRow
      BY <2>1, <3>1 DEF ReqRow, CustomerRow
    <3>3. RequestStep(r, q)
      BY <2>1, <3>1 DEF RequestStep, Same, ReqRow
    <3>4. req' = [req EXCEPT ![r] = q]
      BY <2>2
    <3> QED BY <3>2, <3>3, <3>4
  <2>3. ASSUME req' = [req EXCEPT ![r].at = "creating"] PROVE \E q : To(r, q)
    <3> DEFINE q == [req[r] EXCEPT !.at = "creating"]
    <3>1. q \in ReqRow /\ RequestStep(r, q)
      BY <2>1 DEF RequestStep, Same, ReqRow
    <3>2. req' = [req EXCEPT ![r] = q]
      BY <2>3
    <3> QED BY <3>1, <3>2
  <2> QED BY <1>4, <2>2, <2>3 DEF ByEmail
<1>5. ASSUME NEW r \in Req, NEW s \in Session, Link(r, s) \/ SignIn(r, s)
      PROVE  RequestsStep
  <2>1. CASE Over(r)
    BY <2>1, NoRows DEF Over, RequestsStep, RequestStep
  <2> QED BY <1>5, <2>1, AgainSteps DEF Link, SignIn
<1>6. ASSUME NEW r \in Req, NEW c \in Customer, NEW s \in Session, Create(r, c, s)
      PROVE  RequestsStep
  <2>1. CASE Over(r)
    BY <2>1, NoRows DEF Over, RequestsStep, RequestStep
  <2>2. CASE req' = [req EXCEPT ![r].at = "failed"]
    <3> DEFINE q == [req[r] EXCEPT !.at = "failed"]
    <3>1. q \in ReqRow /\ RequestStep(r, q)
      BY <1>6 DEF Create, RequestStep, Same, ReqRow
    <3>2. req' = [req EXCEPT ![r] = q]
      BY <2>2
    <3> QED BY <3>1, <3>2 DEF RequestsStep
  <2> QED BY <1>6, <2>1, <2>2, AgainSteps DEF Create
<1>7. ASSUME NEW r \in Req, Abandon(r) PROVE RequestsStep
  BY <1>7, NoRows DEF Abandon, Over, RequestsStep, RequestStep
<1>8. (\E r \in Req : \E q : To(r, q)) => RequestsStep
  BY DEF RequestsStep
<1> HIDE DEF To
<1>9. CASE UNCHANGED req
  BY <1>9
<1> QED BY <1>1, <1>2, <1>3, <1>4, <1>5, <1>6, <1>7, <1>8, <1>9 DEF Next, PasswordNext, GoogleNext,
        SessionNext, Register, MintLink, ConfirmReset, Purge, Rotate, Reuse, Logout, End, vars

-----------------------------------------------------------------------------
(* What a step does to the sessions and the logins, and to late. *)

Opens(s) == \E c \in Customer, epoch \in Epoch :
  /\ ~sessions[s].live /\ sessions' = Opened(s, c, epoch)
  /\ Made(c)' /\ (epoch = customers'[c].epoch \/ s \in late')

SessionsStep ==
  \/ sessions' = sessions
  \/ \E s \in Session : Opens(s)
  \/ \E s \in Session : sessions[s].live /\ sessions' = [sessions EXCEPT ![s].rotated = TRUE]
  \/ \E s \in Session : sessions' = [sessions EXCEPT ![s] = NoSession]
  \/ \E c \in Customer : sessions' = Ended(c)

Links(g) == \E c \in Customer :
  /\ identities[g] = None /\ identities' = [identities EXCEPT ![g] = c]
  /\ Made(c)' /\ (There(c)' \/ g \in late')

LoginsStep ==
  \/ identities' = identities
  \/ \E g \in Subject : Links(g)
  \/ \E c \in Customer : Purge(c)

(* late keeps a session that stays, and a login that stays. *)
LateStep ==
  /\ late' \subseteq Session \cup Subject
  /\ \A s \in Session : s \in late /\ sessions[s].live /\ sessions'[s].live => s \in late'
  /\ \A g \in Subject : g \in late /\ identities[g] # None /\ identities'[g] = identities[g] => g \in late'

Tables == SessionsStep /\ LoginsStep /\ LateStep

LEMMA RegisterTables ==
  ASSUME TypeOK, Found, NEW c \in Customer, NEW e \in Email, NEW s \in Session, Register(c, e, s)
  PROVE  Tables
<1>1. customers'[c].state = "there" /\ customers'[c].epoch = 1 /\ 1 \in Epoch
  BY AccountsAssumption DEF Register, Created, TypeOK, Epoch
<1>2. Opens(s)
  BY <1>1 DEF Register, Opens, Unused, Made
<1> QED BY <1>2 DEF Register, Tables, SessionsStep, LoginsStep, LateStep, TypeOK

LEMMA CreateTables ==
  ASSUME TypeOK, Found, NEW r \in Req, NEW c \in Customer, NEW s \in Session, Create(r, c, s)
  PROVE  Tables
<1> DEFINE g == req[r].subject
<1>1. g \in Subject
  BY DEF Create, Found, Names
<1>2. CASE UNCHANGED <<identities, sessions, late>>
  BY <1>2 DEF Tables, SessionsStep, LoginsStep, LateStep, TypeOK
<1>3. ASSUME customers' = Created(c, req[r].email, 0), identities[g] = None, Unused(s),
             identities' = [identities EXCEPT ![g] = c], sessions' = Opened(s, c, 0), late' = late
      PROVE  Tables
  <2>1. There(c)' /\ Made(c)' /\ customers'[c].epoch = 0 /\ 0 \in Epoch
    BY <1>3, AccountsAssumption DEF Created, TypeOK, Epoch, There, Made
  <2>2. Opens(s)
    BY <1>3, <2>1 DEF Opens, Unused
  <2>3. Links(g)
    BY <1>3, <2>1 DEF Links
  <2> QED BY <1>1, <1>3, <2>2, <2>3 DEF Tables, SessionsStep, LoginsStep, LateStep, TypeOK
<1> QED BY <1>2, <1>3 DEF Create, Again

LEMMA LateSession ==
  ASSUME TypeOK, Found, NEW r \in Req, req[r].at \in {"linking", "signing"}, customers' = customers,
         NEW s \in Session, Unused(s), NEW new \in SUBSET (Session \cup Subject), s \in new,
         sessions' = Opened(s, req[r].customer, req[r].epoch), late' = LateWith(r, new)
  PROVE  Opens(s)
<1> PICK c \in Customer : c = req[r].customer
  BY DEF Found, Names
<1>1. Made(c)' /\ req[r].epoch \in Epoch
  BY DEF Found, Names, TypeOK, ReqRow, Made
<1>2. req[r].epoch = customers'[c].epoch \/ s \in late'
  BY DEF LateWith
<1> QED BY <1>1, <1>2 DEF Opens, Unused

LEMMA SignInTables ==
  ASSUME TypeOK, Found, NEW r \in Req, NEW s \in Session, SignIn(r, s)
  PROVE  Tables
<1>1. Opens(s)
  BY LateSession, {s} \in SUBSET (Session \cup Subject) DEF SignIn
<1>2. ~sessions[s].live /\ late \ {s} \subseteq late' /\ late' \subseteq late \cup {s}
  BY DEF SignIn, LateWith, Unused
<1>3. LateStep
  BY <1>2, AccountsAssumption DEF LateStep, TypeOK
<1> QED BY <1>1, <1>3 DEF SignIn, Tables, SessionsStep, LoginsStep

LEMMA LinkTables ==
  ASSUME TypeOK, Found, NEW r \in Req, NEW s \in Session, Link(r, s)
  PROVE  Tables
<1> PICK g \in Subject, c \in Customer : g = req[r].subject /\ c = req[r].customer
  BY DEF Link, Found, Names
<1>1. Made(c)
  BY DEF Link, Found, Names
<1>2. CASE UNCHANGED <<identities, sessions, late>>
  BY <1>2 DEF Tables, SessionsStep, LoginsStep, LateStep, TypeOK
<1>3. ASSUME identities[g] = None, Unused(s), identities' = [identities EXCEPT ![g] = c],
             sessions' = Opened(s, c, req[r].epoch), late' = LateWith(r, {s, g}), customers' = customers
      PROVE  Tables
  <2>1. Opens(s)
    BY <1>1, <1>3, LateSession, {s, g} \in SUBSET (Session \cup Subject) DEF Link
  <2>2. There(c)' \/ g \in late'
    BY <1>3 DEF Link, LateWith, Found, Names, There
  <2>3. Links(g)
    BY <1>1, <1>3, <2>2 DEF Links, Made
  <2>4. ~sessions[s].live /\ late \ {s, g} \subseteq late' /\ late' \subseteq late \cup {s, g}
    BY <1>3 DEF LateWith, Unused
  <2>5. LateStep
    BY <1>1, <1>3, <2>4, AccountsAssumption DEF LateStep, TypeOK
  <2> QED BY <1>1, <2>1, <2>3, <2>5 DEF Tables, SessionsStep, LoginsStep
<1> QED BY <1>2, <1>3 DEF Link, Again

LEMMA EndedRow ==
  ASSUME TypeOK, NEW c \in Customer, sessions' = Ended(c), NEW s \in Session
  PROVE  /\ sessions[s].customer = c => sessions'[s] = NoSession
         /\ sessions[s].customer # c => sessions'[s] = sessions[s]
  BY DEF Ended, SessionsOf

LEMMA ResetTables ==
  ASSUME TypeOK, Found, NEW c \in Customer, NEW hash \in Epoch, ConfirmReset(c, hash)
  PROVE  Tables
<1>1. \A s \in Session : s \in SessionsOf(c) => ~sessions'[s].live
  BY EndedRow DEF ConfirmReset, SessionsOf, NoSession
<1>2. LateStep
  BY <1>1, AccountsAssumption DEF ConfirmReset, LateStep, TypeOK, SessionsOf
<1> QED BY <1>2 DEF ConfirmReset, Tables, SessionsStep, LoginsStep

LEMMA PurgeTables ==
  ASSUME TypeOK, Found, NEW c \in Customer, Purge(c)
  PROVE  Tables
<1>1. \A s \in Session : s \in SessionsOf(c) => ~sessions'[s].live
  BY EndedRow DEF Purge, SessionsOf, NoSession
<1>2. \A g \in Subject : identities[g] = c => identities'[g] = None
  BY DEF Purge, LoginsGone
<1>3. late' = late \ (SessionsOf(c) \cup {g \in Subject : identities[g] = c})
  BY DEF Purge
<1>4. LateStep
  BY <1>1, <1>2, <1>3, AccountsAssumption DEF LateStep, TypeOK, SessionsOf
<1> QED BY <1>4 DEF Purge, Tables, SessionsStep, LoginsStep

LEMMA TableSteps ==
  ASSUME TypeOK, Found, [Next]_vars
  PROVE  Tables
<1>1. CASE UNCHANGED <<identities, sessions, late>>
  BY <1>1 DEF Tables, SessionsStep, LoginsStep, LateStep, TypeOK
<1>2. ASSUME NEW s \in Session, Rotate(s) PROVE Tables
  BY <1>2 DEF Rotate, Tables, SessionsStep, LoginsStep, LateStep, TypeOK
<1>3. ASSUME NEW s \in Session, End(s) PROVE Tables
  <2>1. ~sessions'[s].live
    BY <1>3 DEF End, NoSession, TypeOK
  <2>2. LateStep
    BY <1>3, <2>1, AccountsAssumption DEF End, LateStep, TypeOK
  <2> QED BY <1>3, <2>2 DEF End, Tables, SessionsStep, LoginsStep
<1> QED BY <1>1, <1>2, <1>3, RegisterTables, CreateTables, SignInTables, LinkTables, ResetTables,
        PurgeTables DEF Next, PasswordNext, GoogleNext, SessionNext, Login, Abandon, MintLink,
        Reuse, Logout, Google, Look, ByEmail, vars

LEMMA LinkSteps ==
  ASSUME TypeOK, Found, [Next]_vars
  PROVE  \/ links' = links /\ used' = used
         \/ \E c \in Customer : MintLink(c)
         \/ \E c \in Customer, hash \in Epoch : ConfirmReset(c, hash)
  BY DEF Next, PasswordNext, GoogleNext, SessionNext, Register, Login, SignIn, Abandon, Purge, Rotate,
     Reuse, Logout, End, Google, Look, ByEmail, Link, Create, vars

-----------------------------------------------------------------------------
(* The invariant. *)

LEMMA TypeStep ==
  ASSUME TypeOK, Found, [Next]_vars
  PROVE  TypeOK'
<1> USE DEF TypeOK
<1>1. customers' \in [Customer -> CustomerRow]
  BY RowSteps
<1>2. identities' \in [Subject -> Customer \cup {None}]
  <2>1. CASE \E g \in Subject : Links(g)
    BY <2>1 DEF Links
  <2>2. CASE \E c \in Customer : Purge(c)
    BY <2>2 DEF Purge, LoginsGone
  <2> QED BY <2>1, <2>2, TableSteps DEF Tables, LoginsStep
<1>3. sessions' \in [Session -> SessionRow]
  <2>1. ASSUME NEW s \in Session, Opens(s) PROVE sessions' \in [Session -> SessionRow]
    BY <2>1 DEF Opens, Opened, SessionRow
  <2>2. ASSUME NEW s \in Session, sessions' = [sessions EXCEPT ![s].rotated = TRUE]
        PROVE  sessions' \in [Session -> SessionRow]
    BY <2>2 DEF SessionRow
  <2>3. ASSUME NEW c \in Customer, sessions' = Ended(c)
        PROVE  sessions' \in [Session -> SessionRow]
    BY <2>3, NoRows DEF Ended
  <2> QED BY <2>1, <2>2, <2>3, NoRows, TableSteps DEF Tables, SessionsStep
<1>4. req' \in [Req -> ReqRow]
  BY RequestSteps DEF RequestsStep
<1>5. links' \subseteq Customer \X Epoch /\ used' \subseteq links'
  <2>1. ASSUME NEW c \in Customer, MintLink(c)
        PROVE  links' \subseteq Customer \X Epoch /\ used' \subseteq links'
    <3>1. customers[c].hash \in Epoch
      BY DEF CustomerRow
    <3> QED BY <2>1, <3>1 DEF MintLink
  <2>2. ASSUME NEW c \in Customer, NEW hash \in Epoch, ConfirmReset(c, hash)
        PROVE  links' \subseteq Customer \X Epoch /\ used' \subseteq links'
    BY <2>2 DEF ConfirmReset
  <2> QED BY <2>1, <2>2, LinkSteps
<1>6. late' \subseteq Session \cup Subject
  BY TableSteps DEF Tables, LateStep
<1> QED BY <1>1, <1>2, <1>3, <1>4, <1>5, <1>6

LEMMA FoundCustomers ==
  ASSUME TypeOK, Found, [Next]_vars, NEW c \in Customer
  PROVE  /\ customers'[c].email # None => There(c)'
         /\ customers'[c].hash <= customers'[c].epoch
         /\ ~Made(c)' => customers'[c].hash = 0
<1>1. customers[c] \in CustomerRow /\ customers'[c] \in CustomerRow /\ RowStep(c)
  BY RowSteps DEF TypeOK
<1> QED BY <1>1 DEF RowStep, CustomerRow, Epoch, Found, CustomersFound, There, Made

LEMMA FoundLogins ==
  ASSUME TypeOK, Found, [Next]_vars, NEW g \in Subject, identities'[g] # None
  PROVE  \E c \in Customer : identities'[g] = c /\ Made(c)'
<1> USE DEF TypeOK
<1>1. CASE identities'[g] = identities[g]
  <2> PICK c \in Customer : c = identities[g] /\ Made(c)
    BY <1>1 DEF Found, LoginsFound
  <2> QED BY <1>1, RowsKept
<1>2. ASSUME NEW h \in Subject, Links(h), identities'[g] # identities[g]
      PROVE  \E c \in Customer : identities'[g] = c /\ Made(c)'
  BY <1>2 DEF Links
<1>3. ASSUME NEW c \in Customer, Purge(c) PROVE identities'[g] = identities[g]
  BY <1>3 DEF Purge, LoginsGone
<1> QED BY <1>1, <1>2, <1>3, TableSteps DEF Tables, LoginsStep

NewSession(s) == \E c \in Customer :
  /\ sessions'[s].customer = c /\ Made(c)'
  /\ sessions'[s].epoch = customers'[c].epoch \/ s \in late'

(* A session alive after a step was opened by it or alive before. *)
LEMMA SessionRows ==
  ASSUME TypeOK, Found, [Next]_vars, NEW s \in Session, sessions'[s].live
  PROVE  \/ /\ sessions[s].live /\ sessions'[s].customer = sessions[s].customer
            /\ sessions'[s].epoch = sessions[s].epoch
         \/ NewSession(s)
<1> USE DEF TypeOK
<1>1. ASSUME Opens(s)
      PROVE  NewSession(s)
  BY <1>1 DEF Opens, Opened, NewSession
<1>2. ASSUME NEW t \in Session, Opens(t), t # s
      PROVE  sessions'[s] = sessions[s]
  BY <1>2 DEF Opens, Opened
<1>3. ASSUME NEW c \in Customer, sessions' = Ended(c)
      PROVE  sessions'[s] = sessions[s]
  BY <1>3, EndedRow DEF NoSession
<1>4. ASSUME NEW t \in Session, sessions[t].live, sessions' = [sessions EXCEPT ![t].rotated = TRUE]
      PROVE  /\ sessions[s].live /\ sessions'[s].customer = sessions[s].customer
             /\ sessions'[s].epoch = sessions[s].epoch
  BY <1>4 DEF SessionRow
<1>5. ASSUME NEW t \in Session, sessions' = [sessions EXCEPT ![t] = NoSession]
      PROVE  sessions'[s] = sessions[s]
  BY <1>5 DEF NoSession
<1>6. CASE \E t \in Session : Opens(t)
  <2> PICK t \in Session : Opens(t)
    BY <1>6
  <2>1. CASE t = s
    <3>1. Opens(s)
      BY <2>1
    <3> QED BY <1>1, <3>1
  <2>2. CASE t # s
    <3>1. sessions'[s] = sessions[s]
      BY <1>2, <2>2
    <3> QED BY <3>1
  <2> QED BY <2>1, <2>2
<1>7. CASE \E c \in Customer : sessions' = Ended(c)
  BY <1>3, <1>7
<1>8. CASE \E t \in Session : sessions[t].live /\ sessions' = [sessions EXCEPT ![t].rotated = TRUE]
  BY <1>4, <1>8
<1>9. CASE \E t \in Session : sessions' = [sessions EXCEPT ![t] = NoSession]
  BY <1>5, <1>9
<1>10. CASE sessions' = sessions
  BY <1>10
<1> QED BY <1>6, <1>7, <1>8, <1>9, <1>10, TableSteps DEF Tables, SessionsStep

LEMMA FoundSessions ==
  ASSUME TypeOK, Found, [Next]_vars, NEW s \in Session, sessions'[s].live
  PROVE  \E c \in Customer : sessions'[s].customer = c /\ Made(c)'
<1>1. ASSUME sessions[s].live, sessions'[s].customer = sessions[s].customer
      PROVE  \E c \in Customer : sessions'[s].customer = c /\ Made(c)'
  <2> PICK c \in Customer : c = sessions[s].customer /\ Made(c)
    BY <1>1 DEF Found, SessionsFound
  <2> QED BY <1>1, RowsKept
<1> QED BY <1>1, SessionRows DEF NewSession

LEMMA FoundLinks ==
  ASSUME TypeOK, Found, [Next]_vars, NEW l \in links'
  PROVE  \E c \in Customer : l[1] = c /\ Made(c)' /\ l[2] <= customers'[c].epoch
<1> PICK c \in Customer, h \in Epoch : l = <<c, h>>
  BY TypeStep DEF TypeOK
<1>1. ASSUME l \in links PROVE Made(c) /\ h <= customers[c].epoch
  BY <1>1 DEF Found, LinksFound
<1>2. ASSUME NEW d \in Customer, MintLink(d), l \notin links
      PROVE  Made(c) /\ h <= customers[c].epoch
  <2>1. c = d /\ h = customers[d].hash
    BY <1>2 DEF MintLink
  <2> QED BY <1>2, <2>1 DEF MintLink, There, Made, Found, CustomersFound
<1>3. Made(c) /\ h <= customers[c].epoch
  BY <1>1, <1>2, LinkSteps DEF ConfirmReset
<1> QED BY <1>3, RowsKept DEF Epoch

LEMMA FoundRequests ==
  ASSUME TypeOK, Found, [Next]_vars, NEW r \in Req
  PROVE  /\ req'[r].at \in {"linking", "signing"} => \E c \in Customer :
              /\ req'[r].customer = c /\ Made(c)' /\ req'[r].epoch <= customers'[c].epoch
              /\ req'[r].at = "linking" /\ req'[r].epoch = customers'[c].epoch => There(c)'
         /\ req'[r].at \in {"look", "unknown", "linking", "creating"} =>
              req'[r].subject \in Subject /\ req'[r].email \in Email
         /\ req'[r].at # "idle" /\ req'[r].pass = 2 => req'[r].subject \in Subject
         /\ req'[r].at = "idle" => req'[r] = NoReq
<1> DEFINE Goal(q) ==
      /\ q.at \in {"linking", "signing"} => \E c \in Customer :
           /\ q.customer = c /\ Made(c) /\ q.epoch <= customers[c].epoch
           /\ q.at = "linking" /\ q.epoch = customers[c].epoch => There(c)
      /\ q.at \in {"look", "unknown", "linking", "creating"} => q.subject \in Subject /\ q.email \in Email
      /\ q.at # "idle" /\ q.pass = 2 => q.subject \in Subject
      /\ q.at = "idle" => q = NoReq
<1>1. Goal(req[r])
  BY DEF Found, Names
<1>2. ASSUME NEW q \in ReqRow, RequestStep(r, q) PROVE Goal(q)
  <2>1. \A c \in Customer : customers[c].epoch \in Nat
    BY DEF TypeOK, CustomerRow, Epoch
  <2>2. req[r] \in ReqRow /\ (req[r].at = "idle" => req[r] = NoReq)
    BY DEF TypeOK, Found, Names
  <2>3. CASE q = NoReq
    BY <2>3 DEF NoReq
  <2>4. CASE q.at \in {"linking", "signing"}
    BY <1>2, <2>1, <2>2, <2>4 DEF RequestStep, NoReq, Same, Found, Names, There, Made
  <2>5. CASE q.at \in {"look", "unknown", "creating", "failed"}
    BY <1>2, <2>2, <2>5 DEF RequestStep, NoReq, Same, Found, Names
  <2> QED BY <1>2, <2>3, <2>4, <2>5 DEF RequestStep
<1>3. Goal(req'[r])
  BY <1>1, <1>2, RequestSteps DEF RequestsStep, TypeOK
<1>4. ASSUME NEW c \in Customer, req'[r].customer = c, Made(c), req'[r].epoch <= customers[c].epoch,
             req'[r].at = "linking" /\ req'[r].epoch = customers[c].epoch => There(c)
      PROVE  /\ Made(c)' /\ req'[r].epoch <= customers'[c].epoch
             /\ req'[r].at = "linking" /\ req'[r].epoch = customers'[c].epoch => There(c)'
  <2>1. req'[r].epoch \in Nat
    BY TypeStep DEF TypeOK, ReqRow, Epoch
  <2> QED BY <1>4, <2>1, RowsKept DEF There
<1> QED BY <1>3, <1>4

LEMMA FoundStep ==
  ASSUME TypeOK, Found, [Next]_vars
  PROVE  Found'
<1>1. CustomersFound'
  BY FoundCustomers DEF CustomersFound
<1>2. LoginsFound'
  BY FoundLogins DEF LoginsFound, Made
<1>3. SessionsFound'
  BY FoundSessions DEF SessionsFound, Made
<1>4. LinksFound'
  BY FoundLinks DEF LinksFound, Made
<1>5. (\A r \in Req : Names(r))'
  BY FoundRequests DEF Names, Made, There
<1> QED BY <1>1, <1>2, <1>3, <1>4, <1>5 DEF Found

LEMMA FoundInit == Init => TypeOK /\ Found
<1> SUFFICES ASSUME Init PROVE TypeOK /\ Found
  OBVIOUS
<1>1. TypeOK
  BY NoRows DEF Init, TypeOK
<1>2. Found
  BY AccountsAssumption DEF Init, Found, CustomersFound, LoginsFound, SessionsFound, LinksFound,
     Names, NoCustomer, NoSession, NoReq, There, Made
<1> QED BY <1>1, <1>2

LEMMA FoundAlways == Spec => [](TypeOK /\ Found)
<1>1. TypeOK /\ Found /\ [Next]_vars => TypeOK' /\ Found'
  BY TypeStep, FoundStep
<1> QED BY <1>1, FoundInit, PTL DEF Spec

(***************************************************************************)
(* Customers, logins, sessions and sign-ins keep their types, for any      *)
(* number of each.                                                         *)
(***************************************************************************)
THEOREM TypeCorrect == Spec => []TypeOK
  BY FoundAlways, PTL

-----------------------------------------------------------------------------
(* Signing out *)

LEMMA EpochMoves ==
  ASSUME TypeOK, Found, [Next]_vars, NEW c \in Customer, Made(c), customers'[c] # customers[c]
  PROVE  sessions' = Ended(c)
<1>1. ASSUME NEW d \in Customer, NEW e \in Email, NEW hash \in {0, 1}, Makes(d, e, hash)
      PROVE  customers'[c] = customers[c]
  BY <1>1 DEF Makes, Created, TypeOK, Made
<1>2. ASSUME NEW d \in Customer, NEW hash \in Epoch, ConfirmReset(d, hash), d # c
      PROVE  customers'[c] = customers[c]
  BY <1>2 DEF ConfirmReset, PasswordSet, TypeOK
<1>3. ASSUME NEW d \in Customer, Purge(d), d # c
      PROVE  customers'[c] = customers[c]
  BY <1>3 DEF Purge, TypeOK
<1>4. ASSUME NEW hash \in Epoch, ConfirmReset(c, hash) PROVE sessions' = Ended(c)
  BY <1>4 DEF ConfirmReset
<1>5. ASSUME Purge(c) PROVE sessions' = Ended(c)
  BY <1>5 DEF Purge
<1> QED BY <1>1, <1>2, <1>3, <1>4, <1>5, CustomerSteps

LEMMA SignedOutStep ==
  ASSUME TypeOK, Found, SignedOutStays, [Next]_vars, NEW s \in Session, sessions'[s].live
  PROVE  sessions'[s].epoch = customers'[sessions'[s].customer].epoch \/ s \in late'
<1>1. CASE NewSession(s)
  BY <1>1 DEF NewSession
<1>2. ASSUME sessions[s].live, sessions'[s].customer = sessions[s].customer,
             sessions'[s].epoch = sessions[s].epoch
      PROVE  sessions'[s].epoch = customers'[sessions'[s].customer].epoch \/ s \in late'
  <2> PICK c \in Customer : c = sessions[s].customer /\ Made(c)
    BY <1>2 DEF Found, SessionsFound
  <2>1. CASE s \in late
    BY <1>2, <2>1, TableSteps DEF Tables, LateStep
  <2>2. CASE s \notin late
    <3>1. sessions[s].epoch = customers[c].epoch
      BY <1>2, <2>2 DEF SignedOutStays
    <3>2. customers'[c] = customers[c]
      <4>1. sessions' # Ended(c)
        BY EndedRow DEF NoSession
      <4> QED BY <4>1, EpochMoves
    <3> QED BY <1>2, <3>1, <3>2
  <2> QED BY <2>1, <2>2
<1> QED BY <1>1, <1>2, SessionRows

(***************************************************************************)
(* A reset and a purge end every session of the customer: none opened      *)
(* before lives on, but those a sign-in inserted after them.               *)
(***************************************************************************)
THEOREM SignedOutAlways == Spec => []SignedOutStays
<1>1. Init => SignedOutStays
  BY DEF Init, SignedOutStays, NoSession
<1>2. TypeOK /\ Found /\ SignedOutStays /\ [Next]_vars => SignedOutStays'
  BY SignedOutStep DEF SignedOutStays
<1> QED BY <1>1, <1>2, FoundAlways, PTL DEF Spec

-----------------------------------------------------------------------------
(* Logins *)

LEMMA LoginStays ==
  ASSUME TypeOK, Found, [Next]_vars, NEW g \in Subject, NEW c \in Customer, identities[g] = c
  PROVE  \/ identities'[g] = c /\ ~Purge(c)
         \/ identities'[g] = None /\ customers'[c].state = "purged"
<1>1. c # None
  BY AccountsAssumption
<1>2. ASSUME NEW h \in Subject, Links(h) PROVE identities'[g] = c
  BY <1>1, <1>2 DEF Links, TypeOK
<1>3. ASSUME NEW d \in Customer, Purge(d), d # c PROVE identities'[g] = c
  BY <1>3 DEF Purge, LoginsGone
<1>4. ASSUME Purge(c) PROVE identities'[g] = None /\ customers'[c].state = "purged"
  BY <1>4 DEF Purge, LoginsGone, TypeOK
<1> QED BY <1>2, <1>3, <1>4, TableSteps DEF Tables, LoginsStep

(***************************************************************************)
(* A Google account leads to the same customer until that is purged.       *)
(***************************************************************************)
THEOREM LoginAlwaysKeeps == Spec => LoginKeeps
<1>1. TypeOK /\ Found /\ [Next]_vars =>
        [\A c \in Customer : \A g \in Subject :
           identities[g] = c => identities'[g] = c \/ customers'[c].state = "purged"]_vars
  BY LoginStays
<1> QED BY <1>1, FoundAlways, PTL DEF Spec, LoginKeeps

LEMMA PurgedBy ==
  ASSUME TypeOK, Found, [Next]_vars, NEW c \in Customer, There(c), ~There(c)'
  PROVE  Purge(c)
<1>1. ASSUME NEW d \in Customer, NEW e \in Email, NEW hash \in {0, 1}, Makes(d, e, hash)
      PROVE  There(c)'
  BY <1>1 DEF Makes, Created, TypeOK, There
<1>2. ASSUME NEW d \in Customer, NEW hash \in Epoch, ConfirmReset(d, hash)
      PROVE  customers'[c].state = customers[c].state
  BY <1>2 DEF ConfirmReset, PasswordSet, TypeOK, CustomerRow
<1>3. ASSUME NEW d \in Customer, Purge(d), d # c
      PROVE  There(c)'
  BY <1>3 DEF Purge, TypeOK, There
<1> QED BY <1>1, <1>2, <1>3, CustomerSteps DEF There

LEMMA ErasedStep ==
  ASSUME TypeOK, Found, LoginsErased, [Next]_vars, NEW g \in Subject, identities'[g] # None
  PROVE  There(identities[g])' \/ g \in late'
<1>1. CASE identities[g] # None
  <2> PICK c \in Customer : c = identities[g]
    BY <1>1 DEF TypeOK
  <2>1. identities'[g] = c /\ ~Purge(c)
    BY <1>1, LoginStays
  <2>2. CASE g \in late
    BY <1>1, <2>1, <2>2, TableSteps DEF Tables, LateStep
  <2>3. CASE There(c)
    <3>1. There(c)'
      BY <2>1, <2>3, PurgedBy
    <3> QED BY <2>1, <3>1 DEF There
  <2> QED BY <1>1, <2>2, <2>3 DEF LoginsErased
<1>2. CASE identities[g] = None
  <2>1. Links(g)
    <3>1. ASSUME NEW h \in Subject, Links(h), h # g PROVE identities'[g] = identities[g]
      BY <3>1 DEF Links, TypeOK
    <3>2. ASSUME NEW c \in Customer, Purge(c) PROVE identities'[g] = None
      BY <1>2, <3>2 DEF Purge, LoginsGone
    <3> QED BY <1>2, <3>1, <3>2, TableSteps DEF Tables, LoginsStep
  <2> PICK c \in Customer : identities'[g] = c /\ (There(c)' \/ g \in late')
    BY <2>1 DEF Links, TypeOK
  <2> QED BY DEF There
<1> QED BY <1>1, <1>2

(***************************************************************************)
(* No login leads to a purged account, but one that a sign-in inserted     *)
(* after the purge for an account it had found before.                     *)
(***************************************************************************)
THEOREM LoginsAlwaysErased == Spec => []LoginsErased
<1>1. Init => LoginsErased
  BY DEF Init, LoginsErased
<1>2. TypeOK /\ Found /\ LoginsErased /\ [Next]_vars => LoginsErased'
  BY ErasedStep DEF LoginsErased
<1> QED BY <1>1, <1>2, FoundAlways, PTL DEF Spec

LEMMA WayInStays ==
  ASSUME TypeOK, Found, CanSignIn, [Next]_vars, NEW c \in Customer, There(c)'
  PROVE  customers'[c].hash # 0 \/ \E g \in Subject : identities'[g] = c
<1>1. ASSUME NEW d \in Customer, NEW e \in Email, NEW hash \in {0, 1}, Makes(d, e, hash), c = d
      PROVE  customers'[c].hash # 0 \/ \E g \in Subject : identities'[g] = c
  BY <1>1 DEF Makes, Created, TypeOK
<1>2. ASSUME NEW hash \in Epoch, ConfirmReset(c, hash)
      PROVE  customers'[c].hash # 0
  BY <1>2 DEF ConfirmReset, PasswordSet, TypeOK, CustomerRow, Epoch
<1>3. ASSUME Purge(c) PROVE FALSE
  BY <1>3 DEF Purge, There, TypeOK
<1>4. ASSUME customers'[c] = customers[c]
      PROVE  customers'[c].hash # 0 \/ \E g \in Subject : identities'[g] = c
  <2>1. There(c) /\ customers'[c].state # "purged"
    BY <1>4 DEF There
  <2>2. \A g \in Subject : identities[g] = c => identities'[g] = c
    BY <2>1, LoginStays
  <2> QED BY <1>4, <2>1, <2>2 DEF CanSignIn
<1>5. ASSUME NEW d \in Customer, d # c,
             \/ \E e \in Email, hash \in {0, 1} : Makes(d, e, hash)
             \/ \E hash \in Epoch : ConfirmReset(d, hash)
             \/ Purge(d)
      PROVE  customers'[c] = customers[c]
  BY <1>5 DEF Makes, Created, ConfirmReset, PasswordSet, Purge, TypeOK
<1> QED BY <1>1, <1>2, <1>3, <1>4, <1>5, CustomerSteps

(***************************************************************************)
(* An account that is there has a password or a login.                     *)
(***************************************************************************)
THEOREM AlwaysCanSignIn == Spec => []CanSignIn
<1>1. Init => CanSignIn
  BY DEF Init, CanSignIn, There, NoCustomer
<1>2. TypeOK /\ Found /\ CanSignIn /\ [Next]_vars => CanSignIn'
  BY WayInStays DEF CanSignIn, There
<1> QED BY <1>1, <1>2, FoundAlways, PTL DEF Spec

-----------------------------------------------------------------------------
(* Links and racing sign-ins *)

LEMMA SpentStep ==
  ASSUME TypeOK, Found, SpentLinks, [Next]_vars, NEW l \in used', There(l[1])'
  PROVE  customers'[l[1]].hash # l[2]
<1> PICK c \in Customer, h \in Epoch : l = <<c, h>>
  BY TypeStep DEF TypeOK
<1>1. customers[c].epoch \in Nat /\ h \in Nat /\ RowStep(c)
  BY RowSteps DEF TypeOK, CustomerRow, Epoch
<1>2. CASE l \in used
  <2>1. Made(c) /\ h <= customers[c].epoch
    BY <1>2 DEF TypeOK, Found, LinksFound
  <2>2. There(c) => customers[c].hash # h
    BY <1>2 DEF SpentLinks
  <2> QED BY <1>1, <2>1, <2>2 DEF RowStep, There, Made
<1>3. CASE l \notin used
  <2>1. ConfirmReset(c, h)
    BY <1>3, LinkSteps DEF MintLink, ConfirmReset
  <2>2. customers'[c].hash = customers[c].epoch + 1 /\ h = customers[c].hash
    BY <2>1 DEF ConfirmReset, PasswordSet, TypeOK, CustomerRow
  <2>3. h <= customers[c].epoch
    BY <2>2 DEF Found, CustomersFound
  <2> QED BY <1>1, <2>2, <2>3
<1> QED BY <1>2, <1>3

(***************************************************************************)
(* A link that has set a password verifies no more, while its account is   *)
(* there.                                                                  *)
(***************************************************************************)
THEOREM LinksAlwaysSpent == Spec => []SpentLinks
<1>1. Init => SpentLinks
  BY DEF Init, SpentLinks
<1>2. TypeOK /\ Found /\ SpentLinks /\ [Next]_vars => SpentLinks'
  BY SpentStep DEF SpentLinks, There
<1> QED BY <1>1, <1>2, FoundAlways, PTL DEF Spec

(* The second pass begins with the login there; only a purge undoes that. *)
SomePurged == \E c \in Customer : customers[c].state = "purged"

Retried == \A r \in Req :
  req[r].at # "idle" /\ req[r].pass = 2 => identities[req[r].subject] # None \/ SomePurged

LEMMA PurgedStays ==
  ASSUME TypeOK, Found, [Next]_vars, SomePurged
  PROVE  SomePurged'
<1> PICK c \in Customer : customers[c].state = "purged"
  BY DEF SomePurged
<1>1. customers'[c].state = "purged"
  BY RowsKept DEF Made
<1> QED BY <1>1 DEF SomePurged

LEMMA LoginsOrPurge ==
  ASSUME TypeOK, Found, [Next]_vars, NEW g \in Subject, identities[g] # None
  PROVE  identities'[g] # None \/ SomePurged'
<1> PICK c \in Customer : c = identities[g]
  BY DEF TypeOK
<1> QED BY LoginStays, AccountsAssumption DEF SomePurged

LEMMA RetriedStep ==
  ASSUME TypeOK, Found, Retried, LoserFindsWinner, [Next]_vars, NEW r \in Req
  PROVE  /\ req'[r].at # "idle" /\ req'[r].pass = 2 =>
              identities'[req'[r].subject] # None \/ SomePurged'
         /\ req'[r].pass = 2 /\ req'[r].at \in {"unknown", "linking", "creating"} => SomePurged'
<1> DEFINE Goal(q) ==
      /\ q.at # "idle" /\ q.pass = 2 =>
           q.subject \in Subject /\ (identities[q.subject] # None \/ SomePurged)
      /\ q.pass = 2 /\ q.at \in {"unknown", "linking", "creating"} => SomePurged
<1>1. Goal(req[r])
  BY DEF Retried, LoserFindsWinner, Found, Names, SomePurged
<1>2. ASSUME NEW q \in ReqRow, RequestStep(r, q) PROVE Goal(q)
  <2>1. req[r].at = "idle" => req[r].pass = 1
    BY DEF Found, Names, NoReq
  <2>2. req[r].at \in {"look", "unknown", "linking", "creating"} => req[r].subject \in Subject
    BY DEF Found, Names
  <2> QED BY <1>1, <1>2, <2>1, <2>2 DEF RequestStep, Same, NoReq
<1>3. Goal(req'[r])
  BY <1>1, <1>2, RequestSteps DEF RequestsStep, TypeOK
<1> QED BY <1>3, PurgedStays, LoginsOrPurge

(***************************************************************************)
(* A sign-in tried again finds the login it lost to, unless a customer was *)
(* purged.                                                                 *)
(***************************************************************************)
THEOREM LoserAlwaysFinds == Spec => []LoserFindsWinner
<1>1. Init => Retried /\ LoserFindsWinner
  BY DEF Init, Retried, LoserFindsWinner, NoReq
<1>2. TypeOK /\ Found /\ Retried /\ LoserFindsWinner /\ [Next]_vars => Retried' /\ LoserFindsWinner'
  BY RetriedStep DEF Retried, LoserFindsWinner, SomePurged
<1> QED BY <1>1, <1>2, FoundAlways, PTL DEF Spec
=============================================================================
