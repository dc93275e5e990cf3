------------------------------ MODULE Accounts ------------------------------
(***************************************************************************)
(* The customer accounts of one shop (src/internal/customers/customers.go, *)
(* google.go, reset.go; src/internal/orders/purge.go, its part on          *)
(* accounts): registration, the two ways of signing in, the sessions,      *)
(* password resets and the purge.                                          *)
(*                                                                         *)
(* Login and GoogleSignIn are each one READ COMMITTED transaction, so what *)
(* a SELECT returned may be gone by the next statement: every SELECT is an *)
(* action, and the INSERTs at the end are one with the commit, since each  *)
(* waits for whoever holds the row it refers to or the key it repeats.     *)
(* ConfirmReset and PurgeHandler lock the customer first and are one       *)
(* action each, and so is Refresh, which locks the session.                *)
(*                                                                         *)
(* Of the tokens of a session the row knows two: the current one and the   *)
(* one before it.  Expired sessions and expired links are those nobody     *)
(* presents any more, and a session that is revoked, expired or deleted is *)
(* none: nothing tells one from the other, so DeleteEndedSessions does     *)
(* nothing here.                                                           *)
(***************************************************************************)
EXTENDS Integers

CONSTANTS
  Customer,     (* customers, by id; a bound                               *)
  Email,        (* addresses                                               *)
  Subject,      (* Google accounts                                         *)
  Session,      (* customer_sessions rows at one time; a bound             *)
  Req,          (* sign-ins that may be under way                          *)
  MaxEpoch,     (* bound on the resets and purges of one customer          *)
  None

ASSUME AccountsAssumption == /\ None \notin Customer \cup Email \cup Subject
                             /\ Session \cap Subject = {}
                             /\ MaxEpoch \in Nat \ {0}

VARIABLES
  customers,    (* the customers table                                     *)
  identities,   (* customer_identities: whose login each Google account is *)
  sessions,     (* the customer_sessions table                             *)
  req,          (* the sign-ins under way                                  *)
  links,        (* reset links mailed: the customer, and the hash signed   *)
  used,         (* history: the links that have set a password             *)
  late          (* history: the sessions and logins inserted after their   *)
                (* customer was signed out everywhere, by a sign-in that   *)
                (* had read it before                                      *)

vars == <<customers, identities, sessions, req, links, used, late>>

(* A customer's epoch counts the times it was signed out everywhere, and   *)
(* no two hashes are equal: a hash is the epoch it was set in, 0 if NULL.  *)
Epoch == 0..MaxEpoch

CustomerRow == [state : {"absent", "there", "purged"}, email : Email \cup {None},
                hash : Epoch, epoch : Epoch]

(* rotated: previous_token_hash is not NULL. *)
SessionRow == [live : BOOLEAN, customer : Customer \cup {None},
               rotated : BOOLEAN, epoch : Epoch]

(* Where a sign-in is: before CustomerByIdentity ("look"), before          *)
(* CustomerByEmail ("unknown"), before the INSERTs of a login, of a        *)
(* customer, or of only a session; or answered with an internal error.     *)
ReqRow == [at : {"idle", "look", "unknown", "linking", "creating", "signing", "failed"},
           customer : Customer \cup {None}, epoch : Epoch,
           subject : Subject \cup {None}, email : Email \cup {None}, pass : {1, 2}]

NoCustomer == [state |-> "absent", email |-> None, hash |-> 0, epoch |-> 0]
NoSession  == [live |-> FALSE, customer |-> None, rotated |-> FALSE, epoch |-> 0]
NoReq      == [at |-> "idle", customer |-> None, epoch |-> 0, subject |-> None,
               email |-> None, pass |-> 1]

TypeOK == /\ customers \in [Customer -> CustomerRow]
          /\ identities \in [Subject -> Customer \cup {None}]
          /\ sessions \in [Session -> SessionRow]
          /\ req \in [Req -> ReqRow]
          /\ links \subseteq Customer \X Epoch
          /\ used \subseteq links
          /\ late \subseteq Session \cup Subject

Init == /\ customers = [c \in Customer |-> NoCustomer]
        /\ identities = [g \in Subject |-> None]
        /\ sessions = [s \in Session |-> NoSession]
        /\ req = [r \in Req |-> NoReq]
        /\ links = {} /\ used = {} /\ late = {}

-----------------------------------------------------------------------------
(* Rows *)

There(c) == customers[c].state = "there"

(* CustomerByEmail; a purged customer's address is none that Google or a   *)
(* registration could bring.                                               *)
WithEmail(e) == {c \in Customer : customers[c].email = e}

(* CreateCustomer *)
Created(c, e, hash) == [customers EXCEPT ![c] =
                          [state |-> "there", email |-> e, hash |-> hash, epoch |-> hash]]

(* CreateCustomerSession *)
Opened(s, c, epoch) == [sessions EXCEPT ![s] =
                          [live |-> TRUE, customer |-> c, rotated |-> FALSE, epoch |-> epoch]]

Unused(s) == ~sessions[s].live

SessionsOf(c) == {s \in Session : sessions[s].customer = c}

(* Mutation: a reset or a purge leaves the sessions alone. *)
SessionsKept(c) == sessions

(* RevokeCustomerSessions, DeleteCustomerSessions *)
Ended(c) == [s \in Session |-> IF s \in SessionsOf(c) THEN NoSession ELSE sessions[s]]

(* What a sign-in inserts is late if its customer has been signed out      *)
(* everywhere since it was read.                                           *)
LateWith(r, new) == IF req[r].epoch # customers[req[r].customer].epoch
                    THEN late \cup new ELSE late \ new

Over(r) == req' = [req EXCEPT ![r] = NoReq]

-----------------------------------------------------------------------------
(* Accounts and passwords *)

(* Register: the customer and its first session, or 422 if the address is  *)
(* taken.                                                                  *)
Register(c, e, s) ==
  /\ customers[c].state = "absent" /\ WithEmail(e) = {} /\ Unused(s)
  /\ customers' = Created(c, e, 1)
  /\ sessions' = Opened(s, c, 1)
  /\ UNCHANGED <<identities, req, links, used, late>>

(* Login has read the row and the password was right.  A purged customer   *)
(* too has an address, purged+id@invalid, if not a password.               *)
Login(r, c) ==
  /\ req[r].at = "idle" /\ customers[c].hash # 0
  /\ req' = [req EXCEPT ![r] = [NoReq EXCEPT !.at = "signing", !.customer = c,
                                             !.epoch = customers[c].epoch]]
  /\ UNCHANGED <<customers, identities, sessions, links, used, late>>

(* signIn, for a customer found: the INSERT refers to the customer, so it  *)
(* waits for a reset or a purge to commit, and then happens all the same.  *)
SignIn(r, s) ==
  /\ req[r].at = "signing" /\ Unused(s)
  /\ sessions' = Opened(s, req[r].customer, req[r].epoch)
  /\ Over(r) /\ late' = LateWith(r, {s})
  /\ UNCHANGED <<customers, identities, links, used>>

(* A request dies, and its transaction is rolled back; a failed one has    *)
(* been answered.                                                          *)
Abandon(r) == /\ req[r].at # "idle"
              /\ Over(r)
              /\ UNCHANGED <<customers, identities, sessions, links, used, late>>

(* ResetMail mints against the hash as it is; the message of a purged      *)
(* customer goes nowhere.                                                  *)
MintLink(c) == /\ There(c)
               /\ links' = links \cup {<<c, customers[c].hash>>}
               /\ UNCHANGED <<customers, identities, sessions, req, used, late>>

(* Mutation: the link is good, but the password it sets is not stored. *)
PasswordKept(c) == [customers EXCEPT ![c].epoch = @ + 1]

(* SetCustomerPassword *)
PasswordSet(c) == [customers EXCEPT ![c].hash = customers[c].epoch + 1, ![c].epoch = @ + 1]

(* ConfirmReset, under LockCustomer: the link verifies if the hash is the  *)
(* one it was minted with.  Everyone is signed out.                        *)
ConfirmReset(c, hash) ==
  /\ <<c, hash>> \in links /\ customers[c].hash = hash
  /\ customers[c].epoch < MaxEpoch
  /\ customers' = PasswordSet(c)
  /\ sessions' = Ended(c)
  /\ used' = used \cup {<<c, hash>>}
  /\ late' = late \ SessionsOf(c)
  /\ UNCHANGED <<identities, req, links>>

(* Mutation: the address and the password go, the logins stay. *)
LoginsKept(c) == identities

(* DeleteCustomerIdentities *)
LoginsGone(c) == [g \in Subject |-> IF identities[g] = c THEN None ELSE identities[g]]

(* PurgeHandler, which may run more than once. *)
Purge(c) ==
  /\ customers[c].state # "absent" /\ customers[c].epoch < MaxEpoch
  /\ customers' = [customers EXCEPT ![c] =
       [state |-> "purged", email |-> None, hash |-> 0, epoch |-> @.epoch + 1]]
  /\ identities' = LoginsGone(c)
  /\ sessions' = Ended(c)
  /\ late' = late \ (SessionsOf(c) \cup {g \in Subject : identities[g] = c})
  /\ UNCHANGED <<req, links, used>>

-----------------------------------------------------------------------------
(* Sessions *)

(* Refresh with the current token. *)
Rotate(s) == /\ sessions[s].live
             /\ sessions' = [sessions EXCEPT ![s].rotated = TRUE]
             /\ UNCHANGED <<customers, identities, req, links, used, late>>

End(s) == /\ sessions[s].live
          /\ sessions' = [sessions EXCEPT ![s] = NoSession]
          /\ late' = late \ {s}
          /\ UNCHANGED <<customers, identities, req, links, used>>

(* Refresh with the token before it, which revokes the session.  One older *)
(* still is found nowhere and changes nothing.                             *)
Reuse(s) == sessions[s].rotated /\ End(s)

(* Logout, with the current token. *)
Logout(s) == End(s)

-----------------------------------------------------------------------------
(* Google sign-in *)

(* GoogleSignIn, with a token that Google signed for g and its address. *)
Google(r, g, e) ==
  /\ req[r].at = "idle"
  /\ req' = [req EXCEPT ![r] = [NoReq EXCEPT !.at = "look", !.subject = g, !.email = e]]
  /\ UNCHANGED <<customers, identities, sessions, links, used, late>>

(* CustomerByIdentity *)
Look(r) ==
  LET c == identities[req[r].subject] IN
  /\ req[r].at = "look"
  /\ \/ c # None /\ req' = [req EXCEPT ![r].at = "signing", ![r].customer = c,
                                       ![r].epoch = customers[c].epoch]
     \/ c = None /\ req' = [req EXCEPT ![r].at = "unknown"]
  /\ UNCHANGED <<customers, identities, sessions, links, used, late>>

(* CustomerByEmail, in linkOrCreate *)
ByEmail(r) ==
  /\ req[r].at = "unknown"
  /\ \/ \E c \in WithEmail(req[r].email) :
          req' = [req EXCEPT ![r].at = "linking", ![r].customer = c, ![r].epoch = customers[c].epoch]
     \/ WithEmail(req[r].email) = {} /\ req' = [req EXCEPT ![r].at = "creating"]
  /\ UNCHANGED <<customers, identities, sessions, links, used, late>>

(* The login is there by now: the primary key refuses a second one, and    *)
(* the transaction is tried again, once.                                   *)
Again(r) ==
  /\ identities[req[r].subject] # None
  /\ req' = [req EXCEPT ![r].at = IF req[r].pass = 1 THEN "look" ELSE "failed",
                        ![r].customer = None, ![r].epoch = 0, ![r].pass = 2]
  /\ UNCHANGED <<customers, identities, sessions, late>>

(* CreateIdentity and signIn, for the account with the address: refused if *)
(* that has a login already.                                               *)
Link(r, s) ==
  LET g == req[r].subject
      c == req[r].customer IN
  /\ req[r].at = "linking"
  /\ \/ Again(r)
     \/ /\ identities[g] = None /\ \E h \in Subject : identities[h] = c
        /\ Over(r)
        /\ UNCHANGED <<customers, identities, sessions, late>>
     \/ /\ identities[g] = None /\ \A h \in Subject : identities[h] # c
        /\ Unused(s)
        /\ identities' = [identities EXCEPT ![g] = c]
        /\ sessions' = Opened(s, c, req[r].epoch)
        /\ Over(r) /\ late' = LateWith(r, {s, g})
        /\ UNCHANGED customers
  /\ UNCHANGED <<links, used>>

(* Mutation: the customer is made and committed before its login. *)
CreateBare(r, c, s) ==
  /\ req[r].at = "creating" /\ WithEmail(req[r].email) = {}
  /\ customers[c].state = "absent"
  /\ customers' = Created(c, req[r].email, 0)
  /\ req' = [req EXCEPT ![r].at = "linking", ![r].customer = c, ![r].epoch = 0]
  /\ UNCHANGED <<identities, sessions, links, used, late>>

(* CreateCustomer, CreateIdentity and signIn.  An address taken meanwhile  *)
(* violates a constraint that GoogleSignIn does not try again for.         *)
Create(r, c, s) ==
  LET g == req[r].subject
      e == req[r].email IN
  /\ req[r].at = "creating"
  /\ \/ /\ WithEmail(e) # {}
        /\ req' = [req EXCEPT ![r].at = "failed"]
        /\ UNCHANGED <<customers, identities, sessions, late>>
     \/ WithEmail(e) = {} /\ Again(r)
     \/ /\ WithEmail(e) = {} /\ identities[g] = None
        /\ customers[c].state = "absent" /\ Unused(s)
        /\ customers' = Created(c, e, 0)
        /\ identities' = [identities EXCEPT ![g] = c]
        /\ sessions' = Opened(s, c, 0)
        /\ Over(r) /\ UNCHANGED late
  /\ UNCHANGED <<links, used>>

-----------------------------------------------------------------------------
GoogleNext == \E r \in Req : \/ \E g \in Subject, e \in Email : Google(r, g, e)
                             \/ Look(r) \/ ByEmail(r)
                             \/ \E s \in Session : Link(r, s)
                             \/ \E c \in Customer, s \in Session : Create(r, c, s)

PasswordNext == \/ \E c \in Customer, e \in Email, s \in Session : Register(c, e, s)
                \/ \E r \in Req, c \in Customer : Login(r, c)
                \/ \E c \in Customer : MintLink(c) \/ Purge(c)
                \/ \E c \in Customer, hash \in Epoch : ConfirmReset(c, hash)

SessionNext == \/ \E r \in Req : Abandon(r) \/ \E s \in Session : SignIn(r, s)
               \/ \E s \in Session : Rotate(s) \/ Reuse(s) \/ Logout(s)

Next == PasswordNext \/ GoogleNext \/ SessionNext

Spec == Init /\ [][Next]_vars

-----------------------------------------------------------------------------
(* Safety *)

(* "A customer is never made with neither a password nor a login"          *)
(* (google.go, BR-127), and never comes to it later: nothing but a purge   *)
(* takes a way in away.                                                    *)
CanSignIn == \A c \in Customer :
  There(c) => customers[c].hash # 0 \/ \E g \in Subject : identities[g] = c

(* A reset and a purge sign the customer out everywhere (BR-094, BR-097):  *)
(* a session opened before does not outlive them, unless the sign-in had   *)
(* read the customer and inserted its session after them.                  *)
SignedOutStays == \A s \in Session :
  sessions[s].live => \/ sessions[s].epoch = customers[sessions[s].customer].epoch
                                \/ s \in late

(* A purge deletes the customer's logins (BR-097), and none leads to a     *)
(* purged account unless a sign-in had found the account by its address    *)
(* when the purge committed.                                               *)
LoginsErased == \A g \in Subject :
  identities[g] # None => There(identities[g]) \/ g \in late

(* A Google account leads to the same customer until that is purged, in    *)
(* whatever order sign-ins link and create (BR-127).                       *)
LoginKeeps == [][\A c \in Customer : \A g \in Subject :
  identities[g] = c => identities'[g] = c \/ customers'[c].state = "purged"]_vars

(* A link that has set a password sets no other ("a link verifies against  *)
(* exactly one hash, so it sets a password exactly once", reset.go), while *)
(* the account is there: a purge makes the hash NULL, which it may have    *)
(* been before.                                                            *)
SpentLinks == \A l \in used : There(l[1]) => customers[l[1]].hash # l[2]

(* "the loser finds the winner's login on the second pass" (google.go):    *)
(* the second pass goes beyond CustomerByIdentity only if some customer    *)
(* was purged.                                                             *)
LoserFindsWinner == \A r \in Req :
  req[r].pass = 2 /\ req[r].at \in {"unknown", "linking", "creating"} =>
    \E c \in Customer : customers[c].state = "purged"
=============================================================================
