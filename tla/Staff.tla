------------------------------- MODULE Staff --------------------------------
(***************************************************************************)
(* The staff of one shop and their sessions (src/internal/auth/service.go, *)
(* src/internal/team/users.go, signup.go, mail.go).                        *)
(*                                                                         *)
(* Every sign-in ends in issue, a transaction of its own that inserts a    *)
(* refresh token and reads nothing of the user's status; a request is      *)
(* "issuing" from the moment it is entitled to a session until that        *)
(* commits.  Refresh is three steps: the lookup, which runs in no          *)
(* transaction, the one that revokes what was presented, and issue.  A     *)
(* transaction whose UPDATE tests again what it read is one action; Update *)
(* in users.go does not, and is three: GetUser, OtherActiveOwners, commit. *)
(*                                                                         *)
(* An expired token is one that nobody presents any more.  admin stands    *)
(* for the three roles that are not owner.                                 *)
(***************************************************************************)
EXTENDS Integers

CONSTANTS
  User,         (* users, by the email that names them                     *)
  Token,        (* refresh tokens that may be issued; a bound              *)
  Req,          (* requests to sign in that may be under way               *)
  Editor,       (* requests to Update a user that may be under way         *)
  MaxHash,      (* bound on the passwords a user sets                      *)
  None          (* no user, no token, nothing to change                    *)

ASSUME StaffAssumption == /\ None \notin User \cup Token
                          /\ None \notin {"owner", "admin", "active", "disabled"}
                          /\ None \notin {"owner", "admin", "active", "disabled"}
                          /\ MaxHash \in Nat

VARIABLES
  users,        (* the users table                                         *)
  tokens,       (* the refresh_tokens table                                *)
  req,          (* the sign-ins under way                                  *)
  edit,         (* the Updates under way                                   *)
  late,         (* history: sessions that were being issued when their     *)
                (* user was last signed out everywhere                     *)
  raced         (* history: Updates about to write since whose decision an *)
                (* active owner was taken away                             *)

vars == <<users, tokens, req, edit, late, raced>>

Role == {"owner", "admin"}
Hash == 0..MaxHash          (* 0: no password, as after a Google sign-in   *)

UserRow == [status : {"absent", "invited", "active", "disabled"}, role : Role, hash : Hash]

(* The sign-in a token descends from is its chain, found in the code by    *)
(* following rotated_from; cred is the password it was opened under.       *)
TokenRow == [state : {"unused", "live", "revoked"}, user : User \cup {None},
             from : Token \cup {None}, chain : Token \cup {None}, cred : Hash]

NoToken == [state |-> "unused", user |-> None, from |-> None, chain |-> None,
            cred |-> 0]

(* tok is the token presented, new the one to be issued. *)
ReqRow == [at : {"idle", "rotating", "reusing", "issuing"}, user : User \cup {None},
           tok : Token \cup {None}, new : Token \cup {None},
           chain : Token \cup {None}, cred : Hash]

NoReq == [at |-> "idle", user |-> None, tok |-> None, new |-> None,
          chain |-> None, cred |-> 0]

(* role and status are what to change of the row GetUser returned. *)
EditRow == [at : {"idle", "counting", "writing"}, user : User \cup {None},
            role : Role \cup {None}, status : {"active", "disabled", None}]

NoUser == [status |-> "absent", role |-> "admin", hash |-> 0]
NoEdit == [at |-> "idle", user |-> None, role |-> None, status |-> None]

TypeOK == /\ users \in [User -> UserRow]
          /\ tokens \in [Token -> TokenRow]
          /\ req \in [Req -> ReqRow]
          /\ edit \in [Editor -> EditRow]
          /\ late \subseteq Token
          /\ raced \subseteq Editor

(* The shop has just been opened by Register, which invites its owner, or  *)
(* by RegisterWithGoogle, whose owner is active.                           *)
Init == /\ \E o \in User, s \in {"invited", "active"} :
             users = [u \in User |-> IF u = o
                        THEN [status |-> s, role |-> "owner", hash |-> 0] ELSE NoUser]
        /\ tokens = [t \in Token |-> NoToken]
        /\ req = [r \in Req |-> NoReq]
        /\ edit = [e \in Editor |-> NoEdit]
        /\ late = {}
        /\ raced = {}

-----------------------------------------------------------------------------
(* Tokens *)

Live(t) == tokens[t].state = "live"

Superseded(t) == \E s \in Token : tokens[s].from = t

Fresh(t) == /\ tokens[t].state = "unused"
            /\ \A r \in Req : req[r].new # t

(* RevokeRefreshToken: 0 rows, and nothing done, unless the token is live. *)
Revoked(t) == [tokens EXCEPT ![t].state = "revoked"]

(* RevokeAllUserTokens *)
RevokedAll(u) == [t \in Token |-> IF tokens[t].user = u /\ Live(t)
                                  THEN [tokens[t] EXCEPT !.state = "revoked"]
                                  ELSE tokens[t]]

(* What that revocation cannot see: the sessions whose INSERT is to come. *)
BeingIssued(u) == {req[r].chain : r \in {q \in Req : req[q].at = "issuing" /\ req[q].user = u}}

LateAfter(u) == {c \in late : tokens[c].user # u} \cup BeingIssued(u)

(* The issue of a new session, for a user just found entitled to one. *)
Issuing(u, new, cred) == [at |-> "issuing", user |-> u, tok |-> None,
                          new |-> new, chain |-> new, cred |-> cred]

Begin(r, u, cred) == /\ req[r].at = "idle"
                     /\ \E new \in Token :
                          Fresh(new) /\ req' = [req EXCEPT ![r] = Issuing(u, new, cred)]

(* Mutation: Login does not look at the status. *)
LoginAnyone(r, u) == /\ users[u].hash # 0
                     /\ Begin(r, u, users[u].hash)
                     /\ UNCHANGED <<users, tokens, edit, late, raced>>

(* Login, after the right password.  The row is read once. *)
Login(r, u) == /\ users[u].status = "active" /\ users[u].hash # 0
               /\ Begin(r, u, users[u].hash)
               /\ UNCHANGED <<users, tokens, edit, late, raced>>

Owners == {u \in User : users[u].role = "owner" /\ users[u].status = "active"}

(* A step that takes an owner away overtakes the Updates about to write;   *)
(* so does any in a shop that has none left, of which nothing is said.     *)
Overtakes == IF Owners # {} /\ Owners \subseteq Owners' THEN {}
             ELSE {e \in Editor : edit[e].at = "writing"}

(* AcceptInvite, by link or by the code that buys the link: the UPDATE     *)
(* names status invited, so nothing is left of a link once it is used.     *)
AcceptInvite(r, u) == /\ users[u].status = "invited" /\ MaxHash > 0
                      /\ users' = [users EXCEPT ![u].status = "active", ![u].hash = 1]
                      /\ raced' = raced \cup Overtakes
                      /\ Begin(r, u, 1)
                      /\ UNCHANGED <<tokens, edit, late>>

(* GoogleSignIn: an active user is signed in, an invited one activated. *)
Google(r, u) == /\ users[u].status \in {"active", "invited"}
                /\ users' = [users EXCEPT ![u].status = "active"]
                /\ raced' = raced \cup Overtakes
                /\ Begin(r, u, users[u].hash)
                /\ UNCHANGED <<tokens, edit, late>>

(* Refresh looks up what it was given: any token there is, old or new. *)
RefreshLookup(r, t) ==
  /\ req[r].at = "idle" /\ tokens[t].state # "unused"
  /\ req' = [req EXCEPT ![r] = [NoReq EXCEPT !.at = IF Live(t) THEN "rotating" ELSE "reusing",
                                             !.tok = t, !.user = tokens[t].user]]
  /\ UNCHANGED <<users, tokens, edit, late, raced>>

(* Mutation: issue is called, but nothing revokes the token presented. *)
RotateKeeps(r) ==
  /\ req[r].at = "rotating" /\ Live(req[r].tok)
  /\ \E new \in Token :
       Fresh(new) /\ req' = [req EXCEPT ![r] =
                        [at |-> "issuing", user |-> req[r].user, tok |-> req[r].tok, new |-> new,
                         chain |-> tokens[req[r].tok].chain, cred |-> tokens[req[r].tok].cred]]
  /\ UNCHANGED <<users, tokens, edit, late, raced>>

(* Mutation: the number of rows RevokeRefreshToken changed is not looked at. *)
RotateUnchecked(r) ==
  /\ req[r].at = "rotating"
  /\ tokens' = Revoked(req[r].tok)
  /\ \E new \in Token :
       Fresh(new) /\ req' = [req EXCEPT ![r] =
                        [at |-> "issuing", user |-> req[r].user, tok |-> req[r].tok, new |-> new,
                         chain |-> tokens[req[r].tok].chain, cred |-> tokens[req[r].tok].cred]]
  /\ UNCHANGED <<users, edit, late, raced>>

(* The token was live at the lookup.  RevokeRefreshToken finds out whether *)
(* it still is, and the request ends if another one was quicker.           *)
Rotate(r) ==
  LET t == req[r].tok IN
  /\ req[r].at = "rotating"
  /\ \/ /\ Live(t)
        /\ tokens' = Revoked(t)
        /\ \E new \in Token :
             /\ Fresh(new)
             /\ req' = [req EXCEPT ![r] =
                  [at |-> "issuing", user |-> tokens[t].user, tok |-> t, new |-> new,
                   chain |-> tokens[t].chain, cred |-> tokens[t].cred]]
     \/ /\ ~Live(t)
        /\ req' = [req EXCEPT ![r] = NoReq]
        /\ UNCHANGED tokens
  /\ UNCHANGED <<users, edit, late, raced>>

(* The token was revoked at the lookup.  With a successor it was rotated   *)
(* away and is a copy: the user is signed out everywhere.  Without, the    *)
(* user had signed out, and nothing more happens.                          *)
Reuse(r) ==
  LET t == req[r].tok
      u == req[r].user IN
  /\ req[r].at = "reusing"
  /\ req' = [req EXCEPT ![r] = NoReq]
  /\ \/ /\ Superseded(t)
        /\ tokens' = RevokedAll(u)
        /\ late' = LateAfter(u)
     \/ ~Superseded(t) /\ UNCHANGED <<tokens, late>>
  /\ UNCHANGED <<users, edit, raced>>

(* issue: CreateRefreshToken and GetSession, whatever has become of the    *)
(* user in the meantime.                                                   *)
Issue(r) ==
  /\ req[r].at = "issuing"
  /\ tokens' = [tokens EXCEPT ![req[r].new] =
       [state |-> "live", user |-> req[r].user, from |-> req[r].tok,
        chain |-> req[r].chain, cred |-> req[r].cred]]
  /\ req' = [req EXCEPT ![r] = NoReq]
  /\ UNCHANGED <<users, edit, late, raced>>

(* A request dies, or its transaction is rolled back; a session that was   *)
(* to begin with it never will.                                            *)
Abandon(r) == /\ req[r].at # "idle"
              /\ req' = [req EXCEPT ![r] = NoReq]
              /\ late' = late \ {req[r].new}
              /\ UNCHANGED <<users, tokens, edit, raced>>

Logout(t) == /\ Live(t) /\ tokens' = Revoked(t)
             /\ UNCHANGED <<users, req, edit, late, raced>>

-----------------------------------------------------------------------------
(* Passwords *)

(* ResetPassword: the link verifies against the hash it was minted with,   *)
(* for a user active then, so a link that counts might have been mailed    *)
(* just now.  SetUserPassword tests status and hash once more, then the    *)
(* user is signed out everywhere and signed in afresh.                     *)
ResetPassword(r, u) ==
  /\ users[u].status = "active" /\ users[u].hash < MaxHash
  /\ users' = [users EXCEPT ![u].hash = @ + 1]
  /\ tokens' = RevokedAll(u)
  /\ late' = LateAfter(u)
  /\ Begin(r, u, users[u].hash + 1)
  /\ UNCHANGED <<edit, raced>>

-----------------------------------------------------------------------------
(* The team *)

(* Whoever calls has signed in once.  Their role is the one in an access   *)
(* token of up to 15 minutes ago, so it need not be anyone's role now.     *)
Signed(v) == users[v].status \in {"active", "disabled"}

(* grantable: owner is for an owner to give. *)
Grantable(caller, role) == role = "owner" => caller = "owner"

Invite(u, role, caller) ==
  /\ \E v \in User : Signed(v)
  /\ users[u].status = "absent" /\ Grantable(caller, role)
  /\ users' = [users EXCEPT ![u] = [status |-> "invited", role |-> role, hash |-> 0]]
  /\ UNCHANGED <<tokens, req, edit, late, raced>>

LosesOwner(was, role, status) ==
  /\ was.role = "owner" /\ was.status = "active"
  /\ role = "admin" \/ status = "disabled"

(* Only what differs from the row as read is written. *)
Change(want, is) == IF want = is THEN None ELSE want

(* Mutation: OtherActiveOwners counts disabled owners too. *)
OtherOwner(u) == \E v \in User \ {u} : users[v].role = "owner"

(* OtherActiveOwners *)
OtherActiveOwner(u) == Owners \ {u} # {}

(* Update reads the user and decides. *)
UpdateRead(e, u, role, status, caller) ==
  LET was == users[u] IN
  /\ \E v \in User : Signed(v)
  /\ edit[e].at = "idle" /\ was.status # "absent"
  /\ role = None \/ Grantable(caller, role)
  /\ was.role = "owner" => caller = "owner"
  /\ role \notin {None, was.role} \/ status \notin {None, was.status}
  /\ status = None \/ was.status # "invited"
  /\ edit' = [edit EXCEPT ![e] =
       [at |-> IF LosesOwner(was, role, status) THEN "counting" ELSE "writing",
        user |-> u, role |-> Change(role, was.role), status |-> Change(status, was.status)]]
  /\ UNCHANGED <<users, tokens, req, late, raced>>

UpdateCount(e) ==
  /\ edit[e].at = "counting"
  /\ edit' = [edit EXCEPT ![e] = IF OtherActiveOwner(edit[e].user)
                                 THEN [edit[e] EXCEPT !.at = "writing"] ELSE NoEdit]
  /\ UNCHANGED <<users, tokens, req, late, raced>>

(* SetUserRole and SetUserStatus, whatever the row is by now; disabling    *)
(* also signs the user out everywhere.                                     *)
UpdateWrite(e) ==
  LET u == edit[e].user
      role == edit[e].role
      status == edit[e].status IN
  /\ edit[e].at = "writing"
  /\ users' = [users EXCEPT ![u] =
       [status |-> IF status = None THEN @.status ELSE status,
        role |-> IF role = None THEN @.role ELSE role, hash |-> @.hash]]
  /\ IF status = "disabled"
     THEN tokens' = RevokedAll(u) /\ late' = LateAfter(u)
     ELSE UNCHANGED <<tokens, late>>
  /\ edit' = [edit EXCEPT ![e] = NoEdit]
  /\ raced' = (raced \cup Overtakes) \ {e}
  /\ UNCHANGED req

UpdateAbandon(e) == /\ edit[e].at # "idle"
                    /\ edit' = [edit EXCEPT ![e] = NoEdit]
                    /\ raced' = raced \ {e}
                    /\ UNCHANGED <<users, tokens, req, late>>

-----------------------------------------------------------------------------
SignInNext == \E r \in Req :
                \/ \E u \in User : \/ Login(r, u) \/ AcceptInvite(r, u)
                                   \/ Google(r, u) \/ ResetPassword(r, u)
                \/ \E t \in Token : RefreshLookup(r, t)
                \/ Rotate(r) \/ Reuse(r) \/ Issue(r) \/ Abandon(r)

TeamNext == \/ \E u \in User, role, caller \in Role : Invite(u, role, caller)
            \/ \E e \in Editor :
                 \/ \E u \in User, role \in Role \cup {None}, status \in {"active", "disabled", None}, caller \in Role :
                      UpdateRead(e, u, role, status, caller)
                 \/ UpdateCount(e) \/ UpdateWrite(e) \/ UpdateAbandon(e)

Next == SignInNext \/ TeamNext \/ (\E t \in Token : Logout(t))

Spec == Init /\ [][Next]_vars

-----------------------------------------------------------------------------
(* Safety *)

(* Of the tokens rotated out of one sign-in at most one works, however     *)
(* many requests present the same one ("two live tokens where there should *)
(* be one", service.go; BR-022).                                           *)
OneLivePerChain == \A s, t \in Token :
  Live(s) /\ Live(t) /\ tokens[s].chain = tokens[t].chain => s = t

(* Disabling a user or resetting a password signs them out everywhere: a   *)
(* session lives on only if it belongs to an active user and was opened    *)
(* under the current password, or was being issued at that very moment     *)
(* (BR-027, BR-094).                                                       *)
SignedOutStays == \A t \in Token :
  Live(t) => \/ users[tokens[t].user].status = "active" /\ users[tokens[t].user].hash = tokens[t].cred
             \/ tokens[t].chain \in late

HasOwner == Owners # {}

(* "The last active owner of a tenant cannot be disabled or demoted"       *)
(* (BR-027), as it is said there.                                          *)
OwnerRemains == [][HasOwner => HasOwner']_vars

(* And as it is: however many Updates run, by rows read long ago, the last *)
(* active owner is lost only to one that was about to write while another  *)
(* took away an owner it had counted on (Update in users.go).              *)
LastOwnerStays == [][HasOwner => HasOwner' \/ \E e \in raced : UpdateWrite(e)]_vars

(* A session, whatever becomes of its requests, is open while a token of   *)
(* it lives or is on its way, and once ended it stays so: Sessions.        *)
ChainState(c) ==
  IF \A t \in Token : tokens[t].chain # c THEN "none"
  ELSE IF \/ \E t \in Token : Live(t) /\ tokens[t].chain = c
          \/ \E r \in Req : req[r].at = "issuing" /\ req[r].chain = c
       THEN "open" ELSE "ended"

Sess == INSTANCE Sessions WITH Chain <- Token, chain <- [c \in Token |-> ChainState(c)]

ImplementsSessions == Sess!Spec
=============================================================================
