---------------------------- MODULE StaffProofs -----------------------------
(***************************************************************************)
(* Proofs about staff sessions and the team, for any number of users,      *)
(* tokens and requests.  Ids says what names what: a token that is used    *)
(* belongs to a user and to a chain that begins with a used token, and no  *)
(* two requests are to issue the same one.  From it follow One, that a     *)
(* chain is continued in one place only, and Entitled, that whatever lives *)
(* or is about to has a right to.  Counted is for the team.                *)
(***************************************************************************)
EXTENDS Staff, TLAPS

(* What a step does to the tokens when it is not issue's. *)
Revokes ==
  /\ tokens' = [t \in Token |-> tokens'[t]]
  /\ \A t \in Token :
       \/ tokens'[t] = tokens[t]
       \/ Live(t) /\ tokens'[t] = [tokens[t] EXCEPT !.state = "revoked"]

(* What a request names. *)
ReqNames(q, toks) ==
  /\ q.at = "idle" => q = NoReq
  /\ q.at \in {"rotating", "reusing"} =>
       /\ q.tok \in Token /\ toks[q.tok].state # "unused"
       /\ q.user = toks[q.tok].user /\ q.new = None
  /\ q.at = "issuing" =>
       /\ q.user \in User /\ q.new \in Token /\ toks[q.new].state = "unused"
       /\ \/ q.chain = q.new /\ q.tok = None
          \/ /\ q.chain \in Token /\ q.tok \in Token
             /\ toks[q.chain].state # "unused" /\ toks[q.chain].user = q.user

TokenNames(toks) == \A t \in Token :
  /\ toks[t].state = "unused" => toks[t] = NoToken
  /\ toks[t].state # "unused" =>
       /\ toks[t].user \in User /\ toks[t].chain \in Token
       /\ toks[toks[t].chain].state # "unused"
       /\ toks[toks[t].chain].user = toks[t].user

Ids ==
  /\ TokenNames(tokens)
  /\ \A r \in Req : ReqNames(req[r], tokens)
  /\ \A r, s \in Req : req[r].new # None /\ req[r].new = req[s].new => r = s
  /\ \A e \in Editor : edit[e].at # "idle" => edit[e].user \in User

(* The five ways in which a step changes the requests. *)
Quiet == req' = req /\ Revokes
Finish(r) == req' = [req EXCEPT ![r] = NoReq] /\ Revokes
LooksUp(r, t) == \E q \in ReqRow :
  /\ req[r].at = "idle" /\ tokens[t].state # "unused" /\ tokens' = tokens
  /\ q.at \in {"rotating", "reusing"} /\ q.tok = t /\ q.user = tokens[t].user /\ q.new = None
  /\ req' = [req EXCEPT ![r] = q]
Begins(r, u, new, cred) ==
  /\ req[r].at = "idle" /\ Fresh(new) /\ Revokes
  /\ req' = [req EXCEPT ![r] = Issuing(u, new, cred)]
Rotates(r, t, new) ==
  /\ req[r].at = "rotating" /\ t = req[r].tok /\ Live(t) /\ Fresh(new)
  /\ tokens' = Revoked(t)
  /\ req' = [req EXCEPT ![r] =
       [at |-> "issuing", user |-> tokens[t].user, tok |-> t, new |-> new,
        chain |-> tokens[t].chain, cred |-> tokens[t].cred]]

LEMMA Rows ==
  /\ NoToken \in TokenRow /\ NoReq \in ReqRow /\ NoEdit \in EditRow /\ NoUser \in UserRow
  /\ \A u \in User, t \in Token, cred \in Hash : Issuing(u, t, cred) \in ReqRow
  BY StaffAssumption DEF NoToken, NoReq, NoEdit, NoUser, TokenRow, ReqRow, EditRow,
     UserRow, Role, Hash, Issuing

LEMMA Revoking ==
  ASSUME TypeOK, Revokes
  PROVE  /\ tokens' \in [Token -> TokenRow]
         /\ \A t \in Token : /\ tokens'[t].user = tokens[t].user /\ tokens'[t].from = tokens[t].from
                             /\ tokens'[t].chain = tokens[t].chain /\ tokens'[t].cred = tokens[t].cred
                             /\ \/ tokens'[t].state = tokens[t].state
                                \/ tokens[t].state = "live" /\ tokens'[t].state = "revoked"
<1>1. \A t \in Token : tokens'[t] \in TokenRow
  BY DEF TypeOK, Revokes, TokenRow
<1>2. tokens' \in [Token -> TokenRow]
  BY <1>1 DEF Revokes
<1> QED BY <1>2 DEF TypeOK, Revokes, Live, TokenRow

LEMMA RevokedRevokes ==
  ASSUME TypeOK,
         \/ tokens' = tokens
         \/ \E t \in Token : Live(t) /\ tokens' = Revoked(t)
         \/ \E u \in User : tokens' = RevokedAll(u)
  PROVE  Revokes
<1>1. CASE tokens' = tokens
  BY <1>1 DEF TypeOK, Revokes
<1>2. ASSUME NEW t \in Token, Live(t), tokens' = Revoked(t)
      PROVE  Revokes
  BY <1>2 DEF TypeOK, Revokes, Revoked
<1>3. ASSUME NEW u \in User, tokens' = RevokedAll(u)
      PROVE  Revokes
  BY <1>3 DEF TypeOK, Revokes, RevokedAll
<1> QED BY <1>1, <1>2, <1>3

LEMMA Kinds ==
  ASSUME TypeOK, Ids, [Next]_vars
  PROVE  \/ Quiet
         \/ \E r \in Req :
              \/ Finish(r) \/ Issue(r)
              \/ \E t \in Token : LooksUp(r, t)
              \/ \E u \in User, new \in Token, cred \in Hash : Begins(r, u, new, cred)
              \/ \E t, new \in Token : Rotates(r, t, new)
<1> DEFINE Begun(r) == \E u \in User, new \in Token, cred \in Hash : Begins(r, u, new, cred)
<1>1. ASSUME NEW r \in Req, NEW u \in User,
             Login(r, u) \/ AcceptInvite(r, u) \/ Google(r, u)
      PROVE  Begun(r)
  <2>1. Revokes
    BY <1>1, RevokedRevokes DEF Login, AcceptInvite, Google
  <2>2. \E cred \in Hash : Begin(r, u, cred)
    BY <1>1, StaffAssumption DEF Login, AcceptInvite, Google, TypeOK, UserRow, Hash
  <2> QED BY <2>1, <2>2 DEF Begin, Begins
<1>2. ASSUME NEW r \in Req, NEW u \in User, ResetPassword(r, u)
      PROVE  Begun(r)
  <2>1. Revokes
    BY <1>2, RevokedRevokes DEF ResetPassword
  <2>2. users[u].hash + 1 \in Hash
    BY <1>2, StaffAssumption DEF ResetPassword, TypeOK, UserRow, Hash
  <2> QED BY <1>2, <2>1, <2>2 DEF ResetPassword, Begin, Begins
<1>3. ASSUME NEW r \in Req, NEW t \in Token, RefreshLookup(r, t)
      PROVE  LooksUp(r, t)
  <2> PICK at \in {"rotating", "reusing"} :
         req' = [req EXCEPT ![r] = [NoReq EXCEPT !.at = at, !.tok = t, !.user = tokens[t].user]]
    BY <1>3 DEF RefreshLookup
  <2> DEFINE q == [NoReq EXCEPT !.at = at, !.tok = t, !.user = tokens[t].user]
  <2>1. q \in ReqRow /\ q.at = at /\ q.tok = t /\ q.user = tokens[t].user /\ q.new = None
    <3>1. NoReq \in ReqRow /\ NoReq.new = None /\ tokens[t].user \in User \cup {None}
      BY Rows DEF NoReq, TypeOK, TokenRow
    <3> QED BY <3>1 DEF ReqRow
  <2>2. req' = [req EXCEPT ![r] = q]
    OBVIOUS
  <2> HIDE DEF q
  <2> QED BY <1>3, <2>1, <2>2 DEF RefreshLookup, LooksUp
<1>4. ASSUME NEW r \in Req, Rotate(r)
      PROVE  Finish(r) \/ \E t, new \in Token : Rotates(r, t, new)
  <2>1. req[r].tok \in Token
    BY <1>4 DEF Rotate, Ids, ReqNames
  <2>2. CASE Live(req[r].tok)
    BY <1>4, <2>1, <2>2 DEF Rotate, Rotates
  <2>3. CASE ~Live(req[r].tok)
    BY <1>4, <2>3, RevokedRevokes DEF Rotate, Finish
  <2> QED BY <2>2, <2>3
<1>5. ASSUME NEW r \in Req, Reuse(r) PROVE Finish(r)
  <2>1. req[r].user \in User
    BY <1>5 DEF Reuse, Ids, ReqNames, TokenNames
  <2> QED BY <1>5, <2>1, RevokedRevokes DEF Reuse, Finish
<1>6. ASSUME NEW r \in Req, Abandon(r) PROVE Finish(r)
  BY <1>6, RevokedRevokes DEF Abandon, Finish
<1>7. ASSUME NEW t \in Token, Logout(t) PROVE Quiet
  BY <1>7, RevokedRevokes DEF Logout, Quiet
<1>8. ASSUME TeamNext PROVE Quiet
  <2>1. CASE tokens' = tokens /\ req' = req
    BY <2>1, RevokedRevokes DEF Quiet
  <2>2. ASSUME NEW e \in Editor, UpdateWrite(e) PROVE Quiet
    <3>1. edit[e].user \in User
      BY <2>2 DEF UpdateWrite, Ids
    <3> QED BY <2>2, <3>1, RevokedRevokes DEF UpdateWrite, Quiet
  <2> QED BY <1>8, <2>1, <2>2 DEF TeamNext, Invite, UpdateRead, UpdateCount, UpdateAbandon
<1>9. ASSUME UNCHANGED vars PROVE Quiet
  BY <1>9, RevokedRevokes DEF vars, Quiet
<1> QED BY <1>1, <1>2, <1>3, <1>4, <1>5, <1>6, <1>7, <1>8, <1>9 DEF Next, SignInNext

LEMMA RequestTypes ==
  ASSUME TypeOK, Ids, [Next]_vars
  PROVE  tokens' \in [Token -> TokenRow] /\ req' \in [Req -> ReqRow]
<1> USE DEF TypeOK
<1>1. ASSUME Quiet PROVE tokens' \in [Token -> TokenRow] /\ req' \in [Req -> ReqRow]
  BY <1>1, Revoking DEF Quiet
<1>2. ASSUME NEW r \in Req, Finish(r)
      PROVE  tokens' \in [Token -> TokenRow] /\ req' \in [Req -> ReqRow]
  BY <1>2, Revoking, Rows DEF Finish
<1>3. ASSUME NEW r \in Req, Issue(r)
      PROVE  tokens' \in [Token -> TokenRow] /\ req' \in [Req -> ReqRow]
  <2> DEFINE row == [state |-> "live", user |-> req[r].user, from |-> req[r].tok,
                     chain |-> req[r].chain, cred |-> req[r].cred]
  <2>1. row \in TokenRow
    BY DEF TokenRow, ReqRow
  <2>2. tokens' = [tokens EXCEPT ![req[r].new] = row] /\ req' = [req EXCEPT ![r] = NoReq]
    BY <1>3 DEF Issue
  <2> HIDE DEF row
  <2> QED BY <2>1, <2>2, Rows
<1>4. ASSUME NEW r \in Req, NEW t \in Token, LooksUp(r, t)
      PROVE  tokens' \in [Token -> TokenRow] /\ req' \in [Req -> ReqRow]
  BY <1>4 DEF LooksUp
<1>5. ASSUME NEW r \in Req, NEW u \in User, NEW new \in Token, NEW cred \in Hash,
             Begins(r, u, new, cred)
      PROVE  tokens' \in [Token -> TokenRow] /\ req' \in [Req -> ReqRow]
  BY <1>5, Revoking, Rows DEF Begins
<1>6. ASSUME NEW r \in Req, NEW t \in Token, NEW new \in Token, Rotates(r, t, new)
      PROVE  tokens' \in [Token -> TokenRow] /\ req' \in [Req -> ReqRow]
  <2>1. tokens' \in [Token -> TokenRow]
    BY <1>6, RevokedRevokes, Revoking DEF Rotates
  <2>2. req' \in [Req -> ReqRow]
    BY <1>6 DEF Rotates, ReqRow, TokenRow
  <2> QED BY <2>1, <2>2
<1> QED BY <1>1, <1>2, <1>3, <1>4, <1>5, <1>6, Kinds

(* What a step does to the users. *)
Invites(u, row) == /\ \E v \in User : Signed(v)
                   /\ users[u].status = "absent" /\ row.status = "invited"
Activates(u, row) == /\ users[u].status \in {"invited", "active"}
                     /\ row.status = "active" /\ row.role = users[u].role
WritesUser(u) == \E e \in Editor : UpdateWrite(e) /\ u = edit[e].user

UserStep == \E u \in User, row \in UserRow :
  /\ users' = [users EXCEPT ![u] = row]
  /\ Invites(u, row) \/ Activates(u, row) \/ WritesUser(u)

LEMMA UserSteps ==
  ASSUME TypeOK, Ids, [Next]_vars
  PROVE  users' = users \/ UserStep
<1> DEFINE Stp == users' = users \/ UserStep
<1>1. ASSUME NEW r \in Req, NEW u \in User,
             AcceptInvite(r, u) \/ Google(r, u) \/ ResetPassword(r, u)
      PROVE  Stp
  <2>1. users[u] \in UserRow
    BY DEF TypeOK
  <2>2. CASE AcceptInvite(r, u)
    <3> DEFINE row == [users[u] EXCEPT !.status = "active", !.hash = 1]
    <3>1. row \in UserRow /\ row.status = "active" /\ row.role = users[u].role
      <4>1. 1 \in Hash
        BY <2>2, StaffAssumption DEF AcceptInvite, Hash
      <4> QED BY <2>1, <4>1 DEF UserRow
    <3>2. users' = [users EXCEPT ![u] = row] /\ users[u].status = "invited"
      BY <2>2 DEF AcceptInvite
    <3> HIDE DEF row
    <3> QED BY <3>1, <3>2 DEF UserStep, Activates
  <2>3. CASE Google(r, u)
    <3> DEFINE row == [users[u] EXCEPT !.status = "active"]
    <3>1. row \in UserRow /\ row.status = "active" /\ row.role = users[u].role
      BY <2>1 DEF UserRow
    <3>2. users' = [users EXCEPT ![u] = row] /\ users[u].status \in {"active", "invited"}
      BY <2>3 DEF Google
    <3> HIDE DEF row
    <3> QED BY <3>1, <3>2 DEF UserStep, Activates
  <2>4. CASE ResetPassword(r, u)
    <3> DEFINE row == [users[u] EXCEPT !.hash = users[u].hash + 1]
    <3>1. row \in UserRow /\ row.status = users[u].status /\ row.role = users[u].role
      BY <2>1, <2>4, StaffAssumption DEF ResetPassword, UserRow, Hash
    <3>2. users' = [users EXCEPT ![u] = row] /\ users[u].status = "active"
      BY <2>4 DEF ResetPassword
    <3> HIDE DEF row
    <3> QED BY <3>1, <3>2 DEF UserStep, Activates
  <2> QED BY <1>1, <2>2, <2>3, <2>4
<1>2. ASSUME NEW u \in User, NEW role \in Role, NEW caller \in Role, Invite(u, role, caller)
      PROVE  Stp
  <2>1. [status |-> "invited", role |-> role, hash |-> 0] \in UserRow
    BY StaffAssumption DEF UserRow, Hash
  <2> QED BY <1>2, <2>1 DEF Invite, UserStep, Invites
<1>3. ASSUME NEW e \in Editor, UpdateWrite(e) PROVE Stp
  <2> DEFINE u == edit[e].user
             row == [status |-> IF edit[e].status = None THEN users[u].status ELSE edit[e].status,
                     role |-> IF edit[e].role = None THEN users[u].role ELSE edit[e].role,
                     hash |-> users[u].hash]
  <2>1. u \in User
    BY <1>3 DEF UpdateWrite, Ids
  <2>2. row \in UserRow
    BY <2>1 DEF TypeOK, UserRow, EditRow
  <2>3. users' = [users EXCEPT ![u] = row]
    BY <1>3 DEF UpdateWrite
  <2> HIDE DEF row
  <2> QED BY <1>3, <2>1, <2>2, <2>3 DEF UserStep, WritesUser
<1>4. CASE UNCHANGED users
  BY <1>4
<1> QED BY <1>1, <1>2, <1>3, <1>4 DEF Next, SignInNext, TeamNext, Login, RefreshLookup, Rotate,
        Reuse, Issue, Abandon, UpdateRead, UpdateCount, UpdateAbandon, Logout, vars

(* What a step does to the Updates under way, whose users there are. *)
EditStep == \E e \in Editor, row \in EditRow :
  /\ edit' = [edit EXCEPT ![e] = row]
  /\ row = NoEdit \/ row.user \in User

LEMMA EditSteps ==
  ASSUME TypeOK, Ids, [Next]_vars
  PROVE  edit' = edit \/ EditStep
<1> DEFINE Stp == edit' = edit \/ EditStep
<1>1. ASSUME NEW e \in Editor, NEW u \in User, NEW role \in Role \cup {None},
             NEW status \in {"active", "disabled", None}, NEW caller \in Role,
             UpdateRead(e, u, role, status, caller)
      PROVE  Stp
  <2> DEFINE row == [at |-> IF LosesOwner(users[u], role, status) THEN "counting" ELSE "writing",
                     user |-> u, role |-> Change(role, users[u].role),
                     status |-> Change(status, users[u].status)]
  <2>1. row \in EditRow
    BY DEF EditRow, Change
  <2>2. edit' = [edit EXCEPT ![e] = row] /\ row.user = u
    BY <1>1 DEF UpdateRead
  <2> HIDE DEF row
  <2> QED BY <2>1, <2>2 DEF EditStep
<1>2. ASSUME NEW e \in Editor, UpdateCount(e) PROVE Stp
  <2> DEFINE row == [edit[e] EXCEPT !.at = "writing"]
  <2>1. row \in EditRow /\ row.user \in User
    BY <1>2 DEF UpdateCount, Ids, TypeOK, EditRow
  <2>2. edit' = [edit EXCEPT ![e] = row] \/ edit' = [edit EXCEPT ![e] = NoEdit]
    BY <1>2 DEF UpdateCount
  <2> HIDE DEF row
  <2> QED BY <2>1, <2>2, Rows DEF EditStep
<1>3. ASSUME NEW e \in Editor, UpdateWrite(e) \/ UpdateAbandon(e) PROVE Stp
  BY <1>3, Rows DEF UpdateWrite, UpdateAbandon, EditStep
<1>4. CASE UNCHANGED edit
  BY <1>4
<1> QED BY <1>1, <1>2, <1>3, <1>4 DEF Next, SignInNext, TeamNext, Login, AcceptInvite, Google,
        ResetPassword, RefreshLookup, Rotate, Reuse, Issue, Abandon, Invite, Logout, vars

LEMMA LateSteps ==
  ASSUME TypeOK, Ids, [Next]_vars
  PROVE  \/ late' = late
         \/ \E r \in Req : Abandon(r) /\ late' = late \ {req[r].new}
         \/ \E u \in User : tokens' = RevokedAll(u) /\ late' = LateAfter(u)
<1>1. ASSUME NEW r \in Req, Reuse(r)
      PROVE  late' = late \/ \E u \in User : tokens' = RevokedAll(u) /\ late' = LateAfter(u)
  <2>1. req[r].user \in User
    BY <1>1 DEF Reuse, Ids, ReqNames, TokenNames
  <2> QED BY <1>1, <2>1 DEF Reuse
<1>2. ASSUME NEW e \in Editor, UpdateWrite(e)
      PROVE  late' = late \/ \E u \in User : tokens' = RevokedAll(u) /\ late' = LateAfter(u)
  <2>1. edit[e].user \in User
    BY <1>2 DEF UpdateWrite, Ids
  <2> QED BY <1>2, <2>1 DEF UpdateWrite
<1> QED BY <1>1, <1>2 DEF Next, SignInNext, TeamNext, Login, AcceptInvite, Google,
        ResetPassword, RefreshLookup, Rotate, Issue, Abandon, Invite, Logout,
        UpdateRead, UpdateCount, UpdateAbandon, vars

LEMMA TypeStep ==
  ASSUME TypeOK, Ids, [Next]_vars
  PROVE  TypeOK'
<1>1. users' \in [User -> UserRow]
  BY UserSteps DEF TypeOK, UserStep
<1>2. edit' \in [Editor -> EditRow]
  BY EditSteps DEF TypeOK, EditStep
<1>3. \A u \in User : LateAfter(u) \subseteq Token
  BY DEF LateAfter, BeingIssued, Ids, ReqNames, TypeOK
<1>4. late' \subseteq Token
  BY <1>3, LateSteps DEF TypeOK
<1>5. raced' \subseteq Editor
  BY DEF Next, SignInNext, TeamNext, Login, AcceptInvite, Google, ResetPassword,
     RefreshLookup, Rotate, Reuse, Issue, Abandon, Invite, Logout, UpdateRead, UpdateCount,
     UpdateWrite, UpdateAbandon, Overtakes, TypeOK, vars
<1> QED BY <1>1, <1>2, <1>4, <1>5, RequestTypes DEF TypeOK

-----------------------------------------------------------------------------
(* Revoking tokens takes no name from anybody. *)
LEMMA NamesStay ==
  ASSUME TypeOK, Ids, Revokes, NEW q \in ReqRow, ReqNames(q, tokens)
  PROVE  TokenNames(tokens') /\ ReqNames(q, tokens')
<1>1. TokenNames(tokens')
  BY Revoking DEF Ids, TokenNames, Revokes, Live
<1>2. ReqNames(q, tokens')
  BY Revoking DEF ReqNames
<1> QED BY <1>1, <1>2

LEMMA RequestNames ==
  ASSUME TypeOK, Ids, Revokes, NEW r \in Req, NEW q \in ReqRow,
         req' = [req EXCEPT ![r] = q], ReqNames(q, tokens),
         q.new = None \/ Fresh(q.new)
  PROVE  /\ TokenNames(tokens') /\ \A s \in Req : ReqNames(req'[s], tokens')
         /\ \A s, t \in Req : req'[s].new # None /\ req'[s].new = req'[t].new => s = t
<1>1. TokenNames(tokens') /\ ReqNames(q, tokens')
  BY NamesStay
<1>2. ASSUME NEW s \in Req PROVE ReqNames(req'[s], tokens')
  BY <1>1, NamesStay DEF TypeOK, Ids
<1>3. \A s, t \in Req : req'[s].new # None /\ req'[s].new = req'[t].new => s = t
  BY DEF TypeOK, Ids, Fresh
<1> QED BY <1>1, <1>2, <1>3

LEMMA IssueNames ==
  ASSUME TypeOK, Ids, NEW r \in Req, Issue(r)
  PROVE  /\ TokenNames(tokens') /\ \A s \in Req : ReqNames(req'[s], tokens')
         /\ \A s, t \in Req : req'[s].new # None /\ req'[s].new = req'[t].new => s = t
<1> DEFINE new == req[r].new
           c == req[r].chain
<1>1. /\ new \in Token /\ tokens[new].state = "unused" /\ req[r].user \in User
      /\ \/ c = new
         \/ c \in Token /\ tokens[c].state # "unused" /\ tokens[c].user = req[r].user
  BY DEF Issue, Ids, ReqNames
<1>2. /\ tokens'[new].state = "live" /\ tokens'[new].user = req[r].user
      /\ tokens'[new].chain = c
      /\ \A t \in Token : t # new => tokens'[t] = tokens[t]
  BY <1>1 DEF Issue, TypeOK
<1>3. req'[r] = NoReq /\ \A s \in Req : s # r => req'[s] = req[s]
  BY DEF Issue, TypeOK
<1>4. new # None /\ NoReq.new = None /\ NoReq.at = "idle"
  BY <1>1, StaffAssumption DEF NoReq
<1>5. \A s \in Req : s # r => req[s].new # new
  BY <1>4 DEF Ids
<1> HIDE DEF new, c
<1>6. TokenNames(tokens')
  <2> SUFFICES ASSUME NEW t \in Token
               PROVE  /\ tokens'[t].state = "unused" => tokens'[t] = NoToken
                      /\ tokens'[t].state # "unused" =>
                           /\ tokens'[t].user \in User /\ tokens'[t].chain \in Token
                           /\ tokens'[tokens'[t].chain].state # "unused"
                           /\ tokens'[tokens'[t].chain].user = tokens'[t].user
    BY DEF TokenNames
  <2>1. CASE t = new
    BY <1>1, <1>2, <2>1
  <2>2. CASE t # new
    <3>1. tokens'[t] = tokens[t]
      BY <1>2, <2>2
    <3>2. CASE tokens[t].state = "unused"
      BY <3>1, <3>2 DEF Ids, TokenNames
    <3>3. CASE tokens[t].state # "unused"
      <4>1. tokens[t].chain # new /\ tokens[t].chain \in Token
        BY <1>1, <3>3 DEF Ids, TokenNames
      <4> QED BY <1>2, <3>1, <3>3, <4>1 DEF Ids, TokenNames
    <3> QED BY <3>2, <3>3
  <2> QED BY <2>1, <2>2
<1>7. ASSUME NEW s \in Req PROVE ReqNames(req'[s], tokens')
  <2>1. CASE s = r
    BY <1>3, <1>4, <2>1 DEF ReqNames
  <2>2. CASE s # r
    <3>1. ReqNames(req[s], tokens) /\ req'[s] = req[s] /\ req[s].new # new
      BY <1>3, <1>5, <2>2 DEF Ids
    <3> QED BY <1>1, <1>2, <3>1 DEF ReqNames
  <2> QED BY <2>1, <2>2
<1>8. \A s, t \in Req : req'[s].new # None /\ req'[s].new = req'[t].new => s = t
  BY <1>3, <1>4 DEF Ids
<1> QED BY <1>6, <1>7, <1>8

LEMMA IdsStep ==
  ASSUME TypeOK, Ids, [Next]_vars
  PROVE  Ids'
<1> DEFINE Names == /\ TokenNames(tokens') /\ \A s \in Req : ReqNames(req'[s], tokens')
                    /\ \A s, t \in Req : req'[s].new # None /\ req'[s].new = req'[t].new => s = t
<1>0. NoReq.at = "idle" /\ NoReq.new = None
  BY DEF NoReq
<1>1. ASSUME Quiet PROVE Names
  <2>1. ASSUME NEW s \in Req PROVE TokenNames(tokens') /\ ReqNames(req'[s], tokens')
    BY <1>1, NamesStay DEF Quiet, Ids, TypeOK
  <2>2. TokenNames(tokens')
    BY <1>1, Rows, <1>0, NamesStay DEF Quiet, ReqNames
  <2> QED BY <1>1, <2>1, <2>2 DEF Quiet, Ids
<1>2. ASSUME NEW r \in Req, Finish(r) PROVE Names
  <2>1. ReqNames(NoReq, tokens)
    BY <1>0 DEF ReqNames
  <2> QED BY <1>0, <1>2, <2>1, Rows, RequestNames DEF Finish
<1>3. ASSUME NEW r \in Req, NEW t \in Token, LooksUp(r, t) PROVE Names
  <2> PICK q \in ReqRow :
        /\ tokens[t].state # "unused" /\ tokens' = tokens
        /\ q.at \in {"rotating", "reusing"} /\ q.tok = t /\ q.user = tokens[t].user /\ q.new = None
        /\ req' = [req EXCEPT ![r] = q]
    BY <1>3 DEF LooksUp
  <2>1. ReqNames(q, tokens) /\ Revokes
    BY RevokedRevokes DEF ReqNames
  <2> QED BY <2>1, RequestNames
<1>4. ASSUME NEW r \in Req, NEW u \in User, NEW new \in Token, NEW cred \in Hash,
             Begins(r, u, new, cred)
      PROVE  Names
  <2> DEFINE q == Issuing(u, new, cred)
  <2>1. q \in ReqRow /\ q.new = new /\ ReqNames(q, tokens)
    BY <1>4, Rows DEF Begins, Issuing, ReqNames, Fresh
  <2>2. req' = [req EXCEPT ![r] = q] /\ Fresh(new) /\ Revokes
    BY <1>4 DEF Begins
  <2> HIDE DEF q
  <2> QED BY <2>1, <2>2, RequestNames
<1>5. ASSUME NEW r \in Req, NEW t \in Token, NEW new \in Token, Rotates(r, t, new)
      PROVE  Names
  <2> DEFINE q == [at |-> "issuing", user |-> tokens[t].user, tok |-> t, new |-> new,
                   chain |-> tokens[t].chain, cred |-> tokens[t].cred]
  <2>1. q \in ReqRow /\ q.new = new
    BY DEF TypeOK, ReqRow, TokenRow
  <2>2. /\ tokens[t].user \in User /\ tokens[t].chain \in Token
        /\ tokens[tokens[t].chain].state # "unused"
        /\ tokens[tokens[t].chain].user = tokens[t].user
    BY <1>5 DEF Rotates, Live, Ids, TokenNames
  <2>3. ReqNames(q, tokens)
    BY <1>5, <2>2 DEF Rotates, Fresh, ReqNames
  <2>4. req' = [req EXCEPT ![r] = q] /\ Fresh(new)
    BY <1>5 DEF Rotates
  <2>5. Revokes
    BY <1>5, RevokedRevokes DEF Rotates
  <2> HIDE DEF q
  <2> QED BY <2>1, <2>3, <2>4, <2>5, RequestNames
<1>6. Names
  BY <1>1, <1>2, <1>3, <1>4, <1>5, IssueNames, Kinds
<1>7. \A e \in Editor : edit'[e].at # "idle" => edit'[e].user \in User
  <2>1. CASE edit' = edit
    BY <2>1 DEF Ids
  <2>2. CASE EditStep
    BY <2>2 DEF EditStep, NoEdit, Ids, TypeOK
  <2> QED BY <2>1, <2>2, EditSteps
<1> QED BY <1>6, <1>7 DEF Ids

LEMMA InitNames == Init => TypeOK /\ Ids
<1> SUFFICES ASSUME Init PROVE TypeOK /\ Ids
  OBVIOUS
<1>1. users \in [User -> UserRow]
  BY Rows, StaffAssumption DEF Init, UserRow, Role, Hash
<1>2. TypeOK
  BY <1>1, Rows DEF Init, TypeOK
<1>3. Ids
  BY StaffAssumption DEF Init, Ids, TokenNames, ReqNames, NoToken, NoReq, NoEdit
<1> QED BY <1>2, <1>3

LEMMA TypesAlways == Spec => [](TypeOK /\ Ids)
<1>1. TypeOK /\ Ids /\ [Next]_vars => (TypeOK /\ Ids)'
  BY TypeStep, IdsStep
<1> QED BY <1>1, InitNames, PTL DEF Spec

(***************************************************************************)
(* Users, tokens and requests are always of their types.                   *)
(***************************************************************************)
THEOREM TypeCorrect == Spec => []TypeOK
  BY TypesAlways, PTL
-----------------------------------------------------------------------------
(* A chain is continued in one place: by its live token or by the request
   that is to issue the next one. *)
One ==
  /\ OneLivePerChain
  /\ \A r \in Req, t \in Token :
       req[r].at = "issuing" /\ Live(t) => tokens[t].chain # req[r].chain
  /\ \A r, s \in Req :
       req[r].at = "issuing" /\ req[s].at = "issuing" /\ req[r].chain = req[s].chain => r = s

LEMMA OneStep ==
  ASSUME TypeOK, Ids, One, [Next]_vars
  PROVE  One'
<1>0. ASSUME Revokes
      PROVE  \A t \in Token : /\ tokens'[t].chain = tokens[t].chain
                              /\ tokens'[t].state = "live" => Live(t)
  BY <1>0, Revoking DEF Live
<1>1. ASSUME Quiet PROVE One'
  BY <1>0, <1>1 DEF Quiet, One, OneLivePerChain, Live
<1>2. ASSUME NEW r \in Req, Finish(r) \/ \E t \in Token : LooksUp(r, t)
      PROVE  One'
  <2>1. Revokes /\ req'[r].at # "issuing" /\ \A s \in Req : s # r => req'[s] = req[s]
    BY <1>2, RevokedRevokes DEF Finish, LooksUp, NoReq, TypeOK
  <2> QED BY <1>0, <2>1 DEF One, OneLivePerChain, Live
<1>3. ASSUME NEW r \in Req, NEW u \in User, NEW new \in Token, NEW cred \in Hash,
             Begins(r, u, new, cred)
      PROVE  One'
  <2>1. /\ Revokes /\ req'[r].chain = new /\ tokens[new].state = "unused"
        /\ \A s \in Req : s # r => req'[s] = req[s] /\ req[s].new # new
    BY <1>3 DEF Begins, Issuing, Fresh, TypeOK
  <2>2. \A t \in Token : Live(t) => tokens[t].chain # new
    BY <2>1 DEF Live, Ids, TokenNames
  <2>3. \A s \in Req : s # r /\ req[s].at = "issuing" => req[s].chain # new
    BY <2>1 DEF Ids, ReqNames
  <2> QED BY <1>0, <2>1, <2>2, <2>3 DEF One, OneLivePerChain, Live
<1>4. ASSUME NEW r \in Req, NEW t \in Token, NEW new \in Token, Rotates(r, t, new)
      PROVE  One'
  <2>1. /\ Revokes /\ Live(t) /\ tokens'[t].state = "revoked"
        /\ req'[r].chain = tokens[t].chain
        /\ \A s \in Req : s # r => req'[s] = req[s]
    BY <1>4, RevokedRevokes DEF Rotates, Revoked, TypeOK, TokenRow
  <2>2. \A s \in Token : tokens'[s].state = "live" => tokens[s].chain # tokens[t].chain
    BY <1>0, <2>1 DEF One, OneLivePerChain, Live
  <2>3. \A s \in Req : req[s].at = "issuing" => req[s].chain # tokens[t].chain
    BY <2>1 DEF One
  <2> QED BY <1>0, <2>1, <2>2, <2>3 DEF One, OneLivePerChain, Live
<1>5. ASSUME NEW r \in Req, Issue(r) PROVE One'
  <2> DEFINE new == req[r].new
             c == req[r].chain
  <2>1. /\ tokens'[new].chain = c /\ new \in Token
        /\ \A t \in Token : t # new => tokens'[t] = tokens[t]
    BY <1>5 DEF Issue, TypeOK, Ids, ReqNames
  <2>2. req'[r].at # "issuing" /\ \A s \in Req : s # r => req'[s] = req[s]
    BY <1>5 DEF Issue, NoReq, TypeOK
  <2>3. \A t \in Token : Live(t) => tokens[t].chain # c
    BY <1>5 DEF Issue, One
  <2>4. \A s \in Req : s # r /\ req[s].at = "issuing" => req[s].chain # c
    BY <1>5 DEF Issue, One
  <2> HIDE DEF new, c
  <2> QED BY <2>1, <2>2, <2>3, <2>4 DEF One, OneLivePerChain, Live
<1> QED BY <1>1, <1>2, <1>3, <1>4, <1>5, Kinds

LEMMA OneAlways == Spec => []One
<1>1. Init => One
  BY DEF Init, One, OneLivePerChain, Live, NoToken, NoReq
<1>2. TypeOK /\ Ids /\ One /\ [Next]_vars => One'
  BY OneStep
<1> QED BY <1>1, <1>2, TypesAlways, PTL DEF Spec

(***************************************************************************)
(* Of the tokens rotated out of one sign-in at most one works, however     *)
(* many requests present the same one.                                     *)
(***************************************************************************)
THEOREM OneLiveAlways == Spec => []OneLivePerChain
<1>1. One => OneLivePerChain
  BY DEF One
<1> QED BY <1>1, OneAlways, PTL
-----------------------------------------------------------------------------
(* Whoever holds a session is entitled to it.  A session waiting to be issued
   is held to the same rule as a live one, since Issue tests nothing. *)
Right(u, cred) == users[u].status = "active" /\ users[u].hash = cred

Entitled ==
  /\ \A t \in Token : Live(t) =>
       Right(tokens[t].user, tokens[t].cred) \/ tokens[t].chain \in late
  /\ \A r \in Req : req[r].at = "issuing" =>
       Right(req[r].user, req[r].cred) \/ req[r].chain \in late

(* No session is opened but by right, and nobody loses a right. *)
LEMMA RightsStay ==
  ASSUME TypeOK, Ids, Entitled, Revokes, late' = late,
         \A v \in User : users[v].status = "active" =>
           users'[v].status = "active" /\ users'[v].hash = users[v].hash,
         \A s \in Req : req'[s].at = "issuing" =>
           /\ req'[s].user \in User
           /\ \/ users'[req'[s].user].status = "active"
                   /\ users'[req'[s].user].hash = req'[s].cred
              \/ Right(req'[s].user, req'[s].cred) \/ req'[s].chain \in late
  PROVE  Entitled'
<1>1. ASSUME NEW t \in Token, tokens'[t].state = "live"
      PROVE  Right(tokens[t].user, tokens[t].cred)' \/ tokens'[t].chain \in late'
  <2>1. Live(t) /\ tokens'[t].user = tokens[t].user /\ tokens'[t].cred = tokens[t].cred
        /\ tokens'[t].chain = tokens[t].chain
    BY <1>1, Revoking DEF Live
  <2>2. tokens[t].user \in User
    BY <2>1 DEF Live, Ids, TokenNames
  <2> QED BY <2>1, <2>2 DEF Entitled, Right
<1>2. ASSUME NEW s \in Req, req'[s].at = "issuing"
      PROVE  Right(req[s].user, req[s].cred)' \/ req'[s].chain \in late'
  BY <1>2 DEF Right
<1> QED BY <1>1, <1>2 DEF Entitled, Live

(* u is signed out everywhere, and may begin a session at the same time. *)
LEMMA SignOutHolds ==
  ASSUME TypeOK, Ids, Entitled, NEW u \in User,
         tokens' = RevokedAll(u), late' = LateAfter(u),
         \A v \in User : v # u => users'[v] = users[v],
         \A s \in Req : req'[s].at = "issuing" =>
           \/ req'[s] = req[s]
           \/ /\ req'[s].user = u /\ users'[u].status = "active"
              /\ users'[u].hash = req'[s].cred
  PROVE  Entitled'
<1>1. ASSUME NEW t \in Token, tokens'[t].state = "live"
      PROVE  Right(tokens[t].user, tokens[t].cred)' \/ tokens'[t].chain \in late'
  <2>1. tokens'[t] = tokens[t] /\ Live(t) /\ tokens[t].user # u
    BY <1>1 DEF RevokedAll, Live, TypeOK, TokenRow
  <2>2. /\ tokens[t].user \in User /\ tokens[t].chain \in Token
        /\ tokens[tokens[t].chain].user # u
    BY <2>1 DEF Live, Ids, TokenNames
  <2>3. tokens[t].chain \in late => tokens[t].chain \in late'
    BY <2>2 DEF LateAfter
  <2> QED BY <2>1, <2>2, <2>3 DEF Entitled, Right
<1>2. ASSUME NEW s \in Req, req'[s].at = "issuing"
      PROVE  Right(req[s].user, req[s].cred)' \/ req'[s].chain \in late'
  <2>1. CASE req'[s] = req[s] /\ req[s].user = u
    <3>1. req[s].chain \in BeingIssued(u)
      BY <1>2, <2>1 DEF BeingIssued
    <3> QED BY <2>1, <3>1 DEF LateAfter
  <2>2. CASE req'[s] = req[s] /\ req[s].user # u
    <3>1. req[s].user \in User /\ req[s].chain \in Token /\ tokens[req[s].chain].user # u
      BY <1>2, <2>2, StaffAssumption DEF Ids, ReqNames, TokenNames, NoToken
    <3>2. req[s].chain \in late => req[s].chain \in late'
      BY <3>1 DEF LateAfter
    <3> QED BY <1>2, <2>2, <3>1, <3>2 DEF Entitled, Right
  <2>3. CASE req'[s] # req[s]
    BY <1>2, <2>3 DEF Right
  <2> QED BY <2>1, <2>2, <2>3
<1> QED BY <1>1, <1>2 DEF Entitled, Live

LEMMA SignInHolds ==
  ASSUME TypeOK, Ids, Entitled, NEW r \in Req, NEW u \in User,
         Login(r, u) \/ AcceptInvite(r, u) \/ Google(r, u)
  PROVE  Entitled'
<1>1. PICK cred \in Hash, new \in Token : Fresh(new) /\ req' = [req EXCEPT ![r] = Issuing(u, new, cred)]
        /\ users'[u].status = "active" /\ users'[u].hash = cred
  <2>1. CASE Login(r, u)
    BY <2>1 DEF Login, Begin, TypeOK, UserRow
  <2>2. CASE AcceptInvite(r, u)
    <3>1. users'[u].status = "active" /\ users'[u].hash = 1 /\ 1 \in Hash
      BY <2>2, StaffAssumption DEF AcceptInvite, TypeOK, UserRow, Hash
    <3> QED BY <2>2, <3>1 DEF AcceptInvite, Begin
  <2>3. CASE Google(r, u)
    BY <2>3 DEF Google, Begin, TypeOK, UserRow
  <2> QED BY <2>1, <2>2, <2>3
<1>2. Revokes /\ late' = late
  BY RevokedRevokes DEF Login, AcceptInvite, Google
<1>3. \A v \in User : users[v].status = "active" =>
         users'[v].status = "active" /\ users'[v].hash = users[v].hash
  BY DEF Login, AcceptInvite, Google, TypeOK, UserRow
<1>4. \A s \in Req : req'[s].at = "issuing" =>
         req'[s] = req[s] \/ (req'[s].user = u /\ req'[s].cred = cred)
  BY <1>1 DEF Issuing, TypeOK
<1> QED BY <1>1, <1>2, <1>3, <1>4, RightsStay DEF Entitled, Ids, ReqNames

LEMMA ResetHolds ==
  ASSUME TypeOK, Ids, Entitled, NEW r \in Req, NEW u \in User, ResetPassword(r, u)
  PROVE  Entitled'
<1>1. PICK new \in Token : req' = [req EXCEPT ![r] = Issuing(u, new, users[u].hash + 1)]
  BY DEF ResetPassword, Begin
<1>2. \A s \in Req : req'[s].at = "issuing" =>
         req'[s] = req[s] \/ (req'[s].user = u /\ req'[s].cred = users[u].hash + 1)
  BY <1>1 DEF Issuing, TypeOK
<1>3. users'[u].status = "active" /\ users'[u].hash = users[u].hash + 1
  BY DEF ResetPassword, TypeOK, UserRow
<1>4. \A v \in User : v # u => users'[v] = users[v]
  BY DEF ResetPassword, TypeOK
<1> QED BY <1>2, <1>3, <1>4, SignOutHolds DEF ResetPassword

LEMMA RefreshHolds ==
  ASSUME TypeOK, Ids, Entitled, NEW r \in Req,
         (\E t \in Token : RefreshLookup(r, t)) \/ Rotate(r) \/ Reuse(r)
  PROVE  Entitled'
<1>1. ASSUME Revokes, UNCHANGED <<users, late>>,
             \A s \in Req : req'[s].at = "issuing" => req'[s] = req[s]
      PROVE  Entitled'
  BY <1>1, RightsStay DEF Entitled, Ids, ReqNames
<1>2. ASSUME NEW t \in Token, RefreshLookup(r, t) PROVE Entitled'
  <2>1. req'[r].at # "issuing" /\ \A s \in Req : s # r => req'[s] = req[s]
    BY <1>2 DEF RefreshLookup, NoReq, TypeOK
  <2> QED BY <1>1, <1>2, <2>1, RevokedRevokes DEF RefreshLookup
<1>3. CASE Rotate(r)
  <2>1. req[r].tok \in Token
    BY <1>3 DEF Rotate, Ids, ReqNames
  <2>2. CASE ~Live(req[r].tok)
    <3>1. req'[r].at # "issuing" /\ \A s \in Req : s # r => req'[s] = req[s]
      BY <1>3, <2>2 DEF Rotate, NoReq, TypeOK
    <3> QED BY <1>1, <1>3, <2>2, <3>1, RevokedRevokes DEF Rotate
  <2>3. CASE Live(req[r].tok)
    <3> DEFINE t == req[r].tok
    <3>1. /\ req'[r].user = tokens[t].user /\ req'[r].cred = tokens[t].cred
          /\ req'[r].chain = tokens[t].chain
          /\ \A s \in Req : s # r => req'[s] = req[s]
      BY <1>3, <2>3 DEF Rotate, TypeOK
    <3>2. tokens[t].user \in User
      BY <2>1, <2>3 DEF Live, Ids, TokenNames
    <3>3. Right(tokens[t].user, tokens[t].cred) \/ tokens[t].chain \in late
      BY <2>1, <2>3 DEF Entitled
    <3>4. Revokes /\ UNCHANGED <<users, late>>
      BY <1>3, <2>1, <2>3, RevokedRevokes DEF Rotate
    <3> HIDE DEF t
    <3> QED BY <3>1, <3>2, <3>3, <3>4, RightsStay DEF Entitled, Ids, ReqNames
  <2> QED BY <2>2, <2>3
<1>4. CASE Reuse(r)
  <2>1. req'[r].at # "issuing" /\ \A s \in Req : s # r => req'[s] = req[s]
    BY <1>4 DEF Reuse, NoReq, TypeOK
  <2>2. req[r].user \in User
    BY <1>4 DEF Reuse, Ids, ReqNames, TokenNames
  <2>3. CASE Superseded(req[r].tok)
    BY <1>4, <2>1, <2>2, <2>3, SignOutHolds DEF Reuse
  <2>4. CASE ~Superseded(req[r].tok)
    BY <1>1, <1>4, <2>1, <2>4, RevokedRevokes DEF Reuse
  <2> QED BY <2>3, <2>4
<1> QED BY <1>2, <1>3, <1>4

LEMMA IssueHolds ==
  ASSUME TypeOK, Ids, Entitled, NEW r \in Req, Issue(r)
  PROVE  Entitled'
<1> DEFINE new == req[r].new
<1>1. /\ tokens'[new].user = req[r].user /\ tokens'[new].cred = req[r].cred
      /\ tokens'[new].chain = req[r].chain /\ req[r].at = "issuing"
      /\ \A t \in Token : t # new => tokens'[t] = tokens[t]
  BY DEF Issue, TypeOK, Ids, ReqNames
<1>2. req'[r].at # "issuing" /\ \A s \in Req : s # r => req'[s] = req[s]
  BY DEF Issue, NoReq, TypeOK
<1>3. UNCHANGED <<users, late>>
  BY DEF Issue
<1> HIDE DEF new
<1> QED BY <1>1, <1>2, <1>3 DEF Entitled, Live, Right

(* The first token of a session that was to begin is nobody's chain. *)
LEMMA AbandonHolds ==
  ASSUME TypeOK, Ids, Entitled, NEW r \in Req, Abandon(r)
  PROVE  Entitled'
<1> DEFINE new == req[r].new
<1>1. UNCHANGED <<users, tokens>> /\ late' = late \ {new}
  BY DEF Abandon
<1>2. req'[r].at # "issuing" /\ \A s \in Req : s # r => req'[s] = req[s]
  BY DEF Abandon, NoReq, TypeOK
<1>3. new = None \/ (new \in Token /\ tokens[new].state = "unused")
  BY DEF Ids, ReqNames, NoReq, Abandon, TypeOK, ReqRow
<1>4. \A t \in Token : Live(t) => tokens[t].chain # new
  BY <1>3, StaffAssumption DEF Live, Ids, TokenNames
<1>5. \A s \in Req : s # r /\ req[s].at = "issuing" => req[s].chain # new
  BY <1>3, StaffAssumption DEF Ids, ReqNames
<1> HIDE DEF new
<1> QED BY <1>1, <1>2, <1>4, <1>5 DEF Entitled, Live, Right

LEMMA UpdateHolds ==
  ASSUME TypeOK, Ids, Entitled, NEW e \in Editor, UpdateWrite(e)
  PROVE  Entitled'
<1> DEFINE u == edit[e].user
<1>1. u \in User
  BY DEF UpdateWrite, Ids
<1>2. \A v \in User : v # u => users'[v] = users[v]
  BY DEF UpdateWrite, TypeOK
<1>3. CASE edit[e].status = "disabled"
  BY <1>1, <1>2, <1>3, SignOutHolds DEF UpdateWrite
<1>4. CASE edit[e].status # "disabled"
  <2>1. users[u].status = "active" =>
          users'[u].status = "active" /\ users'[u].hash = users[u].hash
    BY <1>1, <1>4 DEF UpdateWrite, TypeOK, EditRow
  <2>2. Revokes /\ UNCHANGED <<late, req>>
    BY <1>4, RevokedRevokes DEF UpdateWrite
  <2> HIDE DEF u
  <2> QED BY <1>1, <1>2, <2>1, <2>2, RightsStay DEF Entitled, Ids, ReqNames
<1> QED BY <1>3, <1>4

LEMMA EntitledStep ==
  ASSUME TypeOK, Ids, Entitled, [Next]_vars
  PROVE  Entitled'
<1>1. ASSUME Revokes, UNCHANGED <<req, late>>,
             \A v \in User : users[v].status = "active" => users'[v] = users[v]
      PROVE  Entitled'
  BY <1>1, RightsStay DEF Entitled, Ids, ReqNames
<1>2. ASSUME NEW u \in User, NEW role \in Role, NEW caller \in Role, Invite(u, role, caller)
      PROVE  Entitled'
  BY <1>1, <1>2, RevokedRevokes DEF Invite, TypeOK
<1>3. ASSUME NEW t \in Token, Logout(t) PROVE Entitled'
  BY <1>1, <1>3, RevokedRevokes DEF Logout
<1>4. CASE UNCHANGED <<users, tokens, req, late>>
  BY <1>1, <1>4, RevokedRevokes
<1> QED BY <1>2, <1>3, <1>4, SignInHolds, ResetHolds, RefreshHolds, IssueHolds, AbandonHolds,
        UpdateHolds
    DEF Next, SignInNext, TeamNext, UpdateRead, UpdateCount, UpdateAbandon, vars

(***************************************************************************)
(* Disabling a user or resetting a password signs them out everywhere, of  *)
(* everything but the sessions that were being issued at that moment.      *)
(***************************************************************************)
THEOREM SignedOutAlways == Spec => []SignedOutStays
<1>1. Init => Entitled
  BY DEF Init, Entitled, Live, NoToken, NoReq
<1>2. TypeOK /\ Ids /\ Entitled /\ [Next]_vars => Entitled'
  BY EntitledStep
<1>3. Entitled => SignedOutStays
  BY DEF Entitled, Right, SignedOutStays
<1> QED BY <1>1, <1>2, <1>3, TypesAlways, PTL DEF Spec
-----------------------------------------------------------------------------
(* An Update about to write that would take an owner away knows of another
   one, unless it was overtaken. *)
Spares(e) == LosesOwner(users[edit[e].user], edit[e].role, edit[e].status) =>
               OtherActiveOwner(edit[e].user)

Counted == \A e \in Editor : edit[e].at = "writing" /\ e \notin raced => Spares(e)

(* Whoever is an owner remains one but for an Update's write. *)
LEMMA OwnersStay ==
  ASSUME TypeOK, Ids, [Next]_vars, ~ \E e \in Editor : UpdateWrite(e)
  PROVE  Owners \subseteq Owners'
<1>1. CASE users' = users
  BY <1>1 DEF Owners
<1>2. CASE UserStep
  <2> PICK u \in User, row \in UserRow :
        users' = [users EXCEPT ![u] = row] /\ (Invites(u, row) \/ Activates(u, row))
    BY <1>2 DEF UserStep, WritesUser
  <2>1. users'[u] = row /\ \A v \in User : v # u => users'[v] = users[v]
    BY DEF TypeOK
  <2> QED BY <2>1 DEF Invites, Activates, Owners
<1> QED BY <1>1, <1>2, UserSteps

(* What an Update that a step leaves about to write, and does not overtake,
   sees of the owners. *)
LEMMA NotOvertaken ==
  ASSUME TypeOK, Ids, [Next]_vars, NEW e \in Editor,
         edit'[e] = edit[e], edit[e].at = "writing", e \notin raced'
  PROVE  /\ e \notin raced
         /\ Owners' = Owners \/ (Owners # {} /\ Owners \subseteq Owners')
<1> DEFINE Goal == /\ e \notin raced
                   /\ Owners' = Owners \/ (Owners # {} /\ Owners \subseteq Owners')
<1>1. ASSUME raced' = raced \cup Overtakes PROVE Goal
  BY <1>1 DEF Overtakes
<1>2. ASSUME NEW f \in Editor, UpdateWrite(f) PROVE Goal
  <2>1. f # e
    BY <1>2 DEF UpdateWrite, NoEdit, TypeOK
  <2> QED BY <1>2, <2>1 DEF UpdateWrite, Overtakes
<1>3. ASSUME NEW f \in Editor, UpdateAbandon(f) PROVE Goal
  <2>1. f # e
    BY <1>3 DEF UpdateAbandon, NoEdit, TypeOK
  <2> QED BY <1>3, <2>1 DEF UpdateAbandon, Owners
<1>4. ASSUME NEW r \in Req, NEW u \in User, ResetPassword(r, u) PROVE Goal
  <2>1. \A v \in User : users'[v].role = users[v].role /\ users'[v].status = users[v].status
    BY <1>4 DEF ResetPassword, TypeOK, UserRow
  <2> QED BY <1>4, <2>1 DEF ResetPassword, Owners
<1>5. ASSUME NEW u \in User, NEW role \in Role, NEW caller \in Role, Invite(u, role, caller)
      PROVE  Goal
  <2>1. users'[u].status = "invited" /\ \A v \in User : v # u => users'[v] = users[v]
    BY <1>5 DEF Invite, TypeOK
  <2> QED BY <1>5, <2>1 DEF Invite, Owners
<1>6. ASSUME users' = users, raced' = raced PROVE Goal
  BY <1>6 DEF Owners
<1> QED BY <1>1, <1>2, <1>3, <1>4, <1>5, <1>6 DEF Next, SignInNext, TeamNext, Login,
        AcceptInvite, Google, RefreshLookup, Rotate, Reuse, Issue, Abandon, Logout,
        UpdateRead, UpdateCount, vars

(* What an Update writes is counted when it is decided. *)
LEMMA DecidedCounted ==
  ASSUME TypeOK, Ids, [Next]_vars, NEW e \in Editor,
         edit'[e] # edit[e], edit'[e].at = "writing"
  PROVE  Spares(e)'
<1>1. ASSUME NEW u \in User, NEW role \in Role \cup {None},
             NEW status \in {"active", "disabled", None}, NEW caller \in Role,
             UpdateRead(e, u, role, status, caller)
      PROVE  Spares(e)'
  <2>1. edit'[e] = [at |-> IF LosesOwner(users[u], role, status) THEN "counting" ELSE "writing",
                    user |-> u, role |-> Change(role, users[u].role),
                    status |-> Change(status, users[u].status)]
    BY <1>1 DEF UpdateRead, TypeOK
  <2>2. ~LosesOwner(users[u], role, status)
    BY <2>1
  <2>3. users' = users
    BY <1>1 DEF UpdateRead
  <2>4. ~LosesOwner(users[u], Change(role, users[u].role), Change(status, users[u].status))
    BY <2>2, StaffAssumption DEF LosesOwner, Change
  <2> QED BY <2>1, <2>3, <2>4 DEF Spares
<1>2. ASSUME UpdateCount(e) PROVE Spares(e)'
  <2>1. OtherActiveOwner(edit[e].user) /\ users' = users
    BY <1>2 DEF UpdateCount, NoEdit, TypeOK
  <2>2. edit'[e].user = edit[e].user
    BY <1>2, <2>1 DEF UpdateCount, TypeOK, EditRow
  <2> QED BY <2>1, <2>2 DEF Spares, OtherActiveOwner, Owners
<1>3. ASSUME UpdateWrite(e) \/ UpdateAbandon(e) PROVE FALSE
  BY <1>3 DEF UpdateWrite, UpdateAbandon, NoEdit, TypeOK
<1>4. ASSUME NEW f \in Editor, f # e,
             \/ UpdateCount(f) \/ UpdateWrite(f) \/ UpdateAbandon(f)
             \/ \E u \in User, role \in Role \cup {None},
                   status \in {"active", "disabled", None}, caller \in Role :
                  UpdateRead(f, u, role, status, caller)
      PROVE  FALSE
  BY <1>4 DEF UpdateRead, UpdateCount, UpdateWrite, UpdateAbandon, TypeOK
<1> QED BY <1>1, <1>2, <1>3, <1>4 DEF Next, SignInNext, TeamNext, Login,
        AcceptInvite, Google, ResetPassword, RefreshLookup, Rotate, Reuse, Issue, Abandon,
        Invite, Logout, vars

LEMMA CountedStep ==
  ASSUME TypeOK, Ids, Counted, [Next]_vars
  PROVE  Counted'
<1> SUFFICES ASSUME NEW e \in Editor, edit'[e].at = "writing", e \notin raced'
             PROVE  Spares(e)'
  BY DEF Counted
<1>1. CASE edit'[e] # edit[e]
  BY <1>1, DecidedCounted
<1>2. CASE edit'[e] = edit[e]
  <2> DEFINE u == edit[e].user
  <2>1. /\ e \notin raced /\ u \in User
        /\ Owners' = Owners \/ (Owners # {} /\ Owners \subseteq Owners')
    BY <1>2, NotOvertaken DEF Ids
  <2>2. Spares(e)
    BY <1>2, <2>1 DEF Counted
  <2>3. LosesOwner(users[u], edit[e].role, edit[e].status)
           <=> u \in Owners /\ (edit[e].role = "admin" \/ edit[e].status = "disabled")
    BY <2>1 DEF LosesOwner, Owners
  <2>4. LosesOwner(users[u], edit[e].role, edit[e].status)'
           <=> u \in Owners' /\ (edit[e].role = "admin" \/ edit[e].status = "disabled")
    BY <1>2, <2>1 DEF LosesOwner, Owners
  <2>5. Owners' = Owners => Spares(e)'
    BY <1>2, <2>2, <2>3, <2>4 DEF Spares, OtherActiveOwner
  <2>6. ASSUME Owners # {}, Owners \subseteq Owners', u \notin Owners PROVE Spares(e)'
    BY <1>2, <2>6 DEF Spares, OtherActiveOwner
  <2>7. ASSUME Owners \subseteq Owners', u \in Owners PROVE Spares(e)'
    BY <1>2, <2>2, <2>3, <2>4, <2>7 DEF Spares, OtherActiveOwner
  <2> QED BY <2>1, <2>5, <2>6, <2>7
<1> QED BY <1>1, <1>2

(* A write that was not overtaken leaves an owner. *)
LEMMA LastOwnerStep ==
  ASSUME TypeOK, Ids, Counted, [Next]_vars, HasOwner
  PROVE  HasOwner' \/ \E e \in raced : UpdateWrite(e)
<1>1. ASSUME NEW e \in Editor, UpdateWrite(e), e \notin raced PROVE HasOwner'
  <2> DEFINE u == edit[e].user
  <2>1. u \in User /\ Spares(e)
    BY <1>1 DEF UpdateWrite, Ids, Counted
  <2>2. \A v \in User : v # u => users'[v] = users[v]
    BY <1>1 DEF UpdateWrite, TypeOK
  <2>3. CASE OtherActiveOwner(u)
    BY <2>2, <2>3 DEF OtherActiveOwner, Owners, HasOwner
  <2>4. CASE ~OtherActiveOwner(u)
    <3>1. u \in Owners
      BY <2>4 DEF OtherActiveOwner, HasOwner
    <3>2. edit[e].role # "admin" /\ edit[e].status # "disabled"
      BY <2>1, <2>4, <3>1 DEF Spares, LosesOwner, Owners
    <3>3. /\ edit[e].role \in {"owner", "admin", None}
          /\ edit[e].status \in {"active", "disabled", None}
      BY DEF TypeOK, EditRow, Role
    <3>4. users'[u].role = "owner" /\ users'[u].status = "active"
      BY <1>1, <2>1, <3>1, <3>2, <3>3 DEF UpdateWrite, Owners, TypeOK
    <3> QED BY <2>1, <3>4 DEF HasOwner, Owners
  <2> QED BY <2>3, <2>4
<1>2. CASE ~ \E e \in Editor : UpdateWrite(e)
  BY <1>2, OwnersStay DEF HasOwner
<1> QED BY <1>1, <1>2

(***************************************************************************)
(* However many Updates run, a shop with an active owner loses the last    *)
(* one only to an Update that was about to write while an owner it had     *)
(* counted on was taken away.                                              *)
(***************************************************************************)
THEOREM LastOwnerAlwaysStays == Spec => LastOwnerStays
<1>1. Init => Counted
  BY DEF Init, Counted, NoEdit
<1>2. TypeOK /\ Ids /\ Counted /\ [Next]_vars => Counted'
  BY CountedStep
<1>3. TypeOK /\ Ids /\ Counted /\ [Next]_vars
        => [HasOwner => HasOwner' \/ \E e \in raced : UpdateWrite(e)]_vars
  BY LastOwnerStep
<1> QED BY <1>1, <1>2, <1>3, TypesAlways, PTL DEF Spec, LastOwnerStays
-----------------------------------------------------------------------------
(* The sessions of which a token is there, and those that are alive. *)
Begun(c) == \E t \in Token : tokens[t].chain = c
Open(c) == \/ \E t \in Token : Live(t) /\ tokens[t].chain = c
           \/ \E r \in Req : req[r].at = "issuing" /\ req[r].chain = c

LEMMA StateOf ==
  ASSUME NEW c \in Token
  PROVE  /\ ChainState(c) = IF ~Begun(c) THEN "none" ELSE IF Open(c) THEN "open" ELSE "ended"
         /\ ChainState(c)' = IF ~Begun(c)' THEN "none" ELSE IF Open(c)' THEN "open" ELSE "ended"
  BY DEF ChainState, Begun, Open

(* Nothing but issue begins or prolongs a session. *)
LEMMA SessionsEnd ==
  ASSUME \A c \in Token : (Begun(c)' <=> Begun(c)),
         \A c \in Token : Begun(c) /\ Open(c)' => Open(c)
  PROVE  Sess!Next
<1> DEFINE C == {c \in Token : ChainState(c) = "open" /\ ChainState(c)' = "ended"}
           was == [c \in Token |-> ChainState(c)]
           is == [c \in Token |-> ChainState(c)']
<1>1. C \in SUBSET Token /\ \A c \in C : was[c] = "open"
  OBVIOUS
<1>2. ASSUME NEW c \in Token
      PROVE  is[c] = IF c \in C THEN "ended" ELSE was[c]
  <2>1. c \notin C => ChainState(c)' = ChainState(c)
    BY StateOf
  <2> QED BY <2>1
<1>3. is = [c \in Token |-> IF c \in C THEN "ended" ELSE was[c]]
  BY <1>2
<1>4. Sess!End(C)
  BY <1>1, <1>3 DEF Sess!End
<1> QED BY <1>1, <1>4 DEF Sess!Next

LEMMA BegunStays ==
  ASSUME TypeOK, Revokes
  PROVE  /\ \A c \in Token : (Begun(c)' <=> Begun(c))
         /\ \A t \in Token : tokens'[t].chain = tokens[t].chain /\ (Live(t)' => Live(t))
  BY Revoking DEF Begun, Live

LEMMA IssueIsSession ==
  ASSUME TypeOK, Ids, NEW r \in Req, Issue(r)
  PROVE  Sess!Next
<1> PICK n \in Token, k \in Token : n = req[r].new /\ k = req[r].chain
  BY DEF Issue, Ids, ReqNames
<1>1. /\ tokens[n] = NoToken /\ req[r].at = "issuing"
      /\ tokens'[n].state = "live" /\ tokens'[n].chain = k
      /\ \A t \in Token : t # n => tokens'[t] = tokens[t]
  BY DEF Issue, TypeOK, Ids, ReqNames, TokenNames
<1>2. req'[r].at = "idle" /\ \A s \in Req : s # r => req'[s] = req[s]
  BY DEF Issue, NoReq, TypeOK
<1>3. ASSUME NEW c \in Token, c # k
      PROVE  (Begun(c)' <=> Begun(c)) /\ (Open(c)' => Open(c)) /\ (Open(c) => Open(c)')
  <2>1. tokens[n].chain # c /\ tokens'[n].chain # c
    BY <1>1, <1>3, StaffAssumption DEF NoToken
  <2>2. (Begun(c)' <=> Begun(c))
    BY <1>1, <2>1 DEF Begun
  <2>3. Open(c)' => Open(c)
    BY <1>1, <1>2, <2>1 DEF Open, Live
  <2>4. Open(c) => Open(c)'
    BY <1>1, <1>2, <1>3, <2>1 DEF Open, Live
  <2> QED BY <2>2, <2>3, <2>4
<1>4. Begun(k)' /\ Open(k)' /\ Open(k)
  BY <1>1 DEF Begun, Open, Live
<1>5. CASE Begun(k)
  <2>1. \A c \in Token : (Begun(c)' <=> Begun(c))
    BY <1>3, <1>4, <1>5
  <2>2. \A c \in Token : Begun(c) /\ Open(c)' => Open(c)
    BY <1>3, <1>4
  <2> QED BY <2>1, <2>2, SessionsEnd
<1>6. CASE ~Begun(k)
  <2>1. \A c \in Token : c # k => ChainState(c)' = ChainState(c)
    BY <1>3, StateOf
  <2>2. ChainState(k) = "none" /\ ChainState(k)' = "open"
    BY <1>4, <1>6, StateOf
  <2>3. Sess!Begin(k)
    BY <2>1, <2>2 DEF Sess!Begin
  <2> QED BY <2>3 DEF Sess!Next
<1> QED BY <1>5, <1>6

LEMMA SessionStep ==
  ASSUME TypeOK, Ids, [Next]_vars
  PROVE  Sess!Next
<1>1. ASSUME Quiet PROVE Sess!Next
  <2>1. \A c \in Token : Open(c)' => Open(c)
    BY <1>1, BegunStays DEF Quiet, Open
  <2> QED BY <1>1, <2>1, BegunStays, SessionsEnd DEF Quiet
<1>2. ASSUME NEW r \in Req, Finish(r) \/ \E t \in Token : LooksUp(r, t)
      PROVE  Sess!Next
  <2>1. Revokes /\ req'[r].at # "issuing" /\ \A s \in Req : s # r => req'[s] = req[s]
    BY <1>2, RevokedRevokes DEF Finish, LooksUp, NoReq, TypeOK
  <2>2. \A c \in Token : Open(c)' => Open(c)
    BY <2>1, BegunStays DEF Open
  <2> QED BY <2>1, <2>2, BegunStays, SessionsEnd
<1>3. ASSUME NEW r \in Req, NEW u \in User, NEW new \in Token, NEW cred \in Hash,
             Begins(r, u, new, cred)
      PROVE  Sess!Next
  <2>1. /\ Revokes /\ req'[r].chain = new /\ tokens[new].state = "unused"
        /\ \A s \in Req : s # r => req'[s] = req[s]
    BY <1>3 DEF Begins, Issuing, Fresh, TypeOK
  <2>2. ~Begun(new)
    BY <2>1, StaffAssumption DEF Begun, Ids, TokenNames, NoToken
  <2>3. \A c \in Token : Begun(c) /\ Open(c)' => Open(c)
    BY <2>1, <2>2, BegunStays DEF Open
  <2> QED BY <2>1, <2>3, BegunStays, SessionsEnd
<1>4. ASSUME NEW r \in Req, NEW t \in Token, NEW new \in Token, Rotates(r, t, new)
      PROVE  Sess!Next
  <2>1. /\ Revokes /\ Live(t) /\ req'[r].chain = tokens[t].chain
        /\ \A s \in Req : s # r => req'[s] = req[s]
    BY <1>4, RevokedRevokes DEF Rotates, TypeOK
  <2>2. \A c \in Token : Open(c)' => Open(c)
    BY <2>1, BegunStays DEF Open
  <2> QED BY <2>1, <2>2, BegunStays, SessionsEnd
<1> QED BY <1>1, <1>2, <1>3, <1>4, IssueIsSession, Kinds

(***************************************************************************)
(* A session that has ended never comes back: whatever the requests of its *)
(* user race for, the tokens implement Sessions.                           *)
(***************************************************************************)
THEOREM SessionsNeverRevive == Spec => ImplementsSessions
<1>1. Init => Sess!Init
  BY StaffAssumption DEF Init, Sess!Init, ChainState, NoToken
<1>2. TypeOK /\ Ids /\ [Next]_vars => [Sess!Next]_[c \in Token |-> ChainState(c)]
  BY SessionStep
<1> QED BY <1>1, <1>2, TypesAlways, PTL DEF Spec, ImplementsSessions, Sess!Spec
=============================================================================
