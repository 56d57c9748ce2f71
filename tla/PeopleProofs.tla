---------------------------- MODULE PeopleProofs ----------------------------
(***************************************************************************)
(* Theorems about the parts of People, for any people, requests, tasks,    *)
(* keys and bounds: accounts, applications, grading anchors, the           *)
(* passport's narrative and the staged chats.  The scores and the          *)
(* passport's numbers are in ScoringProofs.                                *)
(***************************************************************************)
EXTENDS ScoringProofs

-----------------------------------------------------------------------------
(* Accounts: an emailed admin code opens one session at most, and a reset  *)
(* link that was answered stays dead.                                      *)

(* Types.  Every id, token and code was minted.                            *)

UserRows(n) ==
  {u \in [id : 1..n, role : Auth!Roles, password : Keys, active : BOOLEAN, google : BOOLEAN, verified : BOOLEAN,
           profile : BOOLEAN, vToken : 0..n, vAge : Auth!Ages, rToken : 0..n, rAge : Auth!Ages] :
     u.role = "ADMIN" \/ u.profile = TRUE}

SignInType(n) ==
  [pc : {"idle"}]
    \cup [pc : {"register"}, email : Emails, role : Auth!Roles, password : Keys]
    \cup [pc : {"create-admin"}, email : Emails, password : Keys]
    \cup [pc : {"welcome", "admin-profile"}, email : Emails, id : 1..n, token : 1..n]
    \cup [pc : {"verify", "issue", "link"}, email : Emails, id : 1..n]
    \cup [pc : {"resend"}, email : Emails, id : 1..n, token : 0..n]
    \cup [pc : {"resend-mail"}, email : Emails, id : 1..n, token : 1..n]
    \cup [pc : {"reset-mail", "code-mail"}, email : Emails, token : 1..n]
    \cup [pc : {"set-password"}, email : Emails, id : 1..n, password : Keys, by : {"reset"}, token : 1..n]
    \cup [pc : {"set-password"}, email : Emails, id : 1..n, password : Keys, by : {"change", "initial"}, token : {0}]
    \cup [pc : {"admit"}, email : Emails, id : 1..n, challenge : 1..n]

Challenges(k, n) == [email : Emails, id : 1..n, code : k..n, age : Auth!Ages, resends : 0..MaxResends]

AuthTyped ==
  /\ minted \in Nat /\ minted <= MaxMinted
  /\ users \in [Emails -> {Auth!NoUser} \cup UserRows(minted)]
  /\ signIn \in [Handlers -> SignInType(minted)]
  /\ DOMAIN challenges \subseteq 1..minted
  /\ \A n \in DOMAIN challenges : challenges[n] \in Challenges(n, minted)
  /\ spent \subseteq 1..minted

LEMMA TypesGrow ==
  ASSUME NEW m \in Nat, NEW n \in Nat, m <= n
  PROVE  /\ UserRows(m) \subseteq UserRows(n) /\ SignInType(m) \subseteq SignInType(n)
         /\ \A k \in Nat : Challenges(k, m) \subseteq Challenges(k, n)
BY DEF UserRows, SignInType, Challenges

LEMMA MintedGrows ==
  ASSUME AuthTyped, [Auth!Next]_authVars
  PROVE  minted' \in Nat /\ minted' <= MaxMinted /\ (minted' = minted \/ minted' = minted + 1)
<1>1. ASSUME NEW c \in Handlers, NEW e \in Emails, Auth!Request(c, e)
      PROVE  minted' = minted \/ Auth!Mint
  <2>1. Auth!PasswordRequest(c, e) => minted' = minted \/ Auth!Mint
    BY DEF Auth!PasswordRequest, Auth!Register, Auth!ResetPassword, Auth!ChangePassword,
       Auth!SetAdminInitialPassword, Auth!Login, Auth!InitiateAdminLogin, Auth!CreateAdmin
  <2>. QED
    BY <1>1, <2>1 DEF Auth!Request, Auth!VerifyEmail, Auth!ResendVerification, Auth!RequestReset,
       Auth!SignInWithGoogle, Auth!DeleteAdmin, Auth!SetUserActiveStatus
<1>2. ASSUME NEW c \in Handlers, Auth!Continue(c) \/ Auth!RequestFails(c)
      PROVE  minted' = minted \/ Auth!Mint
  BY <1>2 DEF Auth!Continue, Auth!RegisterCommit, Auth!RegisterFinish, Auth!VerifyWrite, Auth!ResendWrite,
     Auth!ResendMail, Auth!IssueReset, Auth!ResetMail, Auth!UpdatePassword, Auth!LinkGoogleAccount, Auth!CodeMail,
     Auth!AdmitAdmin, Auth!CreateAdminUser, Auth!CreateAdminProfile, Auth!RequestFails
<1>3. ASSUME NEW c \in Handlers, NEW n, Auth!VerifyAdmin2fa(c, n) \/ Auth!ResendAdmin2fa(c, n)
      PROVE  minted' = minted \/ Auth!Mint
  BY <1>3 DEF Auth!VerifyAdmin2fa, Auth!ResendAdmin2fa
<1>4. \/ Auth!Restart \/ (\E e \in Emails : Auth!TokenAges(e)) \/ (\E n \in DOMAIN challenges : Auth!ChallengeAges(n))
      \/ UNCHANGED authVars
      => minted' = minted
  BY DEF Auth!Restart, Auth!TokenAges, Auth!ChallengeAges, authVars
<1>5. minted' = minted \/ Auth!Mint
  BY <1>1, <1>2, <1>3, <1>4 DEF Auth!Next
<1>. QED
  BY <1>5, BoundsAssumption DEF AuthTyped, Auth!Mint

(* The fields of a call.                                                   *)
LEMMA CallFields ==
  ASSUME AuthTyped, NEW c \in Handlers
  PROVE  /\ signIn[c].pc # "idle" => signIn[c].email \in Emails
         /\ signIn[c].pc \in {"welcome", "admin-profile", "verify", "issue", "link", "resend", "resend-mail",
                             "set-password", "admit"} => signIn[c].id \in 1..minted
         /\ signIn[c].pc \in {"welcome", "admin-profile", "resend-mail", "reset-mail", "code-mail"} =>
              signIn[c].token \in 1..minted
         /\ signIn[c].pc \in {"resend", "set-password"} => signIn[c].token \in 0..minted
         /\ signIn[c].pc = "set-password" /\ signIn[c].by = "reset" => signIn[c].token \in 1..minted
         /\ signIn[c].pc \in {"register", "create-admin", "set-password"} => signIn[c].password \in Keys
         /\ signIn[c].pc = "register" => signIn[c].role \in Auth!Roles
         /\ signIn[c].pc = "admit" => signIn[c].challenge \in 1..minted
BY DEF AuthTyped, SignInType

-----------------------------------------------------------------------------
(* How the users are written.                                              *)

(* The edits of a row: all but two keep the reset token it has.            *)
LEMMA UserEdits ==
  ASSUME NEW n \in Nat, NEW u \in UserRows(n)
  PROVE  /\ \A b \in BOOLEAN :
              /\ [u EXCEPT !.active = b] \in UserRows(n)
              /\ [u EXCEPT !.active = b].id = u.id /\ [u EXCEPT !.active = b].rToken = u.rToken
         /\ /\ [u EXCEPT !.profile = TRUE] \in UserRows(n)
            /\ [u EXCEPT !.profile = TRUE].id = u.id /\ [u EXCEPT !.profile = TRUE].rToken = u.rToken
         /\ \A b \in BOOLEAN :
              /\ [u EXCEPT !.google = b, !.verified = b] \in UserRows(n)
              /\ [u EXCEPT !.google = b, !.verified = b].id = u.id
              /\ [u EXCEPT !.google = b, !.verified = b].rToken = u.rToken
         /\ \A b \in BOOLEAN, t \in 0..n :
              /\ [u EXCEPT !.verified = b, !.vToken = t] \in UserRows(n)
              /\ [u EXCEPT !.verified = b, !.vToken = t].id = u.id
              /\ [u EXCEPT !.verified = b, !.vToken = t].rToken = u.rToken
         /\ \A a \in Auth!Ages, t \in 0..n :
              /\ [u EXCEPT !.vToken = t, !.vAge = a] \in UserRows(n)
              /\ [u EXCEPT !.vToken = t, !.vAge = a].id = u.id
              /\ [u EXCEPT !.vToken = t, !.vAge = a].rToken = u.rToken
         /\ \A a \in Auth!Ages, t \in 0..n :
              /\ [u EXCEPT !.rToken = t, !.rAge = a] \in UserRows(n)
              /\ [u EXCEPT !.rToken = t, !.rAge = a].id = u.id
              /\ [u EXCEPT !.rToken = t, !.rAge = a].rToken = t
         /\ \A p \in Keys, t \in 0..n :
              /\ [u EXCEPT !.password = p, !.rToken = t] \in UserRows(n)
              /\ [u EXCEPT !.password = p, !.rToken = t].id = u.id
              /\ [u EXCEPT !.password = p, !.rToken = t].rToken = t
         /\ \A a \in Auth!Ages :
              /\ [u EXCEPT !.vAge = a] \in UserRows(n)
              /\ [u EXCEPT !.vAge = a].id = u.id /\ [u EXCEPT !.vAge = a].rToken = u.rToken
              /\ [u EXCEPT !.rAge = a] \in UserRows(n)
              /\ [u EXCEPT !.rAge = a].id = u.id /\ [u EXCEPT !.rAge = a].rToken = u.rToken
BY DEF UserRows

(* A row that is written keeps its reset token, has none, or gets one      *)
(* never given out before.                                                 *)
Writes(e, u) ==
  \/ u = Auth!NoUser
  \/ /\ u \in UserRows(minted')
     /\ \/ u.rToken = 0
        \/ users[e] # Auth!NoUser /\ u.id = users[e].id /\ u.rToken = users[e].rToken
        \/ u.rToken = minted' /\ minted' = minted + 1

LEMMA NewUserFacts ==
  ASSUME NEW n \in Nat, NEW id \in 1..n, NEW role \in Auth!Roles, NEW p \in Keys, NEW token \in 0..n
  PROVE  Auth!NewUser(id, role, p, token) \in UserRows(n) /\ Auth!NewUser(id, role, p, token).rToken = 0
<1>1. TRUE \in BOOLEAN /\ FALSE \in BOOLEAN /\ (role = "ADMIN") \in BOOLEAN /\ (role # "ADMIN") \in BOOLEAN
  BY Zenon
<1>2. "fresh" \in Auth!Ages /\ 0 \in 0..n
  BY DEF Auth!Ages
<1>. QED
  BY <1>1, <1>2 DEF Auth!NewUser, UserRows, Auth!None

LEMMA UsersWritten ==
  ASSUME AuthTyped, [Auth!Next]_authVars
  PROVE  \/ users' = users
         \/ \E e \in Emails : \E u \in {Auth!NoUser} \cup UserRows(minted') :
              users' = [users EXCEPT ![e] = u] /\ Writes(e, u)
<1> DEFINE Goal == \/ users' = users
                   \/ \E e \in Emails : \E u \in {Auth!NoUser} \cup UserRows(minted') :
                        users' = [users EXCEPT ![e] = u] /\ Writes(e, u)
<1>1. PICK m \in Nat, n \in Nat : m = minted /\ n = minted' /\ m <= n /\ (n = m \/ n = m + 1)
  BY MintedGrows DEF AuthTyped
<1>2. /\ users \in [Emails -> {Auth!NoUser} \cup UserRows(m)] /\ UserRows(m) \subseteq UserRows(n)
      /\ Auth!NoUser.id = 0
  BY <1>1, TypesGrow DEF AuthTyped, Auth!NoUser, Auth!None
<1>3. ASSUME NEW e \in Emails, NEW u \in UserRows(n), users' = [users EXCEPT ![e] = u],
             u.rToken = 0 \/ (users[e] # Auth!NoUser /\ u.id = users[e].id /\ u.rToken = users[e].rToken)
      PROVE  Goal
  BY <1>1, <1>3 DEF Writes
<1>4. ASSUME NEW e \in Emails, Auth!Exists(e)
      PROVE  \E old \in UserRows(n) : old = users[e] /\ users[e] # Auth!NoUser
  BY <1>2, <1>4 DEF Auth!Exists, Auth!None
<1>5. ASSUME NEW e \in Emails, NEW id \in 1..m, users[e].id = id
      PROVE  Auth!Exists(e)
  BY <1>5 DEF Auth!Exists, Auth!None
<1>. HIDE DEF Goal
<1>10. ASSUME NEW c \in Handlers, Auth!RegisterCommit(c)
       PROVE  Goal
  <2>1. PICK e \in Emails, role \in Auth!Roles, p \in Keys : e = signIn[c].email /\ role = signIn[c].role /\ p = signIn[c].password
    BY <1>10, CallFields DEF Auth!RegisterCommit, Auth!At
  <2>2. CASE Auth!Exists(e)
    BY <1>10, <2>1, <2>2 DEF Auth!RegisterCommit, Goal
  <2>3. CASE ~Auth!Exists(e)
    <3>1. n = m + 1 /\ users' = [users EXCEPT ![e] = Auth!NewUser(n, role, p, n)]
      BY <1>1, <1>10, <2>1, <2>3 DEF Auth!RegisterCommit, Auth!Mint
    <3>2. PICK u \in UserRows(n) : u = Auth!NewUser(n, role, p, n) /\ u.rToken = 0
      BY <3>1, NewUserFacts
    <3>. QED
      BY <1>3, <3>1, <3>2
  <2>. QED
    BY <2>2, <2>3
<1>11. ASSUME NEW c \in Handlers, Auth!CreateAdminUser(c)
       PROVE  Goal
  <2>1. PICK e \in Emails, p \in Keys : e = signIn[c].email /\ p = signIn[c].password
    BY <1>11, CallFields DEF Auth!CreateAdminUser, Auth!At
  <2>2. CASE Auth!Exists(e)
    BY <1>11, <2>1, <2>2 DEF Auth!CreateAdminUser, Goal
  <2>3. CASE ~Auth!Exists(e)
    <3>1. n = m + 1 /\ users' = [users EXCEPT ![e] = Auth!NewUser(n, "ADMIN", p, 0)]
      BY <1>1, <1>11, <2>1, <2>3 DEF Auth!CreateAdminUser, Auth!Mint, Auth!None
    <3>2. PICK u \in UserRows(n) : u = Auth!NewUser(n, "ADMIN", p, 0) /\ u.rToken = 0
      BY <3>1, NewUserFacts DEF Auth!Roles
    <3>. QED
      BY <1>3, <3>1, <3>2
  <2>. QED
    BY <2>2, <2>3
<1>12. ASSUME NEW c \in Handlers, Auth!VerifyWrite(c)
       PROVE  Goal
  <2>1. PICK e \in Emails, id \in 1..m : e = signIn[c].email /\ id = signIn[c].id
    BY <1>1, <1>12, CallFields DEF Auth!VerifyWrite, Auth!At
  <2>2. CASE users[e].id # id
    BY <1>12, <2>1, <2>2 DEF Auth!VerifyWrite, Auth!Update, Goal
  <2>3. CASE users[e].id = id
    <3>1. PICK old \in UserRows(n) : old = users[e] /\ users[e] # Auth!NoUser
      BY <1>4, <1>5, <2>3
    <3>2. users' = [users EXCEPT ![e] = [old EXCEPT !.verified = TRUE, !.vToken = 0]]
      BY <1>12, <2>1, <2>3, <3>1 DEF Auth!VerifyWrite, Auth!Update, Auth!None
    <3>3. TRUE \in BOOLEAN
      BY Zenon
    <3>4. 0 \in 0..n
      OBVIOUS
    <3>. QED
      BY <1>3, <3>1, <3>2, <3>3, <3>4, UserEdits
  <2>. QED
    BY <2>2, <2>3

<1>13. ASSUME NEW c \in Handlers, Auth!LinkGoogleAccount(c)
       PROVE  Goal
  <2>1. PICK e \in Emails, id \in 1..m : e = signIn[c].email /\ id = signIn[c].id
    BY <1>1, <1>13, CallFields DEF Auth!LinkGoogleAccount, Auth!At
  <2>2. CASE users[e].id # id
    BY <1>13, <2>1, <2>2 DEF Auth!LinkGoogleAccount, Auth!Update, Goal
  <2>3. CASE users[e].id = id
    <3>1. PICK old \in UserRows(n) : old = users[e] /\ users[e] # Auth!NoUser
      BY <1>4, <1>5, <2>3
    <3>2. users' = [users EXCEPT ![e] = [old EXCEPT !.google = TRUE, !.verified = TRUE]]
      BY <1>1, <1>13, <2>1, <2>3, <3>1 DEF Auth!LinkGoogleAccount, Auth!Update, Auth!None
    <3>3. TRUE \in BOOLEAN
      BY Zenon
    <3>. QED
      BY <1>3, <3>1, <3>2, <3>3, UserEdits
  <2>. QED
    BY <2>2, <2>3
<1>14. ASSUME NEW c \in Handlers, Auth!CreateAdminProfile(c)
       PROVE  Goal
  <2>1. PICK e \in Emails, id \in 1..m : e = signIn[c].email /\ id = signIn[c].id
    BY <1>1, <1>14, CallFields DEF Auth!CreateAdminProfile, Auth!At
  <2>2. CASE users[e].id # id
    BY <1>14, <2>1, <2>2 DEF Auth!CreateAdminProfile, Auth!Update, Goal
  <2>3. CASE users[e].id = id
    <3>1. PICK old \in UserRows(n) : old = users[e] /\ users[e] # Auth!NoUser
      BY <1>4, <1>5, <2>3
    <3>2. users' = [users EXCEPT ![e] = [old EXCEPT !.profile = TRUE]]
      BY <1>1, <1>14, <2>1, <2>3, <3>1 DEF Auth!CreateAdminProfile, Auth!Update, Auth!None
    <3>3. TRUE \in BOOLEAN
      BY Zenon
    <3>. QED
      BY <1>3, <3>1, <3>2, <3>3, UserEdits
  <2>. QED
    BY <2>2, <2>3
<1>15. ASSUME NEW c \in Handlers, Auth!UpdatePassword(c)
       PROVE  Goal
  <2>1. PICK e \in Emails, id \in 1..m, p \in Keys : e = signIn[c].email /\ id = signIn[c].id /\ p = signIn[c].password
    BY <1>1, <1>15, CallFields DEF Auth!UpdatePassword, Auth!At
  <2>2. CASE users[e].id # id
    BY <1>15, <2>1, <2>2 DEF Auth!UpdatePassword, Auth!Update, Goal
  <2>3. CASE users[e].id = id
    <3>1. PICK old \in UserRows(n) : old = users[e] /\ users[e] # Auth!NoUser
      BY <1>4, <1>5, <2>3
    <3>2. users' = [users EXCEPT ![e] = [old EXCEPT !.password = p, !.rToken = 0]]
      BY <1>1, <1>15, <2>1, <2>3, <3>1 DEF Auth!UpdatePassword, Auth!Update, Auth!None
    <3>3. 0 \in 0..n
      OBVIOUS
    <3>4. /\ [old EXCEPT !.password = p, !.rToken = 0] \in UserRows(n)
          /\ [old EXCEPT !.password = p, !.rToken = 0].rToken = 0
      BY <3>3 DEF UserRows
    <3>. QED
      BY <1>3, <3>2, <3>4
  <2>. QED
    BY <2>2, <2>3
<1>16. ASSUME NEW c \in Handlers, Auth!ResendWrite(c)
       PROVE  Goal
  <2>1. PICK e \in Emails, id \in 1..m, t \in 0..m : e = signIn[c].email /\ id = signIn[c].id /\ t = signIn[c].token
    BY <1>1, <1>16, CallFields DEF Auth!ResendWrite, Auth!At
  <2>2. CASE users[e].id # id
    BY <1>16, <2>1, <2>2 DEF Auth!ResendWrite, Auth!Update, Goal
  <2>3. CASE users[e].id = id
    <3>1. PICK old \in UserRows(n) : old = users[e] /\ users[e] # Auth!NoUser
      BY <1>4, <1>5, <2>3
    <3>2. PICK token \in 0..n : token = IF t = 0 THEN n ELSE t
      BY <1>1
    <3>3. users' = [users EXCEPT ![e] = [old EXCEPT !.vToken = token, !.vAge = "fresh"]]
      BY <1>1, <1>16, <2>1, <2>3, <3>1, <3>2 DEF Auth!ResendWrite, Auth!Update, Auth!None
    <3>4. "fresh" \in Auth!Ages
      BY DEF Auth!Ages
    <3>5. /\ [old EXCEPT !.vToken = token, !.vAge = "fresh"] \in UserRows(n)
          /\ [old EXCEPT !.vToken = token, !.vAge = "fresh"].id = old.id
          /\ [old EXCEPT !.vToken = token, !.vAge = "fresh"].rToken = old.rToken
      BY <3>4 DEF UserRows
    <3>. QED
      BY <1>3, <3>1, <3>3, <3>5
  <2>. QED
    BY <2>2, <2>3
<1>17. ASSUME NEW c \in Handlers, Auth!IssueReset(c)
       PROVE  Goal
  <2>1. PICK e \in Emails, id \in 1..m : e = signIn[c].email /\ id = signIn[c].id
    BY <1>1, <1>17, CallFields DEF Auth!IssueReset, Auth!At
  <2>2. CASE users[e].id # id
    BY <1>17, <2>1, <2>2 DEF Auth!IssueReset, Auth!Update, Goal
  <2>3. CASE users[e].id = id
    <3>1. PICK old \in UserRows(n) : old = users[e] /\ users[e] # Auth!NoUser
      BY <1>4, <1>5, <2>3
    <3>2. users' = [users EXCEPT ![e] = [old EXCEPT !.rToken = n, !.rAge = "fresh"]] /\ n = m + 1
      BY <1>1, <1>17, <2>1, <2>3, <3>1 DEF Auth!IssueReset, Auth!Update, Auth!Mint
    <3>3. "fresh" \in Auth!Ages /\ n \in 0..n
      BY DEF Auth!Ages
    <3>4. /\ [old EXCEPT !.rToken = n, !.rAge = "fresh"] \in UserRows(n)
          /\ [old EXCEPT !.rToken = n, !.rAge = "fresh"].rToken = n
      BY <3>3 DEF UserRows
    <3>. QED
      BY <1>1, <3>2, <3>4 DEF Goal, Writes
  <2>. QED
    BY <2>2, <2>3
<1>18. ASSUME NEW c \in Handlers, NEW e \in Emails, Auth!DeleteAdmin(c, e)
       PROVE  Goal
  BY <1>18 DEF Auth!DeleteAdmin, Goal, Writes
<1>19. ASSUME NEW c \in Handlers, NEW e \in Emails, NEW b \in BOOLEAN, Auth!SetUserActiveStatus(c, e, b)
       PROVE  Goal
  <2>1. PICK old \in UserRows(n) : old = users[e] /\ users[e] # Auth!NoUser
    BY <1>4, <1>19 DEF Auth!SetUserActiveStatus
  <2>2. users' = [users EXCEPT ![e] = [old EXCEPT !.active = b]]
    BY <1>19, <2>1 DEF Auth!SetUserActiveStatus
  <2>. QED
    BY <1>3, <2>1, <2>2, UserEdits
<1>20. ASSUME NEW e \in Emails, Auth!TokenAges(e)
       PROVE  Goal
  <2>1. PICK old \in UserRows(n) : old = users[e] /\ users[e] # Auth!NoUser
    BY <1>4, <1>20 DEF Auth!TokenAges
  <2>2. PICK a \in Auth!Ages : \/ users' = [users EXCEPT ![e] = [old EXCEPT !.vAge = a]]
                                \/ users' = [users EXCEPT ![e] = [old EXCEPT !.rAge = a]]
    <3>1. old.vAge \in Auth!Ages /\ old.rAge \in Auth!Ages
      BY DEF UserRows
    <3>. QED
      BY <1>20, <2>1, <3>1 DEF Auth!TokenAges, Auth!Older, Auth!Ages
  <2>3. /\ [old EXCEPT !.vAge = a] \in UserRows(n) /\ [old EXCEPT !.rAge = a] \in UserRows(n)
        /\ [old EXCEPT !.vAge = a].id = old.id /\ [old EXCEPT !.vAge = a].rToken = old.rToken
        /\ [old EXCEPT !.rAge = a].id = old.id /\ [old EXCEPT !.rAge = a].rToken = old.rToken
    BY DEF UserRows
  <2>. QED
    BY <1>3, <2>1, <2>2, <2>3
<1>21. \/ users' = users
       \/ \E c \in Handlers :
            \/ Auth!RegisterCommit(c) \/ Auth!CreateAdminUser(c) \/ Auth!VerifyWrite(c) \/ Auth!LinkGoogleAccount(c)
            \/ Auth!CreateAdminProfile(c) \/ Auth!UpdatePassword(c) \/ Auth!ResendWrite(c) \/ Auth!IssueReset(c)
            \/ \E e \in Emails : Auth!DeleteAdmin(c, e) \/ \E b \in BOOLEAN : Auth!SetUserActiveStatus(c, e, b)
       \/ \E e \in Emails : Auth!TokenAges(e)
  <2>1. ASSUME NEW c \in Handlers, NEW e \in Emails, Auth!Request(c, e)
        PROVE  users' = users \/ Auth!DeleteAdmin(c, e) \/ \E b \in BOOLEAN : Auth!SetUserActiveStatus(c, e, b)
    <3>1. Auth!PasswordRequest(c, e) => users' = users
      BY DEF Auth!PasswordRequest, Auth!Register, Auth!ResetPassword, Auth!ChangePassword,
         Auth!SetAdminInitialPassword, Auth!Login, Auth!InitiateAdminLogin, Auth!CreateAdmin
    <3>. QED
      BY <2>1, <3>1 DEF Auth!Request, Auth!VerifyEmail, Auth!ResendVerification, Auth!RequestReset,
         Auth!SignInWithGoogle
  <2>2. ASSUME NEW c \in Handlers,
               \/ Auth!RegisterFinish(c) \/ Auth!ResendMail(c) \/ Auth!ResetMail(c) \/ Auth!CodeMail(c)
               \/ Auth!AdmitAdmin(c) \/ Auth!RequestFails(c)
               \/ \E n2 \in DOMAIN challenges : Auth!VerifyAdmin2fa(c, n2) \/ Auth!ResendAdmin2fa(c, n2)
        PROVE  users' = users
    BY <2>2 DEF Auth!RegisterFinish, Auth!ResendMail, Auth!ResetMail, Auth!CodeMail, Auth!AdmitAdmin,
       Auth!RequestFails, Auth!VerifyAdmin2fa, Auth!ResendAdmin2fa
  <2>3. Auth!Restart \/ (\E n2 \in DOMAIN challenges : Auth!ChallengeAges(n2)) \/ UNCHANGED authVars => users' = users
    BY DEF Auth!Restart, Auth!ChallengeAges, authVars
  <2>. QED
    BY <2>1, <2>2, <2>3 DEF Auth!Next, Auth!Continue
<1>. QED
  <2>1. Goal
    BY <1>10, <1>11, <1>12, <1>13, <1>14, <1>15, <1>16, <1>17, <1>18, <1>19, <1>20, <1>21 DEF Goal
  <2>. QED
    BY <2>1 DEF Goal

-----------------------------------------------------------------------------
(* What a request may become.                                              *)

LEMMA UserFields ==
  ASSUME AuthTyped, NEW e \in Emails, Auth!Exists(e)
  PROVE  users[e].id \in 1..minted /\ users[e].vToken \in 0..minted /\ users[e].rToken \in 0..minted
<1>1. users[e] \in UserRows(minted)
  BY DEF AuthTyped, Auth!Exists, Auth!NoUser
<1>. QED
  BY <1>1 DEF UserRows

(* Only the check of a live code admits, and forgets its challenge; only a *)
(* reset with the token its account holds sets a password by a reset.      *)
Becomes(c, next) ==
  /\ next.pc = "admit" =>
       \E n \in DOMAIN challenges : /\ next.challenge = n /\ n \notin DOMAIN challenges'
                                    /\ UNCHANGED <<opened, minted>> /\ DOMAIN challenges' \subseteq DOMAIN challenges
  /\ next.pc = "set-password" /\ next.by = "reset" =>
       /\ UNCHANGED <<users, spent>> /\ Auth!Exists(next.email)
       /\ users[next.email].rToken = next.token /\ users[next.email].id = next.id

LEMMA NewStates ==
  ASSUME NEW n \in Nat, NEW e \in Emails
  PROVE  /\ \A p \in Keys : /\ [pc |-> "create-admin", email |-> e, password |-> p] \in SignInType(n)
                            /\ \A role \in Auth!Roles :
                                 [pc |-> "register", email |-> e, role |-> role, password |-> p] \in SignInType(n)
         /\ \A id \in 1..n : /\ [pc |-> "verify", email |-> e, id |-> id] \in SignInType(n)
                             /\ [pc |-> "issue", email |-> e, id |-> id] \in SignInType(n)
                             /\ [pc |-> "link", email |-> e, id |-> id] \in SignInType(n)
         /\ \A id, token \in 1..n :
              /\ [pc |-> "welcome", email |-> e, id |-> id, token |-> token] \in SignInType(n)
              /\ [pc |-> "admin-profile", email |-> e, id |-> id, token |-> token] \in SignInType(n)
              /\ [pc |-> "resend-mail", email |-> e, id |-> id, token |-> token] \in SignInType(n)
         /\ \A id \in 1..n, token \in 0..n : [pc |-> "resend", email |-> e, id |-> id, token |-> token] \in SignInType(n)
         /\ \A token \in 1..n : /\ [pc |-> "reset-mail", email |-> e, token |-> token] \in SignInType(n)
                                /\ [pc |-> "code-mail", email |-> e, token |-> token] \in SignInType(n)
         /\ \A id \in 1..n, p \in Keys, token \in 1..n :
              [pc |-> "set-password", email |-> e, id |-> id, password |-> p, by |-> "reset", token |-> token]
                \in SignInType(n)
         /\ \A id \in 1..n, p \in Keys, by \in {"change", "initial"} :
              [pc |-> "set-password", email |-> e, id |-> id, password |-> p, by |-> by, token |-> 0]
                \in SignInType(n)
         /\ \A id, k \in 1..n : [pc |-> "admit", email |-> e, id |-> id, challenge |-> k] \in SignInType(n)
BY DEF SignInType

LEMMA SignInWritten ==
  ASSUME AuthTyped, [Auth!Next]_authVars
  PROVE  \/ signIn' = signIn
         \/ signIn' = [c \in Handlers |-> Auth!Idle]
         \/ \E c \in Handlers : \E next \in SignInType(minted') :
              signIn' = [signIn EXCEPT ![c] = next] /\ Becomes(c, next)
<1> DEFINE Goal == \/ signIn' = signIn
                   \/ signIn' = [c \in Handlers |-> Auth!Idle]
                   \/ \E c \in Handlers : \E next \in SignInType(minted') :
                        signIn' = [signIn EXCEPT ![c] = next] /\ Becomes(c, next)
<1>1. PICK m \in Nat, n \in Nat : m = minted /\ n = minted' /\ m <= n /\ (n = m \/ n = m + 1)
  BY MintedGrows DEF AuthTyped
<1>2. ASSUME NEW c \in Handlers, NEW next \in SignInType(n), next.pc \notin {"admit", "set-password"},
             signIn' = [signIn EXCEPT ![c] = next]
      PROVE  Goal
  BY <1>1, <1>2 DEF Becomes
<1>3. ASSUME NEW c \in Handlers, signIn' = [signIn EXCEPT ![c] = Auth!Idle]
      PROVE  Goal
  BY <1>2, <1>3 DEF Auth!Idle, SignInType
<1>4. ASSUME NEW c \in Handlers, NEW next, NEW e \in Emails, NEW id \in 1..m, NEW p \in Keys,
             NEW by \in {"change", "initial"},
             next = [pc |-> "set-password", email |-> e, id |-> id, password |-> p, by |-> by, token |-> 0],
             signIn' = [signIn EXCEPT ![c] = next]
      PROVE  Goal
  <2>1. id \in 1..n
    BY <1>1
  <2>2. next \in SignInType(n)
    BY <1>4, <2>1, NewStates
  <2>. QED
    BY <1>1, <1>4, <2>2 DEF Becomes
<1>. HIDE DEF Goal
<1>5. ASSUME NEW c \in Handlers, NEW e \in Emails, NEW p \in Keys,
             \/ \E role \in Auth!Roles \ {"ADMIN"} : Auth!Register(c, e, role, p)
             \/ Auth!CreateAdmin(c, e, p)
      PROVE  Goal
  <2>1. ASSUME NEW role \in Auth!Roles, Auth!Register(c, e, role, p)
        PROVE  Goal
    <3>1. PICK next \in SignInType(n) : next = [pc |-> "register", email |-> e, role |-> role, password |-> p]
      BY NewStates
    <3>. QED
      BY <1>2, <2>1, <3>1 DEF Auth!Register, Auth!Start
  <2>2. ASSUME Auth!CreateAdmin(c, e, p)
        PROVE  Goal
    <3>1. PICK next \in SignInType(n) : next = [pc |-> "create-admin", email |-> e, password |-> p]
      BY NewStates
    <3>. QED
      BY <1>2, <2>2, <3>1 DEF Auth!CreateAdmin, Auth!Start
  <2>. QED
    BY <1>5, <2>1, <2>2
<1>6. ASSUME NEW c \in Handlers, NEW e \in Emails,
             \/ \E token \in 1..minted : Auth!VerifyEmail(c, e, token)
             \/ Auth!RequestReset(c, e) \/ Auth!SignInWithGoogle(c, e)
      PROVE  Goal
  <2>1. PICK id \in 1..n : id = users[e].id
    BY <1>1, <1>6, UserFields DEF Auth!VerifyEmail, Auth!RequestReset, Auth!SignInWithGoogle
  <2>2. \/ signIn' = [signIn EXCEPT ![c] = Auth!Idle]
        \/ \E pc \in {"verify", "issue", "link"} : signIn' = [signIn EXCEPT ![c] = [pc |-> pc, email |-> e, id |-> id]]
    BY <1>6, <2>1 DEF Auth!VerifyEmail, Auth!RequestReset, Auth!SignInWithGoogle, Auth!Start
  <2>3. \A pc \in {"verify", "issue", "link"} : [pc |-> pc, email |-> e, id |-> id] \in SignInType(n)
    BY NewStates
  <2>. QED
    BY <1>2, <1>3, <2>2, <2>3
<1>7. ASSUME NEW c \in Handlers, NEW e \in Emails, Auth!ResendVerification(c, e)
      PROVE  Goal
  <2>1. PICK id \in 1..n, token \in 0..n : id = users[e].id /\ token = IF Auth!HasLiveToken(e) THEN users[e].vToken ELSE 0
    BY <1>1, <1>7, UserFields DEF Auth!ResendVerification
  <2>2. signIn' = [signIn EXCEPT ![c] = [pc |-> "resend", email |-> e, id |-> id, token |-> token]]
    BY <1>7, <2>1 DEF Auth!ResendVerification, Auth!Start, Auth!None
  <2>3. [pc |-> "resend", email |-> e, id |-> id, token |-> token] \in SignInType(n)
    BY NewStates
  <2>. QED
    BY <1>2, <2>2, <2>3
<1>8. ASSUME NEW c \in Handlers, NEW e \in Emails, NEW p \in Keys,
             \/ \E current \in Keys : Auth!ChangePassword(c, e, current, p)
             \/ Auth!SetAdminInitialPassword(c, e, p)
      PROVE  Goal
  <2>1. PICK id \in 1..m : id = users[e].id
    BY <1>1, <1>8, UserFields DEF Auth!ChangePassword, Auth!SetAdminInitialPassword, Auth!Admitted, Auth!Authenticated
  <2>2. PICK by \in {"change", "initial"} :
          signIn' = [signIn EXCEPT ![c] =
            [pc |-> "set-password", email |-> e, id |-> id, password |-> p, by |-> by, token |-> 0]]
    BY <1>8, <2>1 DEF Auth!ChangePassword, Auth!SetAdminInitialPassword, Auth!SettingPassword, Auth!Start, Auth!None
  <2>. QED
    BY <1>4, <2>2
<1>9. ASSUME NEW c \in Handlers, NEW e \in Emails, NEW p \in Keys, NEW token \in 1..minted,
             Auth!ResetPassword(c, e, token, p)
      PROVE  Goal
  <2>1. PICK id \in 1..n : id = users[e].id
    BY <1>1, <1>9, UserFields DEF Auth!ResetPassword, Auth!ValidResetToken
  <2>2. PICK next : next = [pc |-> "set-password", email |-> e, id |-> id, password |-> p, by |-> "reset", token |-> token]
    OBVIOUS
  <2>3. next \in SignInType(n)
    <3>1. token \in 1..n
      BY <1>1
    <3>. QED
      BY <2>2, <3>1, NewStates
  <2>4. signIn' = [signIn EXCEPT ![c] = next] /\ UNCHANGED <<users, spent>>
    BY <1>9, <2>1, <2>2 DEF Auth!ResetPassword, Auth!SettingPassword, Auth!Start, Auth!history
  <2>5. Becomes(c, next)
    BY <1>9, <2>1, <2>2, <2>4 DEF Becomes, Auth!ResetPassword, Auth!ValidResetToken
  <2>. QED
    BY <1>1, <2>3, <2>4, <2>5 DEF Goal
<1>10. ASSUME NEW c \in Handlers, Auth!RegisterCommit(c) \/ Auth!CreateAdminUser(c)
       PROVE  Goal
  <2>1. PICK e \in Emails : e = signIn[c].email
    BY <1>10, CallFields DEF Auth!RegisterCommit, Auth!CreateAdminUser, Auth!At
  <2>2. CASE Auth!Exists(e)
    BY <1>3, <1>10, <2>1, <2>2 DEF Auth!RegisterCommit, Auth!CreateAdminUser, Auth!Return
  <2>3. CASE ~Auth!Exists(e)
    <3>1. n \in 1..n /\ \E pc \in {"welcome", "admin-profile"} :
            signIn' = [signIn EXCEPT ![c] = [pc |-> pc, email |-> e, id |-> n, token |-> n]]
      BY <1>1, <1>10, <2>1, <2>3 DEF Auth!RegisterCommit, Auth!CreateAdminUser, Auth!Mint
    <3>2. \A pc \in {"welcome", "admin-profile"} : [pc |-> pc, email |-> e, id |-> n, token |-> n] \in SignInType(n)
      BY <3>1, NewStates
    <3>. QED
      BY <1>2, <3>1, <3>2
  <2>. QED
    BY <2>2, <2>3
<1>11. ASSUME NEW c \in Handlers, Auth!ResendWrite(c)
       PROVE  Goal
  <2>1. PICK e \in Emails, id \in 1..m, t \in 0..m : signIn[c] = [pc |-> "resend", email |-> e, id |-> id, token |-> t]
    BY <1>1, <1>11 DEF Auth!ResendWrite, Auth!At, AuthTyped, SignInType
  <2>2. PICK token \in 1..n : token = IF t = 0 THEN n ELSE t
    BY <1>1, <1>11, <2>1 DEF Auth!ResendWrite, Auth!Mint, Auth!None
  <2>3. signIn' = [signIn EXCEPT ![c].pc = "resend-mail", ![c].token = token]
    BY <1>1, <1>11, <2>1, <2>2 DEF Auth!ResendWrite, Auth!None
  <2>4. PICK old : old = signIn[c]
    OBVIOUS
  <2>5. signIn' = [signIn EXCEPT ![c] = [old EXCEPT !.pc = "resend-mail", !.token = token]]
    BY <2>3, <2>4 DEF AuthTyped
  <2>6. old \in [pc : {"resend"}, email : Emails, id : 1..n, token : 0..n]
    BY <1>1, <2>1, <2>4
  <2>7. PICK next : next = [old EXCEPT !.pc = "resend-mail", !.token = token]
    OBVIOUS
  <2>8. next \in [pc : {"resend-mail"}, email : Emails, id : 1..n, token : 1..n]
    BY <2>6, <2>7
  <2>9. next \in SignInType(n) /\ next.pc = "resend-mail"
    BY <2>8 DEF SignInType
  <2>. QED
    BY <1>2, <2>5, <2>7, <2>9
<1>12. ASSUME NEW c \in Handlers, Auth!IssueReset(c)
       PROVE  Goal
  <2>1. PICK e \in Emails : e = signIn[c].email
    BY <1>12, CallFields DEF Auth!IssueReset, Auth!At
  <2>2. n \in 1..n /\ signIn' = [signIn EXCEPT ![c] = [pc |-> "reset-mail", email |-> e, token |-> n]]
    BY <1>1, <1>12, <2>1 DEF Auth!IssueReset, Auth!Mint
  <2>3. [pc |-> "reset-mail", email |-> e, token |-> n] \in SignInType(n)
    BY <2>2, NewStates
  <2>. QED
    BY <1>2, <2>2, <2>3
<1>13. ASSUME NEW c \in Handlers, NEW e \in Emails, NEW p \in Keys, Auth!InitiateAdminLogin(c, e, p)
       PROVE  Goal
  <2>1. n \in 1..n /\ signIn' = [signIn EXCEPT ![c] = [pc |-> "code-mail", email |-> e, token |-> n]]
    BY <1>1, <1>13 DEF Auth!InitiateAdminLogin, Auth!Mint, Auth!Start
  <2>2. [pc |-> "code-mail", email |-> e, token |-> n] \in SignInType(n)
    BY <2>1, NewStates
  <2>. QED
    BY <1>2, <2>1, <2>2
<1>14. ASSUME NEW c \in Handlers, NEW k \in DOMAIN challenges, Auth!ResendAdmin2fa(c, k)
       PROVE  Goal
  <2>1. PICK e \in Emails : e = challenges[k].email
    BY DEF AuthTyped, Challenges
  <2>2. CASE signIn' = [signIn EXCEPT ![c] = Auth!Idle]
    BY <1>3, <2>2
  <2>3. CASE signIn' # [signIn EXCEPT ![c] = Auth!Idle]
    <3>1. n \in 1..n /\ signIn' = [signIn EXCEPT ![c] = [pc |-> "code-mail", email |-> e, token |-> n]]
      BY <1>1, <1>14, <2>1, <2>3 DEF Auth!ResendAdmin2fa, Auth!Mint, Auth!Start
    <3>2. [pc |-> "code-mail", email |-> e, token |-> n] \in SignInType(n)
      BY <3>1, NewStates
    <3>. QED
      BY <1>2, <3>1, <3>2
  <2>. QED
    BY <2>2, <2>3
<1>15. ASSUME NEW c \in Handlers, NEW k \in DOMAIN challenges, Auth!VerifyAdmin2fa(c, k)
       PROVE  Goal
  <2>1. PICK e \in Emails, id \in 1..n, j \in 1..n : e = challenges[k].email /\ id = challenges[k].id /\ j = k
    <3>1. challenges[k] \in Challenges(k, n) /\ k \in 1..n
      BY <1>1, TypesGrow DEF AuthTyped
    <3>. QED
      BY <3>1 DEF Challenges
  <2>2. CASE signIn' = [signIn EXCEPT ![c] = Auth!Idle]
    BY <1>3, <2>2
  <2>3. CASE signIn' # [signIn EXCEPT ![c] = Auth!Idle]
    <3>1. PICK next : next = [pc |-> "admit", email |-> e, id |-> id, challenge |-> j]
      OBVIOUS
    <3>2. next \in SignInType(n)
      BY <3>1, NewStates
    <3>3. /\ signIn' = [signIn EXCEPT ![c] = next] /\ UNCHANGED <<opened, minted>>
          /\ challenges' = [i \in DOMAIN challenges \ {k} |-> challenges[i]]
      BY <1>15, <2>1, <2>3, <3>1 DEF Auth!VerifyAdmin2fa, Auth!Admission, Auth!Start, Auth!Forget, Auth!history
    <3>4. Becomes(c, next)
      BY <2>1, <3>1, <3>3 DEF Becomes
    <3>. QED
      BY <1>1, <3>2, <3>3, <3>4 DEF Goal
  <2>. QED
    BY <2>2, <2>3
<1>16. ASSUME NEW c \in Handlers,
              \/ Auth!RegisterFinish(c) \/ Auth!VerifyWrite(c) \/ Auth!ResendMail(c) \/ Auth!ResetMail(c)
              \/ Auth!UpdatePassword(c) \/ Auth!LinkGoogleAccount(c) \/ Auth!CodeMail(c) \/ Auth!AdmitAdmin(c)
              \/ Auth!CreateAdminProfile(c) \/ Auth!RequestFails(c)
              \/ \E e \in Emails : \/ Auth!DeleteAdmin(c, e)
                                   \/ \E b \in BOOLEAN : Auth!SetUserActiveStatus(c, e, b)
                                   \/ \E p \in Keys : Auth!Login(c, e, p)
       PROVE  signIn' = [signIn EXCEPT ![c] = Auth!Idle]
  BY <1>16 DEF Auth!RegisterFinish, Auth!VerifyWrite, Auth!ResendMail, Auth!ResetMail, Auth!UpdatePassword,
     Auth!LinkGoogleAccount, Auth!CodeMail, Auth!AdmitAdmin, Auth!CreateAdminProfile, Auth!RequestFails,
     Auth!DeleteAdmin, Auth!SetUserActiveStatus, Auth!Login, Auth!Start, Auth!Return
<1>17. Auth!Restart \/ (\E e \in Emails : Auth!TokenAges(e)) \/ (\E k \in DOMAIN challenges : Auth!ChallengeAges(k))
       \/ UNCHANGED authVars
       => Goal
  BY DEF Auth!Restart, Auth!TokenAges, Auth!ChallengeAges, authVars, Goal
<1>18. ASSUME NEW c \in Handlers, NEW e \in Emails, Auth!Request(c, e)
       PROVE  Goal
  BY <1>3, <1>5, <1>6, <1>7, <1>8, <1>9, <1>13, <1>16, <1>18 DEF Auth!Request, Auth!PasswordRequest
<1>19. ASSUME NEW c \in Handlers, Auth!Continue(c)
       PROVE  Goal
  BY <1>3, <1>10, <1>11, <1>12, <1>16, <1>19 DEF Auth!Continue
<1>20. Goal
  BY <1>3, <1>14, <1>15, <1>16, <1>17, <1>18, <1>19 DEF Auth!Next
<1>. QED
  BY <1>20 DEF Goal

-----------------------------------------------------------------------------
(* What is forgotten, spent and opened.                                    *)

LEMMA ChallengesWritten ==
  ASSUME AuthTyped, [Auth!Next]_authVars
  PROVE  /\ \A k \in DOMAIN challenges' : challenges'[k] \in Challenges(k, minted')
         /\ \A k \in DOMAIN challenges' : k \in DOMAIN challenges \/ (k = minted' /\ minted' = minted + 1)
<1> DEFINE Goal == /\ \A k \in DOMAIN challenges' : challenges'[k] \in Challenges(k, minted')
                   /\ \A k \in DOMAIN challenges' : k \in DOMAIN challenges \/ (k = minted' /\ minted' = minted + 1)
<1>1. PICK m \in Nat, n \in Nat : m = minted /\ n = minted' /\ m <= n /\ (n = m \/ n = m + 1)
  BY MintedGrows DEF AuthTyped
<1>2. \A k \in DOMAIN challenges : challenges[k] \in Challenges(k, n)
  BY <1>1, TypesGrow DEF AuthTyped
<1>3. CASE challenges' = challenges
  BY <1>1, <1>2, <1>3
<1>4. ASSUME NEW k \in DOMAIN challenges, Auth!Forget(k)
      PROVE  Goal
  BY <1>1, <1>2, <1>4 DEF Auth!Forget
<1>5. ASSUME NEW k \in DOMAIN challenges, NEW new \in Challenges(k, n), challenges' = [challenges EXCEPT ![k] = new]
      PROVE  Goal
  BY <1>1, <1>2, <1>5
<1>. HIDE DEF Goal
<1>6. ASSUME NEW c \in Handlers, NEW e \in Emails, NEW p \in Keys, Auth!InitiateAdminLogin(c, e, p)
      PROVE  Goal
  <2>1. n = m + 1 /\ n \in 1..n
    BY <1>1, <1>6 DEF Auth!InitiateAdminLogin, Auth!Mint
  <2>2. PICK id \in 1..n : id = users[e].id
    BY <1>1, <1>6, UserFields DEF Auth!InitiateAdminLogin, Auth!Validated
  <2>3. PICK new : new = [email |-> e, id |-> id, code |-> n, age |-> "fresh", resends |-> 0]
    OBVIOUS
  <2>4. new \in Challenges(n, n)
    <3>1. "fresh" \in Auth!Ages /\ 0 \in 0..MaxResends
      BY BoundsAssumption DEF Auth!Ages
    <3>. QED
      BY <2>1, <2>3, <3>1 DEF Challenges
  <2>5. challenges' = [k \in Auth!Pending \cup {n} |-> IF k = n THEN new ELSE challenges[k]]
    BY <1>1, <1>6, <2>2, <2>3 DEF Auth!InitiateAdminLogin
  <2>. QED
    BY <1>1, <1>2, <2>1, <2>4, <2>5 DEF Goal, Auth!Pending
<1>7. ASSUME NEW c \in Handlers, NEW k \in DOMAIN challenges, Auth!ResendAdmin2fa(c, k)
      PROVE  Goal
  <2>1. CASE Auth!Forget(k)
    BY <1>4, <2>1
  <2>2. CASE ~Auth!Forget(k)
    <3>1. n = m + 1 /\ n \in k..n
      BY <1>1, <1>7, <2>2, <1>2 DEF AuthTyped, Auth!ResendAdmin2fa, Auth!Mint
    <3>2. PICK old \in Challenges(k, n) : old = challenges[k]
      BY <1>2
    <3>3. challenges' = [challenges EXCEPT ![k] = [old EXCEPT !.code = n, !.age = "fresh", !.resends = old.resends + 1]]
      BY <1>1, <1>7, <2>2, <3>2 DEF Auth!ResendAdmin2fa
    <3>4. PICK j \in 0..MaxResends : j = old.resends + 1
      <4>1. old.resends \in 0..MaxResends
        BY DEF Challenges
      <4>2. ~(old.resends >= MaxResends)
        BY <1>7, <2>2, <3>2 DEF Auth!ResendAdmin2fa
      <4>. QED
        BY <4>1, <4>2, BoundsAssumption
    <3>5. "fresh" \in Auth!Ages
      BY DEF Auth!Ages
    <3>6. [old EXCEPT !.code = n, !.age = "fresh", !.resends = j] \in Challenges(k, n)
      BY <3>1, <3>5 DEF Challenges
    <3>. QED
      BY <1>5, <3>3, <3>4, <3>6
  <2>. QED
    BY <2>1, <2>2
<1>8. ASSUME NEW k \in DOMAIN challenges, Auth!ChallengeAges(k)
      PROVE  Goal
  <2>1. PICK old \in Challenges(k, n) : old = challenges[k]
    BY <1>2
  <2>2. PICK a \in Auth!Ages : a = Auth!Older[old.age]
    BY <1>8, <2>1 DEF Auth!ChallengeAges, Auth!Older, Auth!Ages, Challenges
  <2>3. challenges' = [challenges EXCEPT ![k] = [old EXCEPT !.age = a]]
    BY <1>8, <2>1, <2>2 DEF Auth!ChallengeAges
  <2>4. [old EXCEPT !.age = a] \in Challenges(k, n)
    BY DEF Challenges
  <2>. QED
    BY <1>5, <2>3, <2>4
<1>9. Auth!Restart => Goal
  BY DEF Auth!Restart, Goal
<1>10. ASSUME NEW c \in Handlers, NEW k \in DOMAIN challenges, Auth!VerifyAdmin2fa(c, k)
       PROVE  Goal
  BY <1>3, <1>4, <1>10 DEF Auth!VerifyAdmin2fa, Goal
<1>11. ASSUME NEW c \in Handlers, NEW e \in Emails, Auth!Request(c, e)
       PROVE  challenges' = challenges \/ \E p \in Keys : Auth!InitiateAdminLogin(c, e, p)
  <2>1. Auth!PasswordRequest(c, e) => challenges' = challenges \/ \E p \in Keys : Auth!InitiateAdminLogin(c, e, p)
    BY DEF Auth!PasswordRequest, Auth!Register, Auth!ResetPassword, Auth!ChangePassword,
       Auth!SetAdminInitialPassword, Auth!Login, Auth!CreateAdmin
  <2>. QED
    BY <1>11, <2>1 DEF Auth!Request, Auth!VerifyEmail, Auth!ResendVerification, Auth!RequestReset,
       Auth!SignInWithGoogle, Auth!DeleteAdmin, Auth!SetUserActiveStatus
<1>12. ASSUME NEW c \in Handlers, Auth!Continue(c) \/ Auth!RequestFails(c)
       PROVE  challenges' = challenges
  BY <1>12 DEF Auth!Continue, Auth!RegisterCommit, Auth!RegisterFinish, Auth!VerifyWrite, Auth!ResendWrite,
     Auth!ResendMail, Auth!IssueReset, Auth!ResetMail, Auth!UpdatePassword, Auth!LinkGoogleAccount, Auth!CodeMail,
     Auth!AdmitAdmin, Auth!CreateAdminUser, Auth!CreateAdminProfile, Auth!RequestFails
<1>13. (\E e \in Emails : Auth!TokenAges(e)) \/ UNCHANGED authVars => challenges' = challenges
  BY DEF Auth!TokenAges, authVars
<1>14. Goal
  BY <1>3, <1>6, <1>7, <1>8, <1>9, <1>10, <1>11, <1>12, <1>13 DEF Auth!Next, Goal
<1>. QED
  BY <1>14 DEF Goal

LEMMA HistoryWritten ==
  ASSUME [Auth!Next]_authVars
  PROVE  /\ spent' = spent \/ \E c \in Handlers : Auth!UpdatePassword(c)
         /\ opened' = opened \/ \E c \in Handlers : Auth!AdmitAdmin(c)
<1>. USE DEF Auth!history
<1>1. ASSUME NEW c \in Handlers, NEW e \in Emails, Auth!Request(c, e)
      PROVE  UNCHANGED <<spent, opened>>
  <2>1. Auth!PasswordRequest(c, e) => UNCHANGED <<spent, opened>>
    BY DEF Auth!PasswordRequest, Auth!Register, Auth!ResetPassword, Auth!ChangePassword,
       Auth!SetAdminInitialPassword, Auth!Login, Auth!InitiateAdminLogin, Auth!CreateAdmin
  <2>. QED
    BY <1>1, <2>1 DEF Auth!Request, Auth!VerifyEmail, Auth!ResendVerification, Auth!RequestReset,
       Auth!SignInWithGoogle, Auth!DeleteAdmin, Auth!SetUserActiveStatus
<1>2. ASSUME NEW c \in Handlers, Auth!Continue(c) \/ Auth!RequestFails(c)
      PROVE  \/ UNCHANGED <<spent, opened>>
             \/ Auth!UpdatePassword(c) /\ opened' = opened
             \/ Auth!AdmitAdmin(c) /\ spent' = spent
  BY <1>2 DEF Auth!Continue, Auth!RegisterCommit, Auth!RegisterFinish, Auth!VerifyWrite, Auth!ResendWrite,
     Auth!ResendMail, Auth!IssueReset, Auth!ResetMail, Auth!UpdatePassword, Auth!LinkGoogleAccount, Auth!CodeMail,
     Auth!AdmitAdmin, Auth!CreateAdminUser, Auth!CreateAdminProfile, Auth!RequestFails
<1>3. ASSUME NEW c \in Handlers, NEW n \in DOMAIN challenges, Auth!VerifyAdmin2fa(c, n) \/ Auth!ResendAdmin2fa(c, n)
      PROVE  UNCHANGED <<spent, opened>>
  BY <1>3 DEF Auth!VerifyAdmin2fa, Auth!ResendAdmin2fa
<1>4. \/ Auth!Restart \/ (\E e \in Emails : Auth!TokenAges(e)) \/ (\E n \in DOMAIN challenges : Auth!ChallengeAges(n))
      \/ UNCHANGED authVars
      => UNCHANGED <<spent, opened>>
  BY DEF Auth!Restart, Auth!TokenAges, Auth!ChallengeAges, authVars
<1>. QED
  BY <1>1, <1>2, <1>3, <1>4 DEF Auth!Next

LEMMA NextAuthTyped ==
  ASSUME AuthTyped, [Auth!Next]_authVars
  PROVE  AuthTyped'
<1>1. PICK m \in Nat, n \in Nat : m = minted /\ n = minted' /\ m <= n /\ (n = m \/ n = m + 1)
  BY MintedGrows DEF AuthTyped
<1>2. users' \in [Emails -> {Auth!NoUser} \cup UserRows(n)]
  <2>1. users \in [Emails -> {Auth!NoUser} \cup UserRows(n)]
    BY <1>1, TypesGrow DEF AuthTyped
  <2>. QED
    BY <1>1, <2>1, UsersWritten
<1>3. signIn' \in [Handlers -> SignInType(n)]
  <2>1. signIn \in [Handlers -> SignInType(n)] /\ Auth!Idle \in SignInType(n)
    <3>1. Auth!Idle \in SignInType(n)
      BY DEF Auth!Idle, SignInType
    <3>. QED
      BY <1>1, <3>1, TypesGrow DEF AuthTyped
  <2>. QED
    BY <1>1, <2>1, SignInWritten
<1>4. DOMAIN challenges' \subseteq 1..n /\ \A k \in DOMAIN challenges' : challenges'[k] \in Challenges(k, n)
  BY <1>1, ChallengesWritten DEF AuthTyped
<1>5. spent' \subseteq 1..n
  <2>1. spent \subseteq 1..n
    BY <1>1 DEF AuthTyped
  <2>2. ASSUME NEW c \in Handlers, Auth!UpdatePassword(c)
        PROVE  spent' \subseteq 1..n
    <3>1. signIn[c].by = "reset" => signIn[c].token \in 1..n
      BY <1>1, <2>2, CallFields DEF Auth!UpdatePassword, Auth!At
    <3>2. PICK e \in Emails : e = signIn[c].email /\ signIn[c].id \in 1..m
      BY <1>1, <2>2, CallFields DEF Auth!UpdatePassword, Auth!At
    <3>3. users[e].id = signIn[c].id => users[e].rToken \in 0..n
      BY <1>1, <3>2, UserFields DEF Auth!Exists, Auth!None
    <3>4. Auth!Spends(c) \subseteq 1..n
      BY <1>1, <3>1, <3>2, <3>3 DEF Auth!Spends, Auth!None
    <3>5. spent' = spent \cup Auth!Spends(c)
      BY <2>2 DEF Auth!UpdatePassword
    <3>. QED
      BY <2>1, <3>4, <3>5
  <2>. QED
    BY <2>1, <2>2, HistoryWritten
<1>. QED
  BY <1>1, <1>2, <1>3, <1>4, <1>5, MintedGrows DEF AuthTyped

LEMMA InitAuthTyped == Auth!Init => AuthTyped
<1>. SUFFICES ASSUME Auth!Init PROVE AuthTyped
  OBVIOUS
<1>1. minted = 0 /\ spent = {} /\ DOMAIN challenges = {}
  BY DEF Auth!Init
<1>2. Auth!Idle \in SignInType(0)
  BY DEF Auth!Idle, SignInType
<1>. QED
  BY <1>1, <1>2, BoundsAssumption DEF Auth!Init, AuthTyped

(* Users, requests, challenges and spent tokens keep their types, and every *)
(* id, token and code in them was given out (src/modules/auth).             *)
THEOREM AuthIsTyped == Auth!Spec => []AuthTyped
<1>1. Auth!Init => AuthTyped
  BY InitAuthTyped
<1>2. AuthTyped /\ [Auth!Next]_(Auth!vars) => AuthTyped'
  BY NextAuthTyped DEF authVars, Auth!vars, Auth!history
<1>. QED
  BY <1>1, <1>2, PTL DEF Auth!Spec

-----------------------------------------------------------------------------
(* Sessions and mail.                                                      *)

LEMMA SessionsWritten ==
  ASSUME AuthTyped, [Auth!Next]_authVars
  PROVE  sessions' = sessions \/ \E id \in 1..minted : sessions' = sessions \cup {id}
<1> DEFINE Goal == sessions' = sessions \/ \E id \in 1..minted : sessions' = sessions \cup {id}
<1>1. ASSUME NEW c \in Handlers, NEW e \in Emails, Auth!Request(c, e)
      PROVE  Goal
  <2>1. ASSUME NEW p \in Keys, Auth!Login(c, e, p)
        PROVE  Goal
    BY <2>1, UserFields DEF Auth!Login, Auth!Validated
  <2>2. Auth!SignInWithGoogle(c, e) => Goal
    BY UserFields DEF Auth!SignInWithGoogle
  <2>3. Auth!PasswordRequest(c, e) => sessions' = sessions \/ \E p \in Keys : Auth!Login(c, e, p)
    BY DEF Auth!PasswordRequest, Auth!Register, Auth!ResetPassword, Auth!ChangePassword,
       Auth!SetAdminInitialPassword, Auth!InitiateAdminLogin, Auth!CreateAdmin
  <2>4. ~Auth!PasswordRequest(c, e) /\ ~Auth!SignInWithGoogle(c, e) => sessions' = sessions
    BY <1>1 DEF Auth!Request, Auth!VerifyEmail, Auth!ResendVerification, Auth!RequestReset,
       Auth!DeleteAdmin, Auth!SetUserActiveStatus
  <2>. QED
    BY <2>1, <2>2, <2>3, <2>4
<1>2. ASSUME NEW c \in Handlers, Auth!Continue(c) \/ Auth!RequestFails(c)
      PROVE  \/ sessions' = sessions
             \/ /\ signIn[c].pc \in {"welcome", "set-password", "link", "admit"}
                /\ sessions' = sessions \cup {signIn[c].id}
  BY <1>2 DEF Auth!Continue, Auth!RegisterCommit, Auth!RegisterFinish, Auth!VerifyWrite, Auth!ResendWrite,
     Auth!ResendMail, Auth!IssueReset, Auth!ResetMail, Auth!UpdatePassword, Auth!LinkGoogleAccount, Auth!CodeMail,
     Auth!AdmitAdmin, Auth!CreateAdminUser, Auth!CreateAdminProfile, Auth!RequestFails, Auth!At
<1>3. ASSUME NEW c \in Handlers, Auth!Continue(c) \/ Auth!RequestFails(c)
      PROVE  Goal
  BY <1>2, <1>3, CallFields
<1>4. ASSUME NEW c \in Handlers, NEW n \in DOMAIN challenges, Auth!VerifyAdmin2fa(c, n) \/ Auth!ResendAdmin2fa(c, n)
      PROVE  sessions' = sessions
  BY <1>4 DEF Auth!VerifyAdmin2fa, Auth!ResendAdmin2fa
<1>5. \/ Auth!Restart \/ (\E e \in Emails : Auth!TokenAges(e)) \/ (\E n \in DOMAIN challenges : Auth!ChallengeAges(n))
      \/ UNCHANGED authVars
      => sessions' = sessions
  BY DEF Auth!Restart, Auth!TokenAges, Auth!ChallengeAges, authVars
<1>. QED
  BY <1>1, <1>3, <1>4, <1>5 DEF Auth!Next

Mail(n) == [to : Emails, kind : {"verify", "reset", "code", "invite"}, token : 1..n]

LEMMA MailWritten ==
  ASSUME AuthTyped, [Auth!Next]_authVars
  PROVE  mailed' = mailed \/ \E m \in Mail(minted) : mailed' = mailed \cup {m}
<1> DEFINE Goal == mailed' = mailed \/ \E m \in Mail(minted) : mailed' = mailed \cup {m}
<1>1. ASSUME NEW c \in Handlers, NEW e \in Emails, Auth!Request(c, e)
      PROVE  mailed' = mailed
  <2>1. Auth!PasswordRequest(c, e) => mailed' = mailed
    BY DEF Auth!PasswordRequest, Auth!Register, Auth!ResetPassword, Auth!ChangePassword,
       Auth!SetAdminInitialPassword, Auth!Login, Auth!InitiateAdminLogin, Auth!CreateAdmin
  <2>. QED
    BY <1>1, <2>1 DEF Auth!Request, Auth!VerifyEmail, Auth!ResendVerification, Auth!RequestReset,
       Auth!SignInWithGoogle, Auth!DeleteAdmin, Auth!SetUserActiveStatus
<1>2. ASSUME NEW c \in Handlers, Auth!Continue(c) \/ Auth!RequestFails(c)
      PROVE  \/ mailed' = mailed
             \/ /\ signIn[c].pc \in {"welcome", "admin-profile", "resend-mail", "reset-mail", "code-mail"}
                /\ \E kind \in {"verify", "reset", "code", "invite"} : Auth!Post(c, kind)
  BY <1>2 DEF Auth!Continue, Auth!RegisterCommit, Auth!RegisterFinish, Auth!VerifyWrite, Auth!ResendWrite,
     Auth!ResendMail, Auth!IssueReset, Auth!ResetMail, Auth!UpdatePassword, Auth!LinkGoogleAccount, Auth!CodeMail,
     Auth!AdmitAdmin, Auth!CreateAdminUser, Auth!CreateAdminProfile, Auth!RequestFails, Auth!At
<1>3. ASSUME NEW c \in Handlers, Auth!Continue(c) \/ Auth!RequestFails(c)
      PROVE  Goal
  <2>1. CASE mailed' = mailed
    BY <2>1
  <2>2. CASE mailed' # mailed
    <3>1. PICK kind \in {"verify", "reset", "code", "invite"} : Auth!Post(c, kind)
      BY <1>2, <1>3, <2>2
    <3>2. signIn[c].email \in Emails /\ signIn[c].token \in 1..minted
      BY <1>2, <1>3, <2>2, CallFields
    <3>3. [to |-> signIn[c].email, kind |-> kind, token |-> signIn[c].token] \in Mail(minted)
      BY <3>2 DEF Mail
    <3>. QED
      BY <3>1, <3>3 DEF Auth!Post
  <2>. QED
    BY <2>1, <2>2
<1>4. ASSUME NEW c \in Handlers, NEW n \in DOMAIN challenges, Auth!VerifyAdmin2fa(c, n) \/ Auth!ResendAdmin2fa(c, n)
      PROVE  mailed' = mailed
  BY <1>4 DEF Auth!VerifyAdmin2fa, Auth!ResendAdmin2fa
<1>5. \/ Auth!Restart \/ (\E e \in Emails : Auth!TokenAges(e)) \/ (\E n \in DOMAIN challenges : Auth!ChallengeAges(n))
      \/ UNCHANGED authVars
      => mailed' = mailed
  BY DEF Auth!Restart, Auth!TokenAges, Auth!ChallengeAges, authVars
<1>. QED
  BY <1>1, <1>3, <1>4, <1>5 DEF Auth!Next

(* A request counts once, when it starts.                                  *)
LEMMA SignInsCounted ==
  ASSUME [Auth!Next]_authVars
  PROVE  signIns' = signIns \/ (signIns < MaxSignIns /\ signIns' = signIns + 1)
<1>. USE DEF Auth!Start, Auth!Goto, Auth!Return
<1>1. ASSUME NEW c \in Handlers, NEW e \in Emails, Auth!Request(c, e)
      PROVE  signIns < MaxSignIns /\ signIns' = signIns + 1
  <2>1. Auth!PasswordRequest(c, e) => signIns < MaxSignIns /\ signIns' = signIns + 1
    BY DEF Auth!PasswordRequest, Auth!Register, Auth!ResetPassword, Auth!ChangePassword, Auth!Login,
       Auth!SetAdminInitialPassword, Auth!InitiateAdminLogin, Auth!CreateAdmin
  <2>. QED
    BY <1>1, <2>1 DEF Auth!Request, Auth!VerifyEmail, Auth!ResendVerification, Auth!RequestReset,
       Auth!SignInWithGoogle, Auth!DeleteAdmin, Auth!SetUserActiveStatus
<1>2. ASSUME NEW c \in Handlers, Auth!Continue(c) \/ Auth!RequestFails(c)
      PROVE  signIns' = signIns
  BY <1>2 DEF Auth!Continue, Auth!RegisterCommit, Auth!RegisterFinish, Auth!VerifyWrite, Auth!ResendWrite,
     Auth!ResendMail, Auth!IssueReset, Auth!ResetMail, Auth!UpdatePassword, Auth!LinkGoogleAccount, Auth!CodeMail,
     Auth!AdmitAdmin, Auth!CreateAdminUser, Auth!CreateAdminProfile, Auth!RequestFails
<1>3. ASSUME NEW c \in Handlers, NEW n \in DOMAIN challenges, Auth!VerifyAdmin2fa(c, n) \/ Auth!ResendAdmin2fa(c, n)
      PROVE  signIns < MaxSignIns /\ signIns' = signIns + 1
  BY <1>3 DEF Auth!VerifyAdmin2fa, Auth!ResendAdmin2fa
<1>4. \/ Auth!Restart \/ (\E e \in Emails : Auth!TokenAges(e)) \/ (\E n \in DOMAIN challenges : Auth!ChallengeAges(n))
      \/ UNCHANGED authVars
      => signIns' = signIns
  BY DEF Auth!Restart, Auth!TokenAges, Auth!ChallengeAges, authVars
<1>. QED
  BY <1>1, <1>2, <1>3, <1>4 DEF Auth!Next

SentTyped ==
  sessions \subseteq 1..minted /\ mailed \subseteq Mail(minted) /\ signIns \in 0..MaxSignIns

LEMMA NextSentTyped ==
  ASSUME AuthTyped, SentTyped, [Auth!Next]_authVars
  PROVE  SentTyped'
<1>1. PICK m \in Nat, n \in Nat : m = minted /\ n = minted' /\ m <= n
  BY MintedGrows DEF AuthTyped
<1>2. 1..m \subseteq 1..n /\ Mail(m) \subseteq Mail(n)
  BY <1>1 DEF Mail
<1>3. sessions' \subseteq 1..n
  BY <1>1, <1>2, SessionsWritten DEF SentTyped
<1>4. mailed' \subseteq Mail(n)
  BY <1>1, <1>2, MailWritten DEF SentTyped
<1>5. signIns' \in 0..MaxSignIns
  BY SignInsCounted, BoundsAssumption DEF SentTyped
<1>. QED
  BY <1>1, <1>3, <1>4, <1>5 DEF SentTyped

LEMMA TypedAccounts == AuthTyped /\ SentTyped => Auth!TypeOK
<1>. SUFFICES ASSUME AuthTyped, SentTyped PROVE Auth!TypeOK
  OBVIOUS
<1>1. ASSUME NEW e \in Emails, Auth!Exists(e)
      PROVE  /\ users[e].id \in 1..minted /\ users[e].role \in Auth!Roles
             /\ users[e].password \in Keys
             /\ users[e].vToken \in 0..minted /\ users[e].rToken \in 0..minted
             /\ users[e].vAge \in Auth!Ages /\ users[e].rAge \in Auth!Ages
             /\ users[e].role # "ADMIN" => users[e].profile
  <2>1. users[e] \in UserRows(minted)
    BY <1>1 DEF AuthTyped, Auth!Exists, Auth!NoUser
  <2>2. users[e].role # "ADMIN" => users[e].profile
    BY <2>1, Zenon DEF UserRows
  <2>. QED
    BY <2>1, <2>2 DEF UserRows
<1>2. ASSUME NEW n \in DOMAIN challenges
      PROVE  /\ challenges[n].email \in Emails /\ challenges[n].code \in n..minted
             /\ challenges[n].age \in Auth!Ages /\ challenges[n].resends \in 0..MaxResends
  BY DEF AuthTyped, Challenges
<1>3. \A m \in mailed : m.to \in Emails /\ m.token \in 1..minted
  BY DEF SentTyped, Mail
<1>4. \A c \in Handlers : signIn[c].pc \in Auth!CallStates
  BY DEF AuthTyped, SignInType, Auth!CallStates
<1>. QED
  BY <1>1, <1>2, <1>3, <1>4, BoundsAssumption DEF AuthTyped, SentTyped, Auth!TypeOK

LEMMA AccountsTyped == Auth!Spec => []Auth!TypeOK
<1>1. Auth!Init => AuthTyped /\ SentTyped
  BY InitAuthTyped, BoundsAssumption DEF Auth!Init, SentTyped
<1>2. AuthTyped /\ SentTyped /\ [Auth!Next]_(Auth!vars) => AuthTyped' /\ SentTyped'
  BY NextAuthTyped, NextSentTyped DEF authVars, Auth!vars, Auth!history
<1>. QED
  BY <1>1, <1>2, TypedAccounts, PTL DEF Auth!Spec
-----------------------------------------------------------------------------
(* A code opens one session.                                               *)

Admits(c, n) == signIn[c].pc = "admit" /\ signIn[c].challenge = n

(* A challenge, and the one request that took it, have opened nothing yet. *)
CodeInv ==
  /\ opened \in [1..MaxMinted -> {0, 1}]
  /\ \A n \in 1..MaxMinted : n > minted => opened[n] = 0
  /\ \A n \in 1..MaxMinted : n \in DOMAIN challenges => opened[n] = 0
  /\ \A c \in Handlers : \A n \in 1..MaxMinted :
       Admits(c, n) => /\ n \notin DOMAIN challenges /\ opened[n] = 0
                       /\ \A d \in Handlers : Admits(d, n) => d = c

LEMMA NewAdmissions ==
  ASSUME AuthTyped, [Auth!Next]_authVars, NEW c \in Handlers, NEW n, Admits(c, n)'
  PROVE  \/ Admits(c, n)
         \/ /\ n \in DOMAIN challenges /\ n \notin DOMAIN challenges' /\ UNCHANGED opened
            /\ \A d \in Handlers \ {c} : signIn'[d] = signIn[d]
<1>1. signIn \in [Handlers -> SignInType(minted)]
  BY DEF AuthTyped
<1>2. CASE signIn' = signIn
  BY <1>2 DEF Admits
<1>3. CASE signIn' = [d \in Handlers |-> Auth!Idle]
  BY <1>3 DEF Admits, Auth!Idle
<1>4. ASSUME NEW h \in Handlers, NEW next \in SignInType(minted'), signIn' = [signIn EXCEPT ![h] = next], Becomes(h, next)
      PROVE  \/ Admits(c, n)
             \/ /\ n \in DOMAIN challenges /\ n \notin DOMAIN challenges' /\ UNCHANGED opened
                /\ \A d \in Handlers \ {c} : signIn'[d] = signIn[d]
  BY <1>1, <1>4 DEF Admits, Becomes
<1>. QED
  BY <1>2, <1>3, <1>4, SignInWritten

LEMMA NextCode ==
  ASSUME AuthTyped, CodeInv, [Auth!Next]_authVars
  PROVE  CodeInv'
<1>1. minted \in Nat /\ minted' \in Nat /\ (minted' = minted \/ minted' = minted + 1)
  BY MintedGrows DEF AuthTyped
<1>2. /\ DOMAIN challenges \subseteq 1..minted /\ signIn \in [Handlers -> SignInType(minted)]
      /\ \A k \in DOMAIN challenges' : k \in DOMAIN challenges \/ (k = minted' /\ minted' = minted + 1)
  BY ChallengesWritten DEF AuthTyped
<1>3. ASSUME NEW c \in Handlers, NEW n, Admits(c, n)
      PROVE  n \in 1..minted
  BY <1>3, CallFields DEF Admits
<1>4. ASSUME opened' = opened
      PROVE  CodeInv'
  <2>1. opened' \in [1..MaxMinted -> {0, 1}] /\ \A n \in 1..MaxMinted : n > minted' => opened'[n] = 0
    BY <1>1, <1>4 DEF CodeInv
  <2>2. \A n \in 1..MaxMinted : n \in DOMAIN challenges' => opened'[n] = 0
    BY <1>1, <1>2, <1>4 DEF CodeInv
  <2>3. ASSUME NEW c \in Handlers, NEW n \in 1..MaxMinted, Admits(c, n)'
        PROVE  /\ n \notin DOMAIN challenges' /\ opened'[n] = 0
               /\ \A d \in Handlers : Admits(d, n)' => d = c
    <3>1. CASE Admits(c, n)
      <4>1. n \in 1..minted /\ n \notin DOMAIN challenges /\ opened[n] = 0
        BY <1>3, <3>1 DEF CodeInv
      <4>2. ASSUME NEW d \in Handlers, Admits(d, n)'
            PROVE  d = c
        BY <3>1, <4>1, <4>2, NewAdmissions DEF CodeInv
      <4>. QED
        BY <1>1, <1>2, <1>4, <4>1, <4>2
    <3>2. CASE ~Admits(c, n)
      <4>1. /\ n \in DOMAIN challenges /\ n \notin DOMAIN challenges'
            /\ \A d \in Handlers \ {c} : signIn'[d] = signIn[d]
        BY <2>3, <3>2, NewAdmissions
      <4>2. ASSUME NEW d \in Handlers, Admits(d, n)'
            PROVE  d = c
        BY <4>1, <4>2 DEF CodeInv, Admits
      <4>. QED
        BY <1>4, <4>1, <4>2 DEF CodeInv
    <3>. QED
      BY <3>1, <3>2
  <2>. QED
    BY <2>1, <2>2, <2>3 DEF CodeInv
<1>5. ASSUME NEW c \in Handlers, Auth!AdmitAdmin(c), opened' # opened
      PROVE  CodeInv'
  <2>1. PICK n \in 1..minted : n = signIn[c].challenge /\ Admits(c, n)
    BY <1>5, CallFields DEF Auth!AdmitAdmin, Auth!At, Admits
  <2>2. UNCHANGED <<challenges, minted>> /\ signIn' = [signIn EXCEPT ![c] = Auth!Idle]
    BY <1>5 DEF Auth!AdmitAdmin, Auth!Return
  <2>3. opened' = [opened EXCEPT ![n] = opened[n] + 1]
    BY <1>5, <2>1 DEF Auth!AdmitAdmin
  <2>4. n \in 1..MaxMinted
    BY <1>5, <2>3 DEF CodeInv
  <2>5. opened[n] = 0 /\ n \notin DOMAIN challenges /\ \A d \in Handlers : Admits(d, n) => d = c
    BY <2>1, <2>4 DEF CodeInv
  <2>6. opened' \in [1..MaxMinted -> {0, 1}] /\ opened'[n] = 1 /\ \A k \in 1..MaxMinted \ {n} : opened'[k] = opened[k]
    BY <2>3, <2>4, <2>5 DEF CodeInv
  <2>7. \A d \in Handlers : \A k \in 1..MaxMinted : Admits(d, k)' => d # c /\ Admits(d, k)
    BY <1>2, <2>2 DEF Admits, Auth!Idle
  <2>. QED
    BY <1>1, <2>1, <2>2, <2>5, <2>6, <2>7 DEF CodeInv
<1>. QED
  BY <1>4, <1>5, HistoryWritten

(* A code mailed to an admin opens one session at most, however it is      *)
(* entered, resent and expired by requests that overlap, and whatever      *)
(* happens to the account in between (verifyAdmin2fa).                     *)
THEOREM CodeOpensOnce == Auth!Spec => []CodeOpensOneSession
<1>1. Auth!Init => CodeInv
  BY DEF Auth!Init, CodeInv, Admits, Auth!Idle
<1>2. AuthTyped /\ CodeInv /\ [Auth!Next]_(Auth!vars) => CodeInv'
  BY NextCode DEF authVars, Auth!vars, Auth!history
<1>3. CodeInv => CodeOpensOneSession
  BY DEF CodeInv, CodeOpensOneSession, Auth!CodeOpensOneSession
<1>. QED
  BY <1>1, <1>2, <1>3, AuthIsTyped, PTL DEF Auth!Spec

-----------------------------------------------------------------------------
(* A spent reset link is refused.                                          *)

Holds(e, token) == users[e] # Auth!NoUser /\ users[e].rToken = token

Resetting(c, e, id, token) ==
  /\ signIn[c].pc = "set-password" /\ signIn[c].by = "reset"
  /\ signIn[c].email = e /\ signIn[c].id = id /\ signIn[c].token = token

(* A token is held by one account, and who is about to spend one will clear *)
(* it there.                                                                *)
ResetInv ==
  /\ \A e \in Emails : \A t \in 1..minted : Holds(e, t) => t \notin spent
  /\ \A e, f \in Emails : \A t \in 1..minted : Holds(e, t) /\ Holds(f, t) => e = f
  /\ \A c \in Handlers : \A e, f \in Emails : \A id, t \in 1..minted :
       Resetting(c, e, id, t) /\ Holds(f, t) => f = e /\ users[f].id = id

LEMMA TokensMove ==
  ASSUME AuthTyped, [Auth!Next]_authVars, NEW e \in Emails, NEW t \in 1..minted', Holds(e, t)'
  PROVE  \/ t \in 1..minted /\ Holds(e, t) /\ users'[e].id = users[e].id
         \/ t = minted + 1 /\ t = minted' /\ \A f \in Emails \ {e} : users'[f] = users[f]
<1>1. /\ minted \in Nat /\ (minted' = minted \/ minted' = minted + 1)
      /\ users \in [Emails -> {Auth!NoUser} \cup UserRows(minted)]
  BY MintedGrows DEF AuthTyped
<1>2. ASSUME Holds(e, t)
      PROVE  t \in 1..minted
  BY <1>1, <1>2 DEF Holds, UserRows
<1>3. CASE users'[e] = users[e]
  BY <1>2, <1>3 DEF Holds
<1>4. ASSUME NEW h \in Emails, NEW u \in {Auth!NoUser} \cup UserRows(minted'), users' = [users EXCEPT ![h] = u],
             Writes(h, u), users'[e] # users[e]
      PROVE  \/ t \in 1..minted /\ Holds(e, t) /\ users'[e].id = users[e].id
             \/ t = minted + 1 /\ t = minted' /\ \A f \in Emails \ {e} : users'[f] = users[f]
  <2>1. h = e /\ users'[e] = u /\ \A f \in Emails \ {e} : users'[f] = users[f]
    BY <1>1, <1>4
  <2>2. u # Auth!NoUser /\ u.rToken = t
    BY <2>1 DEF Holds
  <2>. QED
    BY <1>2, <1>4, <2>1, <2>2 DEF Writes, Holds
<1>. QED
  BY <1>3, <1>4, UsersWritten

LEMMA NewResets ==
  ASSUME AuthTyped, [Auth!Next]_authVars,
         NEW c \in Handlers, NEW e, NEW id, NEW t, Resetting(c, e, id, t)'
  PROVE  \/ Resetting(c, e, id, t)
         \/ UNCHANGED <<users, spent>> /\ Holds(e, t) /\ users[e].id = id
<1>1. signIn \in [Handlers -> SignInType(minted)]
  BY DEF AuthTyped
<1>2. CASE signIn' = signIn
  BY <1>2 DEF Resetting
<1>3. CASE signIn' = [d \in Handlers |-> Auth!Idle]
  BY <1>3 DEF Resetting, Auth!Idle
<1>4. ASSUME NEW h \in Handlers, NEW next \in SignInType(minted'), signIn' = [signIn EXCEPT ![h] = next], Becomes(h, next)
      PROVE  \/ Resetting(c, e, id, t)
             \/ UNCHANGED <<users, spent>> /\ Holds(e, t) /\ users[e].id = id
  <2>1. CASE h # c
    BY <1>1, <1>4, <2>1 DEF Resetting
  <2>2. CASE h = c
    <3>1. next.pc = "set-password" /\ next.by = "reset" /\ next.email = e /\ next.id = id /\ next.token = t
      BY <1>1, <1>4, <2>2 DEF Resetting
    <3>. QED
      BY <1>4, <3>1 DEF Becomes, Holds, Auth!Exists, Auth!NoUser, Auth!None
  <2>. QED
    BY <2>1, <2>2
<1>. QED
  BY <1>2, <1>3, <1>4, SignInWritten

LEMMA NextReset ==
  ASSUME AuthTyped, ResetInv, [Auth!Next]_authVars
  PROVE  ResetInv'
<1>1. /\ minted \in Nat /\ minted' \in Nat /\ (minted' = minted \/ minted' = minted + 1)
      /\ spent \subseteq 1..minted /\ users \in [Emails -> {Auth!NoUser} \cup UserRows(minted)]
  BY MintedGrows DEF AuthTyped
<1>2. ASSUME NEW e \in Emails, NEW f \in Emails, NEW t \in 1..minted', Holds(e, t)', Holds(f, t)'
      PROVE  e = f
  <2>1. CASE t \in 1..minted
    BY <1>1, <1>2, <2>1, TokensMove DEF ResetInv
  <2>2. CASE t = minted + 1 /\ e # f
    <3>1. users'[e] = users[e]
      BY <1>1, <1>2, <2>2, TokensMove
    <3>2. users[e] \in UserRows(minted) /\ users[e].rToken = minted + 1
      BY <1>1, <1>2, <2>2, <3>1 DEF Holds
    <3>. QED
      BY <1>1, <3>2 DEF UserRows
  <2>. QED
    BY <1>1, <2>1, <2>2
<1>3. ASSUME NEW c \in Handlers, NEW e \in Emails, NEW f \in Emails, NEW id \in 1..minted', NEW t \in 1..minted',
             Resetting(c, e, id, t)', Holds(f, t)'
      PROVE  f = e /\ users'[f].id = id
  <2>1. CASE Resetting(c, e, id, t)
    <3>1. id \in 1..minted /\ t \in 1..minted
      BY <2>1, CallFields DEF Resetting
    <3>2. Holds(f, t) /\ users'[f].id = users[f].id
      BY <1>1, <1>3, <3>1, TokensMove
    <3>. QED
      BY <2>1, <3>1, <3>2 DEF ResetInv
  <2>2. CASE users' = users /\ Holds(e, t) /\ users[e].id = id
    BY <1>2, <1>3, <2>2 DEF Holds
  <2>. QED
    BY <1>3, <2>1, <2>2, NewResets
<1>4. ASSUME NEW e \in Emails, NEW t \in 1..minted', Holds(e, t)'
      PROVE  t \notin spent'
  <2>1. t \notin spent
    BY <1>1, <1>4, TokensMove DEF ResetInv
  <2>2. ASSUME NEW c \in Handlers, Auth!UpdatePassword(c), signIn[c].by = "reset"
        PROVE  t # signIn[c].token
    <3>1. PICK g \in Emails, id \in 1..minted, s \in 1..minted : Resetting(c, g, id, s) /\ s = signIn[c].token
      BY <2>2, CallFields DEF Auth!UpdatePassword, Auth!At, Resetting
    <3>2. CASE t = s
      <4>1. Holds(e, t) /\ users'[e].id = users[e].id
        BY <1>1, <1>4, <3>2, TokensMove
      <4>2. e = g /\ users[e].id = id
        BY <3>1, <3>2, <4>1 DEF ResetInv
      <4>3. users' = [users EXCEPT ![e] = [users[e] EXCEPT !.password = signIn[c].password, !.rToken = 0]]
        BY <2>2, <3>1, <4>2 DEF Auth!UpdatePassword, Auth!Update, Resetting, Auth!None
      <4>4. users[e] \in UserRows(minted)
        BY <1>1, <4>1 DEF Holds
      <4>5. users'[e].rToken = 0
        BY <1>1, <4>3, <4>4 DEF UserRows
      <4>. QED
        BY <1>4, <4>5 DEF Holds
    <3>. QED
      BY <3>1, <3>2
  <2>3. ASSUME NEW c \in Handlers, Auth!UpdatePassword(c), NEW g \in Emails, g = signIn[c].email,
               users[g].id = signIn[c].id, users[g].rToken # 0
        PROVE  t # users[g].rToken
    <3>1. users[g] \in UserRows(minted)
      BY <1>1, <2>3, CallFields DEF Auth!UpdatePassword, Auth!At, Auth!NoUser, Auth!None
    <3>2. users' = [users EXCEPT ![g] = [users[g] EXCEPT !.password = signIn[c].password, !.rToken = 0]]
      BY <2>3 DEF Auth!UpdatePassword, Auth!Update, Auth!None
    <3>3. users'[g].rToken = 0
      BY <1>1, <3>1, <3>2 DEF UserRows
    <3>4. CASE t = users[g].rToken
      <4>1. Holds(e, t) /\ Holds(g, t)
        BY <1>1, <1>4, <3>1, <3>4, TokensMove, UserFields DEF Holds, UserRows, Auth!NoUser, Auth!None
      <4>2. t \in 1..minted
        BY <1>1, <2>3, <3>1, <3>4 DEF UserRows
      <4>3. e = g
        BY <4>1, <4>2 DEF ResetInv
      <4>. QED
        BY <1>4, <3>3, <4>3 DEF Holds
    <3>. QED
      BY <3>4
  <2>4. ASSUME NEW c \in Handlers, Auth!UpdatePassword(c)
        PROVE  t \notin Auth!Spends(c)
    BY <2>2, <2>3, <2>4, CallFields DEF Auth!Spends, Auth!UpdatePassword, Auth!At, Auth!None
  <2>5. ASSUME NEW c \in Handlers, Auth!UpdatePassword(c)
        PROVE  spent' = spent \cup Auth!Spends(c)
    BY <2>5 DEF Auth!UpdatePassword
  <2>. QED
    BY <2>1, <2>4, <2>5, HistoryWritten
<1>. QED
  BY <1>2, <1>3, <1>4 DEF ResetInv

(* Once a password was set, by a reset or in a session, every link the     *)
(* account had then is refused by any reset that begins afterwards,        *)
(* whatever requests, deletions and new accounts come in between           *)
(* (resetPassword, updatePassword).  It says nothing of two resets that    *)
(* overlap: both may set a password with one link.                         *)
THEOREM SpentLinksAreRefused == Auth!Spec => SpentResetLinkIsRefused
<1>1. Auth!Init => ResetInv
  BY DEF Auth!Init, ResetInv, Holds, Resetting, Auth!Idle
<1>2. AuthTyped /\ ResetInv /\ [Auth!Next]_(Auth!vars) => ResetInv'
  BY NextReset DEF authVars, Auth!vars, Auth!history
<1>3. AuthTyped /\ AuthTyped' /\ ResetInv /\ [Auth!Next]_(Auth!vars) =>
        [Auth!RefusesSpentLinks]_(Auth!vars)
  <2>. SUFFICES ASSUME AuthTyped, AuthTyped', ResetInv, [Auth!Next]_authVars,
                       NEW c \in Handlers, NEW t \in spent, Auth!Resets(c, t)'
                PROVE  Auth!Resets(c, t)
    BY DEF authVars, Auth!vars, Auth!history, Auth!RefusesSpentLinks
  <2>1. PICK e, id : Resetting(c, e, id, t)'
    BY DEF Auth!Resets, Auth!At, Resetting
  <2>2. CASE Resetting(c, e, id, t)
    BY <2>2 DEF Auth!Resets, Auth!At, Resetting
  <2>3. CASE Holds(e, t) /\ e \in Emails
    BY <2>3 DEF ResetInv, AuthTyped
  <2>4. e \in Emails
    BY <2>1, CallFields DEF Resetting, AuthTyped, SignInType
  <2>. QED
    BY <2>1, <2>2, <2>3, <2>4, NewResets
<1>. QED
  BY <1>1, <1>2, <1>3, AuthIsTyped, PTL DEF Auth!Spec, SpentResetLinkIsRefused, Auth!SpentResetLinkIsRefused

-----------------------------------------------------------------------------
(* SubmissionIntake: an applicant has a title.                             *)

(* A profile is complete only with a title, a request that writes it knows *)
(* of one, and whoever is about to apply has one.                          *)
TitleInv ==
  /\ titled \in BOOLEAN
  /\ complete => titled
  /\ \A c \in Handlers :
       /\ Intake!At(c, "profile") => (call[c].complete => titled \/ call[c].withTitle)
       /\ call[c].pc \in {"apply-job", "apply-withdrawn", "apply-insert"} => titled
  /\ DOMAIN subs # {} => titled

LEMMA InitTitle == Intake!Init => TitleInv /\ DOMAIN call = Handlers
<1>. SUFFICES ASSUME Intake!Init PROVE TitleInv /\ DOMAIN call = Handlers
  OBVIOUS
<1>1. titled = FALSE /\ complete = FALSE /\ subs = <<>>
  BY DEF Intake!Init
<1>2. DOMAIN call = Handlers /\ \A c \in Handlers : call[c].pc = "idle"
  BY DEF Intake!Init, Intake!Idle
<1>3. titled \in BOOLEAN /\ ~complete
  BY <1>1, Zenon
<1>. QED
  BY <1>1, <1>2, <1>3 DEF TitleInv, Intake!At

(* Requests that neither write the profile nor apply leave the rest of     *)
(* them alone and become something else.                                   *)
OtherRequest(c) ==
  \/ \E s \in DOMAIN subs :
       \/ \E reported \in BOOLEAN : Intake!SubmitAnswers(c, s, reported)
       \/ Intake!Withdraw(c, s) \/ Intake!Unlock(c, s)
       \/ \E uphold \in BOOLEAN : Intake!ReviewAntiCheatFlag(c, s, uphold)
       \/ \E selected, asAdmin \in BOOLEAN : Intake!UpdateSelectionStatus(c, s, selected, asAdmin)
  \/ \E n \in DOMAIN notices : Intake!MarkRead(c, n)
  \/ Intake!MarkAllRead(c) \/ Intake!SelectionWrite(c) \/ Intake!NotifySelected(c) \/ Intake!SaveAnswers(c)
  \/ Intake!RequestFails(c)

LEMMA OtherRequests ==
  ASSUME NEW c \in Handlers, OtherRequest(c), DOMAIN call = Handlers
  PROVE  /\ UNCHANGED <<titled, complete>> /\ DOMAIN subs' = DOMAIN subs
         /\ DOMAIN call' = Handlers /\ \A d \in Handlers \ {c} : call'[d] = call[d]
         /\ call'[c].pc \in {"idle", "save", "select", "notify"}
<1>1. UNCHANGED <<titled, complete>> /\ DOMAIN subs' = DOMAIN subs
  BY DEF OtherRequest, Intake!SubmitAnswers, Intake!Withdraw, Intake!Unlock, Intake!ReviewAntiCheatFlag,
     Intake!UpdateSelectionStatus, Intake!MarkRead, Intake!MarkAllRead, Intake!SelectionWrite,
     Intake!NotifySelected, Intake!SaveAnswers, Intake!RequestFails
<1>2. CASE \/ \E s \in DOMAIN subs :
                \/ \E reported \in BOOLEAN : Intake!SubmitAnswers(c, s, reported)
                \/ \E selected, asAdmin \in BOOLEAN : Intake!UpdateSelectionStatus(c, s, selected, asAdmin)
           \/ Intake!SelectionWrite(c)
  BY <1>2 DEF Intake!SubmitAnswers, Intake!UpdateSelectionStatus, Intake!SelectionWrite, Intake!Start, Intake!Return,
     Intake!Become, Intake!Idle
<1>3. CASE \/ \E s \in DOMAIN subs :
                \/ Intake!Withdraw(c, s) \/ Intake!Unlock(c, s)
                \/ \E uphold \in BOOLEAN : Intake!ReviewAntiCheatFlag(c, s, uphold)
           \/ \E n \in DOMAIN notices : Intake!MarkRead(c, n)
           \/ Intake!MarkAllRead(c) \/ Intake!NotifySelected(c) \/ Intake!SaveAnswers(c) \/ Intake!RequestFails(c)
  <2>1. call' = [call EXCEPT ![c] = Intake!Idle]
    BY <1>3 DEF Intake!Withdraw, Intake!Unlock, Intake!ReviewAntiCheatFlag, Intake!MarkRead, Intake!MarkAllRead,
       Intake!NotifySelected, Intake!SaveAnswers, Intake!RequestFails, Intake!Start, Intake!Return, Intake!Become
  <2>. QED
    BY <1>1, <2>1 DEF Intake!Idle
<1>. QED
  BY <1>1, <1>2, <1>3 DEF OtherRequest

LEMMA NextTitle ==
  ASSUME TitleInv, DOMAIN call = Handlers, [Intake!Next]_intakeVars
  PROVE  TitleInv' /\ DOMAIN call' = Handlers
<1>1. CASE UNCHANGED intakeVars
  BY <1>1 DEF intakeVars, TitleInv, Intake!At
<1>2. CASE Intake!CloseJob \/ \E s \in DOMAIN subs :
             \/ Intake!Heartbeat(s) \/ Intake!HeartbeatsStop(s)
             \/ \E new \in {"GRADED", "GRADING_FAILED"} : Intake!Graded(s, new)
  <2>1. UNCHANGED <<titled, complete, call>> /\ DOMAIN subs' = DOMAIN subs
    BY <1>2 DEF Intake!CloseJob, Intake!Heartbeat, Intake!HeartbeatsStop, Intake!Graded
  <2>. QED
    BY <2>1 DEF TitleInv, Intake!At
<1>3. ASSUME NEW c \in Handlers, OtherRequest(c)
      PROVE  TitleInv' /\ DOMAIN call' = Handlers
  BY <1>3, OtherRequests DEF TitleInv, Intake!At
<1>4. ASSUME NEW c \in Handlers, NEW withTitle \in BOOLEAN, Intake!UpdateProfile(c, withTitle)
      PROVE  TitleInv' /\ DOMAIN call' = Handlers
  BY <1>4 DEF TitleInv, Intake!At, Intake!UpdateProfile, Intake!Start
<1>5. ASSUME NEW c \in Handlers, Intake!ProfileWrite(c)
      PROVE  TitleInv' /\ DOMAIN call' = Handlers
  BY <1>5 DEF TitleInv, Intake!At, Intake!ProfileWrite, Intake!Return, Intake!Become, Intake!Idle
<1>6. ASSUME NEW c \in Handlers, Intake!Apply(c) \/ Intake!ApplyReadJob(c) \/ Intake!ApplyReadWithdrawn(c)
      PROVE  TitleInv' /\ DOMAIN call' = Handlers
  BY <1>6 DEF TitleInv, Intake!At, Intake!Apply, Intake!ApplyReadJob, Intake!ApplyReadWithdrawn, Intake!Start,
     Intake!Return, Intake!Become, Intake!Idle
<1>7. ASSUME NEW c \in Handlers, Intake!ApplyInsert(c)
      PROVE  TitleInv' /\ DOMAIN call' = Handlers
  BY <1>7 DEF TitleInv, Intake!At, Intake!ApplyInsert, Intake!Return, Intake!Become, Intake!Idle
<1>. QED
  BY <1>1, <1>2, <1>3, <1>4, <1>5, <1>6, <1>7 DEF Intake!Next, Intake!Request, Intake!Continue, OtherRequest

-----------------------------------------------------------------------------
(* SubmissionIntake: types.                                                *)

Rows == [status : Intake!Statuses, submitted : BOOLEAN, stale : BOOLEAN, flagged : BOOLEAN]
Notices == [sub : Nat, read : BOOLEAN]

CallType(n) ==
  [pc : {"idle", "apply-job", "apply-withdrawn", "apply-insert"}]
    \cup [pc : {"profile"}, withTitle : BOOLEAN, complete : BOOLEAN]
    \cup [pc : {"save"}, sub : 1..n, flagged : BOOLEAN]
    \cup [pc : {"select"}, sub : 1..n, selected : BOOLEAN, wasSelected : BOOLEAN]
    \cup [pc : {"notify"}, sub : 1..n]

IntakeTyped ==
  /\ titled \in BOOLEAN /\ complete \in BOOLEAN
  /\ subs \in Seq(Rows) /\ notices \in Seq(Notices)
  /\ \A n \in DOMAIN notices : notices[n].sub \in DOMAIN subs
  /\ silent \subseteq DOMAIN subs /\ unlocked \subseteq DOMAIN subs
  /\ call \in [Handlers -> CallType(Len(subs))]

(* A submission's row is written, none is added.                           *)
LEMMA RowWritten ==
  ASSUME subs \in Seq(Rows), NEW s \in DOMAIN subs, NEW r \in Rows, subs' = [subs EXCEPT ![s] = r]
  PROVE  /\ subs' \in Seq(Rows) /\ Len(subs') = Len(subs) /\ DOMAIN subs' = DOMAIN subs
         /\ subs'[s] = r /\ \A t \in DOMAIN subs \ {s} : subs'[t] = subs[t]
BY ExceptSeq

LEMMA RowEdits ==
  ASSUME NEW old \in Rows
  PROVE  /\ \A b \in BOOLEAN : \E r \in Rows : r = [old EXCEPT !.stale = b] /\ r.status = old.status
         /\ \A b, f \in BOOLEAN : \E r \in Rows :
              r = [old EXCEPT !.submitted = b, !.flagged = f] /\ r.status = old.status
         /\ \A st \in Intake!Statuses : \E r \in Rows : r = [old EXCEPT !.status = st] /\ r.status = st
         /\ \A st \in Intake!Statuses, f \in BOOLEAN : \E r \in Rows :
              r = [old EXCEPT !.status = st, !.flagged = f] /\ r.status = st
<1>1. ASSUME NEW b \in BOOLEAN
      PROVE  [old EXCEPT !.stale = b] \in Rows /\ [old EXCEPT !.stale = b].status = old.status
  BY DEF Rows
<1>2. ASSUME NEW b \in BOOLEAN, NEW f \in BOOLEAN
      PROVE  /\ [old EXCEPT !.submitted = b, !.flagged = f] \in Rows
             /\ [old EXCEPT !.submitted = b, !.flagged = f].status = old.status
  BY DEF Rows
<1>3. ASSUME NEW st \in Intake!Statuses
      PROVE  [old EXCEPT !.status = st] \in Rows /\ [old EXCEPT !.status = st].status = st
  BY DEF Rows
<1>4. ASSUME NEW st \in Intake!Statuses, NEW f \in BOOLEAN
      PROVE  /\ [old EXCEPT !.status = st, !.flagged = f] \in Rows
             /\ [old EXCEPT !.status = st, !.flagged = f].status = st
  BY DEF Rows
<1>. QED
  BY <1>1, <1>2, <1>3, <1>4

LEMMA SubsWritten ==
  ASSUME IntakeTyped, [Intake!Next]_intakeVars
  PROVE  \/ subs' = subs
         \/ \E s \in DOMAIN subs, r \in Rows :
              /\ subs' = [subs EXCEPT ![s] = r]
              /\ \/ r.status # "SELECTED" \/ subs[s].status = "SELECTED"
                 \/ \E c \in Handlers : Intake!SelectionWrite(c) /\ call[c].selected /\ call[c].sub = s
         \/ \E c \in Handlers : Intake!ApplyInsert(c)
<1>1. subs \in Seq(Rows) /\ call \in [Handlers -> CallType(Len(subs))] /\ DOMAIN subs = 1..Len(subs)
  BY DEF IntakeTyped
<1>2. ASSUME NEW s \in DOMAIN subs, Intake!Heartbeat(s) \/ Intake!HeartbeatsStop(s)
      PROVE  \E r \in Rows : subs' = [subs EXCEPT ![s] = r] /\ r.status = subs[s].status
  <2>1. PICK b \in BOOLEAN : subs' = [subs EXCEPT ![s].stale = b]
    BY <1>2 DEF Intake!Heartbeat, Intake!HeartbeatsStop
  <2>2. PICK old \in Rows : old = subs[s]
    BY <1>1
  <2>3. subs' = [subs EXCEPT ![s] = [old EXCEPT !.stale = b]]
    BY <2>1, <2>2
  <2>4. PICK r \in Rows : r = [old EXCEPT !.stale = b] /\ r.status = old.status
    BY RowEdits
  <2>. QED
    BY <2>2, <2>3, <2>4
<1>3. ASSUME NEW s \in DOMAIN subs, NEW st \in Intake!Statuses, st # "SELECTED",
             subs' = [subs EXCEPT ![s].status = st] \/ subs' = [subs EXCEPT ![s].status = st, ![s].flagged = FALSE]
      PROVE  \E r \in Rows : subs' = [subs EXCEPT ![s] = r] /\ r.status # "SELECTED"
  <2>1. PICK old \in Rows : old = subs[s]
    BY <1>1
  <2>2. FALSE \in BOOLEAN
    BY Zenon
  <2>3. CASE subs' = [subs EXCEPT ![s].status = st]
    <3>1. subs' = [subs EXCEPT ![s] = [old EXCEPT !.status = st]]
      BY <2>1, <2>3
    <3>2. PICK r \in Rows : r = [old EXCEPT !.status = st] /\ r.status = st
      BY RowEdits
    <3>. QED
      BY <1>3, <3>1, <3>2
  <2>4. CASE subs' = [subs EXCEPT ![s].status = st, ![s].flagged = FALSE]
    <3>1. subs' = [subs EXCEPT ![s] = [old EXCEPT !.status = st, !.flagged = FALSE]]
      BY <1>1, <2>1, <2>4
    <3>2. PICK r \in Rows : r = [old EXCEPT !.status = st, !.flagged = FALSE] /\ r.status = st
      BY <2>2, RowEdits
    <3>. QED
      BY <1>3, <3>1, <3>2
  <2>. QED
    BY <1>3, <2>3, <2>4
<1>4. ASSUME NEW s \in DOMAIN subs,
             \/ \E new \in {"GRADED", "GRADING_FAILED"} : Intake!Graded(s, new)
             \/ \E c \in Handlers : \/ Intake!Withdraw(c, s)
                                   \/ \E uphold \in BOOLEAN : Intake!ReviewAntiCheatFlag(c, s, uphold)
      PROVE  \E r \in Rows : subs' = [subs EXCEPT ![s] = r] /\ r.status # "SELECTED"
  <2>1. \E st \in Intake!Statuses \ {"SELECTED"} :
          subs' = [subs EXCEPT ![s].status = st] \/ subs' = [subs EXCEPT ![s].status = st, ![s].flagged = FALSE]
    BY <1>4 DEF Intake!Graded, Intake!Withdraw, Intake!ReviewAntiCheatFlag, Intake!Statuses, Intake!Withdrawable
  <2>. QED
    BY <1>3, <2>1
<1>5. ASSUME NEW c \in Handlers, Intake!SelectionWrite(c)
      PROVE  \E s \in DOMAIN subs, r \in Rows :
               /\ subs' = [subs EXCEPT ![s] = r] /\ call[c].sub = s
               /\ r.status # "SELECTED" \/ call[c].selected
  <2>1. PICK s \in DOMAIN subs : s = call[c].sub
    BY <1>1, <1>5 DEF Intake!SelectionWrite, Intake!At, CallType
  <2>2. PICK old \in Rows : old = subs[s]
    BY <1>1
  <2>3. PICK st : st = IF call[c].selected THEN "SELECTED" ELSE "GRADED"
    OBVIOUS
  <2>4. st \in Intake!Statuses
    BY <2>3 DEF Intake!Statuses, Intake!Withdrawable
  <2>5. st # "SELECTED" \/ call[c].selected
    BY <2>3
  <2>6. subs' = [subs EXCEPT ![s] = [old EXCEPT !.status = st]]
    BY <1>5, <2>1, <2>2, <2>3 DEF Intake!SelectionWrite
  <2>7. \A to \in Intake!Statuses : \E r \in Rows : r = [old EXCEPT !.status = to] /\ r.status = to
    BY RowEdits, Zenon
  <2>8. PICK r \in Rows : r = [old EXCEPT !.status = st] /\ r.status = st
    BY <2>4, <2>7, Zenon
  <2>. QED
    BY <2>1, <2>5, <2>6, <2>8
<1>6. ASSUME NEW c \in Handlers, Intake!SaveAnswers(c)
      PROVE  \E s \in DOMAIN subs, r \in Rows : subs' = [subs EXCEPT ![s] = r] /\ r.status = subs[s].status
  <2>1. PICK s \in DOMAIN subs, f \in BOOLEAN : s = call[c].sub /\ f = call[c].flagged
    BY <1>1, <1>6 DEF Intake!SaveAnswers, Intake!At, CallType
  <2>2. PICK old \in Rows : old = subs[s]
    BY <1>1
  <2>3. subs' = [subs EXCEPT ![s] = [old EXCEPT !.submitted = TRUE, !.flagged = f]]
    BY <1>1, <1>6, <2>1, <2>2 DEF Intake!SaveAnswers
  <2>4. TRUE \in BOOLEAN
    BY Zenon
  <2>5. PICK r \in Rows : r = [old EXCEPT !.submitted = TRUE, !.flagged = f] /\ r.status = old.status
    BY <2>4, RowEdits
  <2>. QED
    BY <2>2, <2>3, <2>5
<1>7. \/ subs' = subs
      \/ \E s \in DOMAIN subs : Intake!Heartbeat(s) \/ Intake!HeartbeatsStop(s)
      \/ \E s \in DOMAIN subs :
           \/ \E new \in {"GRADED", "GRADING_FAILED"} : Intake!Graded(s, new)
           \/ \E c \in Handlers : \/ Intake!Withdraw(c, s)
                                 \/ \E uphold \in BOOLEAN : Intake!ReviewAntiCheatFlag(c, s, uphold)
      \/ \E c \in Handlers : Intake!SelectionWrite(c) \/ Intake!SaveAnswers(c) \/ Intake!ApplyInsert(c)
  BY DEF Intake!Next, Intake!Request, Intake!Continue, Intake!UpdateProfile, Intake!Apply, Intake!SubmitAnswers,
     Intake!Unlock, Intake!UpdateSelectionStatus, Intake!MarkRead, Intake!MarkAllRead, Intake!ProfileWrite,
     Intake!ApplyReadJob, Intake!ApplyReadWithdrawn, Intake!NotifySelected, Intake!RequestFails, Intake!CloseJob,
     intakeVars
<1>. QED
  <2>1. CASE \E s \in DOMAIN subs : Intake!Heartbeat(s) \/ Intake!HeartbeatsStop(s)
    BY <1>2, <2>1
  <2>2. ASSUME NEW c \in Handlers, Intake!SelectionWrite(c)
        PROVE  \E s \in DOMAIN subs, r \in Rows :
                 /\ subs' = [subs EXCEPT ![s] = r]
                 /\ r.status # "SELECTED" \/ (call[c].selected /\ call[c].sub = s)
    BY <1>5, <2>2
  <2>. QED
    BY <1>4, <1>6, <1>7, <2>1, <2>2

LEMMA SubsGrow ==
  ASSUME IntakeTyped, [Intake!Next]_intakeVars
  PROVE  subs' \in Seq(Rows) /\ DOMAIN subs \subseteq DOMAIN subs' /\ Len(subs) <= Len(subs')
<1>1. subs \in Seq(Rows)
  BY DEF IntakeTyped
<1>2. CASE subs' = subs
  BY <1>1, <1>2
<1>3. ASSUME NEW s \in DOMAIN subs, NEW r \in Rows, subs' = [subs EXCEPT ![s] = r]
      PROVE  subs' \in Seq(Rows) /\ DOMAIN subs' = DOMAIN subs /\ Len(subs') = Len(subs)
  BY <1>1, <1>3, RowWritten
<1>4. ASSUME NEW c \in Handlers, Intake!ApplyInsert(c)
      PROVE  subs' \in Seq(Rows) /\ DOMAIN subs \subseteq DOMAIN subs' /\ Len(subs) <= Len(subs')
  <2>1. PICK r \in Rows : r = Intake!NewSubmission
    BY DEF Rows, Intake!NewSubmission, Intake!Statuses, Intake!Withdrawable
  <2>2. subs' = Append(subs, r)
    BY <1>4, <2>1 DEF Intake!ApplyInsert
  <2>. QED
    BY <1>1, <2>2
<1>. QED
  BY <1>1, <1>2, <1>3, <1>4, SubsWritten

LEMMA CallTypeGrows ==
  ASSUME NEW m \in Nat, NEW n \in Nat, m <= n
  PROVE  CallType(m) \subseteq CallType(n)
BY DEF CallType

(* What a request may become.                                              *)
LEMMA RequestBecomes ==
  ASSUME IntakeTyped, NEW h \in Handlers, Intake!Request(h) \/ Intake!Continue(h) \/ Intake!RequestFails(h)
  PROVE  \E next \in CallType(Len(subs)) : call' = [call EXCEPT ![h] = next]
<1>1. /\ call \in [Handlers -> CallType(Len(subs))] /\ titled \in BOOLEAN
      /\ DOMAIN subs = 1..Len(subs)
  BY DEF IntakeTyped
<1>2. Intake!Idle \in CallType(Len(subs))
  BY DEF Intake!Idle, CallType
<1>3. ASSUME NEW c \in Handlers, NEW withTitle \in BOOLEAN, Intake!UpdateProfile(c, withTitle)
      PROVE  \E next \in CallType(Len(subs)) : call' = [call EXCEPT ![c] = next]
  <2>1. PICK b \in BOOLEAN : b = (withTitle \/ titled)
    BY <1>1
  <2>2. call' = [call EXCEPT ![c] = [pc |-> "profile", withTitle |-> withTitle, complete |-> b]]
    BY <1>3, <2>1, Zenon DEF Intake!UpdateProfile, Intake!Start
  <2>3. [pc |-> "profile", withTitle |-> withTitle, complete |-> b] \in CallType(Len(subs))
    BY DEF CallType
  <2>. QED
    BY <2>2, <2>3
<1>4. ASSUME NEW c \in Handlers, NEW s \in DOMAIN subs, NEW reported \in BOOLEAN, Intake!SubmitAnswers(c, s, reported)
      PROVE  \E next \in CallType(Len(subs)) : call' = [call EXCEPT ![c] = next]
  <2>0. subs[s] \in Rows /\ subs[s].stale \in BOOLEAN
    <3>1. subs[s] \in Rows
      BY DEF IntakeTyped
    <3>. QED
      BY <3>1 DEF Rows
  <2>1. PICK b \in BOOLEAN : b = (reported \/ subs[s].stale)
    BY <2>0
  <2>2. call' = [call EXCEPT ![c] = [pc |-> "save", sub |-> s, flagged |-> b]]
    BY <1>4, <2>1, Zenon DEF Intake!SubmitAnswers, Intake!Start
  <2>3. [pc |-> "save", sub |-> s, flagged |-> b] \in CallType(Len(subs))
    BY <1>1 DEF CallType
  <2>. QED
    BY <2>2, <2>3
<1>5. ASSUME NEW c \in Handlers, NEW s \in DOMAIN subs, NEW selected \in BOOLEAN, NEW asAdmin \in BOOLEAN,
             Intake!UpdateSelectionStatus(c, s, selected, asAdmin)
      PROVE  \E next \in CallType(Len(subs)) : call' = [call EXCEPT ![c] = next]
  <2>1. PICK b \in BOOLEAN : b = (subs[s].status = "SELECTED")
    OBVIOUS
  <2>2. call' = [call EXCEPT ![c] = [pc |-> "select", sub |-> s, selected |-> selected, wasSelected |-> b]]
    BY <1>5, <2>1, Zenon DEF Intake!UpdateSelectionStatus, Intake!Start
  <2>3. [pc |-> "select", sub |-> s, selected |-> selected, wasSelected |-> b] \in CallType(Len(subs))
    BY <1>1 DEF CallType
  <2>. QED
    BY <2>2, <2>3
<1>6. ASSUME NEW c \in Handlers, Intake!SelectionWrite(c)
      PROVE  \E next \in CallType(Len(subs)) : call' = [call EXCEPT ![c] = next]
  <2>1. PICK s \in 1..Len(subs) : s = call[c].sub
    BY <1>1, <1>6 DEF Intake!SelectionWrite, Intake!At, CallType
  <2>2. [pc |-> "notify", sub |-> s] \in CallType(Len(subs))
    BY DEF CallType
  <2>3. \/ call' = [call EXCEPT ![c] = [pc |-> "notify", sub |-> s]] \/ call' = [call EXCEPT ![c] = Intake!Idle]
    BY <1>6, <2>1 DEF Intake!SelectionWrite, Intake!Become, Intake!Return
  <2>. QED
    BY <1>2, <2>2, <2>3
<1>7. \A pc \in {"idle", "apply-job", "apply-withdrawn", "apply-insert"} : [pc |-> pc] \in CallType(Len(subs))
  BY DEF CallType
<1>8. ASSUME NEW c \in Handlers, Intake!Apply(c) \/ Intake!ApplyReadJob(c) \/ Intake!ApplyReadWithdrawn(c)
      PROVE  \E next \in CallType(Len(subs)) : call' = [call EXCEPT ![c] = next]
  BY <1>2, <1>7, <1>8
     DEF Intake!Apply, Intake!ApplyReadJob, Intake!ApplyReadWithdrawn, Intake!Start, Intake!Return, Intake!Become
<1>9. ASSUME NEW c \in Handlers,
             \/ Intake!ApplyInsert(c) \/ Intake!SaveAnswers(c) \/ Intake!ProfileWrite(c) \/ Intake!NotifySelected(c)
             \/ Intake!RequestFails(c) \/ Intake!MarkAllRead(c)
             \/ \E n \in DOMAIN notices : Intake!MarkRead(c, n)
             \/ \E s \in DOMAIN subs : \/ Intake!Withdraw(c, s) \/ Intake!Unlock(c, s)
                                       \/ \E uphold \in BOOLEAN : Intake!ReviewAntiCheatFlag(c, s, uphold)
      PROVE  call' = [call EXCEPT ![c] = Intake!Idle]
  BY <1>9 DEF Intake!ApplyInsert, Intake!SaveAnswers, Intake!ProfileWrite, Intake!NotifySelected, Intake!RequestFails,
     Intake!MarkAllRead, Intake!MarkRead, Intake!Withdraw, Intake!Unlock, Intake!ReviewAntiCheatFlag, Intake!Start,
     Intake!Return, Intake!Become
<1>. QED
  BY <1>2, <1>3, <1>4, <1>5, <1>6, <1>8, <1>9 DEF Intake!Request, Intake!Continue

LEMMA CallsWritten ==
  ASSUME IntakeTyped, [Intake!Next]_intakeVars
  PROVE  call' = call \/ \E c \in Handlers, next \in CallType(Len(subs)) : call' = [call EXCEPT ![c] = next]
<1>1. \/ call' = call
      \/ \E c \in Handlers : Intake!Request(c) \/ Intake!Continue(c) \/ Intake!RequestFails(c)
  BY DEF Intake!Next, Intake!Heartbeat, Intake!HeartbeatsStop, Intake!Graded, Intake!CloseJob, intakeVars
<1>. QED
  BY <1>1, RequestBecomes

(* Nobody moves another's request.                                         *)
LEMMA OwnMoves ==
  ASSUME IntakeTyped, [Intake!Next]_intakeVars, NEW c \in Handlers
  PROVE  \/ call'[c] = call[c]
         \/ Intake!Request(c) /\ call[c] = Intake!Idle
         \/ Intake!Continue(c) \/ Intake!RequestFails(c)
<1>1. \/ call' = call
      \/ \E h \in Handlers : Intake!Request(h) \/ Intake!Continue(h) \/ Intake!RequestFails(h)
  BY DEF Intake!Next, Intake!Heartbeat, Intake!HeartbeatsStop, Intake!Graded, Intake!CloseJob, intakeVars
<1>2. ASSUME NEW h \in Handlers, h # c, Intake!Request(h) \/ Intake!Continue(h) \/ Intake!RequestFails(h)
      PROVE  call'[c] = call[c]
  BY <1>2, RequestBecomes DEF IntakeTyped
<1>3. Intake!Request(c) => call[c] = Intake!Idle
  BY DEF Intake!Request, Intake!UpdateProfile, Intake!Apply, Intake!SubmitAnswers, Intake!Withdraw, Intake!Unlock,
     Intake!ReviewAntiCheatFlag, Intake!UpdateSelectionStatus, Intake!MarkRead, Intake!MarkAllRead, Intake!Start
<1>. QED
  BY <1>1, <1>2, <1>3

LEMMA NoticeFacts ==
  /\ \A old \in Notices, b \in BOOLEAN : [old EXCEPT !.read = b] \in Notices /\ [old EXCEPT !.read = b].sub = old.sub
  /\ \A s \in Nat, b \in BOOLEAN : [sub |-> s, read |-> b] \in Notices
BY DEF Notices

(* Notices are added and marked, none is lost.                             *)
LEMMA NoticesWritten ==
  ASSUME IntakeTyped, [Intake!Next]_intakeVars
  PROVE  /\ notices' \in Seq(Notices) /\ DOMAIN notices \subseteq DOMAIN notices'
         /\ \A n \in DOMAIN notices : notices'[n].sub = notices[n].sub
         /\ \A n \in DOMAIN notices' : notices'[n].sub \in DOMAIN subs
<1>1. /\ notices \in Seq(Notices) /\ DOMAIN notices = 1..Len(notices) /\ Len(notices) \in Nat
      /\ \A n \in DOMAIN notices : notices[n].sub \in DOMAIN subs
      /\ call \in [Handlers -> CallType(Len(subs))] /\ DOMAIN subs = 1..Len(subs) /\ Len(subs) \in Nat
  BY DEF IntakeTyped
<1>2. CASE notices' = notices
  BY <1>1, <1>2
<1>3. ASSUME NEW c \in Handlers, NEW n \in DOMAIN notices, Intake!MarkRead(c, n)
      PROVE  /\ notices' \in Seq(Notices) /\ DOMAIN notices = DOMAIN notices'
             /\ \A m \in DOMAIN notices : notices'[m].sub = notices[m].sub
  <2>1. PICK old \in Notices : old = notices[n]
    BY <1>1
  <2>2. PICK new \in Notices : new = [old EXCEPT !.read = TRUE] /\ new.sub = old.sub
    <3>1. TRUE \in BOOLEAN
      BY Zenon
    <3>. QED
      BY <3>1, NoticeFacts
  <2>3. notices' = [notices EXCEPT ![n] = new]
    BY <1>1, <1>3, <2>1, <2>2 DEF Intake!MarkRead
  <2>. QED
    BY <1>1, <2>1, <2>2, <2>3, ExceptSeq
<1>4. ASSUME NEW c \in Handlers, Intake!MarkAllRead(c)
      PROVE  /\ notices' \in Seq(Notices) /\ DOMAIN notices = DOMAIN notices'
             /\ \A m \in DOMAIN notices : notices'[m].sub = notices[m].sub
  <2>1. TRUE \in BOOLEAN
    BY Zenon
  <2>2. \A old \in Notices : [old EXCEPT !.read = TRUE] \in Notices /\ [old EXCEPT !.read = TRUE].sub = old.sub
    BY <2>1, NoticeFacts
  <2>3. notices' = [m \in 1..Len(notices) |-> [notices[m] EXCEPT !.read = TRUE]]
    BY <1>1, <1>4 DEF Intake!MarkAllRead
  <2>4. \A m \in 1..Len(notices) : notices[m] \in Notices
    BY <1>1
  <2>5. notices' \in [1..Len(notices) -> Notices]
    BY <2>2, <2>3, <2>4
  <2>6. \A m \in 1..Len(notices) : notices'[m].sub = notices[m].sub
    BY <2>2, <2>3, <2>4
  <2>7. notices' \in Seq(Notices)
    BY <1>1, <2>5
  <2>. QED
    BY <1>1, <2>5, <2>6, <2>7
<1>5. ASSUME NEW c \in Handlers, Intake!NotifySelected(c)
      PROVE  /\ notices' \in Seq(Notices) /\ DOMAIN notices \subseteq DOMAIN notices'
             /\ \A m \in DOMAIN notices : notices'[m].sub = notices[m].sub
             /\ \A m \in DOMAIN notices' : notices'[m].sub \in DOMAIN subs
  <2>1. PICK s \in 1..Len(subs) : s = call[c].sub
    BY <1>1, <1>5 DEF Intake!NotifySelected, Intake!At, CallType
  <2>2. PICK new \in Notices : new = [sub |-> s, read |-> FALSE]
    <3>1. FALSE \in BOOLEAN
      BY Zenon
    <3>2. s \in Nat
      BY <1>1
    <3>3. [sub |-> s, read |-> FALSE] \in Notices
      BY <3>1, <3>2, NoticeFacts, Zenon
    <3>. QED
      BY <3>1, <3>2, <3>3, Zenon
  <2>3. notices' = Append(notices, new) /\ new.sub = s
    BY <1>5, <2>1, <2>2 DEF Intake!NotifySelected
  <2>. QED
    BY <1>1, <2>1, <2>3
<1>6. \/ notices' = notices
      \/ \E c \in Handlers : \/ Intake!MarkAllRead(c) \/ Intake!NotifySelected(c)
                             \/ \E n \in DOMAIN notices : Intake!MarkRead(c, n)
  BY DEF Intake!Next, Intake!Request, Intake!Continue, Intake!UpdateProfile, Intake!Apply, Intake!SubmitAnswers,
     Intake!Withdraw, Intake!ReviewAntiCheatFlag, Intake!Unlock, Intake!UpdateSelectionStatus, Intake!ProfileWrite,
     Intake!ApplyReadJob, Intake!ApplyReadWithdrawn, Intake!ApplyInsert, Intake!SaveAnswers, Intake!SelectionWrite,
     Intake!RequestFails, Intake!CloseJob, Intake!Heartbeat, Intake!HeartbeatsStop, Intake!Graded, intakeVars
<1>. QED
  BY <1>1, <1>2, <1>3, <1>4, <1>5, <1>6

(* Only a request that dies before its notice adds to the silent.          *)
LEMMA SilentWritten ==
  ASSUME IntakeTyped, [Intake!Next]_intakeVars
  PROVE  silent \subseteq silent' /\ silent' \subseteq DOMAIN subs
<1>1. /\ silent \subseteq DOMAIN subs /\ call \in [Handlers -> CallType(Len(subs))]
      /\ DOMAIN subs = 1..Len(subs)
  BY DEF IntakeTyped
<1>2. ASSUME NEW c \in Handlers, Intake!RequestFails(c)
      PROVE  silent \subseteq silent' /\ silent' \subseteq DOMAIN subs
  BY <1>1, <1>2 DEF Intake!RequestFails, Intake!At, CallType
<1>3. silent' = silent \/ \E c \in Handlers : Intake!RequestFails(c)
  BY DEF Intake!Next, Intake!Request, Intake!Continue, Intake!UpdateProfile, Intake!Apply, Intake!SubmitAnswers,
     Intake!Withdraw, Intake!ReviewAntiCheatFlag, Intake!Unlock, Intake!UpdateSelectionStatus, Intake!ProfileWrite,
     Intake!ApplyReadJob, Intake!ApplyReadWithdrawn, Intake!ApplyInsert, Intake!SaveAnswers, Intake!SelectionWrite,
     Intake!NotifySelected, Intake!MarkRead, Intake!MarkAllRead,
     Intake!CloseJob, Intake!Heartbeat, Intake!HeartbeatsStop, Intake!Graded, intakeVars
<1>. QED
  BY <1>1, <1>2, <1>3

LEMMA UnlockedWritten ==
  ASSUME IntakeTyped, [Intake!Next]_intakeVars
  PROVE  unlocked' \subseteq DOMAIN subs
BY DEF IntakeTyped, Intake!Next, Intake!Request, Intake!Continue, Intake!UpdateProfile, Intake!Apply,
   Intake!SubmitAnswers, Intake!Withdraw, Intake!ReviewAntiCheatFlag, Intake!Unlock, Intake!ListedForEmployer,
   Intake!UpdateSelectionStatus, Intake!ProfileWrite, Intake!ApplyReadJob, Intake!ApplyReadWithdrawn,
   Intake!ApplyInsert, Intake!SaveAnswers, Intake!SelectionWrite, Intake!NotifySelected, Intake!MarkRead,
   Intake!MarkAllRead, Intake!RequestFails, Intake!CloseJob, Intake!Heartbeat, Intake!HeartbeatsStop, Intake!Graded,
   intakeVars

LEMMA ProfileWritten ==
  ASSUME IntakeTyped, [Intake!Next]_intakeVars
  PROVE  titled' \in BOOLEAN /\ complete' \in BOOLEAN
<1>1. titled \in BOOLEAN /\ complete \in BOOLEAN /\ call \in [Handlers -> CallType(Len(subs))]
  BY DEF IntakeTyped
<1>2. ASSUME NEW c \in Handlers, Intake!ProfileWrite(c)
      PROVE  titled' \in BOOLEAN /\ complete' \in BOOLEAN
  <2>1. call[c].withTitle \in BOOLEAN /\ call[c].complete \in BOOLEAN
    BY <1>1, <1>2 DEF Intake!ProfileWrite, Intake!At, CallType
  <2>2. titled' = (titled \/ call[c].withTitle) /\ complete' = call[c].complete
    BY <1>2, Zenon DEF Intake!ProfileWrite
  <2>. QED
    BY <2>1, <2>2
<1>3. UNCHANGED <<titled, complete>> \/ \E c \in Handlers : Intake!ProfileWrite(c)
  BY DEF Intake!Next, Intake!Request, Intake!Continue, Intake!UpdateProfile, Intake!Apply, Intake!SubmitAnswers,
     Intake!Withdraw, Intake!ReviewAntiCheatFlag, Intake!Unlock, Intake!UpdateSelectionStatus, Intake!RequestFails,
     Intake!ApplyReadJob, Intake!ApplyReadWithdrawn, Intake!ApplyInsert, Intake!SaveAnswers, Intake!SelectionWrite,
     Intake!NotifySelected, Intake!MarkRead, Intake!MarkAllRead,
     Intake!CloseJob, Intake!Heartbeat, Intake!HeartbeatsStop, Intake!Graded, intakeVars
<1>. QED
  BY <1>1, <1>2, <1>3

LEMMA NextIntakeTyped ==
  ASSUME IntakeTyped, [Intake!Next]_intakeVars
  PROVE  IntakeTyped'
<1>1. /\ subs' \in Seq(Rows) /\ DOMAIN subs \subseteq DOMAIN subs' /\ Len(subs) \in Nat /\ Len(subs') \in Nat
      /\ Len(subs) <= Len(subs')
  BY SubsGrow DEF IntakeTyped
<1>2. PICK m \in Nat, n \in Nat : m = Len(subs) /\ n = Len(subs') /\ m <= n
  BY <1>1
<1>3. call' \in [Handlers -> CallType(m)]
  BY <1>2, CallsWritten DEF IntakeTyped
<1>4. call' \in [Handlers -> CallType(n)]
  BY <1>2, <1>3, CallTypeGrows
<1>. QED
  BY <1>1, <1>2, <1>4, NoticesWritten, SilentWritten, UnlockedWritten, ProfileWritten DEF IntakeTyped

LEMMA InitIntakeTyped == Intake!Init => IntakeTyped
<1>. SUFFICES ASSUME Intake!Init PROVE IntakeTyped
  OBVIOUS
<1>1. titled = FALSE /\ complete = FALSE /\ subs = <<>> /\ notices = <<>> /\ silent = {} /\ unlocked = {}
  BY DEF Intake!Init
<1>2. titled \in BOOLEAN /\ complete \in BOOLEAN
  BY <1>1, Zenon
<1>3. Intake!Idle \in CallType(0) /\ call = [c \in Handlers |-> Intake!Idle]
  BY DEF Intake!Init, Intake!Idle, CallType
<1>4. subs \in Seq(Rows) /\ notices \in Seq(Notices) /\ Len(subs) = 0 /\ DOMAIN notices = {}
  BY <1>1
<1>. QED
  BY <1>1, <1>2, <1>3, <1>4 DEF IntakeTyped

-----------------------------------------------------------------------------
(* SubmissionIntake: the bounds.                                           *)

IntakeBounded == accepting \in BOOLEAN /\ Len(subs) <= MaxSubmissions

LEMMA NextIntakeBounded ==
  ASSUME IntakeTyped, IntakeBounded, [Intake!Next]_intakeVars
  PROVE  IntakeBounded'
<1>1. accepting' \in BOOLEAN
  <2>1. accepting' = accepting \/ accepting' = FALSE
    BY DEF Intake!Next, Intake!Request, Intake!Continue, Intake!UpdateProfile, Intake!Apply, Intake!SubmitAnswers,
       Intake!Withdraw, Intake!ReviewAntiCheatFlag, Intake!Unlock, Intake!UpdateSelectionStatus, Intake!RequestFails,
       Intake!ApplyReadJob, Intake!ApplyReadWithdrawn, Intake!ApplyInsert, Intake!SaveAnswers, Intake!SelectionWrite,
       Intake!NotifySelected, Intake!MarkRead, Intake!MarkAllRead, Intake!ProfileWrite,
       Intake!CloseJob, Intake!Heartbeat, Intake!HeartbeatsStop, Intake!Graded, intakeVars
  <2>. QED
    BY <2>1, Zenon DEF IntakeBounded
<1>2. subs \in Seq(Rows) /\ Len(subs) \in Nat /\ Len(subs) <= MaxSubmissions
  BY DEF IntakeTyped, IntakeBounded
<1>3. ASSUME NEW s \in DOMAIN subs, NEW r \in Rows, subs' = [subs EXCEPT ![s] = r]
      PROVE  Len(subs') <= MaxSubmissions
  BY <1>2, <1>3, RowWritten
<1>4. ASSUME NEW c \in Handlers, Intake!ApplyInsert(c)
      PROVE  Len(subs') <= MaxSubmissions
  BY <1>2, <1>4, BoundsAssumption DEF Intake!ApplyInsert
<1>5. Len(subs') <= MaxSubmissions
  BY <1>2, <1>3, <1>4, SubsWritten
<1>. QED
  BY <1>1, <1>5 DEF IntakeBounded

LEMMA TypedIntake == IntakeTyped /\ IntakeBounded => Intake!TypeOK
<1>. SUFFICES ASSUME IntakeTyped, IntakeBounded PROVE Intake!TypeOK
  OBVIOUS
<1>1. \A s \in DOMAIN subs : subs[s] \in Rows
  BY DEF IntakeTyped
<1>2. \A n \in DOMAIN notices : notices[n] \in [sub : DOMAIN subs, read : BOOLEAN]
  <2>1. \A n \in DOMAIN notices : notices[n] \in Notices /\ notices[n].sub \in DOMAIN subs
    BY DEF IntakeTyped
  <2>. QED
    BY <2>1 DEF Notices
<1>3. \A c \in Handlers : call[c].pc \in {"idle", "profile", "apply-job", "apply-withdrawn", "apply-insert",
                                          "save", "select", "notify"}
  BY DEF IntakeTyped, CallType
<1>. QED
  BY <1>1, <1>2, <1>3 DEF IntakeTyped, IntakeBounded, Rows, Intake!TypeOK

-----------------------------------------------------------------------------
(* SubmissionIntake: the selected are told.                                *)

BeingTold(s) == \E c \in Handlers : Intake!At(c, "notify") /\ call[c].sub = s
HasBeenTold(s) == Intake!Told(s) \/ s \in silent \/ BeingTold(s)

(* A selection that leaves the telling to an earlier one read a status     *)
(* that only another selection can have written.                           *)
SelectionInv ==
  /\ \A s \in DOMAIN subs : subs[s].status = "SELECTED" => HasBeenTold(s)
  /\ \A c \in Handlers : Intake!At(c, "select") /\ call[c].wasSelected => HasBeenTold(call[c].sub)

LEMMA TellingLasts ==
  ASSUME IntakeTyped, [Intake!Next]_intakeVars, NEW s \in DOMAIN subs, HasBeenTold(s)
  PROVE  HasBeenTold(s)'
<1>1. CASE Intake!Told(s)
  BY <1>1, NoticesWritten DEF Intake!Told, HasBeenTold
<1>2. CASE s \in silent
  BY <1>2, SilentWritten DEF HasBeenTold
<1>3. ASSUME NEW c \in Handlers, call[c].pc = "notify", call[c].sub = s
      PROVE  HasBeenTold(s)'
  <2>1. CASE call'[c] = call[c]
    BY <1>3, <2>1 DEF HasBeenTold, BeingTold, Intake!At
  <2>2. CASE Intake!RequestFails(c)
    BY <1>3, <2>2 DEF Intake!RequestFails, Intake!At, HasBeenTold
  <2>3. CASE Intake!NotifySelected(c)
    <3>1. notices \in Seq(Notices) /\ notices' = Append(notices, [sub |-> s, read |-> FALSE])
      BY <1>3, <2>3 DEF Intake!NotifySelected, IntakeTyped
    <3>2. notices'[Len(notices) + 1].sub = s /\ Len(notices) + 1 \in DOMAIN notices'
      BY <3>1
    <3>. QED
      BY <3>2 DEF HasBeenTold, Intake!Told
  <2>4. call[c] # Intake!Idle
    BY <1>3 DEF Intake!Idle
  <2>5. Intake!Continue(c) => Intake!NotifySelected(c)
    BY <1>3 DEF Intake!Continue, Intake!At, Intake!ProfileWrite, Intake!ApplyReadJob, Intake!ApplyReadWithdrawn,
       Intake!ApplyInsert, Intake!SaveAnswers, Intake!SelectionWrite
  <2>. QED
    BY <2>1, <2>2, <2>3, <2>4, <2>5, OwnMoves
<1>. QED
  BY <1>1, <1>2, <1>3 DEF HasBeenTold, BeingTold, Intake!At

LEMMA NextSelection ==
  ASSUME IntakeTyped, SelectionInv, [Intake!Next]_intakeVars
  PROVE  SelectionInv'
<1>1. /\ subs \in Seq(Rows) /\ call \in [Handlers -> CallType(Len(subs))] /\ DOMAIN subs = 1..Len(subs)
      /\ Len(subs) \in Nat
  BY DEF IntakeTyped
<1>2. ASSUME NEW c \in Handlers, call[c].pc = "select"
      PROVE  \E s \in DOMAIN subs : s = call[c].sub
  BY <1>1, <1>2 DEF CallType
<1>3. ASSUME NEW s \in DOMAIN subs, subs[s].status = "SELECTED"
      PROVE  HasBeenTold(s)'
  <2>1. HasBeenTold(s)
    BY <1>3 DEF SelectionInv
  <2>. QED
    BY <2>1, TellingLasts
<1>4. ASSUME NEW c \in Handlers, NEW s \in DOMAIN subs, call[c].pc = "select", call[c].wasSelected, call[c].sub = s
      PROVE  HasBeenTold(s)'
  <2>1. HasBeenTold(s)
    BY <1>4 DEF SelectionInv, Intake!At
  <2>. QED
    BY <2>1, TellingLasts
<1>5. ASSUME NEW c \in Handlers, NEW s \in DOMAIN subs, Intake!SelectionWrite(c), call[c].selected, call[c].sub = s
      PROVE  HasBeenTold(s)'
  <2>1. CASE call[c].wasSelected
    BY <1>4, <1>5, <2>1 DEF Intake!SelectionWrite, Intake!At
  <2>2. CASE ~call[c].wasSelected
    <3>1. call' = [call EXCEPT ![c] = [pc |-> "notify", sub |-> s]]
      BY <1>5, <2>2 DEF Intake!SelectionWrite, Intake!Become
    <3>2. call'[c] = [pc |-> "notify", sub |-> s]
      BY <1>1, <3>1
    <3>. QED
      BY <3>2 DEF HasBeenTold, BeingTold, Intake!At
  <2>. QED
    BY <2>1, <2>2
<1>6. ASSUME NEW s \in DOMAIN subs', subs'[s].status = "SELECTED"
      PROVE  HasBeenTold(s)'
  <2>1. CASE subs' = subs
    BY <1>3, <1>6, <2>1
  <2>2. ASSUME NEW t \in DOMAIN subs, NEW r \in Rows, subs' = [subs EXCEPT ![t] = r],
               \/ r.status # "SELECTED" \/ subs[t].status = "SELECTED"
               \/ \E c \in Handlers : Intake!SelectionWrite(c) /\ call[c].selected /\ call[c].sub = t
        PROVE  HasBeenTold(s)'
    <3>1. /\ s \in DOMAIN subs /\ subs'[t] = r /\ (s # t => subs'[s] = subs[s])
      BY <1>1, <2>2, RowWritten
    <3>2. CASE subs[s].status = "SELECTED"
      BY <1>3, <3>1, <3>2
    <3>3. CASE subs[s].status # "SELECTED"
      <4>1. s = t /\ \E c \in Handlers : Intake!SelectionWrite(c) /\ call[c].selected /\ call[c].sub = s
        BY <1>6, <2>2, <3>1, <3>3
      <4>. QED
        BY <1>5, <3>1, <4>1
    <3>. QED
      BY <3>2, <3>3
  <2>3. ASSUME NEW c \in Handlers, Intake!ApplyInsert(c)
        PROVE  HasBeenTold(s)'
    <3>1. subs' = Append(subs, Intake!NewSubmission)
      BY <2>3 DEF Intake!ApplyInsert
    <3>2. (s \in DOMAIN subs /\ subs'[s] = subs[s]) \/ subs'[s] = Intake!NewSubmission
      BY <1>1, <3>1
    <3>. QED
      BY <1>3, <1>6, <3>2 DEF Intake!NewSubmission
  <2>. QED
    BY <2>1, <2>2, <2>3, SubsWritten
<1>7. ASSUME NEW c \in Handlers, NEW s, s = call'[c].sub, call'[c].pc = "select", call'[c].wasSelected
      PROVE  HasBeenTold(s)'
  <2>1. CASE call'[c] = call[c]
    BY <1>2, <1>4, <1>7, <2>1
  <2>2. CASE Intake!Request(c) /\ call[c] = Intake!Idle
    <3>1. \E t \in DOMAIN subs : \E selected, asAdmin \in BOOLEAN : Intake!UpdateSelectionStatus(c, t, selected, asAdmin)
      <4>1. \A next : call' = [call EXCEPT ![c] = next] => call'[c] = next
        BY <1>1
      <4>2. ~Intake!Apply(c) /\ ~Intake!MarkAllRead(c) /\ \A n \in DOMAIN notices : ~Intake!MarkRead(c, n)
        BY <1>7, <4>1 DEF Intake!Start, Intake!Idle, Intake!Apply, Intake!MarkRead, Intake!MarkAllRead
      <4>3. \A withTitle \in BOOLEAN : ~Intake!UpdateProfile(c, withTitle)
        BY <1>7, <4>1 DEF Intake!Start, Intake!UpdateProfile
      <4>4. \A t \in DOMAIN subs : /\ ~Intake!Withdraw(c, t) /\ ~Intake!Unlock(c, t)
                                   /\ \A uphold \in BOOLEAN : ~Intake!ReviewAntiCheatFlag(c, t, uphold)
        BY <1>7, <4>1 DEF Intake!Start, Intake!Idle, Intake!Withdraw, Intake!Unlock, Intake!ReviewAntiCheatFlag
      <4>5. \A t \in DOMAIN subs : \A reported \in BOOLEAN : ~Intake!SubmitAnswers(c, t, reported)
        BY <1>7, <4>1 DEF Intake!Start, Intake!SubmitAnswers
      <4>. QED
        BY <2>2, <4>2, <4>3, <4>4, <4>5 DEF Intake!Request
    <3>2. PICK t \in DOMAIN subs, selected \in BOOLEAN :
            call' = [call EXCEPT ![c] = [pc |-> "select", sub |-> t, selected |-> selected,
                                         wasSelected |-> subs[t].status = "SELECTED"]]
      BY <3>1 DEF Intake!UpdateSelectionStatus, Intake!Start
    <3>3. s = t /\ subs[t].status = "SELECTED"
      BY <1>1, <1>7, <3>2
    <3>. QED
      BY <1>3, <3>3
  <2>3. ~Intake!RequestFails(c)
    BY <1>1, <1>7 DEF Intake!RequestFails, Intake!Return, Intake!Become, Intake!Idle
  <2>4. ~Intake!Continue(c)
    BY <1>1, <1>7 DEF Intake!Continue, Intake!Return, Intake!Become, Intake!Idle, Intake!ProfileWrite,
       Intake!ApplyReadJob, Intake!ApplyReadWithdrawn, Intake!ApplyInsert, Intake!SaveAnswers,
       Intake!SelectionWrite, Intake!NotifySelected
  <2>. QED
    BY <2>1, <2>2, <2>3, <2>4, OwnMoves
<1>. QED
  BY <1>6, <1>7 DEF SelectionInv, Intake!At

-----------------------------------------------------------------------------
(* SubmissionIntake: the theorems.                                         *)

(* Applications, profiles, notices and requests keep their types, and a    *)
(* request names only submissions that exist (submissions.service.ts).     *)
THEOREM IntakeIsTyped == Intake!Spec => []IntakeTyped
<1>1. Intake!Init => IntakeTyped
  BY InitIntakeTyped
<1>2. IntakeTyped /\ [Intake!Next]_(Intake!vars) => IntakeTyped'
  BY NextIntakeTyped DEF intakeVars, Intake!vars
<1>. QED
  BY <1>1, <1>2, PTL DEF Intake!Spec

(* Everybody who has applied has a profile title, however profile updates  *)
(* that derive completeness from what they read overlap with applying      *)
(* (JobSeekerProfileService.update, createSubmission).                     *)
THEOREM ApplicantsTitled == Intake!Spec => []ApplicantsHaveTitle
<1>1. Intake!Init => TitleInv /\ DOMAIN call = Handlers
  BY InitTitle
<1>2. TitleInv /\ DOMAIN call = Handlers /\ [Intake!Next]_(Intake!vars) => (TitleInv /\ DOMAIN call = Handlers)'
  BY NextTitle DEF intakeVars, Intake!vars
<1>3. TitleInv /\ IntakeTyped => ApplicantsHaveTitle
  BY DEF TitleInv, IntakeTyped, ApplicantsHaveTitle, Intake!ApplicantsHaveTitle
<1>. QED
  BY <1>1, <1>2, <1>3, IntakeIsTyped, PTL DEF Intake!Spec

(* A candidate whose submission is selected has been told, is being told,  *)
(* or the request that was to tell them failed, however selections,        *)
(* reversals and flag reviews overlap (updateSelectionStatus).             *)
THEOREM SelectedTold == Intake!Spec => []SelectedWasTold
<1>1. Intake!Init => SelectionInv
  BY DEF Intake!Init, SelectionInv, Intake!Idle, Intake!At
<1>2. IntakeTyped /\ SelectionInv /\ [Intake!Next]_(Intake!vars) => SelectionInv'
  BY NextSelection DEF intakeVars, Intake!vars
<1>3. SelectionInv => SelectedWasTold
  BY DEF SelectionInv, SelectedWasTold, Intake!SelectedWasTold, HasBeenTold, BeingTold
<1>. QED
  BY <1>1, <1>2, <1>3, IntakeIsTyped, PTL DEF Intake!Spec

-----------------------------------------------------------------------------
(* GradingAnchors: what is kept has passed the checks.                     *)

Kept == {d \in Drafts : Anchors!WellFormed(d) /\ Anchors!KeepsThePolicy(d)} \cup {NoTask}

AnchorRows == [anchors : Kept, needsReview : BOOLEAN]
Working == [step : {"drafting", "critique", "approved", "grading"}, answer : Tasks, attempt : Nat, anchors : Kept]

AnchorsKept ==
  /\ row \in AnchorRows
  /\ worker \in [Handlers -> {Anchors!Idle} \cup Working]
  /\ gradedWith \in [Tasks -> Kept]

(* The edits of a worker's state.                                          *)
LEMMA WorkingFacts ==
  /\ \A w \in Working : /\ \A st \in {"drafting", "critique", "approved", "grading"} : [w EXCEPT !.step = st] \in Working
                        /\ [w EXCEPT !.attempt = w.attempt + 1] \in Working
                        /\ w.answer \in Tasks /\ w.anchors \in Kept /\ w.attempt \in Nat
  /\ \A st \in {"drafting", "critique", "approved", "grading"}, a \in Tasks, n \in Nat, d \in Kept :
       Anchors!Doing(st, a, n, d) \in Working
BY DEF Working, Anchors!Doing

LEMMA Busy ==
  ASSUME AnchorsKept, NEW w \in Handlers, worker[w].step # "idle"
  PROVE  worker[w] \in Working
BY DEF AnchorsKept, Anchors!Idle

LEMMA InitAnchors == Anchors!Init => AnchorsKept
<1>. SUFFICES ASSUME Anchors!Init PROVE AnchorsKept
  OBVIOUS
<1>1. FALSE \in BOOLEAN
  BY Zenon
<1>2. NoTask \in Kept
  BY DEF Kept
<1>3. \A b \in BOOLEAN, k \in Kept : [anchors |-> k, needsReview |-> b] \in AnchorRows
  BY DEF AnchorRows
<1>4. row \in AnchorRows
  BY <1>1, <1>2, <1>3 DEF Anchors!Init
<1>. QED
  BY <1>2, <1>4 DEF Anchors!Init, AnchorsKept

LEMMA NextAnchors ==
  ASSUME AnchorsKept, [Anchors!Next]_anchorVars
  PROVE  AnchorsKept'
<1>1. /\ row \in AnchorRows /\ gradedWith \in [Tasks -> Kept]
      /\ worker \in [Handlers -> {Anchors!Idle} \cup Working]
  BY DEF AnchorsKept
<1>2. row.anchors \in Kept
  BY <1>1 DEF AnchorRows
<1>3. CASE UNCHANGED anchorVars
  BY <1>1, <1>3 DEF anchorVars, AnchorsKept
<1>4. ASSUME NEW w \in Handlers, NEW a \in Tasks, Anchors!EnsureAnchors(w, a)
      PROVE  AnchorsKept'
  <2>1. PICK st \in {"grading", "drafting"}, k \in Kept : worker' = [worker EXCEPT ![w] = Anchors!Doing(st, a, 0, k)]
    BY <1>2, <1>4 DEF Anchors!EnsureAnchors
  <2>2. Anchors!Doing(st, a, 0, k) \in Working
    BY WorkingFacts
  <2>. QED
    BY <1>1, <1>4, <2>1, <2>2 DEF Anchors!EnsureAnchors, AnchorsKept
<1>5. ASSUME NEW w \in Handlers, Anchors!Generate(w)
      PROVE  AnchorsKept'
  <2>1. PICK old \in Working : old = worker[w]
    BY <1>5, Busy DEF Anchors!Generate
  <2>2. PICK d \in Drafts :
          worker' = IF Anchors!WellFormed(d) /\ Anchors!KeepsThePolicy(d)
                    THEN [worker EXCEPT ![w] = Anchors!Doing("critique", worker[w].answer, worker[w].attempt + 1, d)]
                    ELSE [worker EXCEPT ![w].attempt = worker[w].attempt + 1]
    BY <1>5 DEF Anchors!Generate
  <2>3. CASE Anchors!WellFormed(d) /\ Anchors!KeepsThePolicy(d)
    <3>0. d \in Kept
      BY <2>3 DEF Kept
    <3>1. old.attempt \in Nat /\ old.answer \in Tasks
      BY WorkingFacts
    <3>2. Anchors!Doing("critique", old.answer, old.attempt + 1, d) \in Working
      <4>1. PICK n \in Nat : n = old.attempt + 1
        BY <3>1
      <4>2. Anchors!Doing("critique", old.answer, n, d) \in Working
        BY <3>0, <3>1, WorkingFacts
      <4>. QED
        BY <4>1, <4>2
    <3>3. worker' = [worker EXCEPT ![w] = Anchors!Doing("critique", old.answer, old.attempt + 1, d)]
      BY <2>1, <2>2, <2>3, Zenon
    <3>. QED
      BY <1>1, <1>5, <3>2, <3>3 DEF Anchors!Generate, AnchorsKept
  <2>4. CASE ~(Anchors!WellFormed(d) /\ Anchors!KeepsThePolicy(d))
    <3>1. worker' = [worker EXCEPT ![w] = [old EXCEPT !.attempt = old.attempt + 1]]
      BY <2>1, <2>2, <2>4, Zenon
    <3>. QED
      BY <1>1, <1>5, <3>1, WorkingFacts DEF Anchors!Generate, AnchorsKept
  <2>. QED
    BY <2>3, <2>4
<1>6. ASSUME NEW w \in Handlers, Anchors!Critique(w) \/ Anchors!Save(w)
      PROVE  AnchorsKept'
  <2>1. PICK old \in Working : old = worker[w]
    BY <1>6, Busy DEF Anchors!Critique, Anchors!Save, Anchors!OutOfAttempts
  <2>2. PICK st \in {"approved", "drafting", "grading"} : worker' = [worker EXCEPT ![w] = [old EXCEPT !.step = st]]
    BY <1>1, <1>6, <2>1 DEF Anchors!Critique, Anchors!Save
  <2>3. worker' \in [Handlers -> {Anchors!Idle} \cup Working]
    BY <1>1, <2>2, WorkingFacts
  <2>4. row' \in AnchorRows
    <3>1. CASE Anchors!Critique(w)
      BY <1>1, <3>1 DEF Anchors!Critique
    <3>2. CASE Anchors!Save(w)
      <4>1. PICK b \in BOOLEAN : b = Anchors!OutOfAttempts(w)
        BY DEF Anchors!OutOfAttempts
      <4>2. row' = [anchors |-> old.anchors, needsReview |-> b]
        BY <2>1, <3>2, <4>1 DEF Anchors!Save
      <4>. QED
        BY <4>2, WorkingFacts DEF AnchorRows
    <3>. QED
      BY <1>6, <3>1, <3>2
  <2>. QED
    BY <1>1, <1>6, <2>3, <2>4 DEF Anchors!Critique, Anchors!Save, AnchorsKept
<1>7. ASSUME NEW w \in Handlers, Anchors!GradeTask(w)
      PROVE  AnchorsKept'
  <2>1. worker[w].answer \in Tasks /\ worker[w].anchors \in Kept
    BY <1>7, Busy, WorkingFacts DEF Anchors!GradeTask
  <2>. QED
    BY <1>1, <1>7, <2>1 DEF Anchors!GradeTask, AnchorsKept
<1>8. ASSUME NEW w \in Handlers, Anchors!Fail(w)
      PROVE  AnchorsKept'
  BY <1>1, <1>8 DEF Anchors!Fail, AnchorsKept
<1>. QED
  BY <1>3, <1>4, <1>5, <1>6, <1>7, <1>8 DEF Anchors!Next

LEMMA FailuresCounted ==
  ASSUME failures \in 0..MaxFailures, [Anchors!Next]_anchorVars
  PROVE  failures' \in 0..MaxFailures
BY BoundsAssumption DEF Anchors!Next, Anchors!EnsureAnchors, Anchors!Generate, Anchors!Critique, Anchors!Save,
   Anchors!GradeTask, Anchors!Fail, anchorVars

LEMMA TypedAnchors == AnchorsKept /\ failures \in 0..MaxFailures => Anchors!TypeOK
<1>. SUFFICES ASSUME AnchorsKept, failures \in 0..MaxFailures PROVE Anchors!TypeOK
  OBVIOUS
<1>1. row.anchors \in Kept /\ row.needsReview \in BOOLEAN
  BY DEF AnchorsKept, AnchorRows
<1>2. \A w \in Handlers : worker[w].step \in {"idle", "drafting", "critique", "approved", "grading"}
  BY DEF AnchorsKept, Working, Anchors!Idle
<1>3. Kept \subseteq Drafts \cup {NoTask}
  BY DEF Kept
<1>. QED
  BY <1>1, <1>2, <1>3 DEF AnchorsKept, Anchors!TypeOK

(* No answer is graded against anchors that are malformed or that promise  *)
(* what the policy forbids, whichever workers draft, save and fail at the  *)
(* same time (ensureAnchors, generateWithCritique).                        *)
THEOREM AnchorsChecked == Anchors!Spec => []AnchorsPassTheirChecks
<1>1. Anchors!Init => AnchorsKept
  BY InitAnchors
<1>2. AnchorsKept /\ [Anchors!Next]_(Anchors!vars) => AnchorsKept'
  BY NextAnchors DEF anchorVars, Anchors!vars
<1>3. AnchorsKept => AnchorsPassTheirChecks
  BY DEF AnchorsKept, Kept, AnchorsPassTheirChecks, Anchors!AnchorsPassTheirChecks
<1>. QED
  BY <1>1, <1>2, <1>3, PTL DEF Anchors!Spec

-----------------------------------------------------------------------------
(* CapabilityPassport: the narrative beside the numbers.                   *)

PassportInv == DOMAIN reader = Handlers /\ NarrativeFitsNumbers

LEMMA NextPassport ==
  ASSUME PassportInv, [Passport!Next]_passportVars
  PROVE  PassportInv'
<1>. USE DEF PassportInv, NarrativeFitsNumbers, Passport!NarrativeFitsNumbers, Passport!At
<1>1. CASE UNCHANGED reader
  BY <1>1
<1>2. ASSUME NEW r \in Handlers, NEW to, reader' = [reader EXCEPT ![r] = to],
             to.pc = "answered" /\ ~to.failed => to.narrative.basedOn = to.numbers.basedOn
      PROVE  PassportInv'
  BY <1>2
<1>3. ASSUME NEW r \in Handlers, Passport!LoadGradedSubmissions(r) \/ Passport!Done(r)
      PROVE  PassportInv'
  <2>1. CASE Passport!Done(r)
    BY <1>2, <2>1 DEF Passport!Done, Passport!Step
  <2>2. CASE Passport!LoadGradedSubmissions(r)
    BY <1>2, <2>2 DEF Passport!LoadGradedSubmissions, Passport!Step
  <2>. QED
    BY <1>3, <2>1, <2>2
<1>4. ASSUME NEW r \in Handlers, Passport!GetNarrative(r)
      PROVE  PassportInv'
  <2>1. CASE Passport!IsStale(cached, reader[r].numbers.basedOn)
    BY <1>2, <1>4, <2>1 DEF Passport!GetNarrative, Passport!Step
  <2>2. CASE ~Passport!IsStale(cached, reader[r].numbers.basedOn)
    BY <1>2, <1>4, <2>2 DEF Passport!GetNarrative, Passport!Answer, Passport!Step, Passport!IsStale
  <2>. QED
    BY <2>1, <2>2
<1>5. ASSUME NEW r \in Handlers, Passport!GenerateNarrative(r) \/ Passport!NarrativeFails(r)
      PROVE  PassportInv'
  <2>1. CASE Passport!GenerateNarrative(r)
    BY <1>2, <2>1 DEF Passport!GenerateNarrative, Passport!Answer, Passport!Step
  <2>2. CASE Passport!NarrativeFails(r)
    BY <1>2, <2>2 DEF Passport!NarrativeFails, Passport!Answer, Passport!Step
  <2>. QED
    BY <1>5, <2>1, <2>2
<1>6. \/ UNCHANGED reader
      \/ \E r \in Handlers :
           \/ Passport!LoadGradedSubmissions(r) \/ Passport!GetNarrative(r)
           \/ Passport!GenerateNarrative(r) \/ Passport!NarrativeFails(r) \/ Passport!Done(r)
  BY DEF Passport!Next, passportVars, Passport!Tick, Passport!SubmitAnswers, Passport!Grade,
     Passport!ReviewAntiCheatFlag, Passport!Publish, Passport!WorkerDies
<1>. QED
  BY <1>1, <1>3, <1>4, <1>5, <1>6

(* The narrative a passport shows is about the submissions whose numbers   *)
(* it stands beside, whatever other requests, gradings or reviews happen   *)
(* in between, unless writing it failed (getOrRegenerate).                 *)
THEOREM NarrativesFit == Passport!Spec => []NarrativeFitsNumbers
<1>1. Passport!Init => PassportInv
  BY DEF Passport!Init, PassportInv, NarrativeFitsNumbers, Passport!NarrativeFitsNumbers, Passport!At
<1>2. PassportInv /\ [Passport!Next]_(Passport!vars) => PassportInv'
  BY NextPassport DEF passportVars, Passport!vars, Passport!submitted, Passport!graded
<1>3. PassportInv => NarrativeFitsNumbers
  BY DEF PassportInv
<1>. QED
  BY <1>1, <1>2, <1>3, PTL DEF Passport!Spec

-----------------------------------------------------------------------------
(* StagedChat: the staged chats of a submission.                           *)

ChatInv == TypeOK /\ TranscriptInOrder

-----------------------------------------------------------------------------
(* What the record of a chat that accepts a reply looks like.              *)

(* A reply is accepted only before the submission closes, for the turn     *)
(* after the last stored one, and turns the record into the one with the   *)
(* reply appended, leaving the other chats alone.                          *)
LEMMA Accepting ==
  ASSUME ChatInv, NEW h \in Handlers, Accept(h)
  PROVE  LET t == handler[h].task
             turn == handler[h].turn
             key == handler[h].key
         IN /\ t \in Tasks /\ key \in Keys
            /\ ~completedAt
            /\ chats[t].status \in {"NONE", "IN_PROGRESS"}
            /\ turn = Len(chats[t].replies) + 1
            /\ turn \in 1..TurnCount[t]
            /\ chats' = [chats EXCEPT ![t] =
                 [status |-> IF turn = TurnCount[t] THEN "COMPLETE" ELSE "IN_PROGRESS",
                  replies |-> Append(chats[t].replies, [turn |-> turn, key |-> key])]]
            /\ chats'[t].replies = Append(chats[t].replies, [turn |-> turn, key |-> key])
            /\ \A u \in Tasks : u # t => chats'[u] = chats[u]
<1> DEFINE t == handler[h].task
           turn == handler[h].turn
           key == handler[h].key
<1>1. handler[h].pc = "decide" /\ handler[h] \in RequestType
  BY DEF Accept, ChatInv, TypeOK
<1>2. t \in Tasks /\ turn \in Nat \ {0} /\ key \in Keys
  BY <1>1 DEF RequestType, Idle
<1>3. chats[t] \in RecordType(t) /\ Len(chats[t].replies) <= TurnCount[t]
  BY <1>2 DEF ChatInv, TypeOK
<1>4. SessionOpen(t) /\ turn = CurrentTurn(t)
  BY <1>1 DEF Accept, Decision, DecideReply
<1>5. RecordFor(t).status = "IN_PROGRESS" /\ RecordFor(t).replies = chats[t].replies
  <2>1. CASE chats[t] = NoRecord
    BY <2>1 DEF RecordFor, NoRecord
  <2>2. CASE chats[t] # NoRecord
    BY <1>4, <2>2 DEF RecordFor, SessionOpen
  <2> QED BY <2>1, <2>2
<1>6. chats[t].status \in {"NONE", "IN_PROGRESS"}
  BY <1>5, <1>3 DEF RecordFor, NoRecord, RecordType
<1>7. Len(chats[t].replies) # TurnCount[t]
  BY <1>6, <1>2 DEF ChatInv, TranscriptInOrder
<1>8. turn = Len(chats[t].replies) + 1
  BY <1>4, <1>5 DEF CurrentTurn
<1>9. turn \in 1..TurnCount[t]
  BY <1>2, <1>3, <1>7, <1>8, TurnCountAssumption DEF RecordType
<1>10. chats' = [chats EXCEPT ![t] =
                 [status |-> IF turn = TurnCount[t] THEN "COMPLETE" ELSE "IN_PROGRESS",
                  replies |-> Append(chats[t].replies, [turn |-> turn, key |-> key])]]
  BY <1>5 DEF Accept, WithReply
<1>11. /\ chats'[t].replies = Append(chats[t].replies, [turn |-> turn, key |-> key])
       /\ \A u \in Tasks : u # t => chats'[u] = chats[u]
  <2>1. DOMAIN chats = Tasks
    BY DEF ChatInv, TypeOK
  <2> QED BY <1>2, <1>10, <2>1
<1> QED BY <1>2, <1>4, <1>6, <1>8, <1>9, <1>10, <1>11 DEF SessionOpen

-----------------------------------------------------------------------------
(* Types.                                                                  *)

LEMMA InitInv == Init => ChatInv
<1> SUFFICES ASSUME Init PROVE ChatInv
  OBVIOUS
<1>1. ASSUME NEW t \in Tasks
      PROVE  /\ chats[t] \in RecordType(t)
             /\ chats[t].status = "NONE"
             /\ chats[t].replies = <<>>
             /\ Len(chats[t].replies) = 0
             /\ TurnCount[t] > 0
  <2>1. chats[t] = [status |-> "NONE", replies |-> <<>>]
    BY DEF Init, NoRecord
  <2>2. <<>> \in Seq(Replies(t)) /\ Len(<<>>) = 0
    OBVIOUS
  <2>3. TurnCount[t] \in Nat \ {0}
    BY TurnCountAssumption
  <2> QED BY <2>1, <2>2, <2>3 DEF RecordType
<1>2. DOMAIN chats = Tasks /\ handler \in [Handlers -> RequestType]
  BY DEF Init, RequestType
<1>3. /\ completedAt \in BOOLEAN /\ crashed \in BOOLEAN
      /\ offered \subseteq Tasks /\ marks \in 0..MaxSubmits
  <2>1. 0 \in 0..MaxSubmits
    BY MaxSubmitsAssumption
  <2> QED BY <2>1, Zenon DEF Init
<1>4. TypeOK
  <2>1. \A t \in Tasks : Len(chats[t].replies) <= TurnCount[t]
    <3> SUFFICES ASSUME NEW t \in Tasks PROVE Len(chats[t].replies) <= TurnCount[t]
      OBVIOUS
    <3>1. TurnCount[t] \in Nat
      BY TurnCountAssumption
    <3> QED BY <1>1, <3>1
  <2> QED BY <1>1, <1>2, <1>3, <2>1 DEF TypeOK
<1>5. TranscriptInOrder
  <2> SUFFICES ASSUME NEW t \in Tasks
               PROVE  /\ \A i \in DOMAIN chats[t].replies : chats[t].replies[i].turn = i
                      /\ (chats[t].status = "NONE") <=> (chats[t].replies = <<>>)
                      /\ (chats[t].status = "COMPLETE") <=> (Len(chats[t].replies) = TurnCount[t])
    BY DEF TranscriptInOrder
  <2>1. DOMAIN chats[t].replies = {}
    <3>1. DOMAIN <<>> = {}
      OBVIOUS
    <3> QED BY <1>1, <3>1
  <2>2. TurnCount[t] # 0
    BY TurnCountAssumption
  <2> QED BY <1>1, <2>1, <2>2
<1> QED BY <1>4, <1>5 DEF ChatInv

(* The requests being served stay well-formed.                             *)
LEMMA RequestsTyped ==
  ASSUME ChatInv, [Next]_vars
  PROVE  handler' \in [Handlers -> RequestType]
<1> USE DEF ChatInv, TypeOK
<1>1. ASSUME NEW h \in Handlers, NEW request \in RequestType, Serve(h, request)
      PROVE  handler' \in [Handlers -> RequestType]
  BY <1>1 DEF Serve
<1>2. ASSUME NEW h \in Handlers, NEW t \in Tasks, GetState(h, t)
      PROVE  handler' \in [Handlers -> RequestType]
  <2>1. View(t) \in RequestType
    BY DEF View, RequestType
  <2> QED BY <1>1, <1>2, <2>1 DEF GetState
<1>3. ASSUME NEW h \in Handlers, NEW t \in Tasks,
             NEW turn \in 1..TurnCount[t] + 1, NEW key \in Keys, PostReply(h, t, turn, key)
      PROVE  handler' \in [Handlers -> RequestType]
  <2>1. Post(t, turn, key) \in RequestType
    BY DEF Post, RequestType
  <2> QED BY <1>1, <1>3, <2>1 DEF PostReply
<1>4. ASSUME NEW h \in Handlers, Replay(h) \/ Accept(h)
      PROVE  handler' \in [Handlers -> RequestType]
  <2>1. handler[h].pc = "decide" /\ handler[h] \in RequestType
    BY <1>4 DEF Replay, Accept
  <2>2. handler[h].task \in Tasks /\ handler[h].turn \in Nat \ {0} /\ handler[h].key \in Keys
    BY <2>1 DEF RequestType, Idle
  <2>3. NextMessage(handler[h]) \in SUBSET Nat
    BY <2>2 DEF NextMessage
  <2>4. Answer(handler[h], NextMessage(handler[h])) \in RequestType
    BY <2>2, <2>3 DEF Answer, RequestType
  <2> QED BY <1>1, <1>4, <2>4 DEF Replay, Accept
<1>5. ASSUME NEW h \in Handlers, Finish(h)
      PROVE  handler' \in [Handlers -> RequestType]
  BY <1>1, <1>5 DEF Finish, RequestType
<1>6. CASE UNCHANGED handler
  BY <1>6
<1> QED BY <1>2, <1>3, <1>4, <1>5, <1>6
    DEF Next, Request, vars, SubmitAnswers, MarkOpenSessionsIncomplete, SubmitDies, RemoveTask

(* The two steps that write records keep each of them well-formed and in   *)
(* order; every other step leaves all of them alone.                       *)
LEMMA AcceptKeepsOrder ==
  ASSUME ChatInv, NEW h \in Handlers, Accept(h), NEW t \in Tasks
  PROVE  /\ chats'[t] \in RecordType(t) /\ Len(chats'[t].replies) <= TurnCount[t]
         /\ \A i \in DOMAIN chats'[t].replies : chats'[t].replies[i].turn = i
         /\ (chats'[t].status = "NONE") <=> (chats'[t].replies = <<>>)
         /\ (chats'[t].status = "COMPLETE") <=> (Len(chats'[t].replies) = TurnCount[t])
<1> DEFINE turn == handler[h].turn
           reply == [turn |-> turn, key |-> handler[h].key]
           replies == chats[t].replies
<1>1. chats[t] \in RecordType(t) /\ Len(replies) <= TurnCount[t]
  BY DEF ChatInv, TypeOK
<1>2. CASE t # handler[h].task
  <2>1. chats'[t] = chats[t]
    BY <1>2, Accepting DEF ChatInv, TypeOK
  <2> QED BY <1>1, <2>1 DEF ChatInv, TranscriptInOrder
<1>3. CASE t = handler[h].task
  <2>1. /\ chats'[t].replies = Append(replies, reply)
        /\ chats'[t] = [status |-> IF turn = TurnCount[t] THEN "COMPLETE" ELSE "IN_PROGRESS",
                        replies |-> Append(replies, reply)]
        /\ turn = Len(replies) + 1 /\ turn \in 1..TurnCount[t]
        /\ reply \in Replies(t)
    BY <1>3, Accepting DEF Replies, ChatInv, TypeOK
  <2>2. replies \in Seq(Replies(t))
    BY <1>1 DEF RecordType
  <2>3. /\ Append(replies, reply) \in Seq(Replies(t))
        /\ Len(Append(replies, reply)) = turn
        /\ \A i \in 1..Len(replies) : Append(replies, reply)[i] = replies[i]
        /\ Append(replies, reply)[turn] = reply
    BY <2>1, <2>2
  <2>4. \A i \in DOMAIN Append(replies, reply) : Append(replies, reply)[i].turn = i
    <3> SUFFICES ASSUME NEW i \in 1..turn
                 PROVE  Append(replies, reply)[i].turn = i
      BY <2>2, <2>3
    <3>1. CASE i = turn
      BY <2>3, <3>1
    <3>2. CASE i # turn
      <4>1. i \in 1..Len(replies)
        BY <2>1, <2>2, <3>2
      <4> QED BY <2>2, <2>3, <4>1 DEF ChatInv, TranscriptInOrder
    <3> QED BY <3>1, <3>2
  <2>5. Append(replies, reply) # <<>>
    BY <2>1, <2>3
  <2> QED BY <2>1, <2>3, <2>4, <2>5 DEF RecordType
<1> QED BY <1>2, <1>3

LEMMA MarkKeepsOrder ==
  ASSUME ChatInv, MarkOpenSessionsIncomplete, NEW t \in Tasks
  PROVE  /\ chats'[t] \in RecordType(t)
         /\ chats'[t].replies = chats[t].replies
         /\ chats'[t].status # "IN_PROGRESS"
         /\ (chats'[t].status = "NONE") <=> (chats[t].status = "NONE")
         /\ (chats'[t].status = "COMPLETE") <=> (chats[t].status = "COMPLETE")
<1>1. chats[t] \in RecordType(t) /\ chats'[t] = Mark(chats[t])
  BY DEF ChatInv, TypeOK, MarkOpenSessionsIncomplete
<1> QED BY <1>1 DEF RecordType, Mark

LEMMA RecordsUntouched ==
  ASSUME [Next]_vars,
         \A h \in Handlers : ~Accept(h),
         ~MarkOpenSessionsIncomplete
  PROVE  UNCHANGED chats
BY DEF Next, Request, vars, GetState, PostReply, Replay, Finish, SubmitAnswers, SubmitDies, RemoveTask

LEMMA StepInv == ChatInv /\ [Next]_vars => ChatInv'
<1> SUFFICES ASSUME ChatInv, [Next]_vars PROVE ChatInv'
  OBVIOUS
<1>1. handler' \in [Handlers -> RequestType]
  BY RequestsTyped
<1>2. /\ completedAt' \in BOOLEAN /\ crashed' \in BOOLEAN
      /\ offered' \subseteq Tasks
      /\ marks' \in 0..MaxSubmits
  <2>1. /\ completedAt \in BOOLEAN /\ crashed \in BOOLEAN
        /\ offered \subseteq Tasks
        /\ marks \in 0..MaxSubmits /\ MaxSubmits \in Nat
    BY MaxSubmitsAssumption DEF ChatInv, TypeOK
  <2>2. CASE UNCHANGED <<completedAt, offered, marks, crashed>>
    BY <2>1, <2>2
  <2>3. CASE SubmitAnswers
    BY <2>1, <2>3 DEF SubmitAnswers
  <2>4. CASE MarkOpenSessionsIncomplete
    BY <2>1, <2>4 DEF MarkOpenSessionsIncomplete
  <2>5. CASE SubmitDies
    BY <2>1, <2>5 DEF SubmitDies
  <2>6. CASE \E t \in Tasks : RemoveTask(t)
    BY <2>1, <2>6 DEF RemoveTask
  <2> QED BY <2>2, <2>3, <2>4, <2>5, <2>6
      DEF Next, Request, vars, GetState, PostReply, Replay, Accept, Finish
<1>3. DOMAIN chats' = Tasks
  BY Accepting, RecordsUntouched DEF ChatInv, TypeOK, MarkOpenSessionsIncomplete
<1>4. \A t \in Tasks :
         /\ chats'[t] \in RecordType(t) /\ Len(chats'[t].replies) <= TurnCount[t]
         /\ \A i \in DOMAIN chats'[t].replies : chats'[t].replies[i].turn = i
         /\ (chats'[t].status = "NONE") <=> (chats'[t].replies = <<>>)
         /\ (chats'[t].status = "COMPLETE") <=> (Len(chats'[t].replies) = TurnCount[t])
  <2>1. CASE \E h \in Handlers : Accept(h)
    BY <2>1, AcceptKeepsOrder
  <2>2. CASE MarkOpenSessionsIncomplete
    BY <2>2, MarkKeepsOrder DEF ChatInv, TypeOK, TranscriptInOrder
  <2>3. CASE UNCHANGED chats
    BY <2>3 DEF ChatInv, TypeOK, TranscriptInOrder
  <2> QED BY <2>1, <2>2, <2>3, RecordsUntouched
<1>5. TypeOK'
  BY <1>1, <1>2, <1>3, <1>4 DEF TypeOK
<1>6. TranscriptInOrder'
  BY <1>4 DEF TranscriptInOrder
<1> QED BY <1>5, <1>6 DEF ChatInv

LEMMA Invariance == Spec => []ChatInv
BY InitInv, StepInv, PTL DEF Spec

(* Types, and no chat with more replies than turns.                        *)
THEOREM ChatTyped == Spec => []TypeOK
BY Invariance, PTL DEF ChatInv

(* The stored replies answer the turns in order; a chat is complete        *)
(* exactly when all are answered.                                          *)
THEOREM RepliesInOrder == Spec => []TranscriptInOrder
BY Invariance, PTL DEF ChatInv

-----------------------------------------------------------------------------
(* Answers.                                                                *)

(* No step changes or drops a stored reply.                                *)
LEMMA RepliesStay ==
  ASSUME ChatInv, [Next]_vars, NEW t \in Tasks
  PROVE  /\ Len(chats[t].replies) \in Nat /\ Len(chats'[t].replies) \in Nat
         /\ Len(chats[t].replies) <= Len(chats'[t].replies)
         /\ \A i \in DOMAIN chats[t].replies :
               i \in DOMAIN chats'[t].replies /\ chats'[t].replies[i] = chats[t].replies[i]
<1> DEFINE replies == chats[t].replies
<1>1. chats[t] \in RecordType(t) /\ replies \in Seq(Replies(t))
  BY DEF ChatInv, TypeOK, RecordType
<1>2. CASE chats'[t].replies = replies
  BY <1>1, <1>2
<1>3. ASSUME NEW h \in Handlers, Accept(h), t = handler[h].task
      PROVE  /\ Len(chats[t].replies) \in Nat /\ Len(chats'[t].replies) \in Nat
             /\ Len(chats[t].replies) <= Len(chats'[t].replies)
             /\ \A i \in DOMAIN chats[t].replies :
                  i \in DOMAIN chats'[t].replies /\ chats'[t].replies[i] = chats[t].replies[i]
  <2> DEFINE reply == [turn |-> handler[h].turn, key |-> handler[h].key]
  <2>1. chats'[t].replies = Append(replies, reply)
    BY <1>3, Accepting
  <2>2. reply \in Replies(t)
    BY <1>3, Accepting DEF Replies
  <2> QED BY <1>1, <2>1, <2>2
<1>4. ASSUME NEW h \in Handlers, Accept(h), t # handler[h].task
      PROVE  chats'[t].replies = replies
  <2>1. chats'[t] = chats[t]
    BY <1>4, Accepting DEF ChatInv, TypeOK
  <2> QED BY <2>1
<1>5. CASE MarkOpenSessionsIncomplete
  BY <1>2, <1>5, MarkKeepsOrder
<1>6. CASE UNCHANGED chats
  BY <1>2, <1>6
<1> QED BY <1>2, <1>3, <1>4, <1>5, <1>6, RecordsUntouched

(* What one handler's answer may claim of the records.                     *)
Honest(req, records) ==
  /\ req.pc = "replied" =>
       /\ req.turn \in DOMAIN records[req.task].replies
       /\ records[req.task].replies[req.turn] = [turn |-> req.turn, key |-> req.key]
  /\ req.pc \in {"replied", "shown"} =>
       \A turn \in req.shows : turn <= Len(records[req.task].replies) + 1

AllHonest == \A h \in Handlers : Honest(handler[h], chats)

(* An answer given before a step is still true after it.                   *)
LEMMA HonestStays ==
  ASSUME ChatInv, [Next]_vars, NEW req \in RequestType, Honest(req, chats)
  PROVE  Honest(req, chats')
<1>1. CASE req.pc \in {"idle", "decide"}
  BY <1>1 DEF Honest
<1>2. CASE req.pc \in {"replied", "shown"}
  <2>1. req.task \in Tasks /\ req.shows \in SUBSET Nat
    BY <1>2 DEF RequestType, Idle
  <2>2. \A turn \in req.shows : turn \in Nat /\ turn <= Len(chats[req.task].replies) + 1
    BY <1>2, <2>1 DEF Honest
  <2>3. \A turn \in req.shows : turn <= Len(chats'[req.task].replies) + 1
    BY <2>1, <2>2, RepliesStay
  <2> QED BY <1>2, <2>1, <2>3, RepliesStay DEF Honest
<1> QED BY <1>1, <1>2 DEF RequestType, Idle

(* Each of the steps that give an answer gives a true one.                 *)
LEMMA ReplayHonest ==
  ASSUME ChatInv, NEW h \in Handlers, Replay(h)
  PROVE  Honest(handler'[h], chats')
<1> DEFINE req == handler[h]
           replies == chats[req.task].replies
<1>1. req.pc = "decide" /\ req \in RequestType
  BY DEF Replay, ChatInv, TypeOK
<1>2. req.task \in Tasks /\ req.turn \in Nat \ {0} /\ req.key \in Keys
  BY <1>1 DEF RequestType, Idle
<1>3. replies \in Seq(Replies(req.task))
  BY <1>2 DEF ChatInv, TypeOK, RecordType
<1>4. PICK i \in Stored(req.task, req.turn) : replies[i].key = req.key
  BY DEF Replay, Decision, DecideReply
<1>5. i \in DOMAIN replies /\ replies[i].turn = req.turn
  BY <1>4 DEF Stored
<1>6. i = req.turn
  BY <1>2, <1>5 DEF ChatInv, TranscriptInOrder
<1>7. replies[req.turn] = [turn |-> req.turn, key |-> req.key]
  <2>1. replies[i] \in Replies(req.task)
    BY <1>3, <1>5
  <2>2. replies[i] = [turn |-> replies[i].turn, key |-> replies[i].key]
    BY <2>1 DEF Replies
  <2> QED BY <1>4, <1>5, <1>6, <2>2
<1>8. req.turn <= Len(replies) /\ Len(replies) \in Nat
  BY <1>3, <1>5, <1>6
<1>9. chats' = chats /\ handler'[h] = Answer(req, NextMessage(req))
  BY DEF Replay, Serve, ChatInv, TypeOK
<1>10. \A turn \in NextMessage(req) : turn <= Len(replies) + 1
  BY <1>2, <1>8 DEF NextMessage
<1> QED BY <1>5, <1>6, <1>7, <1>9, <1>10 DEF Answer, Honest

LEMMA AcceptHonest ==
  ASSUME ChatInv, NEW h \in Handlers, Accept(h)
  PROVE  Honest(handler'[h], chats')
<1> DEFINE req == handler[h]
           replies == chats[req.task].replies
           reply == [turn |-> req.turn, key |-> req.key]
<1>1. /\ req.task \in Tasks /\ req.key \in Keys
      /\ req.turn = Len(replies) + 1 /\ req.turn \in 1..TurnCount[req.task]
      /\ chats'[req.task].replies = Append(replies, reply)
  BY Accepting
<1>2. replies \in Seq(Replies(req.task)) /\ reply \in Replies(req.task)
  BY <1>1 DEF ChatInv, TypeOK, RecordType, Replies
<1>3. /\ Len(chats'[req.task].replies) = req.turn
      /\ req.turn \in DOMAIN chats'[req.task].replies
      /\ chats'[req.task].replies[req.turn] = reply
  BY <1>1, <1>2
<1>4. handler'[h] = Answer(req, NextMessage(req))
  BY DEF Accept, Serve, ChatInv, TypeOK
<1>5. \A turn \in NextMessage(req) : turn <= req.turn + 1
  BY <1>1 DEF NextMessage
<1> QED BY <1>3, <1>4, <1>5 DEF Answer, Honest

LEMMA ViewHonest ==
  ASSUME ChatInv, NEW h \in Handlers, NEW t \in Tasks, GetState(h, t)
  PROVE  Honest(handler'[h], chats')
<1>1. chats' = chats /\ handler'[h] = View(t)
  BY DEF GetState, Serve, ChatInv, TypeOK
<1>2. CurrentTurn(t) = Len(chats[t].replies) + 1 /\ Len(chats[t].replies) \in Nat
  BY DEF CurrentTurn, RecordFor, NoRecord, ChatInv, TypeOK, RecordType
<1>3. \A turn \in View(t).shows : turn <= Len(chats[t].replies) + 1
  BY <1>2 DEF View
<1> QED BY <1>1, <1>3 DEF View, Honest

LEMMA StepHonest == ChatInv /\ AllHonest /\ [Next]_vars => AllHonest'
<1> SUFFICES ASSUME ChatInv, AllHonest, [Next]_vars, NEW h \in Handlers
             PROVE  Honest(handler'[h], chats')
  BY DEF AllHonest
<1>1. CASE handler'[h] = handler[h]
  BY <1>1, HonestStays DEF AllHonest, ChatInv, TypeOK
<1>2. CASE \E t \in Tasks : GetState(h, t)
  BY <1>2, ViewHonest
<1>3. CASE \E t \in Tasks : \E turn \in 1..TurnCount[t] + 1, key \in Keys : PostReply(h, t, turn, key)
  BY <1>3 DEF PostReply, Serve, Post, Honest, ChatInv, TypeOK
<1>4. CASE Replay(h)
  BY <1>4, ReplayHonest
<1>5. CASE Accept(h)
  BY <1>5, AcceptHonest
<1>6. CASE Finish(h)
  BY <1>6 DEF Finish, Serve, Idle, Honest, ChatInv, TypeOK
<1>7. ASSUME NEW other \in Handlers, NEW request, other # h, Serve(other, request)
      PROVE  handler'[h] = handler[h]
  BY <1>7 DEF Serve, ChatInv, TypeOK
<1> QED BY <1>1, <1>2, <1>3, <1>4, <1>5, <1>6, <1>7
    DEF Next, Request, vars, GetState, PostReply, Replay, Accept, Finish,
        SubmitAnswers, MarkOpenSessionsIncomplete, SubmitDies, RemoveTask

LEMMA InitHonest == Init => AllHonest
BY DEF Init, Idle, AllHonest, Honest

LEMMA AlwaysHonest == Spec => []AllHonest
BY InitHonest, StepHonest, Invariance, PTL DEF Spec

(* A request answered with success has its reply stored for its turn.      *)
THEOREM AnswersAreTrue == Spec => []AnsweredIsStored
<1>1. AllHonest => AnsweredIsStored
  BY DEF AllHonest, Honest, AnsweredIsStored
<1> QED BY <1>1, AlwaysHonest, PTL

(* No answer shows a message after the one that awaits a reply.            *)
THEOREM FutureIsHidden == Spec => []NoFutureMessage
<1>1. AllHonest => NoFutureMessage
  BY DEF AllHonest, Honest, NoFutureMessage
<1> QED BY <1>1, AlwaysHonest, PTL

-----------------------------------------------------------------------------
(* Closing.                                                                *)

(* Unless a submit call died, no chat stays in progress after the calls    *)
(* that closed the submission.                                             *)
THEOREM ClosingMarks == Spec => []ClosedIsMarked
<1>1. Init => ClosedIsMarked
  BY DEF Init, ClosedIsMarked
<1>2. ChatInv /\ ClosedIsMarked /\ [Next]_vars => ClosedIsMarked'
  <2> SUFFICES ASSUME ChatInv, ClosedIsMarked, [Next]_vars,
                      completedAt', marks' = 0, ~crashed', NEW t \in Tasks
               PROVE  chats'[t].status # "IN_PROGRESS"
    BY DEF ClosedIsMarked
  <2>1. CASE MarkOpenSessionsIncomplete
    BY <2>1, MarkKeepsOrder
  <2>2. CASE SubmitAnswers
    BY <2>2 DEF SubmitAnswers, ChatInv, TypeOK
  <2>3. CASE SubmitDies
    BY <2>3 DEF SubmitDies
  <2>4. ASSUME NEW h \in Handlers, Accept(h)
        PROVE  FALSE
    BY <2>4, Accepting DEF Accept
  <2>5. CASE UNCHANGED <<chats, completedAt, marks, crashed>>
    BY <2>5 DEF ClosedIsMarked
  <2> QED BY <2>1, <2>2, <2>3, <2>4, <2>5
      DEF Next, Request, vars, GetState, PostReply, Replay, Finish, RemoveTask
<1> QED BY <1>1, <1>2, Invariance, PTL DEF Spec

-----------------------------------------------------------------------------
(* The refinement.                                                         *)

LEMMA KeysTyped ==
  ASSUME NEW t \in Tasks, NEW replies \in Seq(Replies(t))
  PROVE  /\ KeysOf(replies) \in Seq(Keys)
         /\ Len(KeysOf(replies)) = Len(replies)
         /\ \A i \in 1..Len(replies) : KeysOf(replies)[i] = replies[i].key
<1>1. Len(replies) \in Nat /\ DOMAIN replies = 1..Len(replies)
  BY LenProperties
<1>2. ASSUME NEW i \in 1..Len(replies)
      PROVE  replies[i].key \in Keys
  <2>1. replies[i] \in Replies(t)
    BY ElementOfSeq
  <2> QED BY <2>1 DEF Replies
<1>3. KeysOf(replies) = [i \in 1..Len(replies) |-> replies[i].key]
  BY <1>1 DEF KeysOf
<1> QED BY <1>1, <1>2, <1>3

LEMMA KeysOfAppend ==
  ASSUME NEW t \in Tasks, NEW replies \in Seq(Replies(t)), NEW reply \in Replies(t)
  PROVE  KeysOf(Append(replies, reply)) = Append(KeysOf(replies), reply.key)
<1> DEFINE longer == Append(replies, reply)
           said == KeysOf(replies)
<1>1. longer \in Seq(Replies(t)) /\ Len(longer) = Len(replies) + 1 /\ Len(replies) \in Nat
  OBVIOUS
<1>2. reply.key \in Keys
  BY DEF Replies
<1>3. said \in Seq(Keys) /\ Len(said) = Len(replies)
  BY KeysTyped
<1>4. /\ Append(said, reply.key) \in Seq(Keys)
      /\ Len(Append(said, reply.key)) = Len(replies) + 1
  BY <1>2, <1>3
<1>5. KeysOf(longer) \in Seq(Keys) /\ Len(KeysOf(longer)) = Len(replies) + 1
  BY <1>1, KeysTyped
<1>6. ASSUME NEW i \in 1..Len(replies) + 1
      PROVE  KeysOf(longer)[i] = Append(said, reply.key)[i]
  <2>1. KeysOf(longer)[i] = longer[i].key
    BY <1>1, <1>6, KeysTyped
  <2>2. CASE i = Len(replies) + 1
    <3>1. longer[i] = reply
      BY <1>1, <2>2
    <3>2. Append(said, reply.key)[i] = reply.key
      BY <1>2, <1>3, <2>2
    <3> QED BY <2>1, <3>1, <3>2
  <2>3. CASE i \in 1..Len(replies)
    <3>1. longer[i] = replies[i]
      BY <1>1, <2>3
    <3>2. Append(said, reply.key)[i] = said[i]
      BY <1>2, <1>3, <2>3
    <3>3. said[i] = replies[i].key
      BY <2>3, KeysTyped
    <3> QED BY <2>1, <3>1, <3>2, <3>3
  <2>4. i = Len(replies) + 1 \/ i \in 1..Len(replies)
    BY <1>1, <1>6
  <2> QED BY <2>2, <2>3, <2>4
<1> QED BY <1>4, <1>5, <1>6, SeqEqual

(* An accepted reply is said; any other step says nothing.                 *)
LEMMA AcceptSays ==
  ASSUME ChatInv, NEW h \in Handlers, Accept(h)
  PROVE  Promise!Say(handler[h].task, handler[h].key)
<1> DEFINE t == handler[h].task
           key == handler[h].key
           reply == [turn |-> handler[h].turn, key |-> key]
<1>1. /\ t \in Tasks /\ key \in Keys /\ ~completedAt
      /\ handler[h].turn = Len(chats[t].replies) + 1
      /\ handler[h].turn \in 1..TurnCount[t]
      /\ chats'[t].replies = Append(chats[t].replies, reply)
  BY Accepting
<1>2. chats[t].replies \in Seq(Replies(t)) /\ reply \in Replies(t)
  BY <1>1 DEF ChatInv, TypeOK, RecordType, Replies
<1>3. Len(Said[t]) < TurnCount[t]
  <2>1. Len(Said[t]) = Len(chats[t].replies)
    BY <1>1, <1>2, KeysTyped DEF Said
  <2>2. Len(chats[t].replies) \in Nat /\ TurnCount[t] \in Nat
    BY <1>1, <1>2, LenProperties, TurnCountAssumption
  <2> QED BY <1>1, <2>1, <2>2
<1>4. KeysOf(chats'[t].replies) = Append(Said[t], key)
  <2>1. Said[t] = KeysOf(chats[t].replies) /\ reply.key = key
    BY <1>1 DEF Said
  <2>2. KeysOf(Append(chats[t].replies, reply)) = Append(KeysOf(chats[t].replies), reply.key)
    BY <1>1, <1>2, KeysOfAppend
  <2> QED BY <1>1, <2>1, <2>2
<1>5. \A u \in Tasks : u # t => chats'[u] = chats[u]
  BY Accepting
<1>6. Said' = [Said EXCEPT ![t] = Append(Said[t], key)]
  BY <1>1, <1>4, <1>5 DEF Said
<1> QED BY <1>1, <1>3, <1>6 DEF Promise!Say, Accept

LEMMA StepPromised ==
  ASSUME ChatInv, [Next]_vars
  PROVE  [Promise!Next]_<<Said, completedAt>>
<1>1. CASE \E h \in Handlers : Accept(h)
  BY <1>1, AcceptSays, Accepting DEF Promise!Next
<1>2. CASE MarkOpenSessionsIncomplete
  <2>1. \A t \in Tasks : chats'[t].replies = chats[t].replies
    BY <1>2, MarkKeepsOrder
  <2> QED BY <1>2, <2>1 DEF Said, MarkOpenSessionsIncomplete
<1>3. CASE SubmitAnswers
  BY <1>3 DEF SubmitAnswers, Said, Promise!Next, Promise!Close
<1>4. CASE UNCHANGED <<chats, completedAt>>
  BY <1>4 DEF Said
<1> QED BY <1>1, <1>2, <1>3, <1>4
    DEF Next, Request, vars, GetState, PostReply, Replay, Finish, SubmitDies, RemoveTask

(* The stored chats grow, and close, as Transcript promises.               *)
THEOREM TranscriptImplemented == Spec => ImplementsTranscript
<1>1. Init => Promise!Init
  <2> SUFFICES ASSUME Init PROVE Promise!Init
    OBVIOUS
  <2>1. ASSUME NEW t \in Tasks
        PROVE  Said[t] = <<>>
    <3>1. chats[t].replies = <<>>
      BY DEF Init, NoRecord
    <3>2. <<>> \in Seq(Replies(t)) /\ Len(<<>>) = 0
      BY EmptySeq
    <3>3. KeysOf(<<>>) \in Seq(Keys) /\ Len(KeysOf(<<>>)) = 0
      BY <3>2, KeysTyped
    <3> QED BY <3>1, <3>3, EmptySeq DEF Said
  <2> QED BY <2>1 DEF Init, Said, Promise!Init
<1>2. ChatInv /\ [Next]_vars => [Promise!Next]_<<Said, completedAt>>
  BY StepPromised
<1> QED BY <1>1, <1>2, Invariance, PTL DEF Spec, ImplementsTranscript, Promise!Spec

-----------------------------------------------------------------------------
(* People: a behaviour of the whole is one of each part.                   *)

(* What each part does in the composition, with the others standing still, *)
(* it may do alone: a theorem about a part holds of the composition.       *)
THEOREM PartsRunAlone ==
  PeopleSpec => Spec /\ Auth!Spec /\ Intake!Spec /\ Scores!Spec /\ Anchors!Spec /\ Passport!Spec
<1>1. PeopleInit => Init /\ Auth!Init /\ Intake!Init /\ Scores!Init /\ Anchors!Init /\ Passport!Init
  BY DEF PeopleInit
<1>2. [PeopleNext]_allVars => [Next]_vars
  BY DEF PeopleNext, allVars, chatVars, vars
<1>3. [PeopleNext]_allVars => [Auth!Next]_(Auth!vars)
  BY DEF PeopleNext, allVars, authVars, Auth!vars, Auth!history
<1>4. [PeopleNext]_allVars => [Intake!Next]_(Intake!vars)
  BY DEF PeopleNext, allVars, intakeVars, Intake!vars
<1>5. [PeopleNext]_allVars => [Scores!Next]_(Scores!vars)
  BY DEF PeopleNext, allVars, scoreVars, Scores!vars
<1>6. [PeopleNext]_allVars => [Anchors!Next]_(Anchors!vars)
  BY DEF PeopleNext, allVars, anchorVars, Anchors!vars
<1>7. [PeopleNext]_allVars => [Passport!Next]_(Passport!vars)
  BY DEF PeopleNext, allVars, passportVars, Passport!vars, Passport!submitted, Passport!graded
<1>. QED
  BY <1>1, <1>2, <1>3, <1>4, <1>5, <1>6, <1>7, PTL
     DEF PeopleSpec, Spec, Auth!Spec, Intake!Spec, Scores!Spec, Anchors!Spec, Passport!Spec

(* In every part at once, every variable keeps its type, and every id,     *)
(* token, code, submission and task that one of them names exists: accounts *)
(* and their requests, applications, anchors, keys and scores, passports   *)
(* and staged chats.                                                       *)
THEOREM PeopleTyped == PeopleSpec => []PeopleTypeOK
<1>1. Auth!Spec => []Auth!TypeOK
  BY AccountsTyped
<1>2. Intake!Spec => []Intake!TypeOK
  <2>1. Intake!Init => IntakeBounded
    BY BoundsAssumption DEF Intake!Init, IntakeBounded
  <2>2. IntakeTyped /\ IntakeBounded /\ [Intake!Next]_(Intake!vars) => IntakeBounded'
    BY NextIntakeBounded DEF intakeVars, Intake!vars
  <2>. QED
    BY <2>1, <2>2, IntakeIsTyped, TypedIntake, PTL DEF Intake!Spec
<1>3. Anchors!Spec => []Anchors!TypeOK
  <2>1. Anchors!Init => failures \in 0..MaxFailures
    BY BoundsAssumption DEF Anchors!Init
  <2>2. failures \in 0..MaxFailures /\ [Anchors!Next]_(Anchors!vars) => (failures \in 0..MaxFailures)'
    BY FailuresCounted DEF anchorVars, Anchors!vars
  <2>3. AnchorsKept /\ [Anchors!Next]_(Anchors!vars) => AnchorsKept'
    BY NextAnchors DEF anchorVars, Anchors!vars
  <2>. QED
    BY <2>1, <2>2, <2>3, InitAnchors, TypedAnchors, PTL DEF Anchors!Spec
<1>4. /\ TypeOK /\ Auth!TypeOK /\ Intake!TypeOK /\ Scores!TypeOK /\ Anchors!TypeOK /\ Passport!TypeOK
      => PeopleTypeOK
  BY DEF PeopleTypeOK
<1>. QED
  BY <1>1, <1>2, <1>3, <1>4, PartsRunAlone, ChatTyped, ScoresTyped, PassportIsTyped, PTL
=============================================================================
