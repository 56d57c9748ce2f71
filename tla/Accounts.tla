------------------------------ MODULE Accounts ------------------------------
(***************************************************************************)
(* Accounts and how one signs in (src/modules/auth, users, and the admin   *)
(* endpoints that create, suspend and delete accounts): registration,      *)
(* email verification, password resets and changes, Google sign-in, and    *)
(* the admin sign-in with an emailed code whose challenges live in the     *)
(* memory of the process.  A handler awaits the database, bcrypt or the    *)
(* email queue between its read and its write, so two requests about one   *)
(* account interleave; a request may fail at any await, and a restart      *)
(* loses the challenges.  Random tokens and codes are numbers never given  *)
(* out before.                                                             *)
(***************************************************************************)
EXTENDS Naturals

CONSTANTS
  Emails,
  Passwords,
  Clients,     \* HTTP requests in progress
  MaxResends,  \* auth.admin2fa.maxResends
  MaxMinted,   \* bound: rows, tokens and codes ever created
  MaxRequests  \* bound: requests ever made

VARIABLES
  users,       \* the users row of each email
  challenges,  \* AuthService.admin2faChallenges
  sessions,    \* ids of the users a JWT was signed for
  mailed,      \* emails queued: [to, kind, token]
  call,        \* the request each client has in progress
  minted, requests,
  spent,       \* history: reset tokens a password was set with, or cleared when one was set
  opened       \* sessions opened by each challenge

history == <<spent, opened>>
vars == <<users, challenges, sessions, mailed, call, minted, requests, history>>

None == 0
Roles == {"EMPLOYER", "JOB_SEEKER", "ADMIN"}

(* How long ago a token was issued: "fresh" is inside the resend cooldown  *)
(* (for a reset token, inside its hour), "live" is before the 24 hours (or *)
(* the 10 minutes of a code) are over.                                     *)
Older == [fresh |-> "live", live |-> "expired"]
Ages == {"fresh", "live", "expired"}

NoUser == [id |-> None]

NewUser(id, role, password, token) ==
  [id |-> id, role |-> role, password |-> password, active |-> TRUE, google |-> FALSE,
   verified |-> role = "ADMIN", profile |-> role # "ADMIN",
   vToken |-> token, vAge |-> "fresh", rToken |-> None, rAge |-> "fresh"]

Exists(e) == users[e].id # None

-----------------------------------------------------------------------------
(* Requests.                                                               *)

Idle == [pc |-> "idle"]

Start(c, state) ==
  /\ call[c] = Idle /\ requests < MaxRequests
  /\ requests' = requests + 1
  /\ call' = [call EXCEPT ![c] = state]

At(c, pc) == call[c].pc = pc
Goto(c, pc) == call' = [call EXCEPT ![c].pc = pc] /\ UNCHANGED requests
Return(c) == call' = [call EXCEPT ![c] = Idle] /\ UNCHANGED requests

Mint == minted < MaxMinted /\ minted' = minted + 1

(* UPDATE users ... WHERE id: nothing happens if the row is gone.          *)
Update(e, id, row) ==
  users' = IF users[e].id = id THEN [users EXCEPT ![e] = row] ELSE users

Post(c, kind) ==
  mailed' = mailed \cup {[to |-> call[c].email, kind |-> kind, token |-> call[c].token]}

Received(e, kind, token) == [to |-> e, kind |-> kind, token |-> token] \in mailed

-----------------------------------------------------------------------------
(* registerEmployer, registerJobSeeker: the user and the profile in one    *)
(* transaction, which the unique index on the email may refuse.            *)

Register(c, e, role, password) ==
  /\ ~Exists(e)
  /\ Start(c, [pc |-> "register", email |-> e, role |-> role, password |-> password])
  /\ UNCHANGED <<users, challenges, sessions, mailed, minted, history>>

RegisterCommit(c) ==
  LET e == call[c].email IN
  /\ At(c, "register")
  /\ IF Exists(e)
     THEN Return(c) /\ UNCHANGED <<users, minted>>
     ELSE /\ Mint
          /\ users' = [users EXCEPT ![e] =
                         NewUser(minted', call[c].role, call[c].password, minted')]
          /\ call' = [call EXCEPT ![c] = [pc |-> "welcome", email |-> e, id |-> minted',
                                          token |-> minted']]
          /\ UNCHANGED requests
  /\ UNCHANGED <<challenges, sessions, mailed, history>>

(* The verification and welcome emails, then login.                        *)
RegisterFinish(c) ==
  /\ At(c, "welcome")
  /\ Post(c, "verify")
  /\ sessions' = sessions \cup {call[c].id}
  /\ Return(c)
  /\ UNCHANGED <<users, challenges, minted, history>>

-----------------------------------------------------------------------------
(* verifyEmailByToken, resendVerificationEmail.                            *)

VerifyEmail(c, e, token) ==
  /\ Received(e, "verify", token)
  /\ Exists(e) /\ users[e].vToken = token /\ users[e].vAge # "expired"
  /\ Start(c, [pc |-> "verify", email |-> e, id |-> users[e].id])
  /\ UNCHANGED <<users, challenges, sessions, mailed, minted, history>>

VerifyWrite(c) ==
  LET e == call[c].email IN
  /\ At(c, "verify")
  /\ Update(e, call[c].id, [users[e] EXCEPT !.verified = TRUE, !.vToken = None])
  /\ Return(c)
  /\ UNCHANGED <<challenges, sessions, mailed, minted, history>>

HasLiveToken(e) == users[e].vToken # None /\ users[e].vAge # "expired"

(* A live token is reused, unless it was sent within the cooldown; token   *)
(* None stands for one to be drawn.                                        *)
ResendVerification(c, e) ==
  /\ Exists(e) /\ ~users[e].verified
  /\ ~(HasLiveToken(e) /\ users[e].vAge = "fresh")
  /\ Start(c, [pc |-> "resend", email |-> e, id |-> users[e].id,
               token |-> IF HasLiveToken(e) THEN users[e].vToken ELSE None])
  /\ UNCHANGED <<users, challenges, sessions, mailed, minted, history>>

ResendWrite(c) ==
  LET e == call[c].email
      token == IF call[c].token = None THEN minted' ELSE call[c].token
  IN
  /\ At(c, "resend")
  /\ IF call[c].token = None THEN Mint ELSE UNCHANGED minted
  /\ Update(e, call[c].id, [users[e] EXCEPT !.vToken = token, !.vAge = "fresh"])
  /\ call' = [call EXCEPT ![c].pc = "resend-mail", ![c].token = token]
  /\ UNCHANGED <<challenges, sessions, mailed, requests, history>>

ResendMail(c) ==
  /\ At(c, "resend-mail")
  /\ Post(c, "verify")
  /\ Return(c)
  /\ UNCHANGED <<users, challenges, sessions, minted, history>>

-----------------------------------------------------------------------------
(* requestPasswordReset, resetPassword, changePassword,                    *)
(* setAdminInitialPassword; the last three end in updatePassword.          *)

RequestReset(c, e) ==
  /\ Exists(e)
  /\ Start(c, [pc |-> "issue", email |-> e, id |-> users[e].id])
  /\ UNCHANGED <<users, challenges, sessions, mailed, minted, history>>

IssueReset(c) ==
  LET e == call[c].email IN
  /\ At(c, "issue")
  /\ Mint
  /\ Update(e, call[c].id, [users[e] EXCEPT !.rToken = minted', !.rAge = "fresh"])
  /\ call' = [call EXCEPT ![c] = [pc |-> "reset-mail", email |-> e, token |-> minted']]
  /\ UNCHANGED <<challenges, sessions, mailed, requests, history>>

ResetMail(c) ==
  /\ At(c, "reset-mail")
  /\ Post(c, "reset")
  /\ Return(c)
  /\ UNCHANGED <<users, challenges, sessions, minted, history>>

ValidResetToken(e, token) == Exists(e) /\ users[e].rToken = token /\ users[e].rAge = "fresh"

SettingPassword(e, password, by, token) ==
  [pc |-> "set-password", email |-> e, id |-> users[e].id, password |-> password,
   by |-> by, token |-> token]

ResetPassword(c, e, token, password) ==
  /\ Received(e, "reset", token) /\ ValidResetToken(e, token)
  /\ Start(c, SettingPassword(e, password, "reset", token))
  /\ UNCHANGED <<users, challenges, sessions, mailed, minted, history>>

(* JwtStrategy.validate, then JwtAuthGuard.canActivate, on every request.  *)
Authenticated(e) == Exists(e) /\ users[e].id \in sessions /\ users[e].active

Admitted(e) == Authenticated(e) /\ users[e].verified

ChangePassword(c, e, current, password) ==
  /\ Admitted(e) /\ users[e].password = current
  /\ Start(c, SettingPassword(e, password, "change", None))
  /\ UNCHANGED <<users, challenges, sessions, mailed, minted, history>>

SetAdminInitialPassword(c, e, password) ==
  /\ Admitted(e) /\ users[e].role = "ADMIN" /\ users[e].password # password
  /\ Start(c, SettingPassword(e, password, "initial", None))
  /\ UNCHANGED <<users, challenges, sessions, mailed, minted, history>>

(* The link a reset came with, and the one its row has by now.             *)
Spends(c) ==
  LET e == call[c].email
  IN  (IF call[c].by = "reset" THEN {call[c].token} ELSE {})
      \cup (IF users[e].id = call[c].id THEN {users[e].rToken} \ {None} ELSE {})

(* Mutant: the reset token stays on the row.                               *)
UpdatePasswordOnly(c) ==
  LET e == call[c].email IN
  /\ At(c, "set-password")
  /\ Update(e, call[c].id, [users[e] EXCEPT !.password = call[c].password])
  /\ spent' = spent \cup Spends(c)
  /\ sessions' = IF call[c].by = "initial" /\ users[e].id = call[c].id
                 THEN sessions \cup {call[c].id} ELSE sessions
  /\ Return(c)
  /\ UNCHANGED <<challenges, mailed, minted, opened>>

(* Whatever reset token the row has by now is cleared with it.             *)
UpdatePassword(c) ==
  LET e == call[c].email IN
  /\ At(c, "set-password")
  /\ Update(e, call[c].id, [users[e] EXCEPT !.password = call[c].password, !.rToken = None])
  /\ spent' = spent \cup Spends(c)
  /\ sessions' = IF call[c].by = "initial" /\ users[e].id = call[c].id
                 THEN sessions \cup {call[c].id} ELSE sessions
  /\ Return(c)
  /\ UNCHANGED <<challenges, mailed, minted, opened>>

-----------------------------------------------------------------------------
(* validateUser and login; GoogleAuthService.signIn.                       *)

Validated(e, password) == Exists(e) /\ users[e].password = password /\ users[e].active

Login(c, e, password) ==
  /\ Validated(e, password)
  /\ Start(c, Idle)
  /\ sessions' = sessions \cup {users[e].id}
  /\ UNCHANGED <<users, challenges, mailed, minted, history>>

SignInWithGoogle(c, e) ==
  /\ Exists(e) /\ users[e].role # "ADMIN" /\ users[e].active
  /\ Start(c, IF users[e].google /\ users[e].verified
              THEN Idle ELSE [pc |-> "link", email |-> e, id |-> users[e].id])
  /\ sessions' = IF users[e].google /\ users[e].verified
                 THEN sessions \cup {users[e].id} ELSE sessions
  /\ UNCHANGED <<users, challenges, mailed, minted, history>>

LinkGoogleAccount(c) ==
  LET e == call[c].email IN
  /\ At(c, "link")
  /\ Update(e, call[c].id, [users[e] EXCEPT !.google = TRUE, !.verified = TRUE])
  /\ sessions' = sessions \cup {call[c].id}
  /\ Return(c)
  /\ UNCHANGED <<challenges, mailed, minted, history>>

-----------------------------------------------------------------------------
(* The admin sign-in: a challenge, its emailed code, at most MaxResends    *)
(* new codes, and one session.  Up to its first await a handler runs       *)
(* alone, so looking a challenge up and deleting it is one step.           *)

Pending == {n \in DOMAIN challenges : challenges[n].age # "expired"}

Forget(n) == challenges' = [k \in DOMAIN challenges \ {n} |-> challenges[k]]

InitiateAdminLogin(c, e, password) ==
  /\ Validated(e, password) /\ users[e].role = "ADMIN"
  /\ Mint
  /\ challenges' = [n \in Pending \cup {minted'} |->
       IF n = minted'
       THEN [email |-> e, id |-> users[e].id, code |-> minted', age |-> "fresh", resends |-> 0]
       ELSE challenges[n]]
  /\ Start(c, [pc |-> "code-mail", email |-> e, token |-> minted'])
  /\ UNCHANGED <<users, sessions, mailed, history>>

CodeMail(c) ==
  /\ At(c, "code-mail")
  /\ Post(c, "code")
  /\ Return(c)
  /\ UNCHANGED <<users, challenges, sessions, minted, history>>

Admission(n) ==
  [pc |-> "admit", email |-> challenges[n].email, id |-> challenges[n].id, challenge |-> n]

(* Mutant: the challenge is cleared only after the account was read again. *)
VerifyAdmin2faKeeps(c, n) ==
  /\ n \in DOMAIN challenges
  /\ IF challenges[n].age = "expired"
     THEN Forget(n) /\ Start(c, Idle)
     ELSE /\ Received(challenges[n].email, "code", challenges[n].code)
          /\ UNCHANGED challenges
          /\ Start(c, Admission(n))
  /\ UNCHANGED <<users, sessions, mailed, minted, history>>

VerifyAdmin2fa(c, n) ==
  /\ n \in DOMAIN challenges
  /\ IF challenges[n].age = "expired"
     THEN Forget(n) /\ Start(c, Idle)
     ELSE /\ Received(challenges[n].email, "code", challenges[n].code)
          /\ Forget(n)
          /\ Start(c, Admission(n))
  /\ UNCHANGED <<users, sessions, mailed, minted, history>>

(* The account is read again: it may be gone or suspended by now.          *)
AdmitAdmin(c) ==
  LET e == call[c].email IN
  /\ At(c, "admit")
  /\ IF users[e].id = call[c].id /\ users[e].active
     THEN /\ sessions' = sessions \cup {call[c].id}
          /\ opened' = [opened EXCEPT ![call[c].challenge] = @ + 1]
     ELSE UNCHANGED <<sessions, opened>>
  /\ Return(c)
  /\ UNCHANGED <<users, challenges, mailed, minted, spent>>

ResendAdmin2fa(c, n) ==
  /\ n \in DOMAIN challenges
  /\ IF challenges[n].age = "expired" \/ challenges[n].resends >= MaxResends
     THEN Forget(n) /\ Start(c, Idle) /\ UNCHANGED minted
     ELSE /\ challenges[n].age # "fresh"
          /\ Mint
          /\ challenges' = [challenges EXCEPT
               ![n].code = minted', ![n].age = "fresh", ![n].resends = @ + 1]
          /\ Start(c, [pc |-> "code-mail", email |-> challenges[n].email, token |-> minted'])
  /\ UNCHANGED <<users, sessions, mailed, history>>

-----------------------------------------------------------------------------
(* AdminService: createAdmin inserts the user, then the profile, then      *)
(* sends the invitation; deleteAdmin and setUserActiveStatus find the user *)
(* by id, whose role never changes, and write by id.                       *)

CreateAdmin(c, e, password) ==
  /\ ~Exists(e)
  /\ Start(c, [pc |-> "create-admin", email |-> e, password |-> password])
  /\ UNCHANGED <<users, challenges, sessions, mailed, minted, history>>

CreateAdminUser(c) ==
  LET e == call[c].email IN
  /\ At(c, "create-admin")
  /\ IF Exists(e)
     THEN Return(c) /\ UNCHANGED <<users, minted>>
     ELSE /\ Mint
          /\ users' = [users EXCEPT ![e] = NewUser(minted', "ADMIN", call[c].password, None)]
          /\ call' = [call EXCEPT ![c] = [pc |-> "admin-profile", email |-> e, id |-> minted',
                                          token |-> minted']]
          /\ UNCHANGED requests
  /\ UNCHANGED <<challenges, sessions, mailed, history>>

(* The foreign key refuses the profile of a deleted user.                  *)
CreateAdminProfile(c) ==
  LET e == call[c].email IN
  /\ At(c, "admin-profile")
  /\ Update(e, call[c].id, [users[e] EXCEPT !.profile = TRUE])
  /\ IF users[e].id = call[c].id THEN Post(c, "invite") ELSE UNCHANGED mailed
  /\ Return(c)
  /\ UNCHANGED <<challenges, sessions, minted, history>>

DeleteAdmin(c, e) ==
  /\ Exists(e) /\ users[e].role = "ADMIN"
  /\ Start(c, Idle)
  /\ users' = [users EXCEPT ![e] = NoUser]
  /\ UNCHANGED <<challenges, sessions, mailed, minted, history>>

SetUserActiveStatus(c, e, active) ==
  /\ Exists(e)
  /\ Start(c, Idle)
  /\ users' = [users EXCEPT ![e].active = active]
  /\ UNCHANGED <<challenges, sessions, mailed, minted, history>>

-----------------------------------------------------------------------------
(* Time, failures and restarts.                                            *)

TokenAges(e) ==
  /\ Exists(e)
  /\ \/ /\ users[e].vAge # "expired"
        /\ users' = [users EXCEPT ![e].vAge = Older[@]]
     \/ /\ users[e].rAge # "expired"
        /\ users' = [users EXCEPT ![e].rAge = Older[@]]
  /\ UNCHANGED <<challenges, sessions, mailed, call, minted, requests, history>>

ChallengeAges(n) ==
  /\ challenges[n].age # "expired"
  /\ challenges' = [challenges EXCEPT ![n].age = Older[@]]
  /\ UNCHANGED <<users, sessions, mailed, call, minted, requests, history>>

RequestFails(c) ==
  /\ call[c] # Idle
  /\ Return(c)
  /\ UNCHANGED <<users, challenges, sessions, mailed, minted, history>>

Restart ==
  /\ challenges # << >>
  /\ challenges' = << >>
  /\ call' = [c \in Clients |-> Idle]
  /\ UNCHANGED <<users, sessions, mailed, minted, requests, history>>

-----------------------------------------------------------------------------

Init ==
  /\ users = [e \in Emails |-> NoUser]
  /\ challenges = << >>
  /\ sessions = {} /\ mailed = {}
  /\ call = [c \in Clients |-> Idle]
  /\ minted = 0 /\ requests = 0
  /\ spent = {} /\ opened = [n \in 1..MaxMinted |-> 0]

PasswordRequest(c, e) ==
  \E password \in Passwords :
    \/ \E role \in Roles \ {"ADMIN"} : Register(c, e, role, password)
    \/ \E token \in 1..minted : ResetPassword(c, e, token, password)
    \/ \E current \in Passwords : ChangePassword(c, e, current, password)
    \/ SetAdminInitialPassword(c, e, password)
    \/ Login(c, e, password)
    \/ InitiateAdminLogin(c, e, password)
    \/ CreateAdmin(c, e, password)

Request(c, e) ==
  \/ PasswordRequest(c, e)
  \/ \E token \in 1..minted : VerifyEmail(c, e, token)
  \/ ResendVerification(c, e) \/ RequestReset(c, e) \/ SignInWithGoogle(c, e)
  \/ DeleteAdmin(c, e) \/ \E active \in BOOLEAN : SetUserActiveStatus(c, e, active)

Continue(c) ==
  \/ RegisterCommit(c) \/ RegisterFinish(c) \/ VerifyWrite(c)
  \/ ResendWrite(c) \/ ResendMail(c) \/ IssueReset(c) \/ ResetMail(c) \/ UpdatePassword(c)
  \/ LinkGoogleAccount(c) \/ CodeMail(c) \/ AdmitAdmin(c)
  \/ CreateAdminUser(c) \/ CreateAdminProfile(c)

Next ==
  \/ \E c \in Clients :
       \/ \E e \in Emails : Request(c, e)
       \/ \E n \in DOMAIN challenges : VerifyAdmin2fa(c, n) \/ ResendAdmin2fa(c, n)
       \/ Continue(c) \/ RequestFails(c)
  \/ \E e \in Emails : TokenAges(e)
  \/ \E n \in DOMAIN challenges : ChallengeAges(n)
  \/ Restart

Spec == Init /\ [][Next]_vars

-----------------------------------------------------------------------------
(* Properties.                                                             *)

CallStates ==
  {"idle", "register", "welcome", "verify", "resend", "resend-mail", "issue", "reset-mail",
   "set-password", "link", "code-mail", "admit", "create-admin", "admin-profile"}

(* Types; an account other than an admin's always has its profile, and a   *)
(* challenge is renewed at most MaxResends times.                          *)
TypeOK ==
  /\ \A e \in Emails : Exists(e) =>
       /\ users[e].id \in 1..minted /\ users[e].role \in Roles
       /\ users[e].password \in Passwords
       /\ users[e].vToken \in 0..minted /\ users[e].rToken \in 0..minted
       /\ users[e].vAge \in Ages /\ users[e].rAge \in Ages
       /\ users[e].role # "ADMIN" => users[e].profile
  /\ \A n \in DOMAIN challenges :
       /\ challenges[n].email \in Emails /\ challenges[n].code \in n..minted
       /\ challenges[n].age \in Ages /\ challenges[n].resends \in 0..MaxResends
  /\ sessions \subseteq 1..minted /\ spent \subseteq 1..minted
  /\ \A m \in mailed : m.to \in Emails /\ m.token \in 1..minted
  /\ \A c \in Clients : call[c].pc \in CallStates
  /\ minted \in 0..MaxMinted /\ requests \in 0..MaxRequests

(* An emailed code signs an admin in once, however the code is entered,    *)
(* resent and expired by requests that overlap, and whatever happens to    *)
(* the account between the check of the code and the session               *)
(* (verifyAdmin2fa).                                                       *)
CodeOpensOneSession == \A n \in 1..MaxMinted : opened[n] <= 1

(* A reset request that found its link valid and is about to set a password. *)
Resets(c, token) == At(c, "set-password") /\ call[c].by = "reset" /\ call[c].token = token

(* No request begins to reset with a link that was spent.                  *)
RefusesSpentLinks ==
  \A c \in Clients : \A token \in spent : Resets(c, token)' => Resets(c, token)

(* Once a password was set, by a reset or in a session, every link the     *)
(* account had then is refused: no reset request, late handler, deletion   *)
(* or new account makes one valid again (resetPassword, updatePassword).   *)
(* What is refused is a reset that begins afterwards: two that overlap     *)
(* both find the token (auth.service.ts:491) before either clears it, and  *)
(* each sets its password.                                                 *)
SpentResetLinkIsRefused == [][RefusesSpentLinks]_vars

-----------------------------------------------------------------------------
(* Statements of the repository's own comments and emails that the code    *)
(* does not keep (README, "Known disagreements").                          *)

(* password-reset.ejs:36 with expiryHours: 24                              *)
(* (notifications.service.ts:116): "this link is only valid for 24 hours". *)
(* The newest link an account was sent is stored and under a day old, but  *)
(* it is refused.                                                          *)
ResetLinkLastsAsMailed ==
  \A e \in Emails : Exists(e) =>
    \A token \in 1..minted :
      /\ Received(e, "reset", token) /\ users[e].rToken = token
      /\ users[e].rAge # "expired"
      => ValidResetToken(e, token)

(* auth.service.ts:543: "A still-valid token is reused so links from       *)
(* earlier emails keep working."                                           *)
LiveLinkIsReused ==
  [][\A e \in Emails :
       Exists(e) /\ HasLiveToken(e) /\ users'[e].id = users[e].id =>
         users'[e].vToken \in {users[e].vToken, None}]_vars
=============================================================================
