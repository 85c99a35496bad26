------------------------------ MODULE Accounts ------------------------------
(***************************************************************************)
(* The two accounts behind one e-mail address, in production and in the    *)
(* sandbox, the one-time passwords in Redis that both share, and the       *)
(* sessions: registration, login, switching of environments, verification  *)
(* of the address, and change and reset of the password                    *)
(* (src/internal/app/auth, src/internal/data/repositories/auth.go), and    *)
(* what others do to an account: an aggregator and an administrator create *)
(* one in one environment alone, and its owner gives it another address.   *)
(*                                                                         *)
(* Every call to a database or to Redis is one step, except that looks     *)
(* which only lead to a refusal are taken together.  An update writes the  *)
(* whole user that was read, without the fields that are empty (gorm       *)
(* Updates of a struct), except that the administration and the signing    *)
(* keys save the whole row, empty fields included.  A one-time password is *)
(* there or it is not: who asks for a code has the newest one.             *)
(*                                                                         *)
(* The accounts are those that have the address now.  A request finds its  *)
(* account by the address and writes it by its number, so that an account  *)
(* which was given another address meanwhile gets the old one back.  Which *)
(* account has the address, and which one a session belongs to, is not     *)
(* kept: a request whose account left may find the same one back, and      *)
(* write it, or another one, and be refused (Stop): addresses are unique.  *)
(***************************************************************************)
EXTENDS FiniteSets

CONSTANTS
  Requests,   \* requests that can be in progress at once
  Passwords,
  Nobody      \* the password of an account that does not exist

ASSUME NobodyAssumption == Nobody \notin Passwords

Envs == {"prod", "sandbox"}
Codes == {"verify", "forgot"}

VARIABLES
  acct,      \* the user of the address in each environment
  otp,       \* the codes that are valid
  live,      \* the environments with a live session of the address: its token
             \* names it, or its account has it
  op,        \* the requests in progress
  mishaps    \* history: what happened besides one request after another

vars == <<acct, otp, live, op, mishaps>>

Missing == [exists |-> FALSE, password |-> Nobody, verified |-> FALSE]
User == [exists: {TRUE}, password: Passwords, verified: BOOLEAN] \cup {Missing}

\* env is where the request works, copy the user it read, password the one it
\* was given, updated whether a reset has written anything.
Op == [pc: {"idle", "registerSandbox", "registerProd", "sendVerify", "sendForgot",
            "copyUser", "createCopy", "login", "loginVerified", "toggle", "token",
            "checkCode", "verify", "deleteVerify", "verifyToken", "readProd",
            "verifyProd", "reset", "writeReset", "deleteForgot", "change",
            "saveRow"},
       env: Envs, copy: User, password: Passwords \cup {Nobody},
       updated: BOOLEAN]
Idle == [pc |-> "idle", env |-> "prod", copy |-> Missing, password |-> Nobody,
         updated |-> FALSE]

\* Since the last reset that began alone: an account written from a copy that was
\* out of date or added with another password than the one beside it, a password
\* changed in one environment, a request that ended between two writes, a reset
\* that began beside another one, a code that expired during the reset it was
\* given for.  Ever: a verified account saved whole from a copy that was not
\* verified yet, an account of production created as verified, an account that
\* changed its address.
Passing == {"stale", "changed", "stopped", "resets", "expired"}
Lasting == {"row", "vouched", "moved"}
Mishaps == Passing \cup Lasting

TypeOK ==
  /\ acct \in [Envs -> User]
  /\ otp \subseteq Codes
  /\ live \subseteq Envs
  /\ op \in [Requests -> Op]
  /\ mishaps \subseteq Mishaps

Init ==
  /\ acct = [e \in Envs |-> Missing]
  /\ otp = {}
  /\ live = {}
  /\ op = [o \in Requests |-> Idle]
  /\ mishaps = {}

Start(o, pc, env) == op' = [op EXCEPT ![o] = [Idle EXCEPT !.pc = pc, !.env = env]]
To(o, pc) == op' = [op EXCEPT ![o].pc = pc]
End(o) == op' = [op EXCEPT ![o] = Idle]
Note(kind, test) == mishaps' = IF test THEN mishaps \cup {kind} ELSE mishaps

Resetting(o) == op[o].pc \in {"reset", "writeReset", "deleteForgot"}

\* An account gets the address in one environment with this password, when the
\* one of the other environment has another password or a reset is under way,
\* which may have passed the environment.
Late(env, password) ==
  \/ \E e \in Envs \ {env} : acct[e].exists /\ acct[e].password # password
  \/ \E p \in Requests : Resetting(p)

\* The copy of a request does not have the password of the account any more.
Outdated(o) ==
  LET env == op[o].env
  IN IF acct[env].exists THEN acct[env].password # op[o].copy.password
     ELSE Late(env, op[o].copy.password)

\* Mutant: empty fields are written too.
Updated_All(user, copy) == copy

\* UpdateFields of a user that was read earlier: what is empty in it is left
\* as it is in the row.
Updated(user, copy) ==
  [user EXCEPT !.password = copy.password, !.verified = @ \/ copy.verified]

\* The user of a request is read, and updated later.
Read(o, env, pc) ==
  /\ acct[env].exists
  /\ op' = [op EXCEPT ![o] = [@ EXCEPT !.pc = pc, !.env = env, !.copy = acct[env]]]

\* An account that was given another address has the old one again, which is in
\* the copy; it may have been verified meanwhile.
Write(o, copy) ==
  LET env == op[o].env
  IN \E row \in IF acct[env].exists THEN {acct[env]}
                ELSE {[copy EXCEPT !.verified = v] : v \in BOOLEAN} :
       acct' = [acct EXCEPT ![env] = Updated(row, copy)]

-----------------------------------------------------------------------------
(* Register *)

NewUser(password) == [exists |-> TRUE, password |-> password, verified |-> FALSE]

\* ValidateCreateUserRequest: the address is new in both environments.
Register(o, password) ==
  /\ op[o].pc = "idle"
  /\ \A e \in Envs : ~acct[e].exists
  /\ op' = [op EXCEPT ![o] = [Idle EXCEPT !.pc = "registerSandbox",
                                          !.env = "sandbox", !.password = password]]
  /\ UNCHANGED <<acct, otp, live, mishaps>>

\* CreateUser, first in the sandbox and then in production.  The address is
\* unique in each: a second user is refused and the request ends.
CreateUser(o) ==
  LET env == op[o].env
  IN /\ op[o].pc \in {"registerSandbox", "registerProd"}
     /\ IF acct[env].exists
        THEN End(o) /\ UNCHANGED acct
        ELSE /\ acct' = [acct EXCEPT ![env] = NewUser(op[o].password)]
             /\ IF env = "sandbox"
                THEN op' = [op EXCEPT ![o].pc = "registerProd", ![o].env = "prod"]
                ELSE To(o, "sendVerify")
     /\ Note("stale", ~acct[env].exists /\ Late(env, op[o].password))
     /\ UNCHANGED <<otp, live>>

\* An account is added in one environment; the address is unique there.
Add(env, user) ==
  /\ ~acct[env].exists
  /\ acct' = [acct EXCEPT ![env] = user]

\* An administrator's CreateBusiness and CreateAggregator, and the aggregator that
\* SendAggregatorInvitationByEmail creates for an address without an account.
AdminCreates(env, password) ==
  /\ Add(env, NewUser(password))
  /\ Note("stale", Late(env, password))
  /\ UNCHANGED <<otp, live, op>>

\* An aggregator's CreateBusiness: the account counts as verified.
AggregatorCreates(env, password) ==
  /\ Add(env, [NewUser(password) EXCEPT !.verified = TRUE])
  /\ mishaps' = mishaps \cup (IF Late(env, password) THEN {"stale"} ELSE {})
                       \cup (IF env = "prod" THEN {"vouched"} ELSE {})
  /\ UNCHANGED <<otp, live, op>>

\* SendOtp replaces the code of its key.
SendOtp(o) ==
  /\ \/ op[o].pc = "sendVerify" /\ otp' = otp \cup {"verify"}
     \/ op[o].pc = "sendForgot" /\ otp' = otp \cup {"forgot"}
  /\ End(o)
  /\ UNCHANGED <<acct, live, mishaps>>

\* ResendVerificationOTP looks at the sandbox alone.
ResendOTP(o) ==
  /\ op[o].pc = "idle"
  /\ acct["sandbox"].exists /\ ~acct["sandbox"].verified
  /\ Start(o, "sendVerify", "sandbox")
  /\ UNCHANGED <<acct, otp, live, mishaps>>

-----------------------------------------------------------------------------
(* Login, ToggleApplicationMode and Logout *)

\* A login to production first copies a user who is only in the sandbox.
Login(o, env, password) ==
  /\ op[o].pc = "idle"
  /\ op' = [op EXCEPT ![o] = [Idle EXCEPT
              !.pc = IF env = "prod" /\ ~acct["prod"].exists /\ acct["sandbox"].exists
                     THEN "copyUser" ELSE "login",
              !.env = env, !.password = password]]
  /\ UNCHANGED <<acct, otp, live, mishaps>>

\* A login to production goes on there, and a toggle in the sandbox.
AfterCopy(o) == IF op[o].env = "prod" THEN "login" ELSE "toggle"

\* SynchronizeSandboxToProduction reads the user of the sandbox, if it is still
\* there ...
CopyUser(o) ==
  /\ op[o].pc = "copyUser"
  /\ IF acct["sandbox"].exists
     THEN op' = [op EXCEPT ![o].pc = "createCopy", ![o].copy = acct["sandbox"]]
     ELSE To(o, AfterCopy(o))
  /\ UNCHANGED <<acct, otp, live, mishaps>>

\* ... and creates one in production; an error is only logged.
CreateCopy(o) ==
  /\ op[o].pc = "createCopy"
  /\ \/ /\ Add("prod", op[o].copy)
        /\ Note("stale", Late("prod", op[o].copy.password))
     \/ UNCHANGED <<acct, mishaps>>
  /\ op' = [op EXCEPT ![o].pc = AfterCopy(o), ![o].copy = Missing]
  /\ UNCHANGED <<otp, live>>

CheckPassword(o) ==
  /\ op[o].pc = "login"
  /\ IF acct[op[o].env].exists /\ acct[op[o].env].password = op[o].password
     THEN op' = [op EXCEPT ![o] = [Idle EXCEPT !.pc = "loginVerified", !.env = op[o].env]]
     ELSE End(o)
  /\ UNCHANGED <<acct, otp, live, mishaps>>

\* Mutant: the address need not be verified.
MayLogin_Any(env) == TRUE

MayLogin(env) == acct[env].verified

\* An unverified user gets a code instead of a session; the user is read again,
\* and may be gone.
CheckVerified(o) ==
  /\ op[o].pc = "loginVerified"
  /\ IF MayLogin(op[o].env)
     THEN To(o, "token") /\ UNCHANGED otp
     ELSE /\ End(o)
          /\ otp' = IF acct[op[o].env].exists THEN otp \cup {"verify"} ELSE otp
  /\ UNCHANGED <<acct, live, mishaps>>

\* ToggleApplicationMode, for the address that the session names.  Coming from
\* production it copies the user there first, when the account has left ...
Toggle(o, env) ==
  /\ op[o].pc = "idle" /\ env \in live
  /\ \E other \in Envs \ {env} :
       Start(o, IF env = "prod" /\ ~acct["prod"].exists /\ acct["sandbox"].exists
                THEN "copyUser" ELSE "toggle", other)
  /\ UNCHANGED <<acct, otp, live, mishaps>>

\* ... and answers with a session of the other environment, if there is a user.
ToggleUser(o) ==
  /\ op[o].pc = "toggle"
  /\ IF acct[op[o].env].exists THEN To(o, "token") ELSE End(o)
  /\ UNCHANGED <<acct, otp, live, mishaps>>

\* CreateAccessToken.
CreateToken(o) ==
  /\ op[o].pc = "token"
  /\ live' = live \cup {op[o].env}
  /\ End(o)
  /\ UNCHANGED <<acct, otp, mishaps>>

\* RevokeAccessToken, of what may be the last session of an environment.
Logout(env) ==
  /\ env \in live
  /\ live' = live \ {env}
  /\ UNCHANGED <<acct, otp, op, mishaps>>

-----------------------------------------------------------------------------
(* VerifyEmail *)

\* VerifyBusinessAccount reads the user of the sandbox before it looks at the
\* code ...
VerifyEmail(o) ==
  /\ op[o].pc = "idle"
  /\ Read(o, "sandbox", "checkCode")
  /\ UNCHANGED <<acct, otp, live, mishaps>>

CheckCode(o) ==
  /\ op[o].pc = "checkCode"
  /\ IF "verify" \in otp THEN To(o, "verify") ELSE End(o)
  /\ UNCHANGED <<acct, otp, live, mishaps>>

Verified(user) == [user EXCEPT !.verified = TRUE]

\* ... and writes it back, as VerifyProdBuisnessAccount does in production.
WriteVerified(o) ==
  /\ \/ op[o].pc = "verify" /\ To(o, "deleteVerify")
     \/ op[o].pc = "verifyProd" /\ End(o)
  /\ Write(o, Verified(op[o].copy))
  /\ Note("stale", Outdated(o))
  /\ UNCHANGED <<otp, live>>

DeleteVerify(o) ==
  /\ op[o].pc = "deleteVerify"
  /\ otp' = otp \ {"verify"}
  /\ To(o, "verifyToken")
  /\ UNCHANGED <<acct, live, mishaps>>

VerifyToken(o) ==
  /\ op[o].pc = "verifyToken"
  /\ live' = live \cup {"sandbox"}
  /\ To(o, "readProd")
  /\ UNCHANGED <<acct, otp, mishaps>>

\* VerifyProdBuisnessAccount fails without a user in production.
ReadProd(o) ==
  /\ op[o].pc = "readProd"
  /\ \/ Read(o, "prod", "verifyProd")
     \/ ~acct["prod"].exists /\ End(o)
  /\ UNCHANGED <<acct, otp, live, mishaps>>

-----------------------------------------------------------------------------
(* Passwords *)

\* InitiateForgotPasswordAcrossEnvironments.
InitiateForgot(o) ==
  /\ op[o].pc = "idle"
  /\ \E e \in Envs : acct[e].exists
  /\ Start(o, "sendForgot", "prod")
  /\ UNCHANGED <<acct, otp, live, mishaps>>

\* A request that has read an account and will write it, or will create one.
Writing(o) ==
  \/ Resetting(o)
  \/ op[o].pc \in {"checkCode", "verify", "verifyProd", "change", "saveRow",
                   "registerSandbox", "registerProd", "createCopy"}

\* Mutant: the code is used up when it is looked at.
CodesAfterCheck_None == otp \ {"forgot"}

CodesAfterCheck == otp

\* CompleteForgotPasswordAcrossEnvironments: the code, then production, then the
\* sandbox.  A reset that begins while nothing else writes puts an end to what
\* went wrong before.
CompleteForgot(o, password) ==
  /\ op[o].pc = "idle" /\ "forgot" \in otp
  /\ op' = [op EXCEPT ![o] = [Idle EXCEPT !.pc = "reset", !.password = password]]
  /\ otp' = CodesAfterCheck
  /\ mishaps' = IF \E p \in Requests : Resetting(p) THEN mishaps \cup {"resets"}
                ELSE IF \E p \in Requests : Writing(p) THEN mishaps
                ELSE mishaps \cap Lasting
  /\ UNCHANGED <<acct, live>>

\* Mutant: the reset is over with the first account.
Onward_First(o, updated) ==
  op' = [op EXCEPT ![o] =
    IF ~updated /\ op[o].env = "prod"
    THEN [@ EXCEPT !.pc = "reset", !.env = "sandbox", !.copy = Missing]
    ELSE IF updated
         THEN [@ EXCEPT !.pc = "deleteForgot", !.copy = Missing]
         ELSE Idle]

\* Where a reset goes on after an environment.
Onward(o, updated) ==
  op' = [op EXCEPT ![o] =
    IF op[o].env = "prod"
    THEN [@ EXCEPT !.pc = "reset", !.env = "sandbox", !.copy = Missing,
                   !.updated = updated]
    ELSE IF updated
         THEN [@ EXCEPT !.pc = "deleteForgot", !.copy = Missing]
         ELSE Idle]

\* An environment without the user is passed over.
ReadReset(o) ==
  /\ op[o].pc = "reset"
  /\ \/ Read(o, op[o].env, "writeReset")
     \/ ~acct[op[o].env].exists /\ Onward(o, op[o].updated)
  /\ UNCHANGED <<acct, otp, live, mishaps>>

WriteReset(o) ==
  /\ op[o].pc = "writeReset"
  /\ Write(o, [op[o].copy EXCEPT !.password = op[o].password])
  /\ Onward(o, TRUE)
  /\ UNCHANGED <<otp, live, mishaps>>

DeleteForgot(o) ==
  /\ op[o].pc = "deleteForgot"
  /\ otp' = otp \ {"forgot"}
  /\ End(o)
  /\ UNCHANGED <<acct, live, mishaps>>

\* ChangePassword, of the environment of the session: the old password is
\* compared with the user that was read, and the new one is another.
ChangePassword(o, env, old, new) ==
  /\ op[o].pc = "idle" /\ env \in live
  /\ acct[env].exists /\ acct[env].password = old /\ new # old
  /\ op' = [op EXCEPT ![o] = [Idle EXCEPT !.pc = "change", !.env = env,
                                          !.copy = acct[env], !.password = new]]
  /\ UNCHANGED <<acct, otp, live, mishaps>>

WriteChange(o) ==
  /\ op[o].pc = "change"
  /\ Write(o, [op[o].copy EXCEPT !.password = op[o].password])
  /\ mishaps' = mishaps \cup {"changed"}
  /\ End(o)
  /\ UNCHANGED <<otp, live>>

-----------------------------------------------------------------------------
(* Saves of the whole row *)

\* An administrator's UpdateBusiness reads the row of an environment, and so does
\* SaveBusinessIRNSigningKeys, ...
ReadRow(o, env) ==
  /\ op[o].pc = "idle"
  /\ Read(o, env, "saveRow")
  /\ UNCHANGED <<acct, otp, live, mishaps>>

\* ... and all of it is saved with what was changed in it (gorm Save).
SaveRow(o) ==
  LET env == op[o].env
  IN /\ op[o].pc = "saveRow"
     /\ acct' = [acct EXCEPT ![env] = op[o].copy]
     /\ mishaps' = mishaps \cup (IF Outdated(o) THEN {"stale"} ELSE {})
          \cup (IF acct[env].verified /\ ~op[o].copy.verified THEN {"row"} ELSE {})
     /\ End(o)
     /\ UNCHANGED <<otp, live>>

-----------------------------------------------------------------------------
(* The address of an account *)

\* UpdateBusinessDetails gives the account of a session another address, which
\* nobody verifies; the sessions it has go on naming this one.
Leave(env) ==
  /\ env \in live /\ acct[env].exists
  /\ acct' = [acct EXCEPT ![env] = Missing]
  /\ mishaps' = mishaps \cup {"moved"}
  /\ UNCHANGED <<otp, live, op>>

\* An account of another address is given this one.
Arrive(env, user) ==
  /\ Add(env, user)
  /\ live' = live \cup {env}
  /\ mishaps' = mishaps \cup {"moved"}
       \cup (IF Late(env, user.password) THEN {"stale"} ELSE {})
  /\ UNCHANGED <<otp, op>>

-----------------------------------------------------------------------------
(* Failures *)

\* A code lives for 15 minutes.
Expire(code) ==
  /\ code \in otp
  /\ otp' = otp \ {code}
  /\ Note("expired", code = "forgot" /\ \E p \in Requests : Resetting(p))
  /\ UNCHANGED <<acct, live, op>>

\* A database that fails or refuses a write, or a server that goes down, ends a
\* request.
Stop(o) ==
  /\ op[o].pc # "idle"
  /\ End(o)
  /\ Note("stopped", op[o].pc \in {"reset", "writeReset"})
  /\ UNCHANGED <<acct, otp, live>>

Request(o) ==
  \/ CreateUser(o) \/ SendOtp(o)
  \/ CopyUser(o) \/ CreateCopy(o) \/ CheckPassword(o) \/ CheckVerified(o)
  \/ ToggleUser(o) \/ CreateToken(o)
  \/ CheckCode(o) \/ WriteVerified(o) \/ DeleteVerify(o) \/ VerifyToken(o)
  \/ ReadProd(o)
  \/ ReadReset(o) \/ WriteReset(o) \/ DeleteForgot(o) \/ WriteChange(o)
  \/ SaveRow(o)

Next ==
  \/ \E o \in Requests :
       \/ Request(o) \/ Stop(o)
       \/ ResendOTP(o) \/ VerifyEmail(o) \/ InitiateForgot(o)
       \/ \E password \in Passwords :
            \/ Register(o, password) \/ CompleteForgot(o, password)
            \/ \E e \in Envs : Login(o, e, password)
            \/ \E e \in Envs, new \in Passwords : ChangePassword(o, e, password, new)
       \/ \E e \in Envs : Toggle(o, e) \/ ReadRow(o, e)
  \/ \E e \in Envs : Logout(e) \/ Leave(e)
  \/ \E e \in Envs, password \in Passwords :
       AdminCreates(e, password) \/ AggregatorCreates(e, password)
  \/ \E e \in Envs, user \in User \ {Missing} : Arrive(e, user)
  \/ \E c \in Codes : Expire(c)

Spec == Init /\ [][Next]_vars

-----------------------------------------------------------------------------
(* Properties *)

\* The two accounts of an address have one password while no reset is under way,
\* whatever else runs at the same time, unless since the last undisturbed reset
\* an account was written from a copy that was out of date or added with another
\* password, the user changed the password of one, a reset ended half way, or two
\* resets overlapped (service.go:391-414, 354-357).
PasswordsAgree ==
  \/ \E e \in Envs : ~acct[e].exists
  \/ \E o \in Requests : Resetting(o)
  \/ mishaps \cap {"stale", "changed", "stopped", "resets"} # {}
  \/ acct["prod"].password = acct["sandbox"].password

\* An account that is verified stays so as long as it has the address, although
\* requests that read it before write it back (service.go:355, 410), unless one of
\* them saves the whole row (admin/service.go:385, business/service.go:205).
VerifiedStays ==
  [][\A e \in Envs : acct[e].verified /\ acct'[e].exists
                     => acct'[e].verified \/ "row" \in mishaps']_vars

\* There is a session, even one of production, and an account of production
\* counts as verified, only when the account of the sandbox was verified: by its
\* code or by the aggregator that created it (service.go:232-240, 424-461; the
\* copy of service.go:525-541).  Three things undo that: a save of the whole row,
\* an aggregator that creates an account in production (aggregator/service.go:776)
\* and an account that changes its address (business/service.go:148).
SessionsVerified ==
  mishaps \cap Lasting = {} /\ (live # {} \/ acct["prod"].verified)
    => acct["sandbox"].verified

\* A reset that fails on the way can be done again with the same code: it is
\* used up after both accounts were written (service.go:420).
ResetIsRepeatable ==
  \A o \in Requests :
    Resetting(o) /\ mishaps \cap {"resets", "expired"} = {} => "forgot" \in otp
=============================================================================
