--------------------------- MODULE AccountsProofs ---------------------------
(***************************************************************************)
(* Proofs about Accounts, for any number of requests at once and any       *)
(* passwords.                                                              *)
(***************************************************************************)
EXTENDS Accounts, TLAPS

\* Requests that hold a copy of the account they will write.
Copying == {"checkCode", "verify", "verifyProd", "writeReset", "change", "saveRow"}

\* One of the mishaps that undo a verification, which are not forgotten.
Lost == mishaps \cap Lasting # {}
Kept == Lost => Lost'

\* What a request knows: it has the password it is to write, its copy is of an
\* account and no more verified than the one that has the address, and past the
\* code, or with a session, the address is verified, unless a mishap undid that.
Knows(o) ==
  /\ op[o].pc \in {"registerSandbox", "registerProd", "reset", "writeReset", "change"}
     => op[o].password \in Passwords
  /\ op[o].pc \in Copying =>
       /\ op[o].copy.exists
       /\ Lost \/ acct[op[o].env].exists
       /\ op[o].copy.verified => Lost \/ acct[op[o].env].verified
  /\ op[o].pc \in {"checkCode", "verify", "registerSandbox"} => op[o].env = "sandbox"
  /\ op[o].pc \in {"verifyProd", "registerProd"} => op[o].env = "prod"
  /\ op[o].pc = "createCopy" =>
       op[o].copy.exists /\ (op[o].copy.verified => Lost \/ acct["sandbox"].verified)
  /\ \/ op[o].pc \in {"deleteVerify", "verifyToken", "readProd", "verifyProd", "toggle",
                       "token"}
     \/ op[o].pc \in {"copyUser", "createCopy"} /\ op[o].env = "sandbox"
     => Lost \/ acct["sandbox"].verified

Inv == TypeOK /\ SessionsVerified /\ \A o \in Requests : Knows(o)

\* Accounts go by a change of the address, and become unverified by a save of the
\* whole row.
Grows ==
  \A e \in Envs :
    /\ acct[e].exists => acct'[e].exists \/ "moved" \in mishaps'
    /\ acct[e].verified /\ acct'[e].exists => acct'[e].verified \/ "row" \in mishaps'

\* What a step of a request has to establish.
Good(o) ==
  /\ TypeOK' /\ SessionsVerified' /\ Grows
  /\ Knows(o)'
  /\ \A p \in Requests \ {o} : op'[p] = op[p]

-----------------------------------------------------------------------------
(* Accounts and requests *)

\* A user that exists has a password.
LEMMA UserParts ==
  ASSUME NEW u \in User
  PROVE  /\ u.exists \in BOOLEAN /\ u.verified \in BOOLEAN
         /\ u.exists => u.password \in Passwords
         /\ u.verified => u.exists
         /\ u.password \in Passwords \cup {Nobody}
<1>1. CASE u \in [exists: {TRUE}, password: Passwords, verified: BOOLEAN]
  BY <1>1
<1>2. CASE u = Missing
  BY <1>2 DEF Missing
<1> QED
  BY <1>1, <1>2 DEF User

LEMMA ExistingUser ==
  ASSUME NEW u \in User, u.exists
  PROVE  u \in [exists: {TRUE}, password: Passwords, verified: BOOLEAN]
<1>1. CASE u = Missing
  BY <1>1 DEF Missing
<1> QED
  BY <1>1 DEF User

\* An account that exists is updated to one.
LEMMA UpdatedUser ==
  ASSUME NEW u \in User, NEW c \in User, u.exists, c.exists
  PROVE  /\ Updated(u, c) \in User
         /\ Updated(u, c).exists
         /\ Updated(u, c).password = c.password
         /\ Updated(u, c).verified = (u.verified \/ c.verified)
<1>1. /\ u \in [exists: {TRUE}, password: Passwords, verified: BOOLEAN]
      /\ c \in [exists: {TRUE}, password: Passwords, verified: BOOLEAN]
  BY ExistingUser
<1> QED
  BY <1>1 DEF Updated, User

\* The parts of a request.
LEMMA OpParts ==
  ASSUME TypeOK, NEW o \in Requests
  PROVE  /\ op[o] \in Op
         /\ op[o].env \in Envs /\ op[o].copy \in User
         /\ op[o].password \in Passwords \cup {Nobody} /\ op[o].updated \in BOOLEAN
BY DEF TypeOK, Op

LEMMA IdleType == Idle \in Op
BY DEF Idle, Op, User, Missing, Envs

\* What another request knows outlasts a step.
LEMMA KnowledgeStays ==
  ASSUME Inv, Kept, NEW p \in Requests, Grows, op'[p] = op[p]
  PROVE  Knows(p)'
<1>1. op[p].env \in Envs /\ Knows(p)
  BY OpParts DEF Inv
<1>2. ASSUME NEW e \in Envs
      PROVE  /\ acct[e].exists => acct'[e].exists \/ Lost'
             /\ acct[e].verified => acct'[e].verified \/ Lost'
  <2>1. acct[e].verified => acct[e].exists
    BY UserParts DEF Inv, TypeOK
  <2> QED
    BY <2>1 DEF Grows, Lost, Lasting
<1> QED
  BY <1>1, <1>2 DEF Knows, Kept, Envs

\* A request that ends knows nothing.
LEMMA EndIsGood ==
  ASSUME Inv, Kept, NEW o \in Requests, End(o), UNCHANGED acct,
         otp' \subseteq Codes, live' = live, mishaps' \subseteq Mishaps
  PROVE  Good(o)
<1>1. op' \in [Requests -> Op] /\ op'[o] = Idle /\ \A p \in Requests \ {o} : op'[p] = op[p]
  BY IdleType DEF Inv, TypeOK, End
<1>2. Knows(o)'
  BY <1>1 DEF Knows, Idle, Copying
<1> QED
  BY <1>1, <1>2 DEF Good, Inv, TypeOK, SessionsVerified, Lost, Kept, Grows

\* A step that leaves the accounts alone and the request well-informed is good.
LEMMA MoveIsGood ==
  ASSUME Inv, Kept, NEW o \in Requests, NEW x \in Op, op' = [op EXCEPT ![o] = x],
         UNCHANGED acct, otp' \subseteq Codes, mishaps' \subseteq Mishaps,
         live' \subseteq Envs, live' \subseteq live \/ Lost \/ acct["sandbox"].verified,
         Knows(o)'
  PROVE  Good(o)
BY DEF Good, Inv, TypeOK, SessionsVerified, Lost, Kept, Grows

\* Only the place of the request changes.
LEMMA ToType ==
  ASSUME Inv, NEW o \in Requests, NEW pc, To(o, pc),
         pc \in {"verify", "verifyToken", "readProd", "token", "sendVerify", "deleteVerify",
                 "login", "toggle"}
  PROVE  /\ [op[o] EXCEPT !.pc = pc] \in Op
         /\ op' = [op EXCEPT ![o] = [op[o] EXCEPT !.pc = pc]]
         /\ op'[o].pc = pc /\ op'[o].env = op[o].env
         /\ op'[o].copy = op[o].copy /\ op'[o].password = op[o].password
BY DEF Inv, TypeOK, To, Op

\* A request that begins.
LEMMA StartType ==
  ASSUME Inv, NEW o \in Requests, NEW pc, NEW env \in Envs, Start(o, pc, env),
         pc \in {"sendVerify", "sendForgot", "copyUser", "toggle"}
  PROVE  /\ [Idle EXCEPT !.pc = pc, !.env = env] \in Op
         /\ op' = [op EXCEPT ![o] = [Idle EXCEPT !.pc = pc, !.env = env]]
         /\ op'[o].pc = pc /\ op'[o].env = env
BY IdleType DEF Inv, TypeOK, Start, Op, Idle

\* A request that has read an account.
LEMMA ReadType ==
  ASSUME Inv, NEW o \in Requests, NEW env \in Envs, NEW pc, Read(o, env, pc),
         pc \in {"checkCode", "verifyProd", "writeReset", "saveRow"}
  PROVE  LET x == [op[o] EXCEPT !.pc = pc, !.env = env, !.copy = acct[env]]
         IN /\ x \in Op /\ op' = [op EXCEPT ![o] = x]
            /\ op'[o].pc = pc /\ op'[o].env = env
            /\ op'[o].copy = acct[env] /\ op'[o].password = op[o].password
<1>1. acct[env] \in User
  BY DEF Inv, TypeOK
<1> QED
  BY ZenonT(40), <1>1 DEF Inv, TypeOK, Read, Op

\* An account that was not there.
LEMMA NewAccount ==
  ASSUME TypeOK, NEW env \in Envs, NEW user \in User, user.exists, Add(env, user)
  PROVE  /\ acct' \in [Envs -> User]
         /\ acct[env].verified = FALSE
         /\ acct'[env] = user
         /\ \A e \in Envs \ {env} : acct'[e] = acct[e]
         /\ Grows
<1>1. ~acct[env].exists /\ acct' = [acct EXCEPT ![env] = user] /\ acct[env] \in User
  BY DEF Add, TypeOK
<1>2. acct[env].verified = FALSE
  BY <1>1, UserParts
<1> QED
  BY <1>1, <1>2 DEF Grows, TypeOK

\* An added account is no more verified in production than the one of the sandbox.
LEMMA AdditionVerified ==
  ASSUME Inv, Kept, NEW env \in Envs, NEW user \in User, user.exists, Add(env, user),
         live' = live,
         env = "prod" /\ user.verified => Lost' \/ acct["sandbox"].verified
  PROVE  SessionsVerified'
<1>1. /\ acct[env].verified = FALSE /\ acct'[env] = user
      /\ \A e \in Envs \ {env} : acct'[e] = acct[e]
  BY NewAccount DEF Inv
<1>2. SUFFICES ASSUME ~Lost', live # {} \/ acct'["prod"].verified
               PROVE  acct'["sandbox"].verified
  BY DEF SessionsVerified, Lost
<1>3. live # {} \/ acct["prod"].verified => acct["sandbox"].verified
  BY <1>2 DEF Inv, SessionsVerified, Lost, Kept
<1>4. CASE env = "prod"
  BY <1>1, <1>2, <1>3, <1>4 DEF Envs
<1>5. CASE env = "sandbox"
  BY <1>1, <1>2, <1>3, <1>5 DEF Envs
<1> QED
  BY <1>4, <1>5 DEF Envs

\* What is added counts as an account.
LEMMA NewUserType ==
  ASSUME NEW password \in Passwords
  PROVE  /\ NewUser(password) \in User /\ NewUser(password).exists
         /\ NewUser(password).password = password /\ ~NewUser(password).verified
         /\ LET v == [NewUser(password) EXCEPT !.verified = TRUE]
            IN v \in User /\ v.exists /\ v.password = password
BY DEF NewUser, User

-----------------------------------------------------------------------------
(* One lemma per operation *)

LEMMA RegisterGood ==
  ASSUME Inv, Kept, NEW o \in Requests, NEW password \in Passwords, Register(o, password)
  PROVE  Good(o)
<1> DEFINE x == [Idle EXCEPT !.pc = "registerSandbox", !.env = "sandbox",
                             !.password = password]
<1>1. /\ x \in Op /\ op' = [op EXCEPT ![o] = x]
      /\ op'[o].pc = "registerSandbox" /\ op'[o].env = "sandbox"
      /\ op'[o].password = password
  BY IdleType DEF Register, Inv, TypeOK, Op, Idle, Envs
<1>2. Knows(o)'
  BY <1>1 DEF Knows, Copying
<1> QED
  BY <1>1, <1>2, MoveIsGood DEF Register, Inv, TypeOK

LEMMA CreateUserGood ==
  ASSUME Inv, Kept, NEW o \in Requests, CreateUser(o)
  PROVE  Good(o)
<1>1. mishaps' \subseteq Mishaps
  BY DEF CreateUser, Note, Inv, TypeOK, Mishaps, Passing
<1>2. CASE acct[op[o].env].exists
  BY <1>1, <1>2, EndIsGood DEF CreateUser, Inv, TypeOK
<1>3. CASE ~acct[op[o].env].exists
  <2> DEFINE env == op[o].env
             new == NewUser(op[o].password)
             x == IF env = "sandbox"
                  THEN [op[o] EXCEPT !.pc = "registerProd", !.env = "prod"]
                  ELSE [op[o] EXCEPT !.pc = "sendVerify"]
  <2>1. env \in Envs /\ op[o].password \in Passwords
    BY OpParts DEF CreateUser, Inv, Knows
  <2>2. new \in User /\ new.exists /\ ~new.verified
    BY <2>1, NewUserType
  <2>3. Add(env, new) /\ live' = live /\ otp' = otp
    BY <1>3 DEF CreateUser, Add
  <2>4. x \in Op /\ op' = [op EXCEPT ![o] = x] /\ op'[o] = x
    BY SMTT(20), <1>3 DEF CreateUser, To, Inv, TypeOK, Op, Envs
  <2> HIDE DEF new
  <2>5. acct' \in [Envs -> User] /\ Grows
    BY <2>1, <2>2, <2>3, NewAccount DEF Inv
  <2>6. SessionsVerified'
    BY <2>1, <2>2, <2>3, AdditionVerified
  <2>7. Knows(o)'
    BY <2>1, <2>4 DEF Knows, Copying, Envs, Op
  <2> QED
    BY <1>1, <2>3, <2>4, <2>5, <2>6, <2>7 DEF Good, Inv, TypeOK
<1> QED
  BY <1>2, <1>3

\* Accounts that others create, or that are given this address or another one.
LEMMA OthersGood ==
  ASSUME Inv, Kept, NEW env \in Envs,
         \/ Leave(env)
         \/ \E password \in Passwords :
              AdminCreates(env, password) \/ AggregatorCreates(env, password)
         \/ \E user \in User \ {Missing} : Arrive(env, user)
  PROVE  TypeOK' /\ SessionsVerified' /\ Grows /\ op' = op
<1>1. CASE Leave(env)
  <2>1. Lost' /\ "moved" \in mishaps' /\ mishaps' \subseteq Mishaps
    BY <1>1 DEF Leave, Lost, Lasting, Mishaps, Inv, TypeOK
  <2>2. acct' \in [Envs -> User]
    BY <1>1 DEF Leave, Inv, TypeOK, User
  <2>3. acct'[env] = Missing /\ \A e \in Envs \ {env} : acct'[e] = acct[e]
    BY <1>1 DEF Leave, Inv, TypeOK
  <2>4. Grows
    BY <2>1, <2>3 DEF Grows, Missing
  <2> QED
    BY <1>1, <2>1, <2>2, <2>4 DEF Leave, Inv, TypeOK, SessionsVerified, Lost
<1>2. ASSUME NEW password \in Passwords, AdminCreates(env, password)
      PROVE  TypeOK' /\ SessionsVerified' /\ Grows /\ op' = op
  <2> DEFINE user == NewUser(password)
  <2>1. user \in User /\ user.exists /\ ~user.verified
    BY NewUserType
  <2>2. Add(env, user) /\ live' = live
    BY <1>2 DEF AdminCreates
  <2> HIDE DEF user
  <2>3. acct' \in [Envs -> User] /\ Grows /\ SessionsVerified'
    BY <2>1, <2>2, NewAccount, AdditionVerified DEF Inv
  <2>4. mishaps' \subseteq Mishaps
    BY <1>2 DEF AdminCreates, Note, Inv, TypeOK, Mishaps, Passing
  <2> QED
    BY <1>2, <2>3, <2>4 DEF AdminCreates, Inv, TypeOK
<1>3. ASSUME NEW password \in Passwords, AggregatorCreates(env, password)
      PROVE  TypeOK' /\ SessionsVerified' /\ Grows /\ op' = op
  <2> DEFINE user == [NewUser(password) EXCEPT !.verified = TRUE]
  <2>1. user \in User /\ user.exists
    BY NewUserType
  <2>2. Add(env, user) /\ live' = live
    BY <1>3 DEF AggregatorCreates
  <2>3. mishaps' \subseteq Mishaps /\ (env = "prod" => Lost')
    BY <1>3 DEF AggregatorCreates, Inv, TypeOK, Mishaps, Passing, Lasting, Lost
  <2> HIDE DEF user
  <2>4. acct' \in [Envs -> User] /\ Grows /\ SessionsVerified'
    BY <2>1, <2>2, <2>3, NewAccount, AdditionVerified DEF Inv
  <2> QED
    BY <1>3, <2>3, <2>4 DEF AggregatorCreates, Inv, TypeOK
<1>4. ASSUME NEW user \in User \ {Missing}, Arrive(env, user)
      PROVE  TypeOK' /\ SessionsVerified' /\ Grows /\ op' = op
  <2>1. user \in User /\ user.exists
    BY DEF User
  <2>2. Add(env, user)
    BY <1>4 DEF Arrive
  <2>3. mishaps' \subseteq Mishaps /\ live' \subseteq Envs /\ Lost'
    BY <1>4 DEF Arrive, Inv, TypeOK, Mishaps, Passing, Lasting, Lost
  <2>4. acct' \in [Envs -> User] /\ Grows
    BY <2>1, <2>2, NewAccount DEF Inv
  <2> QED
    BY <1>4, <2>3, <2>4 DEF Arrive, Inv, TypeOK, SessionsVerified, Lost
<1> QED
  BY <1>1, <1>2, <1>3, <1>4

LEMMA SendOtpGood ==
  ASSUME Inv, Kept, NEW o \in Requests, SendOtp(o)
  PROVE  Good(o)
<1>1. otp' \subseteq Codes
  BY DEF SendOtp, Inv, TypeOK, Codes
<1> QED
  BY <1>1, EndIsGood DEF SendOtp, Inv, TypeOK

LEMMA ResendOTPGood ==
  ASSUME Inv, Kept, NEW o \in Requests, ResendOTP(o)
  PROVE  Good(o)
<1> DEFINE x == [Idle EXCEPT !.pc = "sendVerify", !.env = "sandbox"]
<1>1. x \in Op /\ op' = [op EXCEPT ![o] = x] /\ op'[o].pc = "sendVerify"
  BY StartType DEF ResendOTP, Envs
<1>2. Knows(o)'
  BY <1>1 DEF Knows, Copying
<1> QED
  BY <1>1, <1>2, MoveIsGood DEF ResendOTP, Inv, TypeOK

LEMMA LoginGood ==
  ASSUME Inv, Kept, NEW o \in Requests, NEW env \in Envs, NEW password \in Passwords,
         Login(o, env, password)
  PROVE  Good(o)
<1> DEFINE pc == IF env = "prod" /\ ~acct["prod"].exists /\ acct["sandbox"].exists
                 THEN "copyUser" ELSE "login"
           x == [Idle EXCEPT !.pc = pc, !.env = env, !.password = password]
<1>1. /\ x \in Op /\ op' = [op EXCEPT ![o] = x]
      /\ op'[o].pc = pc /\ op'[o].env = env
  BY IdleType DEF Login, Inv, TypeOK, Op, Idle, Envs
<1>2. Knows(o)'
  BY <1>1 DEF Login, Knows, Copying
<1> QED
  BY <1>1, <1>2, MoveIsGood DEF Login, Inv, TypeOK

LEMMA CopyUserGood ==
  ASSUME Inv, Kept, NEW o \in Requests, CopyUser(o)
  PROVE  Good(o)
<1>1. op[o].env = "sandbox" => Lost \/ acct["sandbox"].verified
  BY DEF CopyUser, Inv, Knows
<1>2. CASE acct["sandbox"].exists
  <2> DEFINE x == [op[o] EXCEPT !.pc = "createCopy", !.copy = acct["sandbox"]]
  <2>1. acct["sandbox"] \in User
    BY DEF Inv, TypeOK, Envs
  <2>2. op' = [op EXCEPT ![o].pc = "createCopy", ![o].copy = acct["sandbox"]]
    BY <1>2 DEF CopyUser
  <2>3. op \in [Requests -> Op] /\ op[o] \in Op
    BY OpParts DEF Inv, TypeOK
  <2>4. x \in Op /\ op' = [op EXCEPT ![o] = x]
    BY <2>1, <2>2, <2>3 DEF Op
  <2>5. /\ op'[o].pc = "createCopy" /\ op'[o].copy = acct["sandbox"]
        /\ op'[o].env = op[o].env
    BY <2>3, <2>4 DEF Op
  <2>6. Knows(o)'
    BY <1>1, <1>2, <2>5 DEF CopyUser, Knows, Copying, Kept
  <2> QED
    BY <2>4, <2>6, MoveIsGood DEF CopyUser, Inv, TypeOK
<1>3. CASE ~acct["sandbox"].exists
  <2>1. To(o, AfterCopy(o)) /\ AfterCopy(o) \in {"login", "toggle"}
    BY <1>3 DEF CopyUser, AfterCopy
  <2>2. /\ [op[o] EXCEPT !.pc = AfterCopy(o)] \in Op
        /\ op' = [op EXCEPT ![o] = [op[o] EXCEPT !.pc = AfterCopy(o)]]
        /\ op'[o].pc = AfterCopy(o)
    BY <2>1, ToType
  <2>3. AfterCopy(o) = "toggle" => op[o].env = "sandbox"
    BY OpParts DEF AfterCopy, Inv, Envs
  <2>4. Knows(o)'
    BY <1>1, <2>1, <2>2, <2>3 DEF CopyUser, Knows, Copying, Kept
  <2> QED
    BY <2>2, <2>4, MoveIsGood DEF CopyUser, Inv, TypeOK
<1> QED
  BY <1>2, <1>3

LEMMA CreateCopyGood ==
  ASSUME Inv, Kept, NEW o \in Requests, CreateCopy(o)
  PROVE  Good(o)
<1> DEFINE x == [op[o] EXCEPT !.pc = AfterCopy(o), !.copy = Missing]
<1>1. /\ op[o].copy \in User /\ op[o].copy.exists
      /\ op[o].copy.verified => Lost \/ acct["sandbox"].verified
      /\ op[o].env = "sandbox" => Lost \/ acct["sandbox"].verified
      /\ op[o].env \in Envs
  BY OpParts DEF CreateCopy, Inv, Knows
<1>2. /\ AfterCopy(o) \in {"login", "toggle"}
      /\ AfterCopy(o) = "toggle" => op[o].env = "sandbox"
  BY <1>1 DEF AfterCopy, Envs
<1>3. x \in Op /\ op' = [op EXCEPT ![o] = x] /\ op'[o].pc = AfterCopy(o)
  BY <1>2 DEF CreateCopy, Inv, TypeOK, Op, User
<1>4. acct'["sandbox"] = acct["sandbox"]
  BY DEF CreateCopy, Add, Inv, TypeOK, Envs
<1>5. Knows(o)'
  BY <1>1, <1>2, <1>3, <1>4 DEF Knows, Copying, Kept
<1>6. mishaps' \subseteq Mishaps
  BY DEF CreateCopy, Note, Inv, TypeOK, Mishaps, Passing
<1>7. CASE UNCHANGED acct
  BY <1>3, <1>5, <1>6, <1>7, MoveIsGood DEF CreateCopy, Inv, TypeOK
<1>8. CASE Add("prod", op[o].copy)
  <2>1. "prod" \in Envs /\ live' = live
    BY DEF Envs, CreateCopy
  <2>2. acct' \in [Envs -> User] /\ Grows
    BY <1>1, <1>8, <2>1, NewAccount DEF Inv
  <2>3. SessionsVerified'
    BY <1>1, <1>8, <2>1, AdditionVerified DEF Kept
  <2> QED
    BY <1>3, <1>5, <1>6, <2>2, <2>3 DEF CreateCopy, Good, Inv, TypeOK
<1> QED
  BY <1>7, <1>8 DEF CreateCopy

LEMMA CheckPasswordGood ==
  ASSUME Inv, Kept, NEW o \in Requests, CheckPassword(o)
  PROVE  Good(o)
<1>1. CASE End(o)
  BY <1>1, EndIsGood DEF CheckPassword, Inv, TypeOK
<1>2. CASE op' = [op EXCEPT ![o] = [Idle EXCEPT !.pc = "loginVerified", !.env = op[o].env]]
  <2> DEFINE x == [Idle EXCEPT !.pc = "loginVerified", !.env = op[o].env]
  <2>1. x \in Op /\ op'[o].pc = "loginVerified"
    BY <1>2, IdleType, OpParts DEF Inv, TypeOK, Op, Idle
  <2>2. Knows(o)'
    BY <2>1 DEF Knows, Copying
  <2> QED
    BY <1>2, <2>1, <2>2, MoveIsGood DEF CheckPassword, Inv, TypeOK
<1> QED
  BY <1>1, <1>2 DEF CheckPassword

LEMMA CheckVerifiedGood ==
  ASSUME Inv, Kept, NEW o \in Requests, CheckVerified(o)
  PROVE  Good(o)
<1>1. CASE MayLogin(op[o].env)
  <2>1. Lost \/ acct["sandbox"].verified
    BY <1>1, OpParts DEF MayLogin, Inv, SessionsVerified, Lost, Kept, Envs
  <2>2. To(o, "token")
    BY <1>1 DEF CheckVerified
  <2>3. op'[o].pc = "token"
    BY <2>2, ToType
  <2>4. Knows(o)'
    BY <2>1, <2>3 DEF CheckVerified, Knows, Copying, Kept
  <2> QED
    BY <1>1, <2>2, <2>4, ToType, MoveIsGood DEF CheckVerified, Inv, TypeOK
<1>2. CASE ~MayLogin(op[o].env)
  <2>1. otp' \subseteq Codes
    BY <1>2 DEF CheckVerified, Inv, TypeOK, Codes
  <2> QED
    BY <1>2, <2>1, EndIsGood DEF CheckVerified, Inv, TypeOK
<1> QED
  BY <1>1, <1>2

LEMMA ToggleGood ==
  ASSUME Inv, Kept, NEW o \in Requests, NEW env \in Envs, Toggle(o, env)
  PROVE  Good(o)
<1> DEFINE pc == IF env = "prod" /\ ~acct["prod"].exists /\ acct["sandbox"].exists
                 THEN "copyUser" ELSE "toggle"
<1>1. PICK other \in Envs \ {env} : Start(o, pc, other)
  BY DEF Toggle
<1> HIDE DEF pc
<1> DEFINE x == [Idle EXCEPT !.pc = pc, !.env = other]
<1>2. /\ x \in Op /\ op' = [op EXCEPT ![o] = x]
      /\ op'[o].pc \in {"copyUser", "toggle"}
  BY <1>1, StartType DEF pc
<1>3. Lost \/ acct["sandbox"].verified
  BY DEF Toggle, Inv, SessionsVerified, Lost, Kept
<1>4. Knows(o)'
  BY <1>2, <1>3 DEF Toggle, Knows, Copying, Kept
<1> QED
  BY <1>2, <1>4, MoveIsGood DEF Toggle, Inv, TypeOK

LEMMA ToggleUserGood ==
  ASSUME Inv, Kept, NEW o \in Requests, ToggleUser(o)
  PROVE  Good(o)
<1>1. CASE End(o)
  BY <1>1, EndIsGood DEF ToggleUser, Inv, TypeOK
<1>2. CASE To(o, "token")
  <2>1. op'[o].pc = "token" /\ (Lost \/ acct["sandbox"].verified)
    BY <1>2, ToType DEF ToggleUser, Inv, Knows
  <2>2. Knows(o)'
    BY <2>1 DEF ToggleUser, Knows, Copying, Kept
  <2> QED
    BY <1>2, <2>2, ToType, MoveIsGood DEF ToggleUser, Inv, TypeOK
<1> QED
  BY <1>1, <1>2 DEF ToggleUser

LEMMA CreateTokenGood ==
  ASSUME Inv, Kept, NEW o \in Requests, CreateToken(o)
  PROVE  Good(o)
<1>1. Lost \/ acct["sandbox"].verified
  BY DEF CreateToken, Inv, Knows
<1>2. Idle \in Op /\ op' = [op EXCEPT ![o] = Idle] /\ op'[o] = Idle
  BY IdleType DEF CreateToken, End, Inv, TypeOK
<1>3. Knows(o)'
  BY <1>2 DEF Knows, Copying, Idle
<1>4. live' \subseteq Envs
  BY OpParts DEF CreateToken, Inv, TypeOK
<1> QED
  BY <1>1, <1>2, <1>3, <1>4, MoveIsGood DEF CreateToken, Inv, TypeOK

LEMMA VerifyEmailGood ==
  ASSUME Inv, Kept, NEW o \in Requests, VerifyEmail(o)
  PROVE  Good(o)
<1>1. Read(o, "sandbox", "checkCode") /\ "sandbox" \in Envs
  BY DEF VerifyEmail, Envs
<1> DEFINE x == [op[o] EXCEPT !.pc = "checkCode", !.env = "sandbox",
                              !.copy = acct["sandbox"]]
<1>2. /\ x \in Op /\ op' = [op EXCEPT ![o] = x]
      /\ op'[o].pc = "checkCode" /\ op'[o].env = "sandbox"
      /\ op'[o].copy = acct["sandbox"]
  BY <1>1, ReadType
<1>3. Knows(o)'
  BY <1>1, <1>2 DEF VerifyEmail, Read, Knows, Copying
<1> QED
  BY <1>2, <1>3, MoveIsGood DEF VerifyEmail, Inv, TypeOK

LEMMA CheckCodeGood ==
  ASSUME Inv, Kept, NEW o \in Requests, CheckCode(o)
  PROVE  Good(o)
<1>1. CASE End(o)
  BY <1>1, EndIsGood DEF CheckCode, Inv, TypeOK
<1>2. CASE To(o, "verify")
  <2>1. /\ op'[o].pc = "verify" /\ op'[o].env = op[o].env
        /\ op'[o].copy = op[o].copy
    BY <1>2, ToType
  <2>2. Knows(o)'
    BY <2>1 DEF CheckCode, Inv, Knows, Copying, Kept
  <2> QED
    BY <1>2, <2>2, ToType, MoveIsGood DEF CheckCode, Inv, TypeOK
<1> QED
  BY <1>1, <1>2 DEF CheckCode

\* A write of a copy, with a new password or as verified: what it makes of the
\* account, or of one that was given another address.
LEMMA WriteIsGood ==
  ASSUME Inv, Kept, NEW o \in Requests, op[o].pc \in Copying, NEW c \in User, Write(o, c),
         c.exists,
         c.verified /\ op[o].env = "prod" => Lost \/ acct["sandbox"].verified
  PROVE  /\ acct' \in [Envs -> User] /\ Grows
         /\ live' = live => SessionsVerified'
         /\ acct'[op[o].env].exists
         /\ acct'[op[o].env].password = c.password
         /\ c.verified => acct'[op[o].env].verified
         /\ \A e \in Envs \ {op[o].env} : acct'[e] = acct[e]
<1> DEFINE env == op[o].env
           rows == IF acct[env].exists THEN {acct[env]}
                   ELSE {[c EXCEPT !.verified = v] : v \in BOOLEAN}
<1>1. env \in Envs /\ acct[env] \in User /\ (Lost \/ acct[env].exists)
  BY OpParts DEF Inv, TypeOK, Knows
<1>2. PICK row \in rows : acct' = [acct EXCEPT ![env] = Updated(row, c)]
  BY DEF Write
<1>3. c \in [exists: {TRUE}, password: Passwords, verified: BOOLEAN]
  BY ExistingUser
<1>4. row \in User /\ row.exists
  BY <1>1, <1>2, <1>3 DEF User
<1>5. acct[env].exists => row = acct[env]
  BY <1>2
<1> DEFINE new == Updated(row, c)
<1>6. /\ new \in User /\ new.exists /\ new.password = c.password
      /\ new.verified = (row.verified \/ c.verified)
  BY <1>4, UpdatedUser
<1>7. acct' = [acct EXCEPT ![env] = new]
  BY <1>2
<1> HIDE DEF new, rows
<1>8. /\ acct' \in [Envs -> User] /\ acct'[env] = new
      /\ \A e \in Envs \ {env} : acct'[e] = acct[e]
  BY <1>1, <1>6, <1>7 DEF Inv, TypeOK
<1>9. acct[env].verified => acct[env].exists
  BY <1>1, UserParts
<1>10. Grows
  BY <1>5, <1>6, <1>8, <1>9 DEF Grows
<1> HIDE DEF env
<1>11. ASSUME live' = live, ~Lost', live # {} \/ acct'["prod"].verified
       PROVE  acct'["sandbox"].verified
  <2>1. /\ ~Lost
        /\ live # {} \/ acct["prod"].verified => acct["sandbox"].verified
    BY <1>11 DEF Inv, SessionsVerified, Lost, Kept
  <2>2. row = acct[env]
    BY <1>1, <1>5, <2>1
  <2>3. CASE env = "sandbox"
    BY <1>6, <1>8, <1>11, <2>1, <2>2, <2>3 DEF Envs
  <2>4. CASE env = "prod"
    <3>1. acct'["sandbox"] = acct["sandbox"]
      BY <1>8, <2>4 DEF Envs
    <3> QED
      BY <1>6, <1>8, <1>11, <2>1, <2>2, <2>4, <3>1 DEF env
  <2> QED
    BY <1>1, <2>3, <2>4 DEF Envs
<1> QED
  BY <1>6, <1>8, <1>10, <1>11 DEF env, SessionsVerified, Lost

\* The copy of a verification, as it is written.
LEMMA VerifiedCopy ==
  ASSUME Inv, NEW o \in Requests, op[o].pc \in Copying
  PROVE  /\ Verified(op[o].copy) \in User /\ Verified(op[o].copy).exists
         /\ Verified(op[o].copy).password = op[o].copy.password
         /\ Verified(op[o].copy).verified = TRUE
<1>1. op[o].copy \in User /\ op[o].copy.exists
  BY OpParts DEF Inv, Knows
<1>2. op[o].copy \in [exists: {TRUE}, password: Passwords, verified: BOOLEAN]
  BY <1>1, ExistingUser
<1> QED
  BY <1>2 DEF Verified, User

LEMMA WriteVerifiedGood ==
  ASSUME Inv, Kept, NEW o \in Requests, WriteVerified(o)
  PROVE  Good(o)
<1> DEFINE c == Verified(op[o].copy)
<1>1. op[o].pc \in {"verify", "verifyProd"} /\ op[o].pc \in Copying
  BY DEF WriteVerified, Copying
<1>2. op[o].pc = "verifyProd" => op[o].env = "prod" /\ (Lost \/ acct["sandbox"].verified)
  BY DEF Inv, Knows
<1>3. op[o].pc = "verify" => op[o].env = "sandbox"
  BY DEF Inv, Knows
<1>4. c \in User /\ c.exists /\ c.verified = TRUE
  BY <1>1, VerifiedCopy
<1> HIDE DEF c
<1>5. Write(o, c)
  BY DEF WriteVerified, c
<1>6. /\ acct' \in [Envs -> User] /\ Grows
      /\ live' = live => SessionsVerified'
      /\ acct'[op[o].env].verified = TRUE
  BY <1>1, <1>2, <1>3, <1>4, <1>5, WriteIsGood
<1>7. mishaps' \subseteq Mishaps
  BY DEF WriteVerified, Note, Inv, TypeOK, Mishaps, Passing
<1>8. CASE op[o].pc = "verify"
  <2>1. To(o, "deleteVerify")
    BY <1>8 DEF WriteVerified
  <2>2. /\ [op[o] EXCEPT !.pc = "deleteVerify"] \in Op
        /\ op' = [op EXCEPT ![o] = [op[o] EXCEPT !.pc = "deleteVerify"]]
        /\ op'[o].pc = "deleteVerify"
    BY <2>1, ToType
  <2>3. Knows(o)'
    BY <1>3, <1>6, <1>8, <2>2 DEF Knows, Copying
  <2> QED
    BY <1>6, <1>7, <2>2, <2>3
       DEF WriteVerified, Good, Inv, TypeOK, SessionsVerified, Lost, Kept
<1>9. CASE op[o].pc = "verifyProd"
  <2>1. /\ op' \in [Requests -> Op] /\ op'[o] = Idle
        /\ \A p \in Requests \ {o} : op'[p] = op[p]
    BY <1>9, IdleType DEF WriteVerified, End, Inv, TypeOK
  <2>2. Knows(o)'
    BY <2>1 DEF Knows, Idle, Copying
  <2> QED
    BY <1>6, <1>7, <2>1, <2>2
       DEF WriteVerified, Good, Inv, TypeOK, SessionsVerified, Lost, Kept
<1> QED
  BY <1>1, <1>8, <1>9

LEMMA DeleteVerifyGood ==
  ASSUME Inv, Kept, NEW o \in Requests, DeleteVerify(o)
  PROVE  Good(o)
<1>1. To(o, "verifyToken") /\ (Lost \/ acct["sandbox"].verified) /\ UNCHANGED acct
  BY DEF DeleteVerify, Inv, Knows
<1>2. op'[o].pc = "verifyToken"
  BY <1>1, ToType
<1>3. Knows(o)'
  BY <1>1, <1>2 DEF Knows, Copying, Kept
<1>4. otp' \subseteq Codes
  BY DEF DeleteVerify, Inv, TypeOK
<1> QED
  BY <1>1, <1>3, <1>4, ToType, MoveIsGood DEF DeleteVerify, Inv, TypeOK

LEMMA VerifyTokenGood ==
  ASSUME Inv, Kept, NEW o \in Requests, VerifyToken(o)
  PROVE  Good(o)
<1>1. To(o, "readProd") /\ (Lost \/ acct["sandbox"].verified) /\ UNCHANGED acct
  BY DEF VerifyToken, Inv, Knows
<1>2. op'[o].pc = "readProd"
  BY <1>1, ToType
<1>3. Knows(o)'
  BY <1>1, <1>2 DEF Knows, Copying, Kept
<1>4. live' \subseteq Envs
  BY DEF VerifyToken, Inv, TypeOK, Envs
<1> QED
  BY <1>1, <1>3, <1>4, ToType, MoveIsGood DEF VerifyToken, Inv, TypeOK

LEMMA ReadProdGood ==
  ASSUME Inv, Kept, NEW o \in Requests, ReadProd(o)
  PROVE  Good(o)
<1>1. CASE End(o)
  BY <1>1, EndIsGood DEF ReadProd, Inv, TypeOK
<1>2. CASE Read(o, "prod", "verifyProd")
  <2>1. "prod" \in Envs
    BY DEF Envs
  <2> DEFINE x == [op[o] EXCEPT !.pc = "verifyProd", !.env = "prod", !.copy = acct["prod"]]
  <2>2. /\ x \in Op /\ op' = [op EXCEPT ![o] = x]
        /\ op'[o].pc = "verifyProd" /\ op'[o].env = "prod"
        /\ op'[o].copy = acct["prod"]
    BY <1>2, <2>1, ReadType
  <2>3. acct["prod"].exists /\ (Lost \/ acct["sandbox"].verified) /\ UNCHANGED acct
    BY <1>2 DEF ReadProd, Read, Inv, Knows
  <2>4. Knows(o)'
    BY <2>2, <2>3 DEF Knows, Copying, Kept
  <2> QED
    BY <2>2, <2>4, MoveIsGood DEF ReadProd, Inv, TypeOK
<1> QED
  BY <1>1, <1>2 DEF ReadProd

LEMMA InitiateForgotGood ==
  ASSUME Inv, Kept, NEW o \in Requests, InitiateForgot(o)
  PROVE  Good(o)
<1> DEFINE x == [Idle EXCEPT !.pc = "sendForgot", !.env = "prod"]
<1>1. x \in Op /\ op' = [op EXCEPT ![o] = x] /\ op'[o].pc = "sendForgot"
  BY StartType DEF InitiateForgot, Envs
<1>2. Knows(o)'
  BY <1>1 DEF Knows, Copying
<1> QED
  BY <1>1, <1>2, MoveIsGood DEF InitiateForgot, Inv, TypeOK

LEMMA CompleteForgotGood ==
  ASSUME Inv, Kept, NEW o \in Requests, NEW password \in Passwords, CompleteForgot(o, password)
  PROVE  Good(o)
<1> DEFINE x == [Idle EXCEPT !.pc = "reset", !.password = password]
<1>1. /\ x \in Op /\ op' = [op EXCEPT ![o] = x]
      /\ op'[o].pc = "reset" /\ op'[o].password = password
  BY IdleType DEF CompleteForgot, Inv, TypeOK, Op, Idle
<1>2. Knows(o)'
  BY <1>1 DEF Knows, Copying
<1>3. mishaps' \subseteq Mishaps /\ otp' = otp
  BY DEF CompleteForgot, CodesAfterCheck, Inv, TypeOK, Mishaps, Passing
<1> QED
  BY <1>1, <1>2, <1>3, MoveIsGood DEF CompleteForgot, Inv, TypeOK

\* Where a reset goes on keeps the types of the request, and its password.
LEMMA OnwardType ==
  ASSUME Inv, NEW o \in Requests, NEW updated \in BOOLEAN, Onward(o, updated)
  PROVE  \E x \in Op :
           /\ op' = [op EXCEPT ![o] = x]
           /\ op'[o] = x
           /\ op[o].env = "prod" =>
                /\ x.pc = "reset" /\ x.env = "sandbox"
                /\ x.password = op[o].password /\ x.updated = updated
           /\ op[o].env # "prod" => x.pc = IF updated THEN "deleteForgot" ELSE "idle"
<1>1. op[o] \in Op /\ Missing \in User /\ "sandbox" \in Envs
  BY OpParts DEF Inv, User, Envs
<1>2. CASE op[o].env = "prod"
  <2> DEFINE x == [op[o] EXCEPT !.pc = "reset", !.env = "sandbox", !.copy = Missing,
                                !.updated = updated]
  <2>1. op' = [op EXCEPT ![o] = x]
    BY <1>2 DEF Onward
  <2>2. /\ x \in Op /\ x.pc = "reset" /\ x.env = "sandbox"
        /\ x.password = op[o].password /\ x.updated = updated
    BY <1>1 DEF Op
  <2>3. op'[o] = x
    BY <2>1 DEF Inv, TypeOK
  <2> HIDE DEF x
  <2> QED
    BY <1>2, <2>1, <2>2, <2>3
<1>3. CASE op[o].env # "prod" /\ updated
  <2> DEFINE x == [op[o] EXCEPT !.pc = "deleteForgot", !.copy = Missing]
  <2>1. op' = [op EXCEPT ![o] = x]
    BY <1>3 DEF Onward
  <2>2. x \in Op /\ x.pc = "deleteForgot"
    BY <1>1 DEF Op
  <2>3. op'[o] = x
    BY <2>1 DEF Inv, TypeOK
  <2> HIDE DEF x
  <2> QED
    BY <1>3, <2>1, <2>2, <2>3
<1>4. CASE op[o].env # "prod" /\ ~updated
  <2>1. op' = [op EXCEPT ![o] = Idle]
    BY <1>4 DEF Onward
  <2>2. Idle \in Op /\ Idle.pc = "idle"
    BY IdleType DEF Idle
  <2>3. op'[o] = Idle
    BY <2>1 DEF Inv, TypeOK
  <2> QED
    BY <1>4, <2>1, <2>2, <2>3
<1> QED
  BY <1>2, <1>3, <1>4

\* A reset that goes on is well-informed.
LEMMA OnwardKnows ==
  ASSUME Inv, NEW o \in Requests, NEW updated \in BOOLEAN, Onward(o, updated),
         op[o].password \in Passwords
  PROVE  /\ op' \in [Requests -> Op]
         /\ \A p \in Requests \ {o} : op'[p] = op[p]
         /\ op'[o].pc \in {"reset", "deleteForgot", "idle"}
         /\ Knows(o)'
<1>1. PICK x \in Op :
           /\ op' = [op EXCEPT ![o] = x]
           /\ op'[o] = x
           /\ op[o].env = "prod" =>
                /\ x.pc = "reset" /\ x.env = "sandbox"
                /\ x.password = op[o].password /\ x.updated = updated
           /\ op[o].env # "prod" => x.pc = IF updated THEN "deleteForgot" ELSE "idle"
  BY OnwardType
<1>2. Knows(o)'
  BY <1>1 DEF Knows, Copying
<1> QED
  BY <1>1, <1>2 DEF Inv, TypeOK

LEMMA ReadResetGood ==
  ASSUME Inv, Kept, NEW o \in Requests, ReadReset(o)
  PROVE  Good(o)
<1>1. op[o].env \in Envs /\ op[o].updated \in BOOLEAN /\ op[o].password \in Passwords
  BY OpParts DEF ReadReset, Inv, Knows
<1>2. CASE Read(o, op[o].env, "writeReset")
  <2> DEFINE env == op[o].env
             x == [op[o] EXCEPT !.pc = "writeReset", !.env = env, !.copy = acct[env]]
  <2>1. /\ x \in Op /\ op' = [op EXCEPT ![o] = x]
        /\ op'[o].pc = "writeReset" /\ op'[o].env = env
        /\ op'[o].copy = acct[env] /\ op'[o].password = op[o].password
    BY <1>1, <1>2, ReadType
  <2>2. acct[env].exists /\ UNCHANGED acct
    BY <1>2 DEF ReadReset, Read
  <2>3. Knows(o)'
    BY <1>1, <2>1, <2>2 DEF Knows, Copying
  <2> QED
    BY <2>1, <2>3, MoveIsGood DEF ReadReset, Inv, TypeOK
<1>3. CASE Onward(o, op[o].updated)
  BY <1>1, <1>3, OnwardKnows
     DEF ReadReset, Good, Inv, TypeOK, SessionsVerified, Lost, Kept, Grows
<1> QED
  BY <1>2, <1>3 DEF ReadReset

\* The copy of a request, with the password it was given.
LEMMA NewPassword ==
  ASSUME Inv, NEW o \in Requests, op[o].pc \in Copying, op[o].password \in Passwords
  PROVE  LET c == [op[o].copy EXCEPT !.password = op[o].password]
         IN /\ c \in User /\ c.exists /\ c.password = op[o].password
            /\ c.verified /\ op[o].env = "prod" => Lost \/ acct["sandbox"].verified
<1>1. /\ op[o].copy \in User /\ op[o].copy.exists
      /\ op[o].copy.verified => Lost \/ acct[op[o].env].verified
  BY OpParts DEF Inv, Knows
<1>2. op[o].copy \in [exists: {TRUE}, password: Passwords, verified: BOOLEAN]
  BY <1>1, ExistingUser
<1> QED
  BY <1>1, <1>2 DEF Inv, SessionsVerified, Lost, User

LEMMA WriteResetGood ==
  ASSUME Inv, Kept, NEW o \in Requests, WriteReset(o)
  PROVE  Good(o)
<1> DEFINE c == [op[o].copy EXCEPT !.password = op[o].password]
<1>1. op[o].pc \in Copying /\ op[o].password \in Passwords
  BY DEF WriteReset, Copying, Inv, Knows
<1>2. /\ c \in User /\ c.exists
      /\ c.verified /\ op[o].env = "prod" => Lost \/ acct["sandbox"].verified
  BY <1>1, NewPassword
<1> HIDE DEF c
<1>3. Write(o, c)
  BY DEF WriteReset, c
<1>4. /\ acct' \in [Envs -> User] /\ Grows
      /\ live' = live => SessionsVerified'
  BY <1>1, <1>2, <1>3, WriteIsGood
<1>5. /\ op' \in [Requests -> Op]
      /\ \A p \in Requests \ {o} : op'[p] = op[p]
      /\ Knows(o)'
  BY <1>1, OnwardKnows DEF WriteReset
<1> QED
  BY <1>4, <1>5 DEF WriteReset, Good, Inv, TypeOK, SessionsVerified, Lost, Kept

LEMMA DeleteForgotGood ==
  ASSUME Inv, Kept, NEW o \in Requests, DeleteForgot(o)
  PROVE  Good(o)
<1>1. otp' \subseteq Codes
  BY DEF DeleteForgot, Inv, TypeOK
<1> QED
  BY <1>1, EndIsGood DEF DeleteForgot, Inv, TypeOK

LEMMA ChangePasswordGood ==
  ASSUME Inv, Kept, NEW o \in Requests, NEW env \in Envs,
         NEW old \in Passwords, NEW new \in Passwords, ChangePassword(o, env, old, new)
  PROVE  Good(o)
<1> DEFINE x == [Idle EXCEPT !.pc = "change", !.env = env, !.copy = acct[env],
                             !.password = new]
<1>1. acct[env] \in User
  BY DEF Inv, TypeOK
<1>2. /\ x \in Op /\ op' = [op EXCEPT ![o] = x]
      /\ op'[o].pc = "change" /\ op'[o].env = env
      /\ op'[o].copy = acct[env] /\ op'[o].password = new
  BY <1>1, IdleType DEF ChangePassword, Inv, TypeOK, Op, Idle
<1>3. Knows(o)'
  BY <1>2 DEF ChangePassword, Knows, Copying
<1> QED
  BY <1>2, <1>3, MoveIsGood DEF ChangePassword, Inv, TypeOK

LEMMA WriteChangeGood ==
  ASSUME Inv, Kept, NEW o \in Requests, WriteChange(o)
  PROVE  Good(o)
<1> DEFINE c == [op[o].copy EXCEPT !.password = op[o].password]
<1>1. op[o].pc \in Copying /\ op[o].password \in Passwords
  BY DEF WriteChange, Copying, Inv, Knows
<1>2. /\ c \in User /\ c.exists
      /\ c.verified /\ op[o].env = "prod" => Lost \/ acct["sandbox"].verified
  BY <1>1, NewPassword
<1> HIDE DEF c
<1>3. Write(o, c)
  BY DEF WriteChange, c
<1>4. /\ acct' \in [Envs -> User] /\ Grows
      /\ live' = live => SessionsVerified'
  BY <1>1, <1>2, <1>3, WriteIsGood
<1>5. /\ op' \in [Requests -> Op] /\ op'[o] = Idle
      /\ \A p \in Requests \ {o} : op'[p] = op[p]
  BY IdleType DEF WriteChange, End, Inv, TypeOK
<1>6. Knows(o)'
  BY <1>5 DEF Knows, Idle, Copying
<1>7. mishaps' \subseteq Mishaps
  BY DEF WriteChange, Inv, TypeOK, Mishaps, Passing
<1> QED
  BY <1>4, <1>5, <1>6, <1>7 DEF WriteChange, Good, Inv, TypeOK, SessionsVerified, Lost, Kept

\* A row is read to be saved whole.
LEMMA ReadRowGood ==
  ASSUME Inv, Kept, NEW o \in Requests, NEW env \in Envs, ReadRow(o, env)
  PROVE  Good(o)
<1>1. Read(o, env, "saveRow")
  BY DEF ReadRow
<1> DEFINE x == [op[o] EXCEPT !.pc = "saveRow", !.env = env, !.copy = acct[env]]
<1>2. /\ x \in Op /\ op' = [op EXCEPT ![o] = x]
      /\ op'[o].pc = "saveRow" /\ op'[o].env = env
      /\ op'[o].copy = acct[env]
  BY ZenonT(40), <1>1, ReadType
<1>3. Knows(o)'
  BY <1>1, <1>2 DEF ReadRow, Read, Knows, Copying
<1> QED
  BY <1>2, <1>3, MoveIsGood DEF ReadRow, Inv, TypeOK

\* The account becomes the copy, and is less verified than before only with the
\* mishap that says so.
LEMMA SaveRowEffect ==
  ASSUME Inv, NEW o \in Requests, SaveRow(o)
  PROVE  /\ op[o].env \in Envs /\ op[o].copy \in User /\ op[o].copy.exists
         /\ Lost \/ acct[op[o].env].exists
         /\ acct'[op[o].env] = op[o].copy
         /\ \A e \in Envs \ {op[o].env} : acct'[e] = acct[e]
         /\ acct' \in [Envs -> User]
         /\ acct[op[o].env].verified => "row" \in mishaps' \/ op[o].copy.verified
         /\ op[o].copy.verified => Lost \/ acct[op[o].env].verified
<1>1. /\ op[o].env \in Envs /\ op[o].copy \in User /\ op[o].copy.exists
      /\ Lost \/ acct[op[o].env].exists
      /\ op[o].copy.verified => Lost \/ acct[op[o].env].verified
  BY OpParts DEF SaveRow, Inv, Knows, Copying
<1>2. acct[op[o].env].verified => "row" \in mishaps' \/ op[o].copy.verified
  BY DEF SaveRow
<1> QED
  BY <1>1, <1>2 DEF SaveRow, Inv, TypeOK

LEMMA SaveRowGood ==
  ASSUME Inv, Kept, NEW o \in Requests, SaveRow(o)
  PROVE  Good(o)
<1>1. Grows
  BY SaveRowEffect DEF Grows
<1>2. SessionsVerified'
  <2>1. SUFFICES ASSUME ~Lost'
                 PROVE  live # {} \/ acct'["prod"].verified => acct'["sandbox"].verified
    BY DEF SaveRow, SessionsVerified, Lost
  <2>2. live # {} \/ acct["prod"].verified => acct["sandbox"].verified
    BY <2>1 DEF Inv, SessionsVerified, Lost, Kept
  <2>3. "row" \notin mishaps' /\ ~Lost
    BY <2>1 DEF Lost, Lasting, Kept
  <2>4. \A e \in Envs : acct'[e].verified <=> acct[e].verified
    BY <2>3, SaveRowEffect, UserParts DEF Inv, TypeOK
  <2> QED
    BY <2>2, <2>4 DEF Envs
<1>3. /\ op' \in [Requests -> Op] /\ op'[o] = Idle
      /\ \A p \in Requests \ {o} : op'[p] = op[p]
  BY IdleType DEF SaveRow, End, Inv, TypeOK
<1>4. Knows(o)'
  BY <1>3 DEF Knows, Idle, Copying
<1>5. mishaps' \subseteq Mishaps
  BY DEF SaveRow, Inv, TypeOK, Mishaps, Passing, Lasting
<1> QED
  BY <1>1, <1>2, <1>3, <1>4, <1>5, SaveRowEffect DEF SaveRow, Good, Inv, TypeOK

LEMMA StopGood ==
  ASSUME Inv, Kept, NEW o \in Requests, Stop(o)
  PROVE  Good(o)
<1>1. mishaps' \subseteq Mishaps
  BY DEF Stop, Note, Inv, TypeOK, Mishaps, Passing
<1> QED
  BY <1>1, EndIsGood DEF Stop, Inv, TypeOK

-----------------------------------------------------------------------------
(* The invariant *)

LEMMA LossIsKept ==
  ASSUME Inv, [Next]_vars
  PROVE  Kept
<1> USE DEF Kept, Lost
<1>1. ASSUME NEW o \in Requests, Request(o)
      PROVE  Kept
  BY <1>1 DEF Request, CreateUser, SendOtp, CopyUser, CreateCopy, CheckPassword,
     CheckVerified, ToggleUser, CreateToken, CheckCode, WriteVerified, DeleteVerify, VerifyToken,
     ReadProd, ReadReset, WriteReset, DeleteForgot, WriteChange, SaveRow, Note
<1>2. ASSUME NEW o \in Requests, NEW password, CompleteForgot(o, password)
      PROVE  Kept
  BY <1>2 DEF CompleteForgot
<1> QED
  BY <1>1, <1>2 DEF Next, vars, Stop, ResendOTP, VerifyEmail, InitiateForgot, Register,
     Login, ChangePassword, Toggle, ReadRow, Logout, Expire, Note, Leave, Arrive,
     AdminCreates, AggregatorCreates

\* A step of the specification belongs to one request, or leaves them all.
LEMMA StepIsGood ==
  ASSUME Inv, Kept, Next
  PROVE  \/ \E o \in Requests : Good(o)
         \/ TypeOK' /\ SessionsVerified' /\ Grows /\ op' = op
<1>1. ASSUME NEW o \in Requests, Request(o)
      PROVE  Good(o)
  BY <1>1, CreateUserGood, SendOtpGood, CopyUserGood, CreateCopyGood,
     CheckPasswordGood, CheckVerifiedGood, ToggleUserGood, CreateTokenGood, CheckCodeGood,
     WriteVerifiedGood, DeleteVerifyGood, VerifyTokenGood, ReadProdGood,
     ReadResetGood, WriteResetGood, DeleteForgotGood, WriteChangeGood, SaveRowGood DEF Request
<1>2. ASSUME NEW o \in Requests,
             \/ Stop(o) \/ ResendOTP(o) \/ VerifyEmail(o) \/ InitiateForgot(o)
             \/ \E e \in Envs : Toggle(o, e) \/ ReadRow(o, e)
      PROVE  Good(o)
  BY <1>2, StopGood, ResendOTPGood, VerifyEmailGood, InitiateForgotGood, ToggleGood,
     ReadRowGood
<1>3. ASSUME NEW o \in Requests, NEW password \in Passwords,
             \/ Register(o, password) \/ CompleteForgot(o, password)
             \/ \E e \in Envs : Login(o, e, password)
             \/ \E e \in Envs, new \in Passwords : ChangePassword(o, e, password, new)
      PROVE  Good(o)
  BY <1>3, RegisterGood, CompleteForgotGood, LoginGood, ChangePasswordGood
<1>4. ASSUME NEW e \in Envs, Logout(e)
      PROVE  TypeOK' /\ SessionsVerified' /\ Grows /\ op' = op
  BY <1>4 DEF Logout, Inv, TypeOK, SessionsVerified, Lost, Kept, Grows
<1>5. ASSUME NEW c \in Codes, Expire(c)
      PROVE  TypeOK' /\ SessionsVerified' /\ Grows /\ op' = op
  BY <1>5 DEF Expire, Note, Inv, TypeOK, Mishaps, Passing, SessionsVerified, Lost, Kept, Grows
<1> QED
  BY <1>1, <1>2, <1>3, <1>4, <1>5, OthersGood DEF Next

LEMMA InitInv ==
  Init => Inv
BY DEF Init, Inv, TypeOK, SessionsVerified, Lost, Kept, Knows, Copying,
       Missing, User, Idle, Op, Envs

LEMMA NextInv ==
  ASSUME Inv, [Next]_vars
  PROVE  Inv' /\ Grows
<1> Kept
  BY LossIsKept
<1>1. CASE UNCHANGED vars
  BY <1>1 DEF vars, Inv, TypeOK, SessionsVerified, Lost, Kept, Knows, Grows
<1>2. ASSUME NEW o \in Requests, Good(o)
      PROVE  Inv' /\ Grows
  <2>1. ASSUME NEW p \in Requests \ {o}
        PROVE  Knows(p)'
    BY <1>2, <2>1, KnowledgeStays DEF Good
  <2> QED
    BY <1>2, <2>1 DEF Good, Inv
<1>3. CASE TypeOK' /\ SessionsVerified' /\ Grows /\ op' = op
  <2>1. ASSUME NEW p \in Requests
        PROVE  Knows(p)'
    BY <1>3, <2>1, KnowledgeStays
  <2> QED
    BY <1>3, <2>1 DEF Inv
<1> QED
  BY <1>1, <1>2, <1>3, StepIsGood

\* Accounts, codes, sessions and requests keep their types: whatever copies are
\* written back, also of an account that left the address, an account that is
\* there has a password (service.go:391-414, 628-648).
THEOREM AccountsTypeCorrect == Spec => []TypeOK
<1>1. Inv /\ [Next]_vars => Inv'
  BY NextInv
<1>2. Inv => TypeOK
  BY DEF Inv
<1> QED
  BY InitInv, <1>1, <1>2, PTL DEF Spec

\* There is a session, and an account of production counts as verified, only
\* when the account of the sandbox was verified (service.go:232-240), unless a save
\* of the whole row, an account that an aggregator created in production or a
\* change of the address undid that.
THEOREM SessionsAreVerified == Spec => []SessionsVerified
<1>1. Inv /\ [Next]_vars => Inv'
  BY NextInv
<1>2. Inv => SessionsVerified
  BY DEF Inv
<1> QED
  BY InitInv, <1>1, <1>2, PTL DEF Spec

\* An account that is verified stays so while it has the address, whatever copies
\* are written back (service.go:355, 410, 589), unless one is saved whole
\* (admin/service.go:385).
THEOREM VerificationStays == Spec => VerifiedStays
<1>1. Inv /\ [Next]_vars => Inv'
  BY NextInv
<1>2. Inv /\ [Next]_vars =>
        [\A e \in Envs : acct[e].verified /\ acct'[e].exists
                        => acct'[e].verified \/ "row" \in mishaps']_vars
  BY NextInv DEF Grows
<1> QED
  BY InitInv, <1>1, <1>2, PTL DEF Spec, VerifiedStays

-----------------------------------------------------------------------------
(* Resets *)

\* Two resets under way at once are a mishap, and as long as they are not, the
\* code of the only one is there.
ResetInv ==
  /\ \A o, p \in Requests :
       o # p /\ Resetting(o) /\ Resetting(p) => "resets" \in mishaps
  /\ ResetIsRepeatable

\* A step of a request that is no part of a reset.
Aside(o) ==
  /\ ~Resetting(o) /\ ~Resetting(o)'
  /\ \A p \in Requests \ {o} : op'[p] = op[p]
  /\ mishaps \subseteq mishaps'
  /\ "forgot" \in otp => "forgot" \in otp'

LEMMA EndOrTo ==
  ASSUME Inv, NEW o \in Requests
  PROVE  /\ End(o) => /\ op'[o].pc = "idle"
                      /\ \A p \in Requests \ {o} : op'[p] = op[p]
         /\ \A pc : To(o, pc) => /\ op'[o].pc = pc
                                 /\ \A p \in Requests \ {o} : op'[p] = op[p]
         /\ \A pc, env : Start(o, pc, env) =>
              op'[o].pc = pc /\ \A p \in Requests \ {o} : op'[p] = op[p]
         /\ \A env, pc : Read(o, env, pc) =>
              op'[o].pc = pc /\ \A p \in Requests \ {o} : op'[p] = op[p]
<1>1. op \in [Requests -> Op] /\ op[o] \in Op
  BY DEF Inv, TypeOK
<1>2. ASSUME End(o)
      PROVE  op'[o].pc = "idle" /\ \A p \in Requests \ {o} : op'[p] = op[p]
  BY <1>1, <1>2 DEF End, Idle
<1>3. ASSUME NEW pc, To(o, pc)
      PROVE  op'[o].pc = pc /\ \A p \in Requests \ {o} : op'[p] = op[p]
  BY <1>1, <1>3 DEF To, Op
<1>4. ASSUME NEW pc, NEW env, Start(o, pc, env)
      PROVE  op'[o].pc = pc /\ \A p \in Requests \ {o} : op'[p] = op[p]
  BY <1>1, <1>4 DEF Start, Idle
<1>5. ASSUME NEW env, NEW pc, Read(o, env, pc)
      PROVE  op'[o].pc = pc /\ \A p \in Requests \ {o} : op'[p] = op[p]
  BY <1>1, <1>5 DEF Read, Op
<1> QED
  BY <1>2, <1>3, <1>4, <1>5

\* The steps of requests other than resets, which leave the accounts alone,
LEMMA QuietSteps ==
  ASSUME Inv, NEW o \in Requests,
         \/ SendOtp(o) \/ ResendOTP(o) \/ CheckPassword(o) \/ CheckVerified(o)
         \/ ToggleUser(o) \/ CreateToken(o) \/ CheckCode(o) \/ DeleteVerify(o) \/ VerifyToken(o)
         \/ ReadProd(o) \/ VerifyEmail(o) \/ InitiateForgot(o) \/ CopyUser(o)
         \/ \E e \in Envs : Toggle(o, e) \/ ReadRow(o, e)
         \/ \E e \in Envs, password \in Passwords : Login(o, e, password)
         \/ \E password \in Passwords : Register(o, password)
         \/ \E e \in Envs, old, new \in Passwords : ChangePassword(o, e, old, new)
  PROVE  Aside(o) /\ UNCHANGED acct
<1> USE EndOrTo DEF Aside, Resetting
<1>1. CASE SendOtp(o)
  BY <1>1 DEF SendOtp
<1>2. CASE ResendOTP(o)
  BY <1>2 DEF ResendOTP
<1>3. CASE CheckPassword(o)
  <2>1. op' = [op EXCEPT ![o] = [Idle EXCEPT !.pc = "loginVerified", !.env = op[o].env]]
        => op'[o].pc = "loginVerified" /\ \A p \in Requests \ {o} : op'[p] = op[p]
    BY DEF Inv, TypeOK, Idle
  <2> QED
    BY <1>3, <2>1 DEF CheckPassword
<1>4. CASE CheckVerified(o)
  BY <1>4 DEF CheckVerified
<1>5. CASE CreateToken(o)
  BY <1>5 DEF CreateToken
<1>6. CASE CheckCode(o)
  BY <1>6 DEF CheckCode
<1>7. CASE DeleteVerify(o)
  BY <1>7 DEF DeleteVerify
<1>8. CASE VerifyToken(o)
  BY <1>8 DEF VerifyToken
<1>9. CASE ReadProd(o)
  BY <1>9 DEF ReadProd
<1>10. CASE VerifyEmail(o)
  BY <1>10 DEF VerifyEmail
<1>11. CASE InitiateForgot(o)
  BY <1>11 DEF InitiateForgot
<1>12. CASE CopyUser(o)
  <2>1. AfterCopy(o) \in {"login", "toggle"}
    BY DEF AfterCopy
  <2>2. /\ op'[o].pc \in {"createCopy", "login", "toggle"}
        /\ \A p \in Requests \ {o} : op'[p] = op[p]
    BY <1>12, <2>1 DEF CopyUser, Inv, TypeOK, Op
  <2> QED
    BY <1>12, <2>2 DEF CopyUser
<1>13. ASSUME NEW e \in Envs, Toggle(o, e)
       PROVE  Aside(o) /\ UNCHANGED acct
  BY <1>13 DEF Toggle
<1>14. ASSUME NEW e \in Envs, NEW password \in Passwords, Login(o, e, password)
       PROVE  Aside(o) /\ UNCHANGED acct
  <2>1. op'[o].pc \in {"copyUser", "login"} /\ \A p \in Requests \ {o} : op'[p] = op[p]
    BY <1>14 DEF Login, Inv, TypeOK, Idle
  <2> QED
    BY <1>14, <2>1 DEF Login
<1>15. ASSUME NEW password \in Passwords, Register(o, password)
       PROVE  Aside(o) /\ UNCHANGED acct
  <2>1. op'[o].pc = "registerSandbox" /\ \A p \in Requests \ {o} : op'[p] = op[p]
    BY <1>15 DEF Register, Inv, TypeOK, Idle
  <2> QED
    BY <1>15, <2>1 DEF Register
<1>18. CASE ToggleUser(o)
  BY <1>18 DEF ToggleUser
<1>17. ASSUME NEW e \in Envs, ReadRow(o, e)
       PROVE  Aside(o) /\ UNCHANGED acct
  BY <1>17 DEF ReadRow
<1>16. ASSUME NEW e \in Envs, NEW old \in Passwords, NEW new \in Passwords,
              ChangePassword(o, e, old, new)
       PROVE  Aside(o) /\ UNCHANGED acct
  <2>1. op'[o].pc = "change" /\ \A p \in Requests \ {o} : op'[p] = op[p]
    BY <1>16 DEF ChangePassword, Inv, TypeOK, Idle
  <2> QED
    BY <1>16, <2>1 DEF ChangePassword
<1> QED
  BY <1>1, <1>2, <1>3, <1>4, <1>5, <1>6, <1>7, <1>8, <1>9, <1>10, <1>11, <1>12,
     <1>13, <1>14, <1>15, <1>16, <1>17, <1>18

\* and those that write one.
LEMMA WritingSteps ==
  ASSUME Inv, NEW o \in Requests,
         \/ CreateUser(o) \/ CreateCopy(o) \/ WriteVerified(o) \/ WriteChange(o)
         \/ SaveRow(o)
  PROVE  Aside(o)
<1> USE EndOrTo DEF Aside, Resetting, Note
<1>1. CASE CreateUser(o)
  <2>1. op' = [op EXCEPT ![o].pc = "registerProd", ![o].env = "prod"]
        => /\ op'[o].pc = "registerProd"
           /\ \A p \in Requests \ {o} : op'[p] = op[p]
    BY DEF Inv, TypeOK, Op
  <2> QED
    BY <1>1, <2>1 DEF CreateUser
<1>2. CASE CreateCopy(o)
  <2>1. op'[o].pc \in {"login", "toggle"} /\ \A p \in Requests \ {o} : op'[p] = op[p]
    BY <1>2 DEF CreateCopy, AfterCopy, Inv, TypeOK, Op
  <2> QED
    BY <1>2, <2>1 DEF CreateCopy
<1>3. CASE WriteVerified(o)
  BY <1>3 DEF WriteVerified
<1>4. CASE WriteChange(o)
  BY <1>4 DEF WriteChange
<1>5. CASE SaveRow(o)
  BY <1>5 DEF SaveRow
<1> QED
  BY <1>1, <1>2, <1>3, <1>4, <1>5

\* What others do to an account: it is gone, or one is added.
Others ==
  /\ op' = op /\ otp' = otp /\ mishaps \subseteq mishaps'
  /\ \E e \in Envs :
       \/ acct' = [acct EXCEPT ![e] = Missing]
       \/ \E user \in User :
            /\ user.exists /\ Add(e, user)
            /\ Late(e, user.password) => "stale" \in mishaps'

LEMMA OthersSteps ==
  ASSUME NEW env \in Envs,
         \/ Leave(env)
         \/ \E password \in Passwords :
              AdminCreates(env, password) \/ AggregatorCreates(env, password)
         \/ \E user \in User \ {Missing} : Arrive(env, user)
  PROVE  Others
<1>1. CASE Leave(env)
  BY <1>1 DEF Leave, Others
<1>2. ASSUME NEW password \in Passwords, AdminCreates(env, password)
      PROVE  Others
  <2>1. NewUser(password) \in User /\ NewUser(password).exists
        /\ NewUser(password).password = password
    BY NewUserType
  <2> QED
    BY <1>2, <2>1 DEF AdminCreates, Note, Others
<1>3. ASSUME NEW password \in Passwords, AggregatorCreates(env, password)
      PROVE  Others
  <2> DEFINE user == [NewUser(password) EXCEPT !.verified = TRUE]
  <2>1. user \in User /\ user.exists /\ user.password = password
    BY NewUserType
  <2>2. Add(env, user)
    BY <1>3 DEF AggregatorCreates
  <2> HIDE DEF user
  <2> QED
    BY <1>3, <2>1, <2>2 DEF AggregatorCreates, Others
<1>4. ASSUME NEW user \in User \ {Missing}, Arrive(env, user)
      PROVE  Others
  <2>1. user.exists
    BY DEF User
  <2> QED
    BY <1>4, <2>1 DEF Arrive, Others
<1> QED
  BY <1>1, <1>2, <1>3, <1>4

\* The cases of a step.
LEMMA StepKinds ==
  ASSUME Inv, Next
  PROVE  \/ \E o \in Requests :
              \/ Aside(o) /\ UNCHANGED acct
              \/ Aside(o) /\ \/ CreateUser(o) \/ CreateCopy(o)
                             \/ WriteVerified(o) \/ WriteChange(o) \/ SaveRow(o)
              \/ ReadReset(o) \/ WriteReset(o) \/ DeleteForgot(o) \/ Stop(o)
              \/ \E password \in Passwords : CompleteForgot(o, password)
         \/ \E e \in Envs : Logout(e)
         \/ \E c \in Codes : Expire(c)
         \/ Others
<1>1. ASSUME NEW o \in Requests, Request(o)
      PROVE  \/ Aside(o) /\ UNCHANGED acct
             \/ Aside(o) /\ \/ CreateUser(o) \/ CreateCopy(o)
                            \/ WriteVerified(o) \/ WriteChange(o) \/ SaveRow(o)
             \/ ReadReset(o) \/ WriteReset(o) \/ DeleteForgot(o)
  BY <1>1, QuietSteps, WritingSteps DEF Request
<1>2. ASSUME NEW o \in Requests,
             \/ ResendOTP(o) \/ VerifyEmail(o) \/ InitiateForgot(o)
             \/ \E e \in Envs : Toggle(o, e) \/ ReadRow(o, e)
      PROVE  Aside(o) /\ UNCHANGED acct
  BY <1>2, QuietSteps
<1>3. ASSUME NEW o \in Requests, NEW password \in Passwords,
             \/ Register(o, password)
             \/ \E e \in Envs : Login(o, e, password)
             \/ \E e \in Envs, new \in Passwords : ChangePassword(o, e, password, new)
      PROVE  Aside(o) /\ UNCHANGED acct
  BY <1>3, QuietSteps
<1> QED
  BY <1>1, <1>2, <1>3, OthersSteps DEF Next

\* A reset that goes on, or is over.
LEMMA ResetSteps ==
  ASSUME Inv, NEW o \in Requests, ReadReset(o) \/ WriteReset(o)
  PROVE  /\ Resetting(o) /\ otp' = otp /\ mishaps' = mishaps
         /\ \A p \in Requests \ {o} : op'[p] = op[p]
<1>1. op[o].env \in Envs /\ op[o].updated \in BOOLEAN /\ op[o].password \in Passwords
  BY OpParts DEF ReadReset, WriteReset, Inv, Knows
<1> QED
  BY <1>1, EndOrTo, OnwardKnows DEF ReadReset, WriteReset, Resetting

LEMMA ResetInvStep ==
  ASSUME Inv, ResetInv, [Next]_vars
  PROVE  ResetInv'
<1> USE DEF ResetInv, ResetIsRepeatable
<1>1. CASE UNCHANGED vars
  BY <1>1 DEF vars, Resetting
<1>2. ASSUME NEW o \in Requests, Aside(o)
      PROVE  ResetInv'
  BY <1>2 DEF Aside, Resetting
<1>3. ASSUME NEW o \in Requests, ReadReset(o) \/ WriteReset(o)
      PROVE  ResetInv'
  BY <1>3, ResetSteps DEF Resetting
<1>4. ASSUME NEW o \in Requests, DeleteForgot(o)
      PROVE  ResetInv'
  <2>1. ~Resetting(o)' /\ \A p \in Requests \ {o} : op'[p] = op[p]
    BY <1>4, EndOrTo DEF DeleteForgot, Resetting
  <2> QED
    BY <1>4, <2>1 DEF DeleteForgot, Resetting
<1>5. ASSUME NEW o \in Requests, Stop(o)
      PROVE  ResetInv'
  <2>1. ~Resetting(o)' /\ \A p \in Requests \ {o} : op'[p] = op[p]
    BY <1>5, EndOrTo DEF Stop, Resetting
  <2> QED
    BY <1>5, <2>1 DEF Stop, Note, Resetting
<1>6. ASSUME NEW o \in Requests, NEW password \in Passwords, CompleteForgot(o, password)
      PROVE  ResetInv'
  <2>1. \A p \in Requests \ {o} : op'[p] = op[p]
    BY <1>6 DEF CompleteForgot, Inv, TypeOK
  <2>2. "forgot" \in otp'
    BY <1>6 DEF CompleteForgot, CodesAfterCheck
  <2>3. \A p \in Requests \ {o} : Resetting(p)' => Resetting(p) /\ "resets" \in mishaps'
    BY <1>6, <2>1 DEF CompleteForgot, Resetting
  <2> QED
    BY <2>2, <2>3
<1>7. ASSUME NEW e \in Envs, Logout(e)
      PROVE  ResetInv'
  BY <1>7 DEF Logout, Resetting
<1>8. ASSUME NEW c \in Codes, Expire(c)
      PROVE  ResetInv'
  BY <1>8 DEF Expire, Note, Resetting
<1>9. CASE Others
  BY <1>9 DEF Others, Resetting
<1> QED
  BY <1>1, <1>2, <1>3, <1>4, <1>5, <1>6, <1>7, <1>8, <1>9, StepKinds

\* A reset that fails on the way can be done again with the same code
\* (service.go:420).
THEOREM ResetsAreRepeatable == Spec => []ResetIsRepeatable
<1>1. Init => Inv /\ ResetInv
  BY InitInv DEF Init, ResetInv, ResetIsRepeatable, Resetting, Idle
<1>2. Inv /\ ResetInv /\ [Next]_vars => (Inv /\ ResetInv)'
  BY NextInv, ResetInvStep
<1>3. ResetInv => ResetIsRepeatable
  BY DEF ResetInv
<1> QED
  BY <1>1, <1>2, <1>3, PTL DEF Spec

-----------------------------------------------------------------------------
(* Passwords *)

Calm == mishaps \cap {"stale", "changed", "stopped", "resets"} = {}

Agreed ==
  acct["prod"].exists /\ acct["sandbox"].exists
    => acct["prod"].password = acct["sandbox"].password

\* What a reset has achieved so far: before the sandbox it has written the
\* account of production, if there is one, and at its end both.
Achieved(o) ==
  /\ op[o].pc \in {"reset", "writeReset"} =>
       IF op[o].env = "prod" THEN ~op[o].updated
       ELSE IF op[o].updated
            THEN acct["prod"].exists => acct["prod"].password = op[o].password
       ELSE ~acct["prod"].exists
  /\ op[o].pc = "deleteForgot" => Agreed

\* Without the mishaps that PasswordsAgree names, the passwords differ only
\* while a reset is under way, and then as far as the reset has come.
AgreeInv ==
  Calm => /\ \A o \in Requests : Resetting(o) => Achieved(o)
          /\ (\A o \in Requests : ~Resetting(o)) => Agreed

\* A step that changes neither resets nor the passwords of the accounts that
\* remain.
LEMMA AgreementStays ==
  ASSUME AgreeInv, mishaps \subseteq mishaps',
         \A e \in Envs : acct'[e].exists => /\ acct[e].exists
                                            /\ acct'[e].password = acct[e].password,
         \A p \in Requests : Resetting(p) \/ Resetting(p)' => op'[p] = op[p]
  PROVE  AgreeInv'
<1>1. Calm' => Calm
  BY DEF Calm
<1>2. /\ acct'["prod"].exists => /\ acct["prod"].exists
                                 /\ acct'["prod"].password = acct["prod"].password
      /\ acct'["sandbox"].exists => /\ acct["sandbox"].exists
                                    /\ acct'["sandbox"].password = acct["sandbox"].password
  BY DEF Envs
<1>3. ASSUME NEW p \in Requests, Calm', Resetting(p)'
      PROVE  Achieved(p)'
  BY <1>1, <1>2, <1>3 DEF AgreeInv, Achieved, Agreed, Resetting
<1>4. ASSUME Calm', \A p \in Requests : ~Resetting(p)'
      PROVE  Agreed'
  <2>1. \A p \in Requests : ~Resetting(p)
    BY <1>4 DEF Resetting
  <2> QED
    BY <1>1, <1>2, <1>4, <2>1 DEF AgreeInv, Agreed
<1> QED
  BY <1>3, <1>4 DEF AgreeInv

\* A step of a request that is no part of a reset leaves the resets as they are.
LEMMA AsideResets ==
  ASSUME NEW o \in Requests, Aside(o)
  PROVE  \A p \in Requests : Resetting(p) \/ Resetting(p)' => op'[p] = op[p]
BY DEF Aside, Resetting

\* An account added without a mishap has the password of the other one.
LEMMA AdditionAgrees ==
  ASSUME TypeOK, AgreeInv, mishaps \subseteq mishaps',
         NEW env \in Envs, acct' \in [Envs -> User],
         ~acct[env].exists, \A e \in Envs \ {env} : acct'[e] = acct[e],
         Late(env, acct'[env].password) => "stale" \in mishaps',
         \A p \in Requests : Resetting(p) \/ Resetting(p)' => op'[p] = op[p]
  PROVE  AgreeInv'
<1>1. SUFFICES ASSUME Calm' PROVE AgreeInv'
  BY DEF AgreeInv
<1>2. ~Late(env, acct'[env].password)
  BY <1>1 DEF Calm
<1>3. \A p \in Requests : ~Resetting(p)
  BY <1>2 DEF Late
<1>4. \A p \in Requests : ~Resetting(p)'
  BY <1>3 DEF Resetting
<1>5. \A e \in Envs \ {env} : acct'[e].exists => acct'[e].password = acct'[env].password
  BY <1>2 DEF Late
<1>6. Agreed'
  BY <1>5 DEF Agreed, Envs
<1> QED
  BY <1>4, <1>6 DEF AgreeInv

LEMMA OthersAgree ==
  ASSUME Inv, Inv', AgreeInv, Others
  PROVE  AgreeInv'
<1>1. \A p \in Requests : Resetting(p) \/ Resetting(p)' => op'[p] = op[p]
  BY DEF Others
<1>2. ASSUME NEW e \in Envs, acct' = [acct EXCEPT ![e] = Missing]
      PROVE  AgreeInv'
  <2>1. \A f \in Envs : acct'[f].exists => acct'[f] = acct[f]
    BY <1>2 DEF Inv, TypeOK, Missing
  <2> QED
    BY <1>1, <2>1, AgreementStays DEF Others
<1>3. ASSUME NEW e \in Envs, NEW user \in User, user.exists, Add(e, user),
             Late(e, user.password) => "stale" \in mishaps'
      PROVE  AgreeInv'
  <2>1. /\ acct'[e] = user /\ ~acct[e].exists
        /\ \A f \in Envs \ {e} : acct'[f] = acct[f]
    BY <1>3 DEF Add, Inv, TypeOK
  <2> QED
    BY <1>1, <1>3, <2>1, AdditionAgrees DEF Others, Inv, TypeOK
<1> QED
  BY <1>2, <1>3 DEF Others

LEMMA CreationAgrees ==
  ASSUME Inv, Inv', AgreeInv, NEW o \in Requests, Aside(o), CreateUser(o) \/ CreateCopy(o)
  PROVE  AgreeInv'
<1> DEFINE env == IF CreateUser(o) THEN op[o].env ELSE "prod"
           new == IF CreateUser(o) THEN NewUser(op[o].password) ELSE op[o].copy
<1>1. CASE UNCHANGED acct
  BY <1>1, AsideResets, AgreementStays DEF Aside
<1>2. CASE ~UNCHANGED acct
  <2>1. env \in Envs /\ acct \in [Envs -> User]
    BY OpParts DEF Inv, TypeOK, Envs
  <2>2. ~acct[env].exists /\ acct' = [acct EXCEPT ![env] = new]
    BY <1>2 DEF CreateUser, CreateCopy, Add
  <2>3. mishaps' = IF Late(env, new.password) THEN mishaps \cup {"stale"} ELSE mishaps
    BY <1>2, <2>2 DEF CreateUser, CreateCopy, Note, NewUser
  <2> HIDE DEF new, env
  <2>4. acct'[env] = new /\ \A e \in Envs \ {env} : acct'[e] = acct[e]
    BY <2>1, <2>2
  <2> QED
    BY <2>1, <2>2, <2>3, <2>4, AsideResets, AdditionAgrees DEF Aside, Inv, TypeOK
<1> QED
  BY <1>1, <1>2

\* An account written from a copy, which was not out of date if that is no mishap,
\* has the password that was there, or that of the other account.
LEMMA CopyAgrees ==
  ASSUME Inv, Inv', AgreeInv, NEW o \in Requests, Aside(o),
         acct'[op[o].env].password = op[o].copy.password,
         \A e \in Envs \ {op[o].env} : acct'[e] = acct[e],
         Outdated(o) => "stale" \in mishaps'
  PROVE  AgreeInv'
<1>1. op[o].env \in Envs
  BY OpParts DEF Inv
<1>2. CASE Outdated(o)
  BY <1>2 DEF AgreeInv, Calm
<1>3. CASE ~Outdated(o) /\ acct[op[o].env].exists
  <2>1. \A e \in Envs : acct'[e].exists => /\ acct[e].exists
                                           /\ acct'[e].password = acct[e].password
    BY <1>3 DEF Outdated
  <2> QED
    BY <2>1, AsideResets, AgreementStays DEF Aside
<1>4. CASE ~Outdated(o) /\ ~acct[op[o].env].exists
  <2>1. ~Late(op[o].env, acct'[op[o].env].password)
    BY <1>4 DEF Outdated
  <2> QED
    BY <1>1, <1>4, <2>1, AsideResets, AdditionAgrees DEF Aside, Inv, TypeOK
<1> QED
  BY <1>2, <1>3, <1>4

LEMMA VerificationAgrees ==
  ASSUME Inv, Inv', Kept, AgreeInv, NEW o \in Requests, Aside(o), WriteVerified(o)
  PROVE  AgreeInv'
<1> DEFINE c == Verified(op[o].copy)
<1>1. op[o].pc \in Copying /\ op[o].pc \in {"verify", "verifyProd"}
  BY DEF WriteVerified, Copying
<1>2. c \in User /\ c.exists /\ c.password = op[o].copy.password
  BY <1>1, VerifiedCopy
<1>3. op[o].env = "prod" => Lost \/ acct["sandbox"].verified
  BY <1>1 DEF Inv, Knows
<1> HIDE DEF c
<1>4. Write(o, c)
  BY DEF WriteVerified, c
<1>5. /\ acct'[op[o].env].password = c.password
      /\ \A e \in Envs \ {op[o].env} : acct'[e] = acct[e]
  BY <1>1, <1>2, <1>3, <1>4, WriteIsGood
<1>6. Outdated(o) => "stale" \in mishaps'
  BY DEF WriteVerified, Note
<1> QED
  BY <1>2, <1>5, <1>6, CopyAgrees

LEMMA SaveRowAgrees ==
  ASSUME Inv, Inv', AgreeInv, NEW o \in Requests, Aside(o), SaveRow(o)
  PROVE  AgreeInv'
<1>1. Outdated(o) => "stale" \in mishaps'
  BY DEF SaveRow
<1> QED
  BY <1>1, SaveRowEffect, CopyAgrees

\* The only reset under way.
LEMMA OnlyReset ==
  ASSUME ResetInv, NEW o \in Requests, Resetting(o), Calm
  PROVE  \A p \in Requests \ {o} : ~Resetting(p)
BY DEF ResetInv, Calm

LEMMA ReadResetAgrees ==
  ASSUME Inv, ResetInv, AgreeInv, NEW o \in Requests, ReadReset(o)
  PROVE  AgreeInv'
<1>1. /\ Resetting(o) /\ mishaps' = mishaps /\ UNCHANGED acct
      /\ \A p \in Requests \ {o} : op'[p] = op[p]
  BY ResetSteps DEF ReadReset
<1>2. op[o].env \in Envs /\ op[o].updated \in BOOLEAN /\ op[o].password \in Passwords
  BY OpParts DEF ReadReset, Inv, Knows
<1>3. SUFFICES ASSUME Calm
               PROVE  AgreeInv'
  BY <1>1 DEF AgreeInv, Calm
<1>4. Achieved(o)
  BY <1>1, <1>3 DEF AgreeInv
<1>5. \A p \in Requests \ {o} : ~Resetting(p)'
  BY <1>1, <1>3, OnlyReset DEF Resetting
<1>6. CASE Read(o, op[o].env, "writeReset")
  <2>1. /\ op'[o].pc = "writeReset" /\ op'[o].env = op[o].env
        /\ op'[o].updated = op[o].updated /\ op'[o].password = op[o].password
    BY <1>6 DEF Read, Inv, TypeOK, Op
  <2>2. Achieved(o)'
    BY <1>1, <1>4, <2>1 DEF ReadReset, Achieved
  <2> QED
    BY <1>5, <2>1, <2>2 DEF AgreeInv, Resetting
<1>7. CASE ~acct[op[o].env].exists /\ Onward(o, op[o].updated)
  <2>1. PICK x \in Op :
           /\ op' = [op EXCEPT ![o] = x]
           /\ op'[o] = x
           /\ op[o].env = "prod" =>
                /\ x.pc = "reset" /\ x.env = "sandbox"
                /\ x.password = op[o].password /\ x.updated = op[o].updated
           /\ op[o].env # "prod" => x.pc = IF op[o].updated THEN "deleteForgot" ELSE "idle"
    BY <1>2, <1>7, OnwardType
  <2>2. CASE op[o].env = "prod"
    <3>1. Achieved(o)' /\ Resetting(o)'
      BY <1>1, <1>4, <1>7, <2>1, <2>2 DEF ReadReset, Achieved, Resetting
    <3> QED
      BY <1>5, <3>1 DEF AgreeInv
  <2>3. CASE op[o].env = "sandbox"
    <3>1. Agreed'
      BY <1>1, <1>7, <2>3 DEF Agreed
    <3>2. Achieved(o)'
      BY <2>1, <2>3, <3>1 DEF Achieved
    <3> QED
      BY <1>5, <3>1, <3>2 DEF AgreeInv
  <2> QED
    BY <1>2, <2>2, <2>3 DEF Envs
<1> QED
  BY <1>6, <1>7 DEF ReadReset

LEMMA WriteResetAgrees ==
  ASSUME Inv, Kept, ResetInv, AgreeInv, NEW o \in Requests, WriteReset(o)
  PROVE  AgreeInv'
<1> DEFINE c == [op[o].copy EXCEPT !.password = op[o].password]
<1>1. /\ Resetting(o) /\ mishaps' = mishaps
      /\ \A p \in Requests \ {o} : op'[p] = op[p]
  BY ResetSteps
<1>2. op[o].env \in Envs /\ op[o].pc \in Copying /\ op[o].password \in Passwords
  BY OpParts DEF WriteReset, Copying, Inv, Knows
<1>3. /\ c \in User /\ c.exists /\ c.password = op[o].password
      /\ c.verified /\ op[o].env = "prod" => Lost \/ acct["sandbox"].verified
  BY <1>2, NewPassword
<1> HIDE DEF c
<1>4. Write(o, c)
  BY DEF WriteReset, c
<1>5. /\ acct'[op[o].env].password = op[o].password
      /\ \A e \in Envs \ {op[o].env} : acct'[e] = acct[e]
  BY <1>2, <1>3, <1>4, WriteIsGood
<1>6. SUFFICES ASSUME Calm
               PROVE  AgreeInv'
  BY <1>1 DEF AgreeInv, Calm
<1>7. Achieved(o)
  BY <1>1, <1>6 DEF AgreeInv
<1>8. \A p \in Requests \ {o} : ~Resetting(p)'
  BY <1>1, <1>6, OnlyReset DEF Resetting
<1>9. PICK x \in Op :
         /\ op' = [op EXCEPT ![o] = x]
         /\ op'[o] = x
         /\ op[o].env = "prod" =>
              /\ x.pc = "reset" /\ x.env = "sandbox"
              /\ x.password = op[o].password /\ x.updated = TRUE
         /\ op[o].env # "prod" => x.pc = IF TRUE THEN "deleteForgot" ELSE "idle"
  BY OnwardType DEF WriteReset
<1>10. Resetting(o)'
  BY <1>2, <1>9 DEF Resetting
<1>11. CASE op[o].env = "prod"
  <2>1. Achieved(o)'
    BY <1>5, <1>7, <1>9, <1>11 DEF Achieved, Envs
  <2> QED
    BY <1>8, <1>10, <2>1 DEF AgreeInv
<1>12. CASE op[o].env = "sandbox"
  <2>1. acct'["prod"] = acct["prod"] /\ acct'["sandbox"].password = op[o].password
    BY <1>5, <1>12 DEF Envs
  <2>2. Agreed'
    BY <1>7, <1>12, <2>1 DEF WriteReset, Achieved, Agreed
  <2>3. Achieved(o)'
    BY <1>9, <1>12, <2>2 DEF Achieved
  <2> QED
    BY <1>8, <1>10, <2>3 DEF AgreeInv
<1> QED
  BY <1>2, <1>11, <1>12 DEF Envs

\* A request that ends, a reset at its last step or unable to go on among them.
LEMMA EndAgrees ==
  ASSUME Inv, ResetInv, AgreeInv, NEW o \in Requests, DeleteForgot(o) \/ Stop(o)
  PROVE  AgreeInv'
<1>1. /\ ~Resetting(o)' /\ UNCHANGED acct
      /\ \A p \in Requests \ {o} : op'[p] = op[p]
  BY EndOrTo DEF DeleteForgot, Stop, Resetting
<1>2. mishaps \subseteq mishaps'
  BY DEF DeleteForgot, Stop, Note
<1>3. CASE ~Resetting(o)
  BY <1>1, <1>2, <1>3, AgreementStays DEF Resetting
<1>4. CASE Resetting(o)
  <2>1. SUFFICES ASSUME Calm'
                 PROVE  AgreeInv'
    BY DEF AgreeInv
  <2>2. Calm
    BY <1>2, <2>1 DEF Calm
  <2>3. op[o].pc = "deleteForgot"
    BY <1>4, <2>1 DEF DeleteForgot, Stop, Note, Resetting, Calm
  <2>4. Agreed'
    BY <1>1, <1>4, <2>2, <2>3 DEF AgreeInv, Achieved, Agreed
  <2>5. \A p \in Requests : ~Resetting(p)'
    BY <1>1, <1>4, <2>2, OnlyReset DEF Resetting
  <2> QED
    BY <2>4, <2>5 DEF AgreeInv
<1> QED
  BY <1>3, <1>4

\* A reset begins with nothing achieved, and alone unless that is a mishap.
LEMMA BeginningAgrees ==
  ASSUME Inv, NEW o \in Requests, NEW password \in Passwords, CompleteForgot(o, password)
  PROVE  AgreeInv'
<1>1. /\ op'[o].pc = "reset" /\ op'[o].env = "prod" /\ op'[o].updated = FALSE
      /\ \A p \in Requests \ {o} : op'[p] = op[p]
  BY DEF CompleteForgot, Inv, TypeOK, Idle
<1>2. SUFFICES ASSUME Calm'
               PROVE  AgreeInv'
  BY DEF AgreeInv
<1>3. \A p \in Requests : ~Resetting(p)
  BY <1>2 DEF CompleteForgot, Calm
<1>4. \A p \in Requests \ {o} : ~Resetting(p)'
  BY <1>1, <1>3 DEF Resetting
<1>5. Achieved(o)' /\ Resetting(o)'
  BY <1>1 DEF Achieved, Resetting
<1> QED
  BY <1>4, <1>5 DEF AgreeInv

LEMMA AgreeInvStep ==
  ASSUME Inv, ResetInv, AgreeInv, [Next]_vars
  PROVE  AgreeInv'
<1> Kept /\ Inv'
  BY LossIsKept, NextInv
<1>1. CASE UNCHANGED vars
  BY <1>1, AgreementStays DEF vars, Resetting
<1>2. ASSUME NEW o \in Requests, Aside(o), UNCHANGED acct
      PROVE  AgreeInv'
  BY <1>2, AsideResets, AgreementStays DEF Aside
<1>3. ASSUME NEW o \in Requests, WriteChange(o)
      PROVE  AgreeInv'
  BY <1>3 DEF WriteChange, AgreeInv, Calm
<1>4. ASSUME NEW e \in Envs, Logout(e)
      PROVE  AgreeInv'
  BY <1>4, AgreementStays DEF Logout, Resetting
<1>5. ASSUME NEW c \in Codes, Expire(c)
      PROVE  AgreeInv'
  BY <1>5, AgreementStays DEF Expire, Note, Resetting
<1> QED
  BY <1>1, <1>2, <1>3, <1>4, <1>5, StepKinds, OthersAgree, CreationAgrees,
     VerificationAgrees, SaveRowAgrees, ReadResetAgrees, WriteResetAgrees, EndAgrees, BeginningAgrees

\* The two accounts of an address have one password while no reset is under way,
\* unless one of the mishaps that the property names has happened since the last
\* reset that began alone (service.go:391-414, 354-357).
THEOREM AccountsAgree == Spec => []PasswordsAgree
<1>1. Init => Inv /\ ResetInv /\ AgreeInv
  BY InitInv DEF Init, ResetInv, ResetIsRepeatable, Resetting, Idle, AgreeInv, Agreed,
     Envs, Missing
<1>2. Inv /\ ResetInv /\ AgreeInv /\ [Next]_vars => (Inv /\ ResetInv /\ AgreeInv)'
  BY NextInv, ResetInvStep, AgreeInvStep
<1>3. AgreeInv => PasswordsAgree
  BY DEF AgreeInv, PasswordsAgree, Agreed, Calm, Envs
<1> QED
  BY <1>1, <1>2, <1>3, PTL DEF Spec
=============================================================================
