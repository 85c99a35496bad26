---------------------------- MODULE ZohoWebhook ----------------------------
(***************************************************************************)
(* One invoice that Zoho reports, perhaps several times, and the OAuth     *)
(* token of its organisation (src/internal/app/webhooks, callback, token   *)
(* and invoice).                                                           *)
(*                                                                         *)
(* A delivery creates a record, has the IRN validated, starts a goroutine  *)
(* for the other FIRS calls, and tells Zoho the IRN, for which it needs an *)
(* access token.  Deliveries and authorisations that find the stored token *)
(* missing or about to expire each get one from Zoho and save it.          *)
(***************************************************************************)
EXTENDS InvoiceStatus, FiniteSets

CONSTANTS
  Deliveries,     \* calls of the webhook
  Authorisations, \* calls of /zoho/auth/access-token with a code
  IRNs,           \* IRNs the invoice gets on the days it is delivered
  NoIRN,          \* the IRN of a record that has none yet
  Lifetime,       \* expires_in of an access token
  Margin,         \* how long before that it is renewed (5 minutes)
  MaxNow,         \* bound on the clock
  MaxTokens       \* bound on the tokens Zoho issues

ASSUME IRNAssumption == NoIRN \notin IRNs
ASSUME CallersAssumption == Deliveries \cap Authorisations = {}
ASSUME TimesAssumption ==
  Lifetime \in Nat /\ Margin \in Nat /\ MaxNow \in Nat /\ MaxTokens \in Nat

Callers == Deliveries \cup Authorisations
Steps == {SignedIRN} \cup Stages
TokenIds == 1..MaxTokens

VARIABLES
  row,        \* the record each delivery created
  copy,       \* the record as the delivery holds it
  work,       \* the goroutine each delivery started (otherFirsProcesses)
  valid,      \* IRNs that FIRS has validated
  done,       \* done[s]: IRNs for which FIRS performed stage s
  call,       \* the callers, on their way to a token
  token,      \* the stored token; access is 0 as long as there is no row
  expiry,     \* when the tokens issued really expire
  issued,     \* the number of tokens issued
  newest,     \* the newest refresh token that an answer of Zoho brought
  now,
  mishaps     \* history: what happened besides one caller after another

webhookVars == <<row, copy, work, valid, done>>
tokenVars == <<token, expiry, issued, newest>>
vars == <<webhookVars, call, tokenVars, now, mishaps>>

Record == [exists: BOOLEAN, irn: IRNs \cup {NoIRN},
           hist: [Steps -> {"pending", "success", "failed"}]]
NoRecord == [exists |-> FALSE, irn |-> NoIRN, hist |-> [s \in Steps |-> "pending"]]

Work == [pc: {"none", "convert", "call", "record", "correct", "done", "dead"},
         stage: Stages, answer: {"ok", "other", "error"}]

\* An access token and the refresh token issued with it have one number; 0 is
\* no token.
Call == [pc: {"new", "irn", "signIRN", "find", "exchange", "refresh", "save",
              "notify", "told", "answered", "failed"},
         irn: IRNs \cup {NoIRN},
         old: 0..MaxTokens, got: 0..MaxTokens, rotated: BOOLEAN,
         asked: {"none", "exchange", "refresh"}, since: 0..MaxNow]

\* A save that failed; two callers that renewed the token at once; a token saved
\* later than the margin after it was issued; a caller or goroutine that stopped;
\* an invoice that could not be converted for FIRS.
Mishaps == {"unsaved", "crossed", "slow", "stopped", "unconverted"}

TypeOK ==
  /\ row \in [Deliveries -> Record] /\ copy \in [Deliveries -> Record]
  /\ work \in [Deliveries -> Work]
  /\ valid \subseteq IRNs
  /\ done \in [Stages -> SUBSET IRNs]
  /\ call \in [Callers -> Call]
  /\ token \in [access: 0..MaxTokens, refresh: 0..MaxTokens, expires: Nat]
  /\ expiry \in [TokenIds -> Nat]
  /\ issued \in 0..MaxTokens /\ newest \in 0..MaxTokens
  /\ now \in 0..MaxNow
  /\ mishaps \subseteq Mishaps

Init ==
  /\ row = [d \in Deliveries |-> NoRecord]
  /\ copy = [d \in Deliveries |-> NoRecord]
  /\ work = [d \in Deliveries |-> [pc |-> "none", stage |-> Validated, answer |-> "ok"]]
  /\ valid = {}
  /\ done = [s \in Stages |-> {}]
  /\ call = [q \in Callers |-> [pc |-> IF q \in Deliveries THEN "new" ELSE "find",
                                irn |-> NoIRN, old |-> 0, got |-> 0,
                                rotated |-> FALSE, asked |-> "none", since |-> 0]]
  /\ token = [access |-> 0, refresh |-> 0, expires |-> 0]
  /\ expiry = [n \in TokenIds |-> 0]
  /\ issued = 0
  /\ newest = 0
  /\ now = 0
  /\ mishaps = {}

To(q, pc) == call' = [call EXCEPT ![q].pc = pc]
Note(kind, test) == mishaps' = IF test THEN mishaps \cup {kind} ELSE mishaps

\* UpdateInvoiceStatus and UpdateInvoiceIRN change the copy and save all of it;
\* their errors are dropped.
Save(d, record) ==
  /\ copy' = [copy EXCEPT ![d] = record]
  /\ \/ row' = [row EXCEPT ![d] = record] /\ UNCHANGED mishaps
     \/ mishaps' = mishaps \cup {"unsaved"} /\ UNCHANGED row

With(record, step, status) == [record EXCEPT !.hist[step] = status]

-----------------------------------------------------------------------------
(* HandleZohoWebhookService, processZohoWebhook, FirsZohoAllInOneProcess *)

\* CreateInvoice: no delivery looks for the record of an earlier one.
CreateInvoice(d) ==
  /\ call[d].pc = "new"
  /\ \/ /\ row' = [row EXCEPT ![d].exists = TRUE]
        /\ copy' = [copy EXCEPT ![d].exists = TRUE]
        /\ To(d, "irn")
     \/ To(d, "failed") /\ UNCHANGED <<row, copy>>
  /\ UNCHANGED <<work, valid, done, tokenVars, now, mishaps>>

\* GenerateIRN and ValidateIRN.  The steps generated_irn, validated_irn and
\* signed_irn of the record are one here: the first failure ends the delivery.
ValidateIRN(d) ==
  /\ call[d].pc = "irn"
  /\ \E irn \in IRNs, performed, ok \in BOOLEAN :
       /\ ok => performed
       /\ valid' = IF performed THEN valid \cup {irn} ELSE valid
       /\ IF ok
          THEN /\ call' = [call EXCEPT ![d].pc = "signIRN", ![d].irn = irn]
               /\ UNCHANGED <<row, copy, mishaps>>
          ELSE /\ To(d, "failed")
               /\ Save(d, With(copy[d], SignedIRN, "failed"))
  /\ UNCHANGED <<work, done, tokenVars, now>>

\* Mutant: the IRN is not stored.
Signed_NoIRN(d) == With(copy[d], SignedIRN, "success")

SignedCopy(d) == [With(copy[d], SignedIRN, "success") EXCEPT !.irn = call[d].irn]

\* SignIRN encrypts the IRN here; then the goroutine starts.  Its status and the
\* IRN are saved one after the other, here at once.
SignIRN(d) ==
  /\ call[d].pc = "signIRN"
  /\ \/ /\ Save(d, SignedCopy(d))
        /\ work' = [work EXCEPT ![d].pc = "convert"]
        /\ To(d, "find")
     \/ /\ Save(d, With(copy[d], SignedIRN, "failed"))
        /\ To(d, "failed")
        /\ UNCHANGED work
  /\ UNCHANGED <<valid, done, tokenVars, now>>

\* UpdateZohoInvoice; whether Zoho did not get it or the answer was lost, the
\* delivery is answered with an error.
UpdateZohoInvoice(d) ==
  /\ call[d].pc = "notify"
  /\ \/ To(d, "told") \/ To(d, "failed")
  /\ UNCHANGED <<webhookVars, tokenVars, now, mishaps>>

-----------------------------------------------------------------------------
(* otherFirsProcesses *)

\* An invoice that cannot be converted leaves no trace in the record.
ConvertZohoToFIRS(d) ==
  /\ work[d].pc = "convert"
  /\ \/ work' = [work EXCEPT ![d].pc = "call"] /\ UNCHANGED mishaps
     \/ work' = [work EXCEPT ![d].pc = "done"] /\ mishaps' = mishaps \cup {"unconverted"}
  /\ UNCHANGED <<row, copy, valid, done, call, tokenVars, now>>

\* FIRS performs the stage, or not; an error may be all that is heard of it.  A
\* confirmation may be answered with another code than 200 in the 200s.
CallFirs(d) ==
  /\ work[d].pc = "call"
  /\ \E performed \in BOOLEAN, answer \in {"ok", "other", "error"} :
       /\ answer = "ok" => performed
       /\ answer = "other" => ~performed /\ work[d].stage = Confirmed
       /\ done' = [done EXCEPT ![work[d].stage] =
                     IF performed THEN @ \cup {call[d].irn} ELSE @]
       /\ work' = [work EXCEPT ![d].pc = "record", ![d].answer = answer]
  /\ UNCHANGED <<row, copy, valid, call, tokenVars, now, mishaps>>

GoesOn(d) == work[d].answer # "error" /\ work[d].stage # Confirmed

\* Mutant: the code of the last answer is not looked at.
Corrects_Never(d) == FALSE

\* The code of a confirmation is looked at after its success was saved.
Corrects(d) == work[d].answer = "other"

\* Mutant: every answer is recorded as a success.
Recorded_Success(d) == "success"

Recorded(d) == IF work[d].answer = "error" THEN "failed" ELSE "success"

RecordAnswer(d) ==
  /\ work[d].pc = "record"
  /\ Save(d, With(copy[d], work[d].stage, Recorded(d)))
  /\ work' = [work EXCEPT ![d].pc = IF GoesOn(d) THEN "call"
                                    ELSE IF Corrects(d) THEN "correct" ELSE "done",
                          ![d].stage = IF GoesOn(d) THEN @ + 1 ELSE @]
  /\ UNCHANGED <<valid, done, call, tokenVars, now>>

CorrectAnswer(d) ==
  /\ work[d].pc = "correct"
  /\ Save(d, With(copy[d], Confirmed, "failed"))
  /\ work' = [work EXCEPT ![d].pc = "done"]
  /\ UNCHANGED <<valid, done, call, tokenVars, now>>

-----------------------------------------------------------------------------
(* GetValidAccessToken *)

\* Mutant: a token is used until it expires.
Fresh_ToTheEnd == now <= token.expires

Fresh == now + Margin <= token.expires

Got(q) == To(q, IF q \in Deliveries THEN "notify" ELSE "answered")

Renewing(q) == call[q].pc \in {"exchange", "refresh", "save"}
Alone(q) == \A p \in Callers \ {q} : ~Renewing(p)

\* A code is exchanged only as long as there is no token, fresh or not.
FindToken(q) ==
  /\ call[q].pc = "find"
  /\ \/ token.access # 0 /\ Fresh /\ Got(q) /\ UNCHANGED mishaps
     \/ /\ token.access # 0 /\ ~Fresh
        /\ call' = [call EXCEPT ![q].pc = "refresh", ![q].old = token.refresh]
        /\ Note("crossed", ~Alone(q))
     \/ /\ token.access = 0 /\ q \in Authorisations
        /\ To(q, "exchange")
        /\ Note("crossed", ~Alone(q))
     \/ token.access = 0 /\ q \in Deliveries /\ To(q, "failed") /\ UNCHANGED mishaps
  /\ UNCHANGED <<webhookVars, tokenVars, now>>

\* ExchangeCodeForTokens and RefreshAccessToken: Zoho issues an access token and,
\* if it likes, a refresh token, or refuses, as it does a refresh without a
\* refresh token.  The answer may be lost, and the tokens with it.
AskZoho(q) ==
  /\ call[q].pc \in {"exchange", "refresh"}
  /\ \/ /\ issued < MaxTokens
        /\ call[q].pc = "refresh" => call[q].old # 0
        /\ issued' = issued + 1
        /\ expiry' = [expiry EXCEPT ![issued'] = now + Lifetime]
        /\ \/ \E rotated \in BOOLEAN :
                /\ newest' = IF rotated THEN issued' ELSE newest
                /\ call' = [call EXCEPT ![q] = [@ EXCEPT
                              !.pc = "save", !.asked = call[q].pc, !.got = issued',
                              !.rotated = rotated, !.since = now]]
           \/ To(q, "failed") /\ UNCHANGED newest
     \/ To(q, "failed") /\ UNCHANGED <<issued, expiry, newest>>
  /\ UNCHANGED <<webhookVars, token, now, mishaps>>

\* Mutant: the refresh token of a refresh is stored as it came, empty included.
Kept_AsItCame(q) == IF call[q].rotated THEN call[q].got ELSE 0

\* An exchange stores what came; a refresh that brought no refresh token stores
\* the one read before again.
Kept(q) == IF call[q].rotated THEN call[q].got
           ELSE IF call[q].asked = "refresh" THEN call[q].old ELSE 0

\* SaveNewZohoToken, refused when there is a row by now, and UpdateZohoToken.
\* The life of the token is counted from the save.
SaveToken(q) ==
  /\ call[q].pc = "save"
  /\ \/ /\ call[q].asked = "exchange" => token.access = 0
        /\ token' = [access |-> call[q].got, refresh |-> Kept(q),
                     expires |-> now + Lifetime]
        /\ Note("slow", now > call[q].since + Margin)
        /\ Got(q)
     \/ /\ To(q, "failed")
        /\ Note("unsaved", TRUE)
        /\ UNCHANGED token
  /\ UNCHANGED <<webhookVars, expiry, issued, newest, now>>

Tick ==
  /\ now < MaxNow
  /\ now' = now + 1
  /\ UNCHANGED <<webhookVars, call, tokenVars, mishaps>>

\* The process restarts in the middle of a delivery, an authorisation or a
\* goroutine.
Stop ==
  /\ \/ \E q \in Callers :
          /\ call[q].pc \notin {"new", "told", "answered", "failed"}
          /\ To(q, "failed")
          /\ UNCHANGED work
     \/ \E d \in Deliveries :
          /\ work[d].pc \notin {"none", "done", "dead"}
          /\ work' = [work EXCEPT ![d].pc = "dead"]
          /\ UNCHANGED call
  /\ mishaps' = mishaps \cup {"stopped"}
  /\ UNCHANGED <<row, copy, valid, done, tokenVars, now>>

Next ==
  \/ \E d \in Deliveries :
       \/ CreateInvoice(d) \/ ValidateIRN(d) \/ SignIRN(d) \/ UpdateZohoInvoice(d)
       \/ ConvertZohoToFIRS(d) \/ CallFirs(d) \/ RecordAnswer(d) \/ CorrectAnswer(d)
  \/ \E q \in Callers : FindToken(q) \/ AskZoho(q) \/ SaveToken(q)
  \/ Stop \/ Tick

Spec == Init /\ [][Next]_vars

-----------------------------------------------------------------------------
(* Properties *)

\* FIRS transmits only what it signed and confirms only what it transmitted,
\* for deliveries of one invoice side by side (otherFirsProcesses).
Firs == INSTANCE FirsLifecycle WITH
          signed <- done[Signed], transmitted <- done[Transmitted],
          confirmed <- done[Confirmed]
FirsOrder == Firs!Spec

\* Zoho is told an IRN that FIRS validated and that the record of the delivery
\* holds as signed, unless a save was lost (service.go:1086-1087, 1275).
ToldIsRecorded ==
  \A d \in Deliveries : call[d].pc = "told" =>
    /\ call[d].irn \in valid
    /\ \/ row[d].irn = call[d].irn /\ row[d].hist[SignedIRN] = "success"
       \/ "unsaved" \in mishaps

\* A record says success of a stage only if FIRS performed it, except that a
\* confirmation without the code 200 is a success until it is corrected, which a
\* restart or a lost save may prevent (service.go:1140-1152).
SuccessWasPerformed ==
  \A d \in Deliveries, s \in Stages :
    row[d].hist[s] = "success" =>
      \/ row[d].irn \in done[s]
      \/ s = Confirmed /\ work[d].pc = "correct"
      \/ s = Confirmed /\ mishaps \cap {"stopped", "unsaved"} # {}

\* When its goroutine is over, a record says that the invoice is confirmed or
\* which stage failed; an invoice that cannot be converted says neither
\* (service.go:1101-1104).
EndIsRecorded ==
  \A d \in Deliveries :
    work[d].pc = "done" /\ mishaps \cap {"unsaved", "unconverted"} = {} =>
      \/ row[d].hist[Confirmed] = "success" /\ row[d].irn \in done[Confirmed]
      \/ \E s \in Stages : row[d].hist[s] = "failed"

\* The refresh token that is stored is the newest one that an answer of Zoho
\* brought here, whatever answers without one or lost answers come between,
\* unless callers renewed the token at once, one stopped, or its save failed
\* (token/service.go:43-67).
NewestRefreshToken ==
  \/ token.refresh = newest
  \/ \E q \in Callers : call[q].pc = "save"
  \/ mishaps \cap {"crossed", "stopped", "unsaved"} # {}

\* A stored token that counts as fresh has not expired, although its life is
\* counted from the save and not from the issue, unless the save took longer
\* than the margin (token/service.go:53, repositories/token.go:49).
FreshIsValid ==
  token.access # 0 /\ Fresh => now <= expiry[token.access] \/ "slow" \in mishaps
=============================================================================
