------------------------- MODULE ZohoWebhookProofs -------------------------
(***************************************************************************)
(* Proofs about ZohoWebhook, for any deliveries and authorisations, any    *)
(* IRNs, lifetimes and margins, and any bound on the clock and the tokens. *)
(***************************************************************************)
EXTENDS ZohoWebhook, TLAPS

\* Where a delivery is once its record holds the signed IRN.
Past == {"find", "exchange", "refresh", "save", "notify", "told"}

\* What a caller knows of its tokens: it saves one that was issued.
HoldsToken(q) ==
  call[q].pc = "save" =>
    /\ call[q].got # 0 /\ call[q].got <= issued
    /\ expiry[call[q].got] = call[q].since + Lifetime

TokenInv ==
  /\ TypeOK
  /\ token.access <= issued
  /\ token.access = 0 => token.refresh = 0
  /\ \A q \in Callers : HoldsToken(q)

\* What FIRS has done for the IRN of a delivery, and what its copy of the record
\* says of that.
Truthful(d) ==
  \A s \in Stages : copy[d].hist[s] = "success" =>
    \/ copy[d].irn \in done[s]
    \/ s = Confirmed /\ (work[d].pc = "correct" \/ "stopped" \in mishaps)

Ended(d) ==
  work[d].pc = "done" =>
    \/ "unconverted" \in mishaps
    \/ copy[d].hist[Confirmed] = "success" /\ copy[d].irn \in done[Confirmed]
    \/ \E s \in Stages : copy[d].hist[s] = "failed"

\* What a delivery and its goroutine know.
Knows(d) ==
  /\ call[d].pc \in {"new", "irn", "signIRN"} => work[d].pc = "none"
  /\ call[d].pc \in Past \cup {"signIRN"} => call[d].irn \in valid
  /\ call[d].pc \in Past =>
       copy[d].irn = call[d].irn /\ copy[d].hist[SignedIRN] = "success"
  /\ work[d].pc = "none" => /\ work[d].stage = Validated
                            /\ \A s \in Stages : copy[d].hist[s] = "pending"
  /\ work[d].pc # "none" => /\ call[d].irn \in valid /\ copy[d].irn = call[d].irn
                            /\ \A s \in Stages : s < work[d].stage => call[d].irn \in done[s]
  /\ work[d].pc = "record" =>
       /\ work[d].answer = "ok" => call[d].irn \in done[work[d].stage]
       /\ work[d].answer = "other" => work[d].stage = Confirmed
  /\ Truthful(d) /\ Ended(d)

\* Unless a save was lost, the record is what the delivery holds.
RowIsCopy == "unsaved" \in mishaps \/ row = copy

\* The records, which may be older than the copies, are as truthful.
RowsTruthful ==
  \A d \in Deliveries, s \in Stages : row[d].hist[s] = "success" =>
    \/ row[d].irn \in done[s]
    \/ s = Confirmed /\ (work[d].pc = "correct" \/ mishaps \cap {"stopped", "unsaved"} # {})

RecordInv == RowIsCopy /\ RowsTruthful /\ \A d \in Deliveries : Knows(d)

-----------------------------------------------------------------------------
(* Types *)

LEMMA CallParts ==
  ASSUME TypeOK, NEW q \in Callers
  PROVE  /\ call[q] \in Call
         /\ call[q].irn \in IRNs \cup {NoIRN} /\ call[q].old \in 0..MaxTokens
         /\ call[q].got \in 0..MaxTokens /\ call[q].rotated \in BOOLEAN
         /\ call[q].since \in 0..MaxNow
BY DEF TypeOK, Call

\* A caller moves on.
LEMMA ToType ==
  ASSUME TypeOK, NEW q \in Callers, NEW pc, To(q, pc),
         pc \in {"irn", "signIRN", "find", "exchange", "refresh", "save",
                 "notify", "told", "answered", "failed"}
  PROVE  /\ call' \in [Callers -> Call]
         /\ call'[q].pc = pc
         /\ call'[q].irn = call[q].irn /\ call'[q].old = call[q].old
         /\ call'[q].got = call[q].got /\ call'[q].rotated = call[q].rotated
         /\ call'[q].asked = call[q].asked /\ call'[q].since = call[q].since
         /\ \A p \in Callers \ {q} : call'[p] = call[p]
BY DEF TypeOK, To, Call

\* A record with one of its steps marked.
LEMMA WithType ==
  ASSUME NEW r \in Record, NEW step \in Steps, NEW status \in {"pending", "success", "failed"}
  PROVE  /\ With(r, step, status) \in Record
         /\ With(r, step, status).irn = r.irn
         /\ With(r, step, status).exists = r.exists
         /\ With(r, step, status).hist[step] = status
         /\ \A s \in Steps \ {step} : With(r, step, status).hist[s] = r.hist[s]
BY DEF With, Record

LEMMA SaveType ==
  ASSUME TypeOK, NEW d \in Deliveries, NEW r \in Record, Save(d, r)
  PROVE  /\ row' \in [Deliveries -> Record] /\ copy' \in [Deliveries -> Record]
         /\ mishaps' \subseteq Mishaps /\ mishaps \subseteq mishaps'
         /\ copy'[d] = r /\ \A e \in Deliveries \ {d} : copy'[e] = copy[e]
         /\ \/ row' = [row EXCEPT ![d] = r]
            \/ row' = row /\ "unsaved" \in mishaps'
BY DEF TypeOK, Save, Mishaps

\* A goroutine moves on.
LEMMA WorkType ==
  ASSUME TypeOK, NEW d \in Deliveries, NEW w \in Work, work' = [work EXCEPT ![d] = w]
  PROVE  /\ work' \in [Deliveries -> Work] /\ work'[d] = w
         /\ \A e \in Deliveries \ {d} : work'[e] = work[e]
BY DEF TypeOK

LEMMA WorkParts ==
  ASSUME TypeOK, NEW d \in Deliveries
  PROVE  /\ work[d] \in Work /\ work[d].stage \in Stages
         /\ work[d].answer \in {"ok", "other", "error"}
         /\ \A pc \in {"convert", "call", "record", "correct", "done", "dead"} :
              /\ [work[d] EXCEPT !.pc = pc] \in Work
              /\ [work[d] EXCEPT !.pc = pc].pc = pc
              /\ [work[d] EXCEPT !.pc = pc].stage = work[d].stage
              /\ [work[d] EXCEPT !.pc = pc].answer = work[d].answer
BY DEF TypeOK, Work

\* The steps of a delivery, and those on the way to a token.
WebhookStep(d) ==
  \/ CreateInvoice(d) \/ ValidateIRN(d) \/ SignIRN(d) \/ UpdateZohoInvoice(d)
GoroutineStep(d) ==
  \/ ConvertZohoToFIRS(d) \/ CallFirs(d) \/ RecordAnswer(d) \/ CorrectAnswer(d)
TokenStep(q) == FindToken(q) \/ AskZoho(q) \/ SaveToken(q)

LEMMA StepKinds ==
  ASSUME [Next]_vars
  PROVE  \/ \E d \in Deliveries : WebhookStep(d) \/ GoroutineStep(d)
         \/ \E q \in Callers : TokenStep(q)
         \/ Stop \/ Tick \/ UNCHANGED vars
BY DEF Next, WebhookStep, GoroutineStep, TokenStep

LEMMA StepsInStages ==
  /\ Stages \subseteq Steps /\ SignedIRN \in Steps /\ SignedIRN \notin Stages
  /\ Validated \in Stages /\ Confirmed \in Stages
  /\ Stages = {Validated, Signed, Transmitted, Confirmed}
BY DEF Steps, Stages, SignedIRN, Validated, Signed, Transmitted, Confirmed

LEMMA WebhookTypes ==
  ASSUME TypeOK, NEW d \in Deliveries, WebhookStep(d)
  PROVE  TypeOK'
<1> USE CallParts DEF Callers
<1>0. d \in Callers
  OBVIOUS
<1>1. CASE CreateInvoice(d)
  <2>1. /\ [row EXCEPT ![d].exists = TRUE] \in [Deliveries -> Record]
        /\ [copy EXCEPT ![d].exists = TRUE] \in [Deliveries -> Record]
    <3>1. ASSUME NEW r \in Record PROVE [r EXCEPT !.exists = TRUE] \in Record
      BY DEF Record
    <3>2. /\ [row EXCEPT ![d] = [row[d] EXCEPT !.exists = TRUE]] \in [Deliveries -> Record]
          /\ [copy EXCEPT ![d] = [copy[d] EXCEPT !.exists = TRUE]] \in [Deliveries -> Record]
      BY <3>1 DEF TypeOK
    <3> QED
      BY <3>2
  <2>2. call' \in [Callers -> Call]
    BY <1>0, <1>1, ToType DEF CreateInvoice
  <2>3. row' \in [Deliveries -> Record] /\ copy' \in [Deliveries -> Record]
    BY <1>1, <2>1 DEF CreateInvoice, TypeOK
  <2> QED
    BY <1>1, <2>2, <2>3 DEF CreateInvoice, TypeOK, tokenVars
<1>2. CASE ValidateIRN(d)
  <2>1. PICK irn \in IRNs, performed \in BOOLEAN, ok \in BOOLEAN :
          /\ valid' = IF performed THEN valid \cup {irn} ELSE valid
          /\ IF ok
             THEN /\ call' = [call EXCEPT ![d].pc = "signIRN", ![d].irn = irn]
                  /\ UNCHANGED <<row, copy, mishaps>>
             ELSE /\ To(d, "failed")
                  /\ Save(d, With(copy[d], SignedIRN, "failed"))
    BY <1>2 DEF ValidateIRN
  <2>2. CASE ok
    <3>1. call' = [call EXCEPT ![d] = [@ EXCEPT !.pc = "signIRN", !.irn = irn]]
      BY <2>1, <2>2
    <3>2. [call[d] EXCEPT !.pc = "signIRN", !.irn = irn] \in Call
      BY <1>0 DEF Call
    <3>3. call' \in [Callers -> Call]
      BY <3>1, <3>2 DEF TypeOK
    <3> QED
      BY <1>2, <2>1, <2>2, <3>3 DEF ValidateIRN, TypeOK, tokenVars
  <2>3. CASE ~ok
    <3>1. With(copy[d], SignedIRN, "failed") \in Record
      BY WithType, StepsInStages DEF TypeOK
    <3>2. call' \in [Callers -> Call]
      BY <1>0, <2>1, <2>3, ToType
    <3> QED
      BY <1>2, <2>1, <2>3, <3>1, <3>2, SaveType DEF ValidateIRN, TypeOK, tokenVars
  <2> QED
    BY <2>2, <2>3
<1>3. CASE SignIRN(d)
  <2>1. /\ With(copy[d], SignedIRN, "failed") \in Record
        /\ With(copy[d], SignedIRN, "success") \in Record
    BY WithType, StepsInStages DEF TypeOK
  <2>2. SignedCopy(d) \in Record
    BY <1>0, <2>1 DEF SignedCopy, Record
  <2>3. call' \in [Callers -> Call]
    BY <1>0, <1>3, ToType DEF SignIRN
  <2>4. work' \in [Deliveries -> Work]
    <3>1. \/ work' = [work EXCEPT ![d] = [work[d] EXCEPT !.pc = "convert"]]
          \/ work' = work
      BY <1>3 DEF SignIRN
    <3>2. work \in [Deliveries -> Work]
      BY DEF TypeOK
    <3>3. [work[d] EXCEPT !.pc = "convert"] \in Work
      BY WorkParts
    <3> QED
      BY <3>1, <3>2, <3>3
  <2> QED
    BY <1>3, <2>1, <2>2, <2>3, <2>4, SaveType DEF SignIRN, TypeOK, tokenVars
<1>4. CASE UpdateZohoInvoice(d)
  BY <1>0, <1>4, ToType DEF UpdateZohoInvoice, TypeOK, tokenVars, webhookVars
<1> QED
  BY <1>1, <1>2, <1>3, <1>4 DEF WebhookStep

LEMMA GoroutineTypes ==
  ASSUME TypeOK, NEW d \in Deliveries, GoroutineStep(d),
         work[d].pc # "none" => call[d].irn \in IRNs
  PROVE  TypeOK'
<1>0. work[d] \in Work /\ work[d].stage \in Stages
  BY DEF TypeOK, Work
<1>1. CASE ConvertZohoToFIRS(d)
  <2>1. work' \in [Deliveries -> Work]
    <3>1. \/ work' = [work EXCEPT ![d] = [work[d] EXCEPT !.pc = "call"]]
          \/ work' = [work EXCEPT ![d] = [work[d] EXCEPT !.pc = "done"]]
      BY <1>1 DEF ConvertZohoToFIRS
    <3>2. work \in [Deliveries -> Work]
      BY DEF TypeOK
    <3>3. \A pc \in {"call", "done"} : [work[d] EXCEPT !.pc = pc] \in Work
      BY WorkParts
    <3> QED
      BY <3>1, <3>2, <3>3
  <2>2. mishaps' \subseteq Mishaps
    BY <1>1 DEF ConvertZohoToFIRS, TypeOK, Mishaps
  <2> QED
    BY <1>1, <2>1, <2>2 DEF ConvertZohoToFIRS, TypeOK, tokenVars
<1>2. CASE CallFirs(d)
  <2>1. done' \in [Stages -> SUBSET IRNs]
    BY <1>0, <1>2 DEF CallFirs, TypeOK
  <2>2. work' \in [Deliveries -> Work]
    <3>1. PICK answer \in {"ok", "other", "error"} :
            work' = [work EXCEPT ![d] = [@ EXCEPT !.pc = "record", !.answer = answer]]
      BY <1>2 DEF CallFirs
    <3>2. [work[d] EXCEPT !.pc = "record", !.answer = answer] \in Work
      BY <1>0 DEF Work
    <3> QED
      BY <3>1, <3>2, WorkType
  <2> QED
    BY <1>2, <2>1, <2>2 DEF CallFirs, TypeOK, tokenVars
<1>3. CASE RecordAnswer(d)
  <2>1. With(copy[d], work[d].stage, Recorded(d)) \in Record
    BY <1>0, WithType, StepsInStages DEF TypeOK, Recorded
  <2>2. GoesOn(d) => work[d].stage + 1 \in Stages
    BY <1>0 DEF GoesOn, Stages, Confirmed
  <2>3. work' \in [Deliveries -> Work]
    BY <1>0, <1>3, <2>2 DEF RecordAnswer, TypeOK, Work
  <2> QED
    BY <1>3, <2>1, <2>3, SaveType DEF RecordAnswer, TypeOK, tokenVars
<1>4. CASE CorrectAnswer(d)
  <2>1. With(copy[d], Confirmed, "failed") \in Record
    BY WithType, StepsInStages DEF TypeOK
  <2>2. work' \in [Deliveries -> Work]
    BY <1>4 DEF CorrectAnswer, TypeOK, Work
  <2> QED
    BY <1>4, <2>1, <2>2, SaveType DEF CorrectAnswer, TypeOK, tokenVars
<1> QED
  BY <1>1, <1>2, <1>3, <1>4 DEF GoroutineStep

\* Where a caller goes that finds a token, or gets one.
LEMMA GotType ==
  ASSUME TypeOK, NEW q \in Callers, Got(q)
  PROVE  \E pc \in {"notify", "answered"} :
           To(q, pc) /\ (pc = "answered" <=> q \notin Deliveries)
BY DEF Got

LEMMA TokenTypes ==
  ASSUME TypeOK, NEW q \in Callers, TokenStep(q)
  PROVE  TypeOK'
<1> USE TimesAssumption
<1>0. call[q] \in Call /\ now \in 0..MaxNow /\ issued \in 0..MaxTokens
  BY CallParts DEF TypeOK
<1>1. CASE FindToken(q)
  <2>1. mishaps' \subseteq Mishaps
    BY <1>1 DEF FindToken, Note, TypeOK, Mishaps
  <2>2. call' \in [Callers -> Call]
    <3>1. CASE Got(q)
      BY <3>1, GotType, ToType
    <3>2. CASE call' = [call EXCEPT ![q].pc = "refresh", ![q].old = token.refresh]
      <4>1. call' = [call EXCEPT ![q] = [@ EXCEPT !.pc = "refresh", !.old = token.refresh]]
        BY <3>2
      <4>2. [call[q] EXCEPT !.pc = "refresh", !.old = token.refresh] \in Call
        BY <1>0 DEF Call, TypeOK
      <4> QED
        BY <4>1, <4>2 DEF TypeOK
    <3>3. CASE To(q, "exchange") \/ To(q, "failed")
      BY <3>3, ToType
    <3> QED
      BY <1>1, <3>1, <3>2, <3>3 DEF FindToken
  <2> QED
    BY <1>1, <2>1, <2>2 DEF FindToken, TypeOK, webhookVars, tokenVars
<1>2. CASE AskZoho(q)
  <2>1. issued' \in 0..MaxTokens /\ newest' \in 0..MaxTokens
    <3>1. \/ issued < MaxTokens /\ issued' = issued + 1 /\ newest' \in {issued', newest}
          \/ UNCHANGED <<issued, newest>>
      BY <1>2 DEF AskZoho
    <3> QED
      BY <1>0, <3>1 DEF TypeOK
  <2>2. expiry' \in [TokenIds -> Nat]
    <3>1. now + Lifetime \in Nat
      BY <1>0
    <3> QED
      BY <1>2, <3>1 DEF AskZoho, TypeOK
  <2>3. call' \in [Callers -> Call]
    <3>1. CASE To(q, "failed")
      BY <3>1, ToType
    <3>2. ASSUME NEW rotated \in BOOLEAN,
                 call' = [call EXCEPT ![q] = [@ EXCEPT
                            !.pc = "save", !.asked = call[q].pc, !.got = issued',
                            !.rotated = rotated, !.since = now]]
          PROVE  call' \in [Callers -> Call]
      <4>1. [call[q] EXCEPT !.pc = "save", !.asked = call[q].pc, !.got = issued',
                            !.rotated = rotated, !.since = now] \in Call
        BY <1>0, <1>2, <2>1 DEF Call, AskZoho
      <4> QED
        BY <3>2, <4>1 DEF TypeOK
    <3> QED
      BY <1>2, <3>1, <3>2 DEF AskZoho
  <2> QED
    BY <1>2, <2>1, <2>2, <2>3 DEF AskZoho, TypeOK, webhookVars
<1>3. CASE SaveToken(q)
  <2>1. call' \in [Callers -> Call]
    BY <1>3, GotType, ToType DEF SaveToken
  <2>2. mishaps' \subseteq Mishaps
    BY <1>3 DEF SaveToken, Note, TypeOK, Mishaps
  <2>3. Kept(q) \in 0..MaxTokens /\ call[q].got \in 0..MaxTokens
    BY <1>3, CallParts DEF SaveToken, Kept
  <2>4. token' \in [access: 0..MaxTokens, refresh: 0..MaxTokens, expires: Nat]
    <3> DEFINE new == [access |-> call[q].got, refresh |-> Kept(q),
                       expires |-> now + Lifetime]
    <3>1. now + Lifetime \in Nat
      BY <1>0
    <3>2. new \in [access: 0..MaxTokens, refresh: 0..MaxTokens, expires: Nat]
      BY <2>3, <3>1
    <3>3. token' = new \/ token' = token
      BY <1>3 DEF SaveToken
    <3> HIDE DEF new
    <3> QED
      BY <3>2, <3>3 DEF TypeOK
  <2> QED
    BY <1>3, <2>1, <2>2, <2>4 DEF SaveToken, TypeOK, webhookVars
<1> QED
  BY <1>1, <1>2, <1>3 DEF TokenStep

LEMMA StopTypes == ASSUME TypeOK, Stop PROVE TypeOK'
<1>1. mishaps' \subseteq Mishaps
  BY DEF Stop, TypeOK, Mishaps
<1>2. call' \in [Callers -> Call]
  BY ToType DEF Stop, TypeOK
<1>3. work' \in [Deliveries -> Work]
  <2>1. ASSUME NEW d \in Deliveries, work' = [work EXCEPT ![d].pc = "dead"]
        PROVE  work' \in [Deliveries -> Work]
    BY <2>1, WorkType, WorkParts
  <2> QED
    BY <2>1 DEF Stop, TypeOK
<1> QED
  BY <1>1, <1>2, <1>3 DEF Stop, TypeOK, tokenVars

LEMMA TickTypes == ASSUME TypeOK, Tick PROVE TypeOK'
BY TimesAssumption DEF Tick, TypeOK, webhookVars, tokenVars

-----------------------------------------------------------------------------
(* The tokens *)

\* A caller other than the one that moves keeps its tokens, and so do those of
\* whom nothing changes.
LEMMA TokensStay ==
  ASSUME TypeOK, issued' \in Nat, issued <= issued', NEW p \in Callers, HoldsToken(p),
         call'[p] = call[p] \/ call'[p].pc # "save",
         \A n \in TokenIds : n <= issued => expiry'[n] = expiry[n]
  PROVE  HoldsToken(p)'
<1>1. CASE call'[p] = call[p]
  <2>1. call[p].got \in 0..MaxTokens /\ issued \in 0..MaxTokens
    BY CallParts DEF TypeOK
  <2>2. CASE call[p].pc = "save"
    <3>1. call[p].got \in TokenIds /\ call[p].got <= issued
      BY <2>1, <2>2, TimesAssumption DEF HoldsToken, TokenIds
    <3>2. expiry'[call[p].got] = expiry[call[p].got]
      BY <3>1
    <3> QED
      BY <1>1, <2>1, <2>2, <3>1, <3>2 DEF HoldsToken
  <2>3. CASE call[p].pc # "save"
    BY <1>1, <2>3 DEF HoldsToken
  <2> QED
    BY <2>2, <2>3
<1>2. CASE call'[p].pc # "save"
  BY <1>2 DEF HoldsToken
<1> QED
  BY <1>1, <1>2

LEMMA TokenStepHolds ==
  ASSUME TokenInv, NEW q \in Callers, TokenStep(q)
  PROVE  TokenInv'
<1> USE TimesAssumption
<1>0. /\ TypeOK /\ HoldsToken(q) /\ call[q] \in Call
      /\ issued \in 0..MaxTokens /\ now \in 0..MaxNow /\ token.access \in 0..MaxTokens
      /\ token.access <= issued
  BY CallParts DEF TokenInv, TypeOK
<1>1. TypeOK' /\ issued' \in Nat
  BY <1>0, TokenTypes DEF TypeOK
<1>2. CASE FindToken(q)
  <2>1. call'[q].pc # "save" /\ \A p \in Callers \ {q} : call'[p] = call[p]
    BY <1>0, <1>2, GotType, ToType DEF FindToken, TypeOK, Call
  <2>2. UNCHANGED tokenVars
    BY <1>2 DEF FindToken
  <2>3. \A p \in Callers : HoldsToken(p)'
    BY <1>0, <1>1, <2>1, <2>2, TokensStay DEF TokenInv, tokenVars
  <2> QED
    BY <1>0, <1>1, <2>2, <2>3 DEF TokenInv, tokenVars
<1>3. CASE AskZoho(q)
  <2>1. /\ token' = token
        /\ \/ UNCHANGED <<issued, expiry>>
           \/ /\ issued < MaxTokens /\ issued' = issued + 1
              /\ expiry' = [expiry EXCEPT ![issued'] = now + Lifetime]
    BY <1>3 DEF AskZoho
  <2>2. \A n \in TokenIds : n <= issued => expiry'[n] = expiry[n]
    BY <1>0, <2>1 DEF TypeOK, TokenIds
  <2>3. issued <= issued' /\ token'.access <= issued'
    BY <1>0, <2>1
  <2>4. CASE To(q, "failed")
    <3>1. call'[q].pc = "failed" /\ \A p \in Callers \ {q} : call'[p] = call[p]
      BY <1>0, <2>4, ToType
    <3>2. \A p \in Callers : HoldsToken(p)'
      BY <1>0, <1>1, <2>2, <2>3, <3>1, TokensStay DEF TokenInv
    <3> QED
      BY <1>1, <2>1, <2>3, <3>2 DEF TokenInv
  <2>5. ASSUME NEW rotated \in BOOLEAN,
               issued < MaxTokens, issued' = issued + 1,
               expiry' = [expiry EXCEPT ![issued'] = now + Lifetime],
               call' = [call EXCEPT ![q] = [@ EXCEPT
                          !.pc = "save", !.asked = call[q].pc, !.got = issued',
                          !.rotated = rotated, !.since = now]]
        PROVE  TokenInv'
    <3>1. /\ call'[q] = [call[q] EXCEPT !.pc = "save", !.asked = call[q].pc,
                           !.got = issued', !.rotated = rotated, !.since = now]
          /\ \A p \in Callers \ {q} : call'[p] = call[p]
      BY <1>0, <2>5 DEF TypeOK
    <3>2. call'[q].pc = "save" /\ call'[q].got = issued' /\ call'[q].since = now
      BY <1>0, <3>1 DEF Call
    <3>3. issued' \in TokenIds /\ expiry'[issued'] = now + Lifetime
      BY <1>0, <2>5 DEF TypeOK, TokenIds
    <3>4. HoldsToken(q)'
      <4>1. issued' # 0 /\ issued' <= issued'
        BY <1>0, <2>5
      <4> QED
        BY <3>2, <3>3, <4>1 DEF HoldsToken
    <3>5. \A p \in Callers \ {q} : HoldsToken(p)'
      BY <1>0, <1>1, <2>2, <2>3, <3>1, TokensStay DEF TokenInv
    <3> QED
      BY <1>1, <2>1, <2>3, <3>4, <3>5 DEF TokenInv
  <2> QED
    BY <1>3, <2>4, <2>5 DEF AskZoho
<1>4. CASE SaveToken(q)
  <2>1. /\ call'[q].pc \in {"notify", "answered", "failed"}
        /\ \A p \in Callers \ {q} : call'[p] = call[p]
    BY <1>0, <1>4, GotType, ToType DEF SaveToken
  <2>2. UNCHANGED <<issued, expiry>>
    BY <1>4 DEF SaveToken
  <2>3. \A p \in Callers : HoldsToken(p)'
    BY <1>0, <1>1, <2>1, <2>2, TokensStay DEF TokenInv
  <2>4. token'.access \in {call[q].got, token.access} /\ call[q].got <= issued
    <3>1. \/ token' = token
          \/ token' = [access |-> call[q].got, refresh |-> Kept(q),
                       expires |-> now + Lifetime]
      BY <1>4 DEF SaveToken
    <3>2. call[q].got <= issued
      BY <1>0, <1>4 DEF SaveToken, HoldsToken
    <3> QED
      BY <3>1, <3>2
  <2>5. token'.access = 0 => token'.refresh = 0
    <3>1. \/ token' = token
          \/ token'.access = call[q].got
      <4>1. \/ token' = token
            \/ token' = [access |-> call[q].got, refresh |-> Kept(q),
                         expires |-> now + Lifetime]
        BY <1>4 DEF SaveToken
      <4> QED
        BY <4>1
    <3>2. call[q].got # 0
      BY <1>0, <1>4 DEF SaveToken, HoldsToken
    <3> QED
      BY <3>1, <3>2 DEF TokenInv
  <2> QED
    BY <1>0, <1>1, <2>2, <2>3, <2>4, <2>5 DEF TokenInv
<1> QED
  BY <1>2, <1>3, <1>4 DEF TokenStep

\* The steps of a delivery leave the tokens alone, and its caller short of one.
LEMMA WebhookMoves ==
  ASSUME TypeOK, NEW d \in Deliveries, WebhookStep(d)
  PROVE  /\ d \in Callers /\ UNCHANGED <<tokenVars, now>>
         /\ call'[d].pc \in {"irn", "signIRN", "find", "told", "failed"}
         /\ \A p \in Callers \ {d} : call'[p] = call[p]
<1>0. d \in Callers
  BY DEF Callers
<1>1. CASE CreateInvoice(d)
  BY <1>0, <1>1, ToType DEF CreateInvoice
<1>2. CASE ValidateIRN(d)
  <2>1. PICK irn \in IRNs :
          \/ call' = [call EXCEPT ![d].pc = "signIRN", ![d].irn = irn]
          \/ To(d, "failed")
    BY <1>2 DEF ValidateIRN
  <2>2. CASE call' = [call EXCEPT ![d].pc = "signIRN", ![d].irn = irn]
    BY <1>0, <1>2, <2>2 DEF ValidateIRN, TypeOK, Call
  <2> QED
    BY <1>0, <1>2, <2>1, <2>2, ToType DEF ValidateIRN
<1>3. CASE SignIRN(d)
  BY <1>0, <1>3, ToType DEF SignIRN
<1>4. CASE UpdateZohoInvoice(d)
  BY <1>0, <1>4, ToType DEF UpdateZohoInvoice
<1> QED
  BY <1>1, <1>2, <1>3, <1>4 DEF WebhookStep

LEMMA GoroutineMoves ==
  ASSUME NEW d \in Deliveries, GoroutineStep(d)
  PROVE  UNCHANGED <<tokenVars, now, call, valid>>
BY DEF GoroutineStep, ConvertZohoToFIRS, CallFirs, RecordAnswer, CorrectAnswer

LEMMA StopMoves ==
  ASSUME TypeOK, Stop
  PROVE  /\ UNCHANGED <<tokenVars, now, row, copy, valid, done>>
         /\ \A q \in Callers :
              \/ call'[q] = call[q]
              \/ call'[q].pc = "failed" /\ call'[q].irn = call[q].irn
<1>1. ASSUME NEW q \in Callers, To(q, "failed")
      PROVE  \A p \in Callers :
              \/ call'[p] = call[p]
              \/ call'[p].pc = "failed" /\ call'[p].irn = call[p].irn
  BY <1>1, ToType
<1> QED
  BY <1>1 DEF Stop

\* Steps that leave the stored and the issued tokens alone.
LEMMA OthersHold ==
  ASSUME TokenInv, TypeOK', UNCHANGED tokenVars,
         \A q \in Callers : call'[q] = call[q] \/ call'[q].pc # "save"
  PROVE  TokenInv'
<1>1. UNCHANGED <<token, expiry, issued, newest>> /\ issued' \in Nat /\ issued <= issued'
  BY DEF tokenVars, TypeOK, TokenInv
<1>2. \A q \in Callers : HoldsToken(q)'
  BY <1>1, TokensStay DEF TokenInv
<1> QED
  BY <1>1, <1>2 DEF TokenInv

LEMMA NextToken ==
  ASSUME TokenInv, [Next]_vars,
         \A d \in Deliveries : work[d].pc # "none" => call[d].irn \in IRNs
  PROVE  TokenInv'
<1>0. TypeOK
  BY DEF TokenInv
<1>1. ASSUME NEW d \in Deliveries, WebhookStep(d)
      PROVE  TokenInv'
  BY <1>0, <1>1, WebhookTypes, WebhookMoves, OthersHold
<1>2. ASSUME NEW d \in Deliveries, GoroutineStep(d)
      PROVE  TokenInv'
  BY <1>0, <1>2, GoroutineTypes, GoroutineMoves, OthersHold
<1>3. ASSUME NEW q \in Callers, TokenStep(q)
      PROVE  TokenInv'
  BY <1>3, TokenStepHolds
<1>4. CASE Stop
  BY <1>0, <1>4, StopTypes, StopMoves, OthersHold
<1>5. CASE Tick
  <2>1. UNCHANGED <<tokenVars, call>>
    BY <1>5 DEF Tick
  <2> QED
    BY <1>0, <1>5, <2>1, TickTypes, OthersHold
<1>6. CASE UNCHANGED vars
  <2>1. TypeOK' /\ UNCHANGED <<tokenVars, call>>
    BY <1>0, <1>6 DEF vars, webhookVars, tokenVars, TypeOK
  <2> QED
    BY <2>1, OthersHold
<1> QED
  BY <1>1, <1>2, <1>3, <1>4, <1>5, <1>6, StepKinds

LEMMA InitToken == Init => TokenInv
<1> SUFFICES ASSUME Init PROVE TokenInv
  OBVIOUS
<1> USE TimesAssumption
<1>1. NoRecord \in Record
  BY DEF NoRecord, Record
<1>2. [pc |-> "none", stage |-> Validated, answer |-> "ok"] \in Work
  BY StepsInStages DEF Work
<1>3. \A q \in Callers : /\ call[q] \in Call /\ call[q].pc # "save"
  BY DEF Init, Call
<1>4. call \in [Callers -> Call]
  BY <1>3 DEF Init
<1>5. TypeOK
  BY <1>1, <1>2, <1>4 DEF Init, TypeOK, Mishaps
<1> QED
  BY <1>3, <1>5 DEF Init, TokenInv, HoldsToken

-----------------------------------------------------------------------------
(* Records *)

\* What FIRS did, and what went wrong, is not undone.
Grows ==
  /\ valid \subseteq valid' /\ \A s \in Stages : done[s] \subseteq done'[s]
  /\ mishaps \subseteq mishaps'

\* A delivery whose goroutine and copy stay as they are knows what it knew,
\* wherever its caller goes on the way to a token.
LEMMA KnowledgeStays ==
  ASSUME TypeOK, NEW d \in Deliveries, Knows(d), Grows, work'[d] = work[d], copy'[d] = copy[d],
         call'[d].irn = call[d].irn,
         \/ call'[d].pc = call[d].pc \/ call'[d].pc = "failed"
         \/ call[d].pc \in Past /\ call'[d].pc \in Past
  PROVE  Knows(d)'
<1>1. Truthful(d)' /\ Ended(d)'
  BY StepsInStages DEF Knows, Truthful, Ended, Grows
<1>2. /\ call'[d].pc \in {"new", "irn", "signIRN"} => call'[d].pc = call[d].pc
      /\ call'[d].pc \in Past => call[d].pc \in Past
      /\ call'[d].pc = "signIRN" => call[d].pc = "signIRN"
  BY DEF Past
<1>3. work[d].pc = "record" /\ work[d].answer = "ok" => call[d].irn \in done'[work[d].stage]
  BY WorkParts DEF Knows, Grows
<1> QED
  BY <1>1, <1>2, <1>3 DEF Knows, Grows

\* The records after a step of one delivery that it knows enough of.
LEMMA RecordsStay ==
  ASSUME TypeOK, TypeOK', RecordInv, Grows, NEW d \in Deliveries, Knows(d)',
         \A e \in Deliveries \ {d} : /\ row'[e] = row[e] /\ copy'[e] = copy[e]
                                    /\ work'[e] = work[e] /\ call'[e] = call[e],
         "unsaved" \in mishaps' \/ row'[d] = copy'[d],
         \/ row'[d] = copy'[d]
         \/ /\ row'[d].hist = row[d].hist /\ row'[d].irn = row[d].irn
            /\ work[d].pc = "correct" =>
                 work'[d].pc = "correct" \/ mishaps' \cap {"stopped", "unsaved"} # {}
  PROVE  RecordInv'
<1>1. \A e \in Deliveries : Knows(e)'
  BY KnowledgeStays DEF RecordInv
<1>2. RowIsCopy'
  <2>1. SUFFICES ASSUME "unsaved" \notin mishaps'
                 PROVE  \A e \in Deliveries : row'[e] = copy'[e]
    BY DEF RowIsCopy, TypeOK
  <2>2. row = copy
    BY <2>1 DEF RecordInv, RowIsCopy, Grows
  <2> QED
    BY <2>1, <2>2
<1>3. ASSUME NEW e \in Deliveries, NEW s \in Stages, row'[e].hist[s] = "success"
      PROVE  \/ row'[e].irn \in done'[s]
             \/ s = Confirmed /\ \/ work'[e].pc = "correct"
                                 \/ mishaps' \cap {"stopped", "unsaved"} # {}
  <2>1. CASE row'[e] = copy'[e]
    BY <1>1, <1>3, <2>1 DEF Knows, Truthful
  <2>2. CASE /\ row'[e].hist = row[e].hist /\ row'[e].irn = row[e].irn
             /\ work[e].pc = "correct" =>
                  work'[e].pc = "correct" \/ mishaps' \cap {"stopped", "unsaved"} # {}
    BY <1>3, <2>2 DEF RecordInv, RowsTruthful, Grows
  <2> QED
    BY <2>1, <2>2
<1> QED
  BY <1>1, <1>2, <1>3 DEF RecordInv, RowsTruthful

\* The record and the copy of a delivery after a save.
LEMMA SaveEffect ==
  ASSUME TypeOK, NEW d \in Deliveries, NEW r \in Record, Save(d, r)
  PROVE  /\ mishaps \subseteq mishaps' /\ copy'[d] = r
         /\ \A e \in Deliveries \ {d} : row'[e] = row[e] /\ copy'[e] = copy[e]
         /\ \/ row'[d] = copy'[d]
            \/ row'[d] = row[d] /\ "unsaved" \in mishaps'
BY SaveType DEF TypeOK

\* The copy of a delivery with the outcome of one of its steps.
LEMMA Marked ==
  ASSUME TypeOK, NEW d \in Deliveries, NEW step \in Steps, NEW status \in {"success", "failed"}
  PROVE  /\ With(copy[d], step, status) \in Record
         /\ With(copy[d], step, status).irn = copy[d].irn
         /\ With(copy[d], step, status).hist[step] = status
         /\ \A s \in Stages \cup {SignedIRN} : s # step =>
              With(copy[d], step, status).hist[s] = copy[d].hist[s]
<1>1. copy[d] \in Record /\ status \in {"pending", "success", "failed"}
  BY DEF TypeOK
<1>2. \A s \in Stages \cup {SignedIRN} : s \in Steps
  BY DEF Steps
<1>3. ASSUME NEW s \in Stages \cup {SignedIRN}, s # step
      PROVE  With(copy[d], step, status).hist[s] = copy[d].hist[s]
  <2>1. s \in Steps /\ s # step
    BY <1>2, <1>3
  <2> QED
    BY <1>1, <2>1 DEF With, Record
<1> QED
  BY <1>1, <1>3, WithType

LEMMA CreateRecord ==
  ASSUME TypeOK, TypeOK', RecordInv, NEW d \in Deliveries, CreateInvoice(d)
  PROVE  RecordInv'
<1>0. d \in Callers
  BY DEF Callers
<1>1. Grows /\ UNCHANGED <<work, mishaps>>
  BY DEF CreateInvoice, Grows
<1>2. /\ call'[d].pc \in {"irn", "failed"} /\ call[d].pc = "new"
      /\ call'[d].irn = call[d].irn
      /\ \A e \in Callers \ {d} : call'[e] = call[e]
  BY <1>0, ToType DEF CreateInvoice
<1>3. /\ copy'[d].hist = copy[d].hist /\ copy'[d].irn = copy[d].irn
      /\ row'[d].hist = row[d].hist /\ row'[d].irn = row[d].irn
      /\ \A e \in Deliveries \ {d} : row'[e] = row[e] /\ copy'[e] = copy[e]
  <2>1. CASE UNCHANGED <<row, copy>>
    BY <2>1
  <2>2. CASE /\ row' = [row EXCEPT ![d].exists = TRUE]
             /\ copy' = [copy EXCEPT ![d].exists = TRUE]
    BY <2>2 DEF TypeOK, Record
  <2> QED
    BY <2>1, <2>2 DEF CreateInvoice
<1>4. work[d].pc = "none" /\ Knows(d)
  BY <1>2 DEF RecordInv, Knows
<1>5. Knows(d)'
  BY <1>1, <1>2, <1>3, <1>4 DEF Knows, Truthful, Ended, Past
<1>6. "unsaved" \in mishaps' \/ row'[d] = copy'[d]
  <2>1. CASE row = copy
    BY <2>1 DEF CreateInvoice
  <2> QED
    BY <1>1, <2>1 DEF RecordInv, RowIsCopy
<1> QED
  BY <1>1, <1>2, <1>3, <1>5, <1>6, RecordsStay DEF Callers

LEMMA ValidateRecord ==
  ASSUME TypeOK, TypeOK', RecordInv, NEW d \in Deliveries, ValidateIRN(d)
  PROVE  RecordInv'
<1>0. d \in Callers /\ copy[d] \in Record
  BY DEF Callers, TypeOK
<1>1. PICK irn \in IRNs, performed \in BOOLEAN, ok \in BOOLEAN :
        /\ ok => performed
        /\ valid' = IF performed THEN valid \cup {irn} ELSE valid
        /\ IF ok
           THEN /\ call' = [call EXCEPT ![d].pc = "signIRN", ![d].irn = irn]
                /\ UNCHANGED <<row, copy, mishaps>>
           ELSE /\ To(d, "failed")
                /\ Save(d, With(copy[d], SignedIRN, "failed"))
  BY DEF ValidateIRN
<1>2. UNCHANGED <<work, done>> /\ work[d].pc = "none" /\ Knows(d)
  BY DEF ValidateIRN, RecordInv, Knows
<1>3. CASE ok
  <2>1. call'[d].pc = "signIRN" /\ call'[d].irn = irn
    BY <1>0, <1>1, <1>3 DEF TypeOK, Call
  <2>2. \A e \in Callers \ {d} : call'[e] = call[e]
    BY <1>1, <1>3 DEF TypeOK
  <2>3. Grows /\ irn \in valid'
    BY <1>1, <1>2, <1>3 DEF Grows
  <2>4. Knows(d)'
    BY <1>1, <1>2, <1>3, <2>1, <2>3 DEF Knows, Truthful, Ended, Past
  <2>5. UNCHANGED <<row, copy>> /\ ("unsaved" \in mishaps' \/ row' = copy')
    BY <1>1, <1>3 DEF RecordInv, RowIsCopy
  <2> QED
    BY <1>2, <2>2, <2>3, <2>4, <2>5, RecordsStay DEF Callers
<1>4. CASE ~ok
  <2> DEFINE r == With(copy[d], SignedIRN, "failed")
  <2>1. r \in Record /\ \A s \in Stages : r.hist[s] = copy[d].hist[s]
    <3>1. \A s \in Stages : s # SignedIRN
      BY StepsInStages
    <3> QED
      BY <3>1, Marked, StepsInStages
  <2> HIDE DEF r
  <2>2. Save(d, r) /\ To(d, "failed")
    BY <1>1, <1>4 DEF r
  <2>3. call'[d].pc = "failed" /\ \A e \in Callers \ {d} : call'[e] = call[e]
    BY <1>0, <2>2, ToType
  <2>4. Grows
    <3>1. mishaps \subseteq mishaps'
      BY <2>1, <2>2, SaveEffect
    <3> QED
      BY <1>1, <1>2, <3>1 DEF Grows
  <2>5. Knows(d)'
    BY <1>2, <2>1, <2>2, <2>3, SaveEffect DEF Knows, Truthful, Ended, Past
  <2> QED
    BY <1>2, <2>1, <2>2, <2>3, <2>4, <2>5, SaveEffect, RecordsStay DEF Callers
<1> QED
  BY <1>3, <1>4

LEMMA SignRecord ==
  ASSUME TypeOK, TypeOK', RecordInv, NEW d \in Deliveries, SignIRN(d)
  PROVE  RecordInv'
<1>0. d \in Callers /\ copy[d] \in Record
  BY DEF Callers, TypeOK
<1>1. /\ UNCHANGED <<valid, done>> /\ call[d].pc = "signIRN" /\ call[d].irn \in valid
      /\ work[d].pc = "none" /\ Knows(d)
  BY DEF SignIRN, RecordInv, Knows
<1>2. /\ call'[d].pc \in {"find", "failed"} /\ call'[d].irn = call[d].irn
      /\ \A e \in Callers \ {d} : call'[e] = call[e]
  BY <1>0, ToType DEF SignIRN
<1>3. CASE Save(d, SignedCopy(d)) /\ work' = [work EXCEPT ![d].pc = "convert"]
  <2>1. /\ With(copy[d], SignedIRN, "success") \in Record
        /\ With(copy[d], SignedIRN, "success").hist[SignedIRN] = "success"
        /\ \A s \in Stages : With(copy[d], SignedIRN, "success").hist[s] = copy[d].hist[s]
    <3>1. \A s \in Stages : s # SignedIRN
      BY StepsInStages
    <3> QED
      BY <3>1, Marked, StepsInStages
  <2>2. call[d].irn \in IRNs \cup {NoIRN}
    BY <1>0, CallParts
  <2>3. /\ SignedCopy(d) \in Record /\ SignedCopy(d).irn = call[d].irn
        /\ SignedCopy(d).hist = With(copy[d], SignedIRN, "success").hist
    BY <2>1, <2>2 DEF SignedCopy, Record
  <2>4. copy'[d].irn = call[d].irn /\ copy'[d].hist[SignedIRN] = "success"
        /\ \A s \in Stages : copy'[d].hist[s] = "pending"
    BY <1>1, <1>3, <2>1, <2>3, SaveEffect DEF Knows
  <2>5. /\ work'[d].pc = "convert" /\ work'[d].stage = Validated
        /\ \A e \in Deliveries \ {d} : work'[e] = work[e]
    BY <1>1, <1>3 DEF TypeOK, Work, Knows
  <2>6. \A s \in Stages : ~(s < Validated)
    BY DEF Stages, Validated
  <2>7. Grows
    <3>1. mishaps \subseteq mishaps'
      BY <1>3, <2>3, SaveEffect
    <3> QED
      BY <1>1, <3>1 DEF Grows
  <2>8. Knows(d)'
    BY <1>1, <1>2, <2>4, <2>5, <2>6 DEF Knows, Truthful, Ended
  <2> QED
    BY <1>1, <1>2, <1>3, <2>3, <2>5, <2>7, <2>8, SaveEffect, RecordsStay DEF Callers
<1>4. CASE Save(d, With(copy[d], SignedIRN, "failed")) /\ To(d, "failed") /\ UNCHANGED work
  <2> DEFINE r == With(copy[d], SignedIRN, "failed")
  <2>1. r \in Record /\ \A s \in Stages : r.hist[s] = copy[d].hist[s]
    <3>1. \A s \in Stages : s # SignedIRN
      BY StepsInStages
    <3> QED
      BY <3>1, Marked, StepsInStages
  <2> HIDE DEF r
  <2>2. Save(d, r) /\ UNCHANGED work /\ call'[d].pc = "failed"
    BY <1>0, <1>4, ToType DEF r
  <2>3. Grows
    <3>1. mishaps \subseteq mishaps'
      BY <2>1, <2>2, SaveEffect
    <3> QED
      BY <1>1, <3>1 DEF Grows
  <2>4. Knows(d)'
    BY <1>1, <2>1, <2>2, SaveEffect DEF Knows, Truthful, Ended, Past
  <2> QED
    BY <1>1, <1>2, <2>1, <2>2, <2>3, <2>4, SaveEffect, RecordsStay DEF Callers
<1> QED
  BY <1>3, <1>4 DEF SignIRN

-----------------------------------------------------------------------------
(* The goroutine *)

\* A goroutine moves without a save.
LEMMA ConvertRecord ==
  ASSUME TypeOK, TypeOK', RecordInv, NEW d \in Deliveries, ConvertZohoToFIRS(d)
  PROVE  RecordInv'
<1>1. PICK pc \in {"call", "done"} :
        /\ work' = [work EXCEPT ![d] = [work[d] EXCEPT !.pc = pc]]
        /\ pc = "done" => "unconverted" \in mishaps'
  BY DEF ConvertZohoToFIRS
<1>2. /\ work'[d].pc = pc /\ work'[d].stage = work[d].stage
      /\ \A e \in Deliveries \ {d} : work'[e] = work[e]
  <2>1. pc \in {"convert", "call", "record", "correct", "done", "dead"}
    OBVIOUS
  <2>2. [work[d] EXCEPT !.pc = pc] \in Work
    BY <2>1, WorkParts
  <2>3. /\ work'[d] = [work[d] EXCEPT !.pc = pc]
        /\ \A e \in Deliveries \ {d} : work'[e] = work[e]
    BY <1>1, <2>2, WorkType
  <2> QED
    BY <2>1, <2>3, WorkParts
<1>3. Grows /\ UNCHANGED <<row, copy, valid, done, call>>
  BY DEF ConvertZohoToFIRS, Grows
<1>4. work[d].pc = "convert" /\ Knows(d)
  BY DEF ConvertZohoToFIRS, RecordInv
<1>5. Knows(d)'
  BY <1>1, <1>2, <1>3, <1>4 DEF Knows, Truthful, Ended, Grows
<1>6. "unsaved" \in mishaps' \/ row'[d] = copy'[d]
  BY <1>3 DEF RecordInv, RowIsCopy, Grows
<1> QED
  BY <1>2, <1>3, <1>4, <1>5, <1>6, RecordsStay

\* A call of FIRS for the stage of a goroutine.
LEMMA FirsEffect ==
  ASSUME TypeOK, NEW d \in Deliveries, CallFirs(d)
  PROVE  /\ work[d].pc = "call" /\ UNCHANGED <<row, copy, valid, call, mishaps>>
         /\ \E performed \in BOOLEAN, answer \in {"ok", "other", "error"} :
              /\ answer = "ok" => performed
              /\ answer = "other" => work[d].stage = Confirmed
              /\ \A s \in Stages : done'[s] = IF performed /\ s = work[d].stage
                                              THEN done[s] \cup {call[d].irn} ELSE done[s]
              /\ work'[d] = [work[d] EXCEPT !.pc = "record", !.answer = answer]
              /\ work'[d].pc = "record" /\ work'[d].answer = answer
              /\ work'[d].stage = work[d].stage
              /\ \A e \in Deliveries \ {d} : work'[e] = work[e]
<1>1. PICK performed \in BOOLEAN, answer \in {"ok", "other", "error"} :
        /\ answer = "ok" => performed
        /\ answer = "other" => work[d].stage = Confirmed
        /\ done' = [done EXCEPT ![work[d].stage] =
                      IF performed THEN @ \cup {call[d].irn} ELSE @]
        /\ work' = [work EXCEPT ![d] = [@ EXCEPT !.pc = "record", !.answer = answer]]
  BY DEF CallFirs
<1>2. \A s \in Stages : done'[s] = IF performed /\ s = work[d].stage
                                  THEN done[s] \cup {call[d].irn} ELSE done[s]
  BY <1>1, WorkParts DEF TypeOK
<1>3. /\ work'[d] = [work[d] EXCEPT !.pc = "record", !.answer = answer]
      /\ \A e \in Deliveries \ {d} : work'[e] = work[e]
  BY <1>1 DEF TypeOK
<1>4. /\ work'[d].pc = "record" /\ work'[d].answer = answer
      /\ work'[d].stage = work[d].stage
  BY <1>3, WorkParts DEF Work
<1>5. work[d].pc = "call" /\ UNCHANGED <<row, copy, valid, call, mishaps>>
  BY DEF CallFirs
<1> QED
  BY <1>1, <1>2, <1>3, <1>4, <1>5

LEMMA CallRecord ==
  ASSUME TypeOK, TypeOK', RecordInv, NEW d \in Deliveries, CallFirs(d)
  PROVE  RecordInv'
<1>1. work[d].pc = "call" /\ UNCHANGED <<row, copy, valid, call, mishaps>> /\ Knows(d)
  BY FirsEffect DEF RecordInv
<1>2. PICK performed \in BOOLEAN, answer \in {"ok", "other", "error"} :
        /\ answer = "ok" => performed
        /\ answer = "other" => work[d].stage = Confirmed
        /\ \A s \in Stages : done'[s] = IF performed /\ s = work[d].stage
                                        THEN done[s] \cup {call[d].irn} ELSE done[s]
        /\ work'[d].pc = "record" /\ work'[d].answer = answer
        /\ work'[d].stage = work[d].stage
        /\ \A e \in Deliveries \ {d} : work'[e] = work[e]
  BY FirsEffect
<1>3. Grows
  BY <1>1, <1>2 DEF Grows
<1>4. answer = "ok" => call[d].irn \in done'[work[d].stage]
  BY <1>2, WorkParts
<1>5. Truthful(d)'
  BY <1>1, <1>2, <1>3 DEF Knows, Truthful, Grows
<1>6. Knows(d)'
  BY <1>1, <1>2, <1>3, <1>4, <1>5 DEF Knows, Ended, Grows
<1>7. "unsaved" \in mishaps' \/ row'[d] = copy'[d]
  BY <1>1 DEF RecordInv, RowIsCopy
<1> QED
  BY <1>1, <1>2, <1>3, <1>6, <1>7, RecordsStay

LEMMA AnswerRecord ==
  ASSUME TypeOK, TypeOK', RecordInv, NEW d \in Deliveries, RecordAnswer(d)
  PROVE  RecordInv'
<1> DEFINE stage == work[d].stage
           r == With(copy[d], stage, Recorded(d))
<1>0. /\ stage \in Stages /\ stage \in Int /\ stage # SignedIRN
      /\ work[d].answer \in {"ok", "other", "error"}
  <2>1. stage \in Stages /\ work[d].answer \in {"ok", "other", "error"}
    BY WorkParts
  <2> QED
    BY <2>1, StepsInStages DEF Stages
<1>1. /\ r \in Record /\ r.irn = copy[d].irn /\ r.hist[stage] = Recorded(d)
      /\ \A s \in Stages \ {stage} : r.hist[s] = copy[d].hist[s]
      /\ r.hist[SignedIRN] = copy[d].hist[SignedIRN]
  <2>1. Recorded(d) \in {"success", "failed"} /\ stage \in Steps
    BY <1>0, StepsInStages DEF Recorded
  <2> QED
    BY <1>0, <2>1, Marked
<1> HIDE DEF r
<1>2. /\ work[d].pc = "record" /\ UNCHANGED <<valid, done, call>> /\ Knows(d)
      /\ Save(d, r)
      /\ work' = [work EXCEPT ![d].pc = IF GoesOn(d) THEN "call"
                                       ELSE IF Corrects(d) THEN "correct" ELSE "done",
                              ![d].stage = IF GoesOn(d) THEN @ + 1 ELSE @]
  BY DEF RecordAnswer, RecordInv, r
<1>3. /\ work'[d].pc = IF GoesOn(d) THEN "call"
                       ELSE IF Corrects(d) THEN "correct" ELSE "done"
      /\ work'[d].stage = IF GoesOn(d) THEN stage + 1 ELSE stage
      /\ \A e \in Deliveries \ {d} : work'[e] = work[e]
  BY <1>2, WorkParts DEF TypeOK, Work
<1> HIDE DEF stage
<1>4. /\ copy'[d] = r /\ mishaps \subseteq mishaps'
      /\ \A e \in Deliveries \ {d} : row'[e] = row[e] /\ copy'[e] = copy[e]
      /\ \/ row'[d] = copy'[d]
         \/ row'[d] = row[d] /\ "unsaved" \in mishaps'
  BY <1>1, <1>2, SaveEffect
<1>5. Grows
  BY <1>2, <1>4 DEF Grows
<1>6. /\ work[d].answer = "ok" => call[d].irn \in done[stage]
      /\ work[d].answer = "other" => stage = Confirmed
      /\ copy[d].irn = call[d].irn /\ call[d].irn \in valid
      /\ \A s \in Stages : s < stage => call[d].irn \in done[s]
  BY <1>2 DEF Knows, stage
<1>7. GoesOn(d) => work[d].answer = "ok"
  BY <1>0, <1>6 DEF GoesOn, stage
<1>8. \A s \in Stages : s < work'[d].stage => call[d].irn \in done[s]
  <2>1. \A s \in Stages : s < stage + 1 => s < stage \/ s = stage
    BY <1>0 DEF Stages
  <2> QED
    BY <1>3, <1>6, <1>7, <2>1
<1>9. Truthful(d)'
  <2> SUFFICES ASSUME NEW s \in Stages, r.hist[s] = "success"
               PROVE  \/ r.irn \in done[s]
                      \/ s = Confirmed /\ (work'[d].pc = "correct" \/ "stopped" \in mishaps')
    BY <1>2, <1>4 DEF Truthful
  <2>1. CASE s = stage
    <3>1. work[d].answer # "error"
      BY <1>1, <2>1 DEF Recorded
    <3>2. CASE work[d].answer = "ok"
      BY <1>1, <1>6, <2>1, <3>2
    <3>3. CASE work[d].answer = "other"
      BY <1>3, <1>6, <1>7, <2>1, <3>3 DEF Corrects
    <3> QED
      BY <1>0, <3>1, <3>2, <3>3
  <2>2. CASE s # stage
    BY <1>1, <1>2, <1>4, <2>2 DEF Knows, Truthful
  <2> QED
    BY <2>1, <2>2
<1>10. Ended(d)'
  <2> SUFFICES ASSUME work'[d].pc = "done"
               PROVE  \/ r.hist[Confirmed] = "success" /\ r.irn \in done[Confirmed]
                      \/ \E s \in Stages : r.hist[s] = "failed"
    BY <1>2, <1>4 DEF Ended
  <2>1. ~GoesOn(d) /\ ~Corrects(d)
    BY <1>3
  <2>2. CASE work[d].answer = "error"
    BY <1>0, <1>1, <2>2 DEF Recorded
  <2>3. CASE work[d].answer = "ok"
    BY <1>0, <1>1, <1>6, <2>1, <2>3 DEF Recorded, GoesOn, stage
  <2> QED
    BY <1>0, <2>1, <2>2, <2>3 DEF Corrects
<1>11. Knows(d)'
  <2>1. work'[d].pc \in {"call", "correct", "done"}
    BY <1>3
  <2>2. UNCHANGED <<valid, done, call>> /\ copy'[d] = r
    BY <1>2, <1>4
  <2>3. call[d].pc \notin {"new", "irn", "signIRN"}
    BY <1>2 DEF Knows
  <2>4. call[d].pc \in Past => r.irn = call[d].irn /\ r.hist[SignedIRN] = "success"
    BY <1>1, <1>2 DEF Knows
  <2>5. r.irn = call[d].irn
    BY <1>1, <1>6
  <2> QED
    BY <1>6, <1>8, <1>9, <1>10, <2>1, <2>2, <2>3, <2>4, <2>5 DEF Knows
<1>12. "unsaved" \in mishaps' \/ row'[d] = copy'[d]
  BY <1>4
<1> QED
  BY <1>2, <1>3, <1>4, <1>5, <1>11, <1>12, RecordsStay

LEMMA CorrectRecord ==
  ASSUME TypeOK, TypeOK', RecordInv, NEW d \in Deliveries, CorrectAnswer(d)
  PROVE  RecordInv'
<1> DEFINE r == With(copy[d], Confirmed, "failed")
<1>1. /\ r \in Record /\ r.irn = copy[d].irn /\ r.hist[Confirmed] = "failed"
      /\ \A s \in Stages \ {Confirmed} : r.hist[s] = copy[d].hist[s]
      /\ r.hist[SignedIRN] = copy[d].hist[SignedIRN] /\ Confirmed \in Stages
  <2>1. Confirmed # SignedIRN /\ Confirmed \in Steps /\ Confirmed \in Stages
    BY StepsInStages
  <2> QED
    BY <2>1, Marked
<1> HIDE DEF r
<1>2. /\ work[d].pc = "correct" /\ UNCHANGED <<valid, done, call>> /\ Knows(d)
      /\ Save(d, r) /\ work' = [work EXCEPT ![d] = [work[d] EXCEPT !.pc = "done"]]
  BY DEF CorrectAnswer, RecordInv, r
<1>3. /\ work'[d].pc = "done" /\ work'[d].stage = work[d].stage
      /\ \A e \in Deliveries \ {d} : work'[e] = work[e]
  BY <1>2, WorkType, WorkParts
<1>4. /\ copy'[d] = r /\ mishaps \subseteq mishaps'
      /\ \A e \in Deliveries \ {d} : row'[e] = row[e] /\ copy'[e] = copy[e]
      /\ \/ row'[d] = copy'[d]
         \/ row'[d] = row[d] /\ "unsaved" \in mishaps'
  BY <1>1, <1>2, SaveEffect
<1>5. Grows
  BY <1>2, <1>4 DEF Grows
<1>6. Truthful(d)' /\ Ended(d)'
  BY <1>1, <1>2, <1>4 DEF Knows, Truthful, Ended
<1>7. Knows(d)'
  BY <1>1, <1>2, <1>3, <1>4, <1>6 DEF Knows
<1> QED
  BY <1>2, <1>3, <1>4, <1>5, <1>7, RecordsStay

-----------------------------------------------------------------------------
(* The invariants *)

\* Steps that leave records and goroutines alone.
LEMMA RecordsUntouched ==
  ASSUME TypeOK, RecordInv, Grows, UNCHANGED <<row, copy, work>>,
         \A d \in Deliveries :
           /\ call'[d].irn = call[d].irn
           /\ \/ call'[d].pc = call[d].pc \/ call'[d].pc = "failed"
              \/ call[d].pc \in Past /\ call'[d].pc \in Past
  PROVE  RecordInv'
<1>1. \A d \in Deliveries : Knows(d)'
  BY KnowledgeStays DEF RecordInv
<1>2. RowIsCopy'
  BY DEF RecordInv, RowIsCopy, Grows
<1>3. RowsTruthful'
  BY DEF RecordInv, RowsTruthful, Grows
<1> QED
  BY <1>1, <1>2, <1>3 DEF RecordInv

\* On the way to a token a delivery keeps its IRN, and stays on the way or fails.
LEMMA TokenMoves ==
  ASSUME TypeOK, NEW q \in Callers, TokenStep(q)
  PROVE  /\ call'[q].irn = call[q].irn
         /\ \A p \in Callers \ {q} : call'[p] = call[p]
         /\ call[q].pc \in Past
         /\ q \in Deliveries => call'[q].pc \in Past \cup {"failed"}
         /\ Grows /\ UNCHANGED webhookVars
<1>1. ASSUME Got(q)
      PROVE  /\ call'[q].irn = call[q].irn
             /\ \A p \in Callers \ {q} : call'[p] = call[p]
             /\ q \in Deliveries => call'[q].pc \in Past \cup {"failed"}
  BY <1>1, GotType, ToType DEF Past
<1>2. ASSUME NEW pc \in {"exchange", "failed"}, To(q, pc)
      PROVE  /\ call'[q].irn = call[q].irn
             /\ \A p \in Callers \ {q} : call'[p] = call[p]
             /\ q \in Deliveries => call'[q].pc \in Past \cup {"failed"}
  BY <1>2, ToType DEF Past
<1>3. CASE FindToken(q)
  <2>1. CASE call' = [call EXCEPT ![q].pc = "refresh", ![q].old = token.refresh]
    <3>1. /\ call'[q].irn = call[q].irn /\ call'[q].pc = "refresh"
          /\ \A p \in Callers \ {q} : call'[p] = call[p]
      BY <2>1 DEF TypeOK, Call
    <3> QED
      BY <1>3, <3>1 DEF FindToken, Note, Grows, Past, webhookVars
  <2>2. CASE Got(q) \/ To(q, "exchange") \/ To(q, "failed")
    BY <1>1, <1>2, <1>3, <2>2 DEF FindToken, Note, Grows, Past, webhookVars
  <2> QED
    BY <1>3, <2>1, <2>2 DEF FindToken
<1>4. CASE AskZoho(q)
  <2>1. UNCHANGED <<webhookVars, mishaps>> /\ call[q].pc \in Past /\ Grows
    BY <1>4 DEF AskZoho, Past, Grows, webhookVars
  <2>2. CASE To(q, "failed")
    BY <1>2, <2>1, <2>2
  <2>3. CASE ~To(q, "failed")
    <3>1. PICK rotated \in BOOLEAN :
            call' = [call EXCEPT ![q] = [@ EXCEPT
                      !.pc = "save", !.asked = call[q].pc, !.got = issued',
                      !.rotated = rotated, !.since = now]]
      BY <1>4, <2>3 DEF AskZoho
    <3>2. /\ call'[q].irn = call[q].irn /\ call'[q].pc = "save"
          /\ \A p \in Callers \ {q} : call'[p] = call[p]
      BY <3>1 DEF TypeOK, Call
    <3> QED
      BY <2>1, <3>2 DEF Past
  <2> QED
    BY <2>2, <2>3
<1>5. CASE SaveToken(q)
  BY <1>1, <1>2, <1>5 DEF SaveToken, Note, Grows, Past, webhookVars
<1> QED
  BY <1>3, <1>4, <1>5 DEF TokenStep

LEMMA TokenRecord ==
  ASSUME TypeOK, RecordInv, NEW q \in Callers, TokenStep(q)
  PROVE  RecordInv'
<1>1. Grows /\ UNCHANGED <<row, copy, work>>
  BY TokenMoves DEF webhookVars
<1>2. ASSUME NEW d \in Deliveries
      PROVE  /\ call'[d].irn = call[d].irn
             /\ \/ call'[d].pc = call[d].pc \/ call'[d].pc = "failed"
                \/ call[d].pc \in Past /\ call'[d].pc \in Past
  BY TokenMoves DEF Callers
<1> QED
  BY <1>1, <1>2, RecordsUntouched

LEMMA StopRecord ==
  ASSUME TypeOK, TypeOK', RecordInv, Stop
  PROVE  RecordInv'
<1>1. Grows /\ UNCHANGED <<row, copy, valid, done>> /\ "stopped" \in mishaps'
  BY DEF Stop, Grows
<1>2. CASE UNCHANGED work
  BY <1>1, <1>2, StopMoves, RecordsUntouched DEF Callers
<1>3. ASSUME NEW d \in Deliveries, work' = [work EXCEPT ![d].pc = "dead"], UNCHANGED call,
             work[d].pc # "none"
      PROVE  RecordInv'
  <2>1. /\ work'[d].pc = "dead" /\ work'[d].stage = work[d].stage
        /\ \A e \in Deliveries \ {d} : work'[e] = work[e]
    BY <1>3, WorkParts DEF TypeOK, Work
  <2>2. Knows(d)
    BY DEF RecordInv
  <2>3. Knows(d)'
    BY <1>1, <1>3, <2>1, <2>2 DEF Knows, Truthful, Ended
  <2>4. "unsaved" \in mishaps' \/ row'[d] = copy'[d]
    BY <1>1 DEF RecordInv, RowIsCopy, Grows
  <2> QED
    BY <1>1, <1>3, <2>1, <2>3, <2>4, RecordsStay
<1> QED
  BY <1>2, <1>3 DEF Stop

LEMMA NextRecord ==
  ASSUME TypeOK, TypeOK', RecordInv, [Next]_vars
  PROVE  RecordInv'
<1>1. ASSUME NEW d \in Deliveries, WebhookStep(d)
      PROVE  RecordInv'
  <2>1. CASE UpdateZohoInvoice(d)
    <3>1. /\ call'[d].pc \in {"told", "failed"} /\ call[d].pc = "notify"
          /\ call'[d].irn = call[d].irn
          /\ \A e \in Callers \ {d} : call'[e] = call[e]
      BY <2>1, ToType DEF UpdateZohoInvoice, Callers
    <3>2. Grows /\ UNCHANGED <<row, copy, work>>
      BY <2>1 DEF UpdateZohoInvoice, webhookVars, Grows
    <3> QED
      BY <3>1, <3>2, RecordsUntouched DEF Callers, Past
  <2> QED
    BY <1>1, <2>1, CreateRecord, ValidateRecord, SignRecord DEF WebhookStep
<1>2. ASSUME NEW d \in Deliveries, GoroutineStep(d)
      PROVE  RecordInv'
  BY <1>2, ConvertRecord, CallRecord, AnswerRecord, CorrectRecord DEF GoroutineStep
<1>3. ASSUME NEW q \in Callers, TokenStep(q)
      PROVE  RecordInv'
  BY <1>3, TokenRecord
<1>4. CASE Stop
  BY <1>4, StopRecord
<1>5. CASE Tick
  BY <1>5, RecordsUntouched DEF Tick, webhookVars, Grows
<1>6. CASE UNCHANGED vars
  BY <1>6, RecordsUntouched DEF vars, webhookVars, Grows
<1> QED
  BY <1>1, <1>2, <1>3, <1>4, <1>5, <1>6, StepKinds

LEMMA InitRecord == Init => RecordInv
<1> SUFFICES ASSUME Init PROVE RecordInv
  OBVIOUS
<1>1. \A d \in Deliveries :
        /\ call[d].pc = "new" /\ work[d].pc = "none" /\ work[d].stage = Validated
        /\ \A s \in Stages : copy[d].hist[s] = "pending" /\ row[d].hist[s] = "pending"
  BY StepsInStages DEF Init, Callers, NoRecord
<1>2. row = copy
  BY DEF Init
<1> QED
  BY <1>1, <1>2 DEF RecordInv, RowIsCopy, RowsTruthful, Knows, Truthful, Ended, Past

LEMMA InvHolds == Spec => [](TokenInv /\ RecordInv)
<1>1. Init => TokenInv /\ RecordInv
  BY InitToken, InitRecord
<1>2. TokenInv /\ RecordInv /\ [Next]_vars => (TokenInv /\ RecordInv)'
  <2> SUFFICES ASSUME TokenInv, RecordInv, [Next]_vars
               PROVE  (TokenInv /\ RecordInv)'
    OBVIOUS
  <2>1. \A d \in Deliveries : work[d].pc # "none" => call[d].irn \in IRNs
    BY DEF RecordInv, Knows, TokenInv, TypeOK
  <2>2. TokenInv'
    BY <2>1, NextToken
  <2>3. TypeOK /\ TypeOK'
    BY <2>2 DEF TokenInv
  <2> QED
    BY <2>2, <2>3, NextRecord
<1> QED
  BY <1>1, <1>2, PTL DEF Spec

\* The webhook, its goroutines and the token endpoints keep the types of their
\* state, and a stored access token has a refresh token.
THEOREM ZohoTypeCorrect == Spec => []TypeOK
<1>1. TokenInv => TypeOK
  BY DEF TokenInv
<1> QED
  BY <1>1, InvHolds, PTL

\* Zoho is told only an IRN that FIRS validated and that the record holds as
\* signed, although the record is saved as a whole by the delivery and by its
\* goroutine (processZohoWebhook, otherFirsProcesses).
THEOREM ToldHolds == Spec => []ToldIsRecorded
<1>1. RecordInv => ToldIsRecorded
  <2> SUFFICES ASSUME RecordInv, NEW d \in Deliveries, call[d].pc = "told"
               PROVE  /\ call[d].irn \in valid
                      /\ \/ row[d].irn = call[d].irn /\ row[d].hist[SignedIRN] = "success"
                         \/ "unsaved" \in mishaps
    BY DEF ToldIsRecorded
  <2>1. /\ call[d].irn \in valid
        /\ copy[d].irn = call[d].irn /\ copy[d].hist[SignedIRN] = "success"
    BY DEF RecordInv, Knows, Past
  <2> QED
    BY <2>1 DEF RecordInv, RowIsCopy
<1> QED
  BY <1>1, InvHolds, PTL

\* A record says success of a stage only if FIRS performed it, but for a
\* confirmation that is still to be corrected or never was.
THEOREM SuccessHolds == Spec => []SuccessWasPerformed
<1>1. RecordInv => SuccessWasPerformed
  BY DEF RecordInv, RowsTruthful, SuccessWasPerformed
<1> QED
  BY <1>1, InvHolds, PTL

\* A goroutine that is over has left in the record that the invoice is confirmed
\* or which stage failed, unless a save was lost or it never called FIRS.
THEOREM EndHolds == Spec => []EndIsRecorded
<1>1. RecordInv => EndIsRecorded
  <2> SUFFICES ASSUME RecordInv, NEW d \in Deliveries, work[d].pc = "done",
                      mishaps \cap {"unsaved", "unconverted"} = {}
               PROVE  \/ row[d].hist[Confirmed] = "success" /\ row[d].irn \in done[Confirmed]
                      \/ \E s \in Stages : row[d].hist[s] = "failed"
    BY DEF EndIsRecorded
  <2>1. row[d] = copy[d] /\ "unconverted" \notin mishaps
    BY DEF RecordInv, RowIsCopy
  <2> QED
    BY <2>1 DEF RecordInv, Knows, Ended
<1> QED
  BY <1>1, InvHolds, PTL

\* Whatever deliveries of one invoice do side by side, what FIRS is asked for
\* follows the life cycle of FirsLifecycle.
THEOREM FirsOrderHolds == Spec => FirsOrder
<1>1. Init => Firs!Init
  BY DEF Init, Firs!Init, Stages, Signed, Transmitted, Confirmed
<1>2. TokenInv /\ RecordInv /\ [Next]_vars => [Firs!Next]_Firs!lifecycle
  <2> SUFFICES ASSUME TokenInv, RecordInv, [Next]_vars, done' # done
               PROVE  [Firs!Next]_Firs!lifecycle
    BY DEF Firs!lifecycle
  <2>0. TypeOK
    BY DEF TokenInv
  <2>1. PICK d \in Deliveries : CallFirs(d)
    BY DEF Next, CreateInvoice, ValidateIRN, SignIRN, UpdateZohoInvoice, ConvertZohoToFIRS,
           RecordAnswer, CorrectAnswer, FindToken, AskZoho, SaveToken, Stop, Tick, vars,
           webhookVars
  <2>2. /\ work[d].stage \in Stages /\ call[d].irn \in IRNs
        /\ \A s \in Stages : s < work[d].stage => call[d].irn \in done[s]
    BY <2>0, <2>1, WorkParts, FirsEffect DEF RecordInv, Knows, TypeOK
  <2>3. \A s \in Stages : done'[s] = IF s = work[d].stage THEN done[s] \cup {call[d].irn}
                                     ELSE done[s]
    <3>1. PICK performed \in BOOLEAN :
            \A s \in Stages : done'[s] = IF performed /\ s = work[d].stage
                                         THEN done[s] \cup {call[d].irn} ELSE done[s]
      BY <2>0, <2>1, FirsEffect
    <3>2. performed
      <4>1. /\ done = [s \in Stages |-> done[s]]
            /\ done' = [s \in Stages |-> done'[s]]
        BY <2>0, <2>1 DEF CallFirs, TypeOK
      <4>2. ASSUME ~performed
            PROVE  [s \in Stages |-> done'[s]] = [s \in Stages |-> done[s]]
        BY <3>1, <4>2
      <4> QED
        BY <4>1, <4>2
    <3> QED
      BY <3>1, <3>2
  <2>4. CASE work[d].stage = Validated
    BY <2>3, <2>4 DEF Firs!lifecycle, Stages, Validated, Signed, Transmitted, Confirmed
  <2>5. CASE work[d].stage = Signed
    <3>1. Firs!Sign(call[d].irn)
      BY <2>3, <2>5 DEF Firs!Sign, Stages, Signed, Transmitted, Confirmed
    <3> QED
      BY <2>2, <3>1 DEF Firs!Next
  <2>6. CASE work[d].stage = Transmitted
    <3>1. Firs!Transmit(call[d].irn)
      BY <2>2, <2>3, <2>6 DEF Firs!Transmit, Stages, Signed, Transmitted, Confirmed
    <3> QED
      BY <2>2, <3>1 DEF Firs!Next
  <2>7. CASE work[d].stage = Confirmed
    <3>1. Firs!Confirm(call[d].irn)
      BY <2>2, <2>3, <2>7 DEF Firs!Confirm, Stages, Signed, Transmitted, Confirmed
    <3> QED
      BY <2>2, <3>1 DEF Firs!Next
  <2> QED
    BY <2>2, <2>4, <2>5, <2>6, <2>7, StepsInStages
<1> QED
  BY <1>1, <1>2, InvHolds, PTL DEF Spec, FirsOrder, Firs!Spec

-----------------------------------------------------------------------------
(* Fresh tokens *)

\* The life of the stored token, as it is counted, ends at most the margin later
\* than it really does.
FreshInv ==
  token.access # 0 => \/ "slow" \in mishaps
                      \/ token.expires <= expiry[token.access] + Margin

\* Only a save changes the stored token, and an issued token keeps its end.
LEMMA TokenSteps ==
  ASSUME TypeOK, [Next]_vars
  PROVE  /\ mishaps \subseteq mishaps'
         /\ \A n \in TokenIds : n <= issued => expiry'[n] = expiry[n]
         /\ token' = token \/ \E q \in Callers : SaveToken(q)
<1> USE TimesAssumption
<1>1. ASSUME NEW d \in Deliveries, WebhookStep(d) \/ GoroutineStep(d)
      PROVE  mishaps \subseteq mishaps' /\ UNCHANGED tokenVars
  BY <1>1 DEF WebhookStep, GoroutineStep, CreateInvoice, ValidateIRN, SignIRN,
              UpdateZohoInvoice, ConvertZohoToFIRS, CallFirs, RecordAnswer, CorrectAnswer, Save
<1>2. ASSUME NEW q \in Callers, FindToken(q) \/ SaveToken(q)
      PROVE  mishaps \subseteq mishaps' /\ UNCHANGED <<expiry, issued>>
  BY <1>2 DEF FindToken, SaveToken, Note, tokenVars
<1>3. ASSUME NEW q \in Callers, AskZoho(q)
      PROVE  /\ UNCHANGED <<mishaps, token>>
             /\ \A n \in TokenIds : n <= issued => expiry'[n] = expiry[n]
  <2>1. \/ issued' = issued + 1 /\ expiry' = [expiry EXCEPT ![issued'] = now + Lifetime]
        \/ UNCHANGED expiry
    BY <1>3 DEF AskZoho
  <2>2. issued \in Nat /\ TokenIds \subseteq Nat /\ DOMAIN expiry = TokenIds
    BY DEF TypeOK, TokenIds
  <2>3. \A n \in TokenIds : n <= issued => n # issued + 1
    BY <2>2
  <2>4. \A n \in TokenIds : n <= issued => expiry'[n] = expiry[n]
    BY <2>1, <2>2, <2>3
  <2> QED
    BY <1>3, <2>4 DEF AskZoho
<1>4. ASSUME Stop \/ Tick \/ UNCHANGED vars
      PROVE  mishaps \subseteq mishaps' /\ UNCHANGED tokenVars
  BY <1>4 DEF Stop, Tick, vars
<1>5. ASSUME NEW q \in Callers, FindToken(q)
      PROVE  UNCHANGED token
  BY <1>5 DEF FindToken, tokenVars
<1> QED
  BY <1>1, <1>2, <1>3, <1>4, <1>5, StepKinds DEF TokenStep, tokenVars

LEMMA FreshStays ==
  ASSUME TokenInv, TypeOK', FreshInv, [Next]_vars
  PROVE  FreshInv'
<1> USE TimesAssumption
<1>0. TypeOK /\ token.access \in 0..MaxTokens /\ token.access <= issued
  BY DEF TokenInv, TypeOK
<1>1. CASE token' = token
  <2>1. token.access # 0 => expiry'[token.access] = expiry[token.access]
    BY <1>0, TokenSteps DEF TokenIds
  <2> QED
    BY <1>0, <1>1, <2>1, TokenSteps DEF FreshInv
<1>2. ASSUME NEW q \in Callers, SaveToken(q), token' # token
      PROVE  FreshInv'
  <2>1. /\ token' = [access |-> call[q].got, refresh |-> Kept(q), expires |-> now + Lifetime]
        /\ Note("slow", now > call[q].since + Margin)
        /\ UNCHANGED expiry
    BY <1>2 DEF SaveToken
  <2>2. /\ expiry[call[q].got] = call[q].since + Lifetime
        /\ call[q].since \in 0..MaxNow /\ now \in 0..MaxNow
    BY <1>0, <1>2, CallParts DEF SaveToken, TokenInv, HoldsToken, TypeOK
  <2>3. token'.access = call[q].got /\ token'.expires = now + Lifetime
    BY <2>1
  <2>4. now > call[q].since + Margin => "slow" \in mishaps'
    BY <2>1 DEF Note
  <2>5. ~(now > call[q].since + Margin) =>
          now + Lifetime <= expiry[call[q].got] + Margin
    BY <2>2
  <2> QED
    BY <2>1, <2>3, <2>4, <2>5 DEF FreshInv
<1> QED
  BY <1>0, <1>1, <1>2, TokenSteps

\* A token that is used because it counts as fresh has not expired, unless its
\* save took longer than the margin (GetValidAccessToken, UpdateZohoToken).
THEOREM FreshHolds == Spec => []FreshIsValid
<1>1. Init => FreshInv
  BY DEF Init, FreshInv
<1>2. TokenInv /\ TokenInv' /\ FreshInv /\ [Next]_vars => FreshInv'
  BY FreshStays DEF TokenInv
<1>3. TokenInv /\ FreshInv => FreshIsValid
  <2> SUFFICES ASSUME TokenInv, FreshInv, token.access # 0, Fresh, "slow" \notin mishaps
               PROVE  now <= expiry[token.access]
    BY DEF FreshIsValid
  <2>1. /\ token.access \in TokenIds /\ now \in Nat /\ Margin \in Nat
        /\ token.expires \in Nat
    BY TimesAssumption DEF TokenInv, TypeOK, TokenIds
  <2>2. expiry[token.access] \in Nat
    BY <2>1 DEF TokenInv, TypeOK
  <2>3. now + Margin <= token.expires /\ token.expires <= expiry[token.access] + Margin
    BY DEF Fresh, FreshInv
  <2> QED
    BY <2>1, <2>2, <2>3
<1> QED
  BY <1>1, <1>2, <1>3, InvHolds, PTL DEF Spec

-----------------------------------------------------------------------------
(* The newest refresh token *)

Disturbed == mishaps \cap {"crossed", "stopped", "unsaved"} # {}

OneRenews == \A p, q \in Callers : Renewing(p) /\ Renewing(q) => p = q

\* What a caller that renews has at hand.
Renews(q) ==
  /\ call[q].pc = "exchange" => token.refresh = 0
  /\ call[q].pc = "refresh" => call[q].old = token.refresh
  /\ call[q].pc = "save" => Kept(q) = newest

\* As long as callers renew one after another, the newest refresh token that
\* came is the one that is stored or the one about to be.
NewestInv ==
  \/ Disturbed
  \/ /\ OneRenews
     /\ token.refresh = newest \/ \E q \in Callers : call[q].pc = "save"
     /\ \A q \in Callers : Renews(q)

\* Callers that neither take up nor end a renewal.
LEMMA NewestUntouched ==
  ASSUME NewestInv, mishaps \subseteq mishaps', UNCHANGED tokenVars,
         \A q \in Callers : \/ call'[q] = call[q]
                            \/ call[q].pc # "save" /\ ~Renewing(q)'
  PROVE  NewestInv'
<1> SUFFICES ASSUME ~Disturbed, ~Disturbed'
             PROVE  NewestInv'
  BY DEF NewestInv, Disturbed
<1>1. \A q \in Callers : Renewing(q)' => call'[q] = call[q] /\ Renewing(q)
  BY DEF Renewing
<1>2. OneRenews'
  BY <1>1 DEF NewestInv, OneRenews
<1>3. \A q \in Callers : call[q].pc = "save" => call'[q].pc = "save"
  OBVIOUS
<1>4. token'.refresh = newest' \/ \E q \in Callers : call'[q].pc = "save"
  BY <1>3 DEF NewestInv, tokenVars
<1>5. ASSUME NEW q \in Callers PROVE Renews(q)'
  BY <1>1 DEF NewestInv, Renews, Renewing, Kept, tokenVars
<1> QED
  BY <1>2, <1>4, <1>5 DEF NewestInv

\* A caller finds the stored token, or takes up a renewal.
LEMMA FindNewest ==
  ASSUME TokenInv, NewestInv, NEW q \in Callers, FindToken(q)
  PROVE  NewestInv'
<1>1. /\ call[q].pc = "find" /\ UNCHANGED tokenVars /\ mishaps \subseteq mishaps'
      /\ call[q].pc # "save" /\ TypeOK
  BY DEF FindToken, Note, TokenInv
<1>2. CASE \/ call' = [call EXCEPT ![q].pc = "refresh", ![q].old = token.refresh]
              /\ Note("crossed", ~Alone(q))
           \/ /\ token.access = 0
              /\ To(q, "exchange") /\ Note("crossed", ~Alone(q))
  <2>1. /\ \A p \in Callers \ {q} : call'[p] = call[p]
        /\ call'[q].pc \in {"refresh", "exchange"}
        /\ call'[q].pc = "refresh" => call'[q].old = token.refresh
        /\ call'[q].pc = "exchange" => token.refresh = 0
    <3>1. CASE call' = [call EXCEPT ![q].pc = "refresh", ![q].old = token.refresh]
      BY <1>1, <3>1 DEF TypeOK, Call
    <3>2. CASE To(q, "exchange") /\ token.access = 0
      BY <1>1, <3>2, ToType DEF TokenInv
    <3> QED
      BY <1>2, <3>1, <3>2
  <2> SUFFICES ASSUME ~Disturbed'
               PROVE  NewestInv'
    BY DEF NewestInv
  <2>2. ~Disturbed /\ Alone(q)
    BY <1>1, <1>2 DEF Disturbed, Note
  <2>3. \A p \in Callers \ {q} : ~Renewing(p)'
    BY <2>1, <2>2 DEF Alone, Renewing
  <2>4. OneRenews'
    BY <2>3 DEF OneRenews
  <2>5. \A p \in Callers : call[p].pc # "save"
    BY <1>1, <2>2 DEF Alone, Renewing
  <2>6. token'.refresh = newest'
    BY <1>1, <2>2, <2>5 DEF NewestInv, tokenVars
  <2>7. ASSUME NEW p \in Callers PROVE Renews(p)'
    <3>1. CASE p = q
      BY <1>1, <2>1, <3>1 DEF Renews, tokenVars
    <3>2. CASE p # q
      BY <2>3, <3>2 DEF Renews, Renewing
    <3> QED
      BY <3>1, <3>2
  <2> QED
    BY <2>4, <2>6, <2>7 DEF NewestInv
<1>3. CASE Got(q) \/ To(q, "failed")
  <2>1. /\ \A p \in Callers \ {q} : call'[p] = call[p]
        /\ call'[q].pc \in {"notify", "answered", "failed"}
    BY <1>1, <1>3, GotType, ToType
  <2>2. ~Renewing(q)'
    BY <2>1 DEF Renewing
  <2> QED
    BY <1>1, <2>1, <2>2, NewestUntouched
<1> QED
  BY <1>2, <1>3 DEF FindToken

\* Zoho answers a caller, or nothing comes.
LEMMA AskNewest ==
  ASSUME TypeOK, NewestInv, NEW q \in Callers, AskZoho(q)
  PROVE  NewestInv'
<1>1. call[q].pc \in {"exchange", "refresh"} /\ UNCHANGED <<token, mishaps>>
  BY DEF AskZoho
<1> SUFFICES ASSUME ~Disturbed
             PROVE  NewestInv'
  BY <1>1 DEF NewestInv, Disturbed
<1>2. ASSUME \A p \in Callers \ {q} : call'[p] = call[p]
      PROVE  /\ \A p \in Callers \ {q} : ~Renewing(p) /\ ~Renewing(p)'
             /\ \A p \in Callers : call[p].pc # "save"
             /\ OneRenews'
             /\ \A p \in Callers \ {q} : Renews(p)'
             /\ token.refresh = newest
  <2>1. \A p \in Callers \ {q} : ~Renewing(p) /\ ~Renewing(p)'
    BY <1>1, <1>2 DEF NewestInv, OneRenews, Renewing
  <2>2. \A p \in Callers : call[p].pc # "save"
    BY <1>1, <2>1 DEF Renewing
  <2>3. OneRenews' /\ \A p \in Callers \ {q} : Renews(p)'
    BY <2>1 DEF OneRenews, Renews, Renewing
  <2> QED
    BY <2>1, <2>2, <2>3 DEF NewestInv
<1>3. CASE To(q, "failed") /\ UNCHANGED newest
  <2>1. /\ \A p \in Callers \ {q} : call'[p] = call[p]
        /\ call'[q].pc = "failed"
    BY <1>3, ToType
  <2>2. Renews(q)'
    BY <2>1 DEF Renews
  <2> QED
    BY <1>1, <1>2, <1>3, <2>1, <2>2 DEF NewestInv
<1>4. ASSUME NEW rotated \in BOOLEAN,
             newest' = IF rotated THEN issued' ELSE newest,
             call' = [call EXCEPT ![q] = [@ EXCEPT
                        !.pc = "save", !.asked = call[q].pc, !.got = issued',
                        !.rotated = rotated, !.since = now]]
      PROVE  NewestInv'
  <2>1. /\ call'[q] = [call[q] EXCEPT !.pc = "save", !.asked = call[q].pc,
                         !.got = issued', !.rotated = rotated, !.since = now]
        /\ \A p \in Callers \ {q} : call'[p] = call[p]
    BY <1>4 DEF TypeOK
  <2>2. /\ call'[q].pc = "save" /\ call'[q].got = issued'
        /\ call'[q].asked = call[q].pc
        /\ call'[q].rotated = rotated /\ call'[q].old = call[q].old
    BY <2>1, CallParts DEF Call
  <2>3. Kept(q)' = newest'
    <3>1. CASE rotated
      BY <1>4, <2>2, <3>1 DEF Kept
    <3>2. CASE ~rotated
      <4>1. newest' = token.refresh
        BY <1>2, <1>4, <2>1, <3>2
      <4>2. CASE call[q].pc = "refresh"
        <5>1. call[q].old = token.refresh
          BY <4>2 DEF NewestInv, Renews
        <5> QED
          BY <2>2, <3>2, <4>1, <4>2, <5>1 DEF Kept
      <4>3. CASE call[q].pc = "exchange"
        <5>1. token.refresh = 0
          BY <4>3 DEF NewestInv, Renews
        <5> QED
          BY <2>2, <3>2, <4>1, <4>3, <5>1 DEF Kept
      <4> QED
        BY <1>1, <4>2, <4>3
    <3> QED
      BY <3>1, <3>2
  <2>4. Renews(q)'
    BY <2>2, <2>3 DEF Renews
  <2> QED
    BY <1>2, <2>1, <2>2, <2>4 DEF NewestInv
<1> QED
  BY <1>3, <1>4 DEF AskZoho

\* A renewal is stored, or its save fails.
LEMMA SaveNewest ==
  ASSUME TypeOK, NewestInv, NEW q \in Callers, SaveToken(q)
  PROVE  NewestInv'
<1>1. /\ call[q].pc = "save" /\ UNCHANGED newest
      /\ call'[q].pc \in {"notify", "answered", "failed"}
      /\ \A p \in Callers \ {q} : call'[p] = call[p]
  BY GotType, ToType DEF SaveToken
<1> SUFFICES ASSUME ~Disturbed'
             PROVE  NewestInv'
  BY DEF NewestInv
<1>2. /\ ~Disturbed
      /\ token' = [access |-> call[q].got, refresh |-> Kept(q), expires |-> now + Lifetime]
  BY DEF SaveToken, Note, Disturbed
<1>3. \A p \in Callers : ~Renewing(p)'
  BY <1>1, <1>2 DEF NewestInv, OneRenews, Renewing
<1>4. token'.refresh = newest'
  BY <1>1, <1>2 DEF NewestInv, Renews
<1>5. OneRenews' /\ \A p \in Callers : Renews(p)'
  BY <1>3 DEF OneRenews, Renews, Renewing
<1> QED
  BY <1>4, <1>5 DEF NewestInv

LEMMA NewestStays ==
  ASSUME TokenInv, NewestInv, [Next]_vars
  PROVE  NewestInv'
<1>0. mishaps \subseteq mishaps' /\ TypeOK
  BY TokenSteps DEF TokenInv
<1>1. ASSUME NEW d \in Deliveries, WebhookStep(d)
      PROVE  NewestInv'
  <2>1. call[d].pc \in {"new", "irn", "signIRN", "notify"}
    BY <1>1 DEF WebhookStep, CreateInvoice, ValidateIRN, SignIRN, UpdateZohoInvoice
  <2>2. /\ UNCHANGED tokenVars
        /\ call'[d].pc \in {"irn", "signIRN", "find", "told", "failed"}
        /\ \A p \in Callers \ {d} : call'[p] = call[p]
    BY <1>0, <1>1, WebhookMoves
  <2>3. ~Renewing(d)'
    BY <2>2 DEF Renewing
  <2> QED
    BY <1>0, <2>1, <2>2, <2>3, NewestUntouched
<1>2. ASSUME NEW d \in Deliveries, GoroutineStep(d)
      PROVE  NewestInv'
  BY <1>0, <1>2, GoroutineMoves, NewestUntouched
<1>3. ASSUME NEW q \in Callers, TokenStep(q)
      PROVE  NewestInv'
  BY <1>0, <1>3, FindNewest, AskNewest, SaveNewest DEF TokenStep
<1>4. CASE Stop
  BY <1>4 DEF Stop, NewestInv, Disturbed
<1>5. CASE Tick
  BY <1>0, <1>5, NewestUntouched DEF Tick
<1>6. CASE UNCHANGED vars
  BY <1>0, <1>6, NewestUntouched DEF vars
<1> QED
  BY <1>1, <1>2, <1>3, <1>4, <1>5, <1>6, StepKinds

\* Callers that renew the token one after another, and whose saves succeed, leave
\* the newest refresh token stored that Zoho's answers brought: an answer without
\* one has an older read stored again, and a lost answer changes nothing
\* (GetValidAccessToken).
THEOREM NewestHolds == Spec => []NewestRefreshToken
<1>1. Init => NewestInv
  <2> SUFFICES ASSUME Init PROVE NewestInv
    OBVIOUS
  <2>1. \A q \in Callers : call[q].pc \in {"new", "find"}
    BY DEF Init
  <2> QED
    BY <2>1 DEF Init, NewestInv, OneRenews, Renews, Renewing
<1>2. TokenInv /\ NewestInv /\ [Next]_vars => NewestInv'
  BY NewestStays
<1>3. NewestInv => NewestRefreshToken
  BY DEF NewestInv, Disturbed, NewestRefreshToken
<1> QED
  BY <1>1, <1>2, <1>3, InvHolds, PTL DEF Spec
=============================================================================
