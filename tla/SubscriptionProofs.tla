------------------------- MODULE SubscriptionProofs -------------------------
(***************************************************************************)
(* Proofs about Subscription, for any number of references, webhooks,      *)
(* uploads and rows, and any plans.                                        *)
(***************************************************************************)
EXTENDS Subscription, FiniteSetTheorems, TLAPS

-----------------------------------------------------------------------------
(* Types *)

\* What a webhook writes is a row.
LEMMA FreshRowType ==
  ASSUME TypeOK, NEW r \in Refs
  PROVE  FreshRow(r) \in Row
BY QuotaAssumption, CycleAssumption DEF TypeOK, FreshRow, Row

\* The steps of a subscribe request, and of Paystack, keep the types.
LEMMA SubscribeType ==
  ASSUME TypeOK, NEW r \in Refs, SubscribeStep(r)
  PROVE  TypeOK'
<1>1. CASE Subscribe(r)
  BY <1>1 DEF TypeOK, Subscribe, TxnStatus
<1>2. CASE ProviderRejects(r)
  BY <1>2 DEF TypeOK, ProviderRejects, TxnStatus
<1>3. CASE ProviderAccepts(r)
  BY <1>3 DEF TypeOK, ProviderAccepts, TxnStatus
<1>4. CASE ReturnPaymentPage(r)
  BY <1>4 DEF TypeOK, ReturnPaymentPage, TxnStatus
<1>5. ASSUME NEW k \in Kinds, Emit(r, k)
      PROVE  TypeOK'
  BY <1>5 DEF TypeOK, Emit
<1> QED
  BY <1>1, <1>2, <1>3, <1>4, <1>5 DEF SubscribeStep

\* The steps of a webhook goroutine keep the types, and its reference known.
LEMMA HookType ==
  ASSUME TypeOK, NEW d \in Deliveries, HookStep(d)
  PROVE  TypeOK'
<1> USE BoundsAssumption
<1>1. ASSUME NEW e \in events, Fetch(d, e)
      PROVE  TypeOK'
  <2>1. e \in [ref: Refs, kind: EventKinds]
    BY KindsAssumption DEF TypeOK
  <2>2. [pc |-> "save", ref |-> e.ref, kind |-> e.kind,
         prev |-> txn[e.ref], sub |-> 0] \in Hook
    BY <2>1 DEF TypeOK, Hook
  <2>3. hook' \in [Deliveries -> Hook]
    BY <1>1, <2>2 DEF TypeOK, Fetch
  <2>4. \A c \in Deliveries : hook'[c].pc # "new" => hook'[c].ref \in Refs
    BY <1>1, <2>1 DEF TypeOK, Fetch
  <2>5. raced' \subseteq Refs
    BY <1>1, <2>1 DEF TypeOK, Fetch
  <2> QED
    BY <1>1, <2>3, <2>4, <2>5 DEF TypeOK, Fetch
<1>2. CASE SaveStatus(d)
  <2>1. hook[d].ref \in Refs
    BY <1>2 DEF TypeOK, SaveStatus
  <2>2. StatusOf(hook[d].kind) \in TxnStatus
    BY DEF StatusOf, TxnStatus
  <2>3. hook' \in [Deliveries -> Hook]
    BY <1>2 DEF TypeOK, SaveStatus, Hook
  <2> QED
    BY <1>2, <2>1, <2>2, <2>3 DEF TypeOK, SaveStatus
<1>3. CASE Lookup(d)
  <2>1. hook[d] \in Hook /\ last \in 0..MaxRows
    BY DEF TypeOK
  <2>2. [hook[d] EXCEPT !.pc = "grant", !.sub = last] \in Hook
    BY <2>1 DEF Hook
  <2>3. hook' = [hook EXCEPT ![d] = [hook[d] EXCEPT !.pc = "grant", !.sub = last]]
    BY <1>3 DEF Lookup
  <2>4. hook' \in [Deliveries -> Hook]
    BY <2>2, <2>3 DEF TypeOK
  <2> QED
    BY <1>3, <2>4 DEF TypeOK, Lookup
<1>4. CASE Grant(d)
  <2>1. hook[d].ref \in Refs
    BY <1>4 DEF TypeOK, Grant
  <2>2. FreshRow(hook[d].ref) \in Row /\ Quota[hook[d].ref] \in Nat
    BY <2>1, FreshRowType, QuotaAssumption
  <2> DEFINE i == IF hook[d].sub = 0 THEN last + 1 ELSE hook[d].sub
  <2>3. i \in RowIds /\ i \in 0..MaxRows
    BY <1>4 DEF Grant, RowIds
  <2>4. hook' \in [Deliveries -> Hook]
    <3>1. hook' = [hook EXCEPT ![d] = [@ EXCEPT !.pc = "granted", !.sub = i]]
      BY <1>4 DEF TypeOK, Grant
    <3>2. hook[d] \in Hook
      BY DEF TypeOK
    <3> HIDE DEF i
    <3>3. [hook[d] EXCEPT !.pc = "granted", !.sub = i] \in Hook
      BY <2>3, <3>2 DEF Hook
    <3> QED
      BY <3>1, <3>3 DEF TypeOK
  <2>5. rows' \in [RowIds -> Row] /\ grantedTo' \in [RowIds -> Nat]
    BY <1>4, <2>2, <2>3 DEF TypeOK, Grant
  <2>6. last' \in 0..MaxRows
    BY <1>4, <2>3 DEF TypeOK, Grant
  <2>7. \A c \in Deliveries : hook'[c].pc # "new" => hook'[c].ref \in Refs
    BY <1>4, <2>1 DEF TypeOK, Grant
  <2> HIDE DEF i
  <2> QED
    BY <1>4, <2>4, <2>5, <2>6, <2>7 DEF TypeOK, Grant
<1>5. CASE HookStops(d)
  <2>1. hook' \in [Deliveries -> Hook]
    BY <1>5 DEF TypeOK, HookStops, Hook
  <2> QED
    BY <1>5, <2>1 DEF TypeOK, HookStops
<1> QED
  BY <1>1, <1>2, <1>3, <1>4, <1>5 DEF HookStep

\* The steps of an upload keep the types, and the row of a checked one known.
LEMMA RequestType ==
  ASSUME TypeOK, NEW u \in Requests, RequestStep(u)
  PROVE  TypeOK'
<1> USE BoundsAssumption
<1>1. ASSUME Subscribed, KeepExpired(u)
      PROVE  /\ req' \in [Requests -> Req]
             /\ req'[u].pc = "expire" /\ req'[u].sub \in RowIds
             /\ \A v \in Requests \ {u} : req'[v] = req[v]
  <2>1. last \in RowIds /\ rows[last] \in Row
    BY <1>1 DEF TypeOK, Subscribed, RowIds
  <2>2. [rows[last] EXCEPT !.active = FALSE] \in Row
    BY <2>1 DEF Row
  <2>3. [pc |-> "expire", sub |-> last,
         copy |-> [rows[last] EXCEPT !.active = FALSE]] \in Req
    BY <2>1, <2>2 DEF TypeOK, Req
  <2> QED
    BY <1>1, <2>1, <2>3 DEF TypeOK, KeepExpired
<1>2. ASSUME Refuse(u)
      PROVE  /\ req' \in [Requests -> Req]
             /\ req'[u].pc = "refused"
             /\ \A v \in Requests \ {u} : req'[v] = req[v]
  BY <1>2 DEF TypeOK, Refuse, Req
<1>3. CASE RequireSubscription(u)
  <2>1. CASE req' = [req EXCEPT ![u].pc = "unmetered"]
    <3>1. req' \in [Requests -> Req]
      BY <2>1 DEF TypeOK, Req
    <3> QED
      BY <1>3, <2>1, <3>1 DEF TypeOK, RequireSubscription
  <2> QED
    BY <1>1, <1>2, <1>3, <2>1 DEF TypeOK, RequireSubscription
<1>4. CASE CheckQuota(u)
  <2>1. CASE Subscribed /\ req' = [req EXCEPT ![u].pc = "checked", ![u].sub = last]
    <3>1. last \in RowIds
      BY <2>1 DEF TypeOK, Subscribed, RowIds
    <3>2. req' \in [Requests -> Req]
      BY <2>1 DEF TypeOK, Req
    <3> QED
      BY <1>4, <2>1, <3>1, <3>2 DEF TypeOK, CheckQuota
  <2> QED
    BY <1>1, <1>2, <1>4, <2>1 DEF TypeOK, CheckQuota
<1>5. CASE SaveExpired(u)
  <2>1. rows' \in [RowIds -> Row]
    BY <1>5 DEF TypeOK, SaveExpired, Req
  <2> QED
    BY <1>2, <1>5, <2>1 DEF TypeOK, SaveExpired
<1>6. CASE Reserve(u)
  <2>1. CASE req' = [req EXCEPT ![u].pc = "held"] /\ Reservable(rows[req[u].sub])
    <3>1. req[u].sub \in RowIds /\ rows[req[u].sub] \in Row
      BY <1>6 DEF TypeOK, Reserve
    <3>2. rows' \in [RowIds -> Row]
      BY <1>6, <2>1, <3>1 DEF TypeOK, Reserve, Reservable, Row
    <3>3. req' \in [Requests -> Req]
      BY <2>1 DEF TypeOK, Req
    <3> QED
      BY <1>6, <2>1, <3>1, <3>2, <3>3 DEF TypeOK, Reserve
  <2> QED
    BY <1>2, <1>6, <2>1 DEF TypeOK, Reserve
<1>7. CASE StoreInvoice(u)
  <2>1. req' \in [Requests -> Req]
    BY <1>7 DEF TypeOK, StoreInvoice, Req
  <2> QED
    BY <1>7, <2>1 DEF TypeOK, StoreInvoice
<1>8. CASE Release(u)
  <2>1. req[u].sub \in RowIds /\ rows[req[u].sub] \in Row
    BY <1>8 DEF TypeOK, Release
  <2>2. rows' \in [RowIds -> Row]
    BY <1>8, <2>1 DEF TypeOK, Release, Row
  <2>3. req' \in [Requests -> Req]
    BY <1>8 DEF TypeOK, Release, Req
  <2> QED
    BY <1>8, <2>1, <2>2, <2>3 DEF TypeOK, Release
<1>9. CASE Lose(u)
  <2>1. req' \in [Requests -> Req]
    BY <1>9 DEF TypeOK, Lose, Req
  <2> QED
    BY <1>9, <2>1 DEF TypeOK, Lose
<1> QED
  BY <1>3, <1>4, <1>5, <1>6, <1>7, <1>8, <1>9 DEF RequestStep

\* Every variable keeps its type, a goroutine past its first read has a
\* reference, and a request past its check has a row.
THEOREM TypeCorrect == Spec => []TypeOK
<1>1. Init => TypeOK
  BY BoundsAssumption
     DEF Init, TypeOK, TxnStatus, Hook, Req, Row, NoRow, EventKinds, RowIds
<1>2. TypeOK /\ [Next]_vars => TypeOK'
  <2> SUFFICES ASSUME TypeOK, [Next]_vars
               PROVE  TypeOK'
    OBVIOUS
  <2>1. CASE Tick
    BY <2>1 DEF TypeOK, Tick
  <2>2. CASE UNCHANGED vars
    BY <2>2 DEF TypeOK, vars
  <2> QED
    BY <2>1, <2>2, SubscribeType, HookType, RequestType DEF Next
<1> QED
  BY <1>1, <1>2, PTL DEF Spec

-----------------------------------------------------------------------------
(* Quota *)

\* The invoices a row still lets through: none once it is inactive.
Usable(row) == IF row.active THEN row.remaining ELSE 0

\* AcceptedWithinGranted is not inductive: a reservation needs room.  What is
\* accepted and what is still usable together fit in what was granted, and a
\* stale copy is never usable.
QuotaInv ==
  /\ \A i \in RowIds : Cardinality(Charged(i)) + Usable(rows[i]) <= grantedTo[i]
  /\ \A u \in Requests : req[u].pc = "expire" => ~req[u].copy.active

\* The uploads charged to a row can be counted.
LEMMA ChargedFinite ==
  ASSUME NEW i
  PROVE  IsFiniteSet(Charged(i)) /\ Cardinality(Charged(i)) \in Nat
BY FiniteAssumption, FS_Subset, FS_CardinalityType DEF Charged

\* A step that changes neither the requests nor the rows, nor lowers what was
\* granted, keeps the quota.
LEMMA QuotaFrame ==
  ASSUME QuotaInv, UNCHANGED <<rows, req, grantedTo>>
  PROVE  QuotaInv'
BY DEF QuotaInv, Charged, Usable

\* A payment adds as much to what was granted as it makes remain, so that a row
\* never has more to give than its grants leave.
LEMMA GrantQuota ==
  ASSUME TypeOK, QuotaInv, NEW d \in Deliveries, Grant(d)
  PROVE  QuotaInv'
<1> DEFINE r == hook[d].ref
           i == IF hook[d].sub = 0 THEN last + 1 ELSE hook[d].sub
<1>1. r \in Refs /\ Quota[r] \in Nat /\ i \in RowIds
  BY QuotaAssumption DEF TypeOK, Grant
<1>2. rows' = [rows EXCEPT ![i] = FreshRow(r)] /\ UNCHANGED req
      /\ grantedTo' = [grantedTo EXCEPT ![i] = @ + Quota[r]]
  BY DEF Grant
<1> HIDE DEF r, i
<1>3. ASSUME NEW j \in RowIds
      PROVE  Cardinality(Charged(j)') + Usable(rows'[j]) <= grantedTo'[j]
  <2>1. Charged(j)' = Charged(j) /\ Cardinality(Charged(j)) \in Nat
    BY <1>2, ChargedFinite DEF Charged
  <2>2. rows[j] \in Row /\ grantedTo[j] \in Nat
    BY DEF TypeOK
  <2>3. Cardinality(Charged(j)) + Usable(rows[j]) <= grantedTo[j]
    BY DEF QuotaInv
  <2>4. CASE j = i
    <3>1. Usable(rows'[j]) = Quota[r] /\ grantedTo'[j] = grantedTo[j] + Quota[r]
      BY <1>1, <1>2, <2>4 DEF TypeOK, FreshRow, Usable
    <3>2. Usable(rows[j]) \in Nat
      BY <2>2 DEF Usable, Row
    <3> QED
      BY <1>1, <2>1, <2>2, <2>3, <3>1, <3>2
  <2>5. CASE j # i
    <3>1. rows'[j] = rows[j] /\ grantedTo'[j] = grantedTo[j]
      BY <1>1, <1>2, <2>5 DEF TypeOK
    <3> QED
      BY <2>1, <2>3, <3>1
  <2> QED
    BY <2>4, <2>5
<1> QED
  BY <1>2, <1>3 DEF QuotaInv

\* A reservation takes from what remains the invoice that it accepts: the
\* conditions of the UPDATE, and not the check before it, carry the argument.
LEMMA ReserveQuota ==
  ASSUME TypeOK, QuotaInv, NEW u \in Requests, Reserve(u)
  PROVE  QuotaInv'
<1>0. PICK i \in RowIds : i = req[u].sub
  BY DEF TypeOK, Reserve
<1>1. i = req[u].sub /\ rows[i] \in Row /\ req[u].pc = "checked" /\ UNCHANGED grantedTo
  BY <1>0 DEF TypeOK, Reserve
<1>2. CASE /\ Reservable(rows[i])
           /\ rows' = [rows EXCEPT ![i].used = @ + 1, ![i].remaining = @ - 1]
           /\ req' = [req EXCEPT ![u].pc = "held"]
  <2>1. /\ \A v \in Requests \ {u} : req'[v] = req[v]
        /\ req'[u].pc = "held" /\ req'[u].sub = i
    BY <1>1, <1>2 DEF TypeOK, Req
  <2>2. Usable(rows'[i]) = Usable(rows[i]) - 1 /\ Usable(rows[i]) \in Nat
    BY <1>1, <1>2 DEF TypeOK, Reservable, Usable, Row
  <2>3. Charged(i)' = Charged(i) \cup {u} /\ u \notin Charged(i)
    BY <1>1, <2>1 DEF Charged
  <2>4. Cardinality(Charged(i)') = Cardinality(Charged(i)) + 1
    BY <2>3, ChargedFinite, FS_AddElement
  <2>5. \A j \in RowIds \ {i} : Charged(j)' = Charged(j) /\ rows'[j] = rows[j]
    BY <1>1, <1>2, <2>1 DEF TypeOK, Charged
  <2>6. \A j \in RowIds : grantedTo[j] \in Nat /\ Cardinality(Charged(j)) \in Nat
    BY ChargedFinite DEF TypeOK
  <2>7. ASSUME NEW j \in RowIds
        PROVE  Cardinality(Charged(j)') + Usable(rows'[j]) <= grantedTo[j]
    <3>1. Cardinality(Charged(j)) + Usable(rows[j]) <= grantedTo[j]
      BY DEF QuotaInv
    <3>2. CASE j = i
      BY <2>2, <2>4, <2>6, <3>1, <3>2
    <3>3. CASE j # i
      BY <2>5, <3>1, <3>3
    <3> QED
      BY <3>2, <3>3
  <2>8. \A v \in Requests : req'[v].pc = "expire" => ~req'[v].copy.active
    BY <2>1 DEF QuotaInv
  <2> QED
    BY <1>1, <2>7, <2>8 DEF QuotaInv
<1>3. CASE Refuse(u) /\ UNCHANGED rows
  <2>1. /\ \A v \in Requests \ {u} : req'[v] = req[v]
        /\ req'[u].pc = "refused"
    BY <1>3 DEF TypeOK, Refuse, Req
  <2>2. \A j : Charged(j)' = Charged(j)
    BY <1>1, <2>1 DEF Charged
  <2> QED
    BY <1>1, <1>3, <2>1, <2>2 DEF QuotaInv
<1> QED
  BY <1>1, <1>2, <1>3 DEF Reserve

\* Releasing gives one invoice back to the row it was taken from.
LEMMA ReleaseQuota ==
  ASSUME TypeOK, QuotaInv, NEW u \in Requests, Release(u)
  PROVE  QuotaInv'
<1>0. PICK i \in RowIds : i = req[u].sub
  BY DEF TypeOK, Release
<1>1. i = req[u].sub /\ rows[i] \in Row /\ req[u].pc = "held" /\ UNCHANGED grantedTo
  BY <1>0 DEF TypeOK, Release
<1>2. /\ \A v \in Requests \ {u} : req'[v] = req[v]
      /\ req'[u].pc = "released" /\ req'[u].sub = i
  BY <1>1 DEF TypeOK, Release, Req
<1>3. Usable(rows'[i]) <= Usable(rows[i]) + 1
      /\ Usable(rows[i]) \in Nat /\ Usable(rows'[i]) \in Nat
  BY <1>1 DEF TypeOK, Release, Usable, Row
<1>4. Charged(i)' = Charged(i) \ {u} /\ u \in Charged(i)
  BY <1>1, <1>2 DEF Charged
<1>5. Cardinality(Charged(i)') = Cardinality(Charged(i)) - 1
  BY <1>4, ChargedFinite, FS_RemoveElement
<1>6. \A j \in RowIds \ {i} : Charged(j)' = Charged(j) /\ rows'[j] = rows[j]
  BY <1>1, <1>2 DEF TypeOK, Charged, Release
<1>7. ASSUME NEW j \in RowIds
      PROVE  Cardinality(Charged(j)') + Usable(rows'[j]) <= grantedTo[j]
  <2>1. Cardinality(Charged(j)) + Usable(rows[j]) <= grantedTo[j]
    BY DEF QuotaInv
  <2>2. grantedTo[j] \in Nat /\ Cardinality(Charged(j)) \in Nat
    BY ChargedFinite DEF TypeOK
  <2>3. CASE j = i
    BY <1>3, <1>5, <2>1, <2>2, <2>3
  <2>4. CASE j # i
    BY <1>6, <2>1, <2>4
  <2> QED
    BY <2>3, <2>4
<1>8. \A v \in Requests : req'[v].pc = "expire" => ~req'[v].copy.active
  BY <1>2 DEF QuotaInv
<1> QED
  BY <1>1, <1>7, <1>8 DEF QuotaInv

\* Saving an expired copy may bring back an older count of what remains, but
\* on a row that lets nothing through.
LEMMA SaveExpiredQuota ==
  ASSUME TypeOK, QuotaInv, NEW u \in Requests, SaveExpired(u)
  PROVE  QuotaInv'
<1> DEFINE i == req[u].sub
<1>1. i \in RowIds /\ req[u].pc = "expire" /\ UNCHANGED grantedTo
      /\ rows[i] \in Row /\ ~req[u].copy.active
  BY DEF TypeOK, SaveExpired, QuotaInv
<1>2. /\ \A v \in Requests \ {u} : req'[v] = req[v]
      /\ req'[u].pc = "refused"
  BY DEF TypeOK, SaveExpired, Refuse, Req
<1>3. \A j : Charged(j)' = Charged(j)
  BY <1>1, <1>2 DEF Charged
<1>4. \A j \in RowIds : rows'[j] = rows[j] \/ ~rows'[j].active
  BY <1>1 DEF TypeOK, SaveExpired
<1>5. ASSUME NEW j \in RowIds
      PROVE  Cardinality(Charged(j)) + Usable(rows'[j]) <= grantedTo[j]
  <2>1. Cardinality(Charged(j)) + Usable(rows[j]) <= grantedTo[j]
    BY DEF QuotaInv
  <2>2. /\ grantedTo[j] \in Nat /\ Cardinality(Charged(j)) \in Nat
        /\ Usable(rows[j]) \in Nat
    BY ChargedFinite DEF TypeOK, Usable, Row
  <2> QED
    BY <1>4, <2>1, <2>2 DEF Usable
<1>6. \A v \in Requests : req'[v].pc = "expire" => ~req'[v].copy.active
  BY <1>2 DEF QuotaInv
<1> QED
  BY <1>1, <1>3, <1>5, <1>6 DEF QuotaInv

\* The steps of a request that leave the rows alone keep every Charged set.
LEMMA QuietRequestQuota ==
  ASSUME TypeOK, QuotaInv, NEW u \in Requests,
         \/ RequireSubscription(u) \/ CheckQuota(u) \/ StoreInvoice(u) \/ Lose(u)
  PROVE  QuotaInv'
<1>1. UNCHANGED <<rows, grantedTo>>
  BY DEF RequireSubscription, CheckQuota, StoreInvoice, Lose
<1>2. /\ \A v \in Requests \ {u} : req'[v] = req[v]
      /\ \/ /\ req[u].pc = "new"
            /\ req'[u].pc \in {"refused", "expire", "unmetered", "checked"}
         \/ /\ req[u].pc = "held" /\ req'[u].sub = req[u].sub
            /\ req'[u].pc \in {"created", "lost"}
  BY DEF TypeOK, Req, RequireSubscription, CheckQuota, StoreInvoice, Lose,
         Refuse, KeepExpired
<1>3. \A j : Charged(j)' = Charged(j)
  BY <1>2 DEF Charged
<1>4. req'[u].pc = "expire" => ~req'[u].copy.active
  <2>1. CASE KeepExpired(u) /\ Subscribed
    <3>1. rows[last] \in Row
      BY <2>1 DEF TypeOK, Subscribed, RowIds
    <3> QED
      BY <2>1, <3>1 DEF TypeOK, KeepExpired, Row
  <2>2. CASE ~(KeepExpired(u) /\ Subscribed)
    BY <2>2 DEF TypeOK, Req, RequireSubscription, CheckQuota, StoreInvoice, Lose,
           Refuse
  <2> QED
    BY <2>1, <2>2
<1> QED
  BY <1>1, <1>2, <1>3, <1>4 DEF QuotaInv

\* Quota is never oversold: for every number of uploads, webhooks, rows and
\* plans, what a row accepted is within what its payments granted.
THEOREM QuotaNeverOversold == Spec => []AcceptedWithinGranted
<1>1. Init => QuotaInv
  <2> SUFFICES ASSUME Init PROVE QuotaInv
    OBVIOUS
  <2>1. \A i \in RowIds : Charged(i) = {} /\ Usable(rows[i]) = 0
    BY DEF Init, Charged, Usable, NoRow
  <2> QED
    BY SMTT(20), <2>1, FS_EmptySet DEF Init, QuotaInv
<1>2. TypeOK /\ QuotaInv /\ [Next]_vars => QuotaInv'
  <2> SUFFICES ASSUME TypeOK, QuotaInv, [Next]_vars
               PROVE  QuotaInv'
    OBVIOUS
  <2>1. ASSUME NEW r \in Refs, SubscribeStep(r)
        PROVE  QuotaInv'
    BY <2>1, QuotaFrame
       DEF SubscribeStep, Subscribe, ProviderRejects, ProviderAccepts,
           ReturnPaymentPage, Emit
  <2>2. ASSUME NEW d \in Deliveries, HookStep(d)
        PROVE  QuotaInv'
    BY <2>2, GrantQuota, QuotaFrame
       DEF HookStep, Fetch, SaveStatus, Lookup, HookStops
  <2>3. ASSUME NEW u \in Requests, RequestStep(u)
        PROVE  QuotaInv'
    BY <2>3, ReserveQuota, ReleaseQuota, SaveExpiredQuota, QuietRequestQuota
       DEF RequestStep
  <2>4. CASE Tick \/ UNCHANGED vars
    BY <2>4, QuotaFrame DEF Tick, vars
  <2> QED
    BY <2>1, <2>2, <2>3, <2>4 DEF Next
<1>3. TypeOK /\ QuotaInv => AcceptedWithinGranted
  <2> SUFFICES ASSUME TypeOK, QuotaInv, NEW i \in RowIds
               PROVE  Cardinality(Charged(i)) <= grantedTo[i]
    BY DEF AcceptedWithinGranted
  <2>1. /\ grantedTo[i] \in Nat /\ Cardinality(Charged(i)) \in Nat
        /\ Usable(rows[i]) \in Nat
    BY ChargedFinite DEF TypeOK, Usable, Row
  <2> QED
    BY <2>1 DEF QuotaInv
<1> QED
  BY <1>1, <1>2, <1>3, TypeCorrect, PTL DEF Spec

-----------------------------------------------------------------------------
(* Payments *)

Settled == Refs \ (raced \cup regressed)

\* A webhook that has read the transaction and not yet saved its status.
Saving(d, r) == hook[d].ref = r /\ hook[d].pc = "save"

\* Only a reference whose payment page was returned has events.
PageInv ==
  /\ \A e \in events : checkout[e.ref] = "open"
  /\ \A d \in Deliveries : hook[d].pc # "new" => checkout[hook[d].ref] = "open"

\* For a reference no two webhooks handled at once and whose success stands:
\* one webhook is between its read and its save; a grantor means that success
\* is stored; and whoever still has to save an older status has no grantor
\* beside it.
PaymentInv ==
  \A r \in Settled :
    /\ \A d, o \in Deliveries : Saving(d, r) /\ Saving(o, r) => d = o
    /\ \A d, o \in Grantors(r) : d = o
    /\ Grantors(r) # {} => txn[r] = "success"
    /\ \A d \in Deliveries :
         Saving(d, r) /\ hook[d].prev # "success" => Grantors(r) = {}

\* Until its payment page is returned, a reference has no event and no webhook.
LEMMA PageStep ==
  ASSUME TypeOK, PageInv, [Next]_vars
  PROVE  PageInv'
<1>1. ASSUME NEW r \in Refs, SubscribeStep(r)
      PROVE  PageInv'
  <2>0. \/ UNCHANGED checkout
        \/ /\ checkout[r] # "open"
           /\ \/ checkout' = [checkout EXCEPT ![r] = "created"]
              \/ checkout' = [checkout EXCEPT ![r] = "accepted"]
              \/ checkout' = [checkout EXCEPT ![r] = "open"]
              \/ checkout' = [checkout EXCEPT ![r] = "closed"]
    BY <1>1 DEF SubscribeStep, Subscribe, ProviderRejects, ProviderAccepts,
                ReturnPaymentPage, Emit
  <2>1. \A q \in Refs : checkout[q] = "open" => checkout'[q] = "open"
    <3>1. DOMAIN checkout = Refs
      BY DEF TypeOK
    <3> QED
      BY <2>0, <3>1
  <2>2. \A e \in events' : e \in events \/ checkout[e.ref] = "open"
    <3>1. ASSUME NEW k \in Kinds, Emit(r, k)
          PROVE  \A e \in events' : e \in events \/ checkout[e.ref] = "open"
      BY <3>1 DEF Emit
    <3>2. ASSUME UNCHANGED events
          PROVE  \A e \in events' : e \in events \/ checkout[e.ref] = "open"
      BY <3>2
    <3> QED
      BY <1>1, <3>1, <3>2
         DEF SubscribeStep, Subscribe, ProviderRejects, ProviderAccepts,
             ReturnPaymentPage
  <2>3. UNCHANGED hook
    BY <1>1 DEF SubscribeStep, Subscribe, ProviderRejects, ProviderAccepts,
                ReturnPaymentPage, Emit
  <2>4. /\ \A e \in events' : e.ref \in Refs
        /\ \A d \in Deliveries : hook[d].pc # "new" => hook[d].ref \in Refs
    BY <1>1, SubscribeType DEF TypeOK
  <2> QED
    BY <2>1, <2>2, <2>3, <2>4 DEF PageInv
<1>2. ASSUME NEW d \in Deliveries, HookStep(d)
      PROVE  PageInv'
  BY <1>2 DEF HookStep, Fetch, SaveStatus, Lookup, Grant, HookStops,
              PageInv, TypeOK, Hook
<1>3. ASSUME NEW u \in Requests, RequestStep(u)
      PROVE  PageInv'
  BY <1>3 DEF RequestStep, RequireSubscription, CheckQuota, SaveExpired,
              Reserve, StoreInvoice, Release, Lose, PageInv
<1>4. CASE Tick \/ UNCHANGED vars
  BY <1>4 DEF Tick, vars, PageInv
<1> QED
  BY <1>1, <1>2, <1>3, <1>4 DEF Next

\* Steps that leave the webhooks and their transactions alone.
LEMMA PaymentFrame ==
  ASSUME PaymentInv, UNCHANGED <<hook, txn, raced, regressed>>
  PROVE  PaymentInv'
BY DEF PaymentInv, Settled, Saving, Grantors

\* The subscribe request writes only transactions that no webhook has seen.
LEMMA SubscribePayment ==
  ASSUME TypeOK, PageInv, PaymentInv, NEW r \in Refs, SubscribeStep(r)
  PROVE  PaymentInv'
<1>1. UNCHANGED <<hook, raced, regressed>>
  BY DEF SubscribeStep, Subscribe, ProviderRejects, ProviderAccepts,
         ReturnPaymentPage, Emit
<1>2. \A q \in Refs : txn'[q] = txn[q] \/ checkout[q] # "open"
  BY DEF TypeOK, SubscribeStep, Subscribe, ProviderRejects, ProviderAccepts,
         ReturnPaymentPage, Emit
<1>3. \A q \in Refs : checkout[q] # "open" => Grantors(q) = {}
  BY DEF PageInv, Grantors
<1> QED
  BY <1>1, <1>2, <1>3 DEF PaymentInv, Settled, Saving, Grantors

\* A fetched webhook that may still grant read a status other than success, so
\* that its reference has no grantor yet.
LEMMA FetchPayment ==
  ASSUME TypeOK, PaymentInv, NEW d \in Deliveries, NEW e \in events, Fetch(d, e)
  PROVE  PaymentInv'
<1>1. /\ hook'[d].pc = "save" /\ hook'[d].ref = e.ref
      /\ hook'[d].prev = txn[e.ref] /\ hook[d].pc = "new"
      /\ \A o \in Deliveries \ {d} : hook'[o] = hook[o]
      /\ UNCHANGED <<txn, regressed>>
  BY DEF TypeOK, Fetch
<1>2. \A r : Grantors(r)' = Grantors(r)
  BY <1>1 DEF Grantors
<1>3. raced \subseteq raced'
  BY DEF Fetch
<1>4. ASSUME NEW o \in Deliveries, Saving(o, e.ref)
      PROVE  e.ref \in raced'
  BY <1>4 DEF Fetch, Saving
<1>5. \A o \in Deliveries \ {d} : \A r : Saving(o, r)' <=> Saving(o, r)
  BY <1>1 DEF Saving
<1> SUFFICES ASSUME NEW r \in Settled'
             PROVE  /\ \A c, o \in Deliveries : Saving(c, r)' /\ Saving(o, r)' => c = o
                    /\ \A c, o \in Grantors(r) : c = o
                    /\ Grantors(r) # {} => txn[r] = "success"
                    /\ \A c \in Deliveries :
                         Saving(c, r)' /\ hook'[c].prev # "success"
                           => Grantors(r) = {}
  BY <1>1, <1>2 DEF PaymentInv
<1>6. r \in Settled
  BY <1>1, <1>3 DEF Settled
<1>7. CASE r = e.ref
  <2>1. \A o \in Deliveries : ~Saving(o, r)
    BY <1>4, <1>7 DEF Settled
  <2> QED
    BY <1>1, <1>5, <1>6, <1>7, <2>1 DEF PaymentInv
<1>8. CASE r # e.ref
  <2>1. ~Saving(d, r)'
    BY <1>1, <1>8 DEF Saving
  <2> QED
    BY <1>1, <1>5, <1>6, <2>1 DEF PaymentInv
<1> QED
  BY <1>7, <1>8

\* The webhook that turns a reference into success becomes its only grantor,
\* unless another one was saving it at once or its success was overwritten.
LEMMA SaveStatusPayment ==
  ASSUME TypeOK, PaymentInv, NEW d \in Deliveries, SaveStatus(d)
  PROVE  PaymentInv'
<1>0. PICK q \in Refs : q = hook[d].ref
  BY DEF TypeOK, SaveStatus
<1>1. /\ hook[d].pc = "save" /\ hook'[d].ref = q
      /\ hook'[d].pc = IF Earns(d) THEN "lookup" ELSE "done"
      /\ \A o \in Deliveries \ {d} : hook'[o] = hook[o]
      /\ txn'[q] = StatusOf(hook[d].kind)
      /\ \A r \in Refs \ {q} : txn'[r] = txn[r]
      /\ UNCHANGED raced /\ regressed \subseteq regressed'
  BY <1>0 DEF TypeOK, SaveStatus, Hook
<1>2. \A o \in Deliveries : \A r : Saving(o, r)' <=> o # d /\ Saving(o, r)
  BY <1>1 DEF Saving
<1>3. \A r : r # q => Grantors(r)' = Grantors(r)
  BY <1>0, <1>1 DEF Grantors
<1>4. Grantors(q)' = IF Earns(d) THEN Grantors(q) \cup {d} ELSE Grantors(q)
  BY <1>0, <1>1 DEF Grantors
<1>5. Saving(d, q)
  BY <1>0, <1>1 DEF Saving
<1>6. Settled' \subseteq Settled
  BY <1>1 DEF Settled
<1>7. \A o \in Deliveries \ {d} : hook'[o].prev = hook[o].prev
  BY <1>1
<1>8. ASSUME NEW r \in Settled', r # q
      PROVE  /\ \A c, o \in Deliveries : Saving(c, r)' /\ Saving(o, r)' => c = o
             /\ \A c, o \in Grantors(r)' : c = o
             /\ Grantors(r)' # {} => txn'[r] = "success"
             /\ \A c \in Deliveries :
                  Saving(c, r)' /\ hook'[c].prev # "success" => Grantors(r)' = {}
  <2>1. r \in Settled /\ txn'[r] = txn[r]
    BY <1>1, <1>6, <1>8 DEF Settled
  <2> QED
    BY <1>2, <1>3, <1>7, <1>8, <2>1 DEF PaymentInv
<1>9. ASSUME q \in Settled'
      PROVE  /\ \A c, o \in Deliveries : Saving(c, q)' /\ Saving(o, q)' => c = o
             /\ \A c, o \in Grantors(q)' : c = o
             /\ Grantors(q)' # {} => txn'[q] = "success"
             /\ \A c \in Deliveries :
                  Saving(c, q)' /\ hook'[c].prev # "success" => Grantors(q)' = {}
  <2>1. q \in Settled
    BY <1>6, <1>9
  <2>2. \A o \in Deliveries : ~Saving(o, q)'
    BY <1>2, <1>5, <2>1 DEF PaymentInv
  <2>3. CASE Earns(d)
    <3>1. Grantors(q) = {} /\ txn'[q] = "success"
      BY <1>1, <1>5, <2>1, <2>3 DEF PaymentInv, Earns
    <3> QED
      BY <1>4, <2>2, <2>3, <3>1
  <2>4. CASE ~Earns(d)
    <3>1. Grantors(q) # {} => txn[q] = "success" /\ \A c, o \in Grantors(q) : c = o
      BY <2>1 DEF PaymentInv
    <3>2. txn[q] = "success" => txn'[q] = "success"
      BY <1>0, <1>1, <1>9 DEF SaveStatus, Settled
    <3>3. \A c, o \in Grantors(q) : c = o
      BY <2>1 DEF PaymentInv
    <3> QED
      BY <1>4, <2>2, <2>4, <3>1, <3>2, <3>3
  <2> QED
    BY <2>3, <2>4
<1> QED
  BY <1>8, <1>9 DEF PaymentInv

\* After its save a webhook stays a grantor or stops being one.
LEMMA LaterPayment ==
  ASSUME TypeOK, PaymentInv, NEW d \in Deliveries,
         Lookup(d) \/ Grant(d) \/ HookStops(d)
  PROVE  PaymentInv'
<1>1. /\ \A o \in Deliveries \ {d} : hook'[o] = hook[o]
      /\ hook'[d].ref = hook[d].ref /\ hook'[d].pc # "save"
      /\ hook'[d].pc \in {"lookup", "grant", "granted"}
           => hook[d].pc \in {"lookup", "grant", "granted"}
      /\ UNCHANGED <<txn, raced, regressed>>
  BY DEF TypeOK, Lookup, Grant, HookStops, Hook
<1>2. \A o \in Deliveries : \A r : Saving(o, r)' => o # d /\ Saving(o, r)
  BY <1>1 DEF Saving
<1>3. \A r : Grantors(r)' \subseteq Grantors(r)
  BY <1>1 DEF Grantors
<1>4. Settled' = Settled
  BY <1>1 DEF Settled
<1> QED
  BY <1>1, <1>2, <1>3, <1>4 DEF PaymentInv

\* For every number of references, deliveries and rows, a payment is granted
\* at most once unless webhooks of it raced or its success was overwritten.
THEOREM PaymentGrantedOnce == Spec => []OneGrantPerPayment
<1>1. Init => PageInv /\ PaymentInv
  BY DEF Init, PageInv, PaymentInv, Saving, Grantors
<1>2. TypeOK /\ PageInv /\ PaymentInv /\ [Next]_vars => PaymentInv'
  <2> SUFFICES ASSUME TypeOK, PageInv, PaymentInv, [Next]_vars
               PROVE  PaymentInv'
    OBVIOUS
  <2>1. ASSUME NEW u \in Requests, RequestStep(u)
        PROVE  PaymentInv'
    BY <2>1, PaymentFrame
       DEF RequestStep, RequireSubscription, CheckQuota, SaveExpired, Reserve,
           StoreInvoice, Release, Lose
  <2>2. CASE Tick \/ UNCHANGED vars
    BY <2>2, PaymentFrame DEF Tick, vars
  <2> QED
    BY <2>1, <2>2, SubscribePayment, FetchPayment, SaveStatusPayment,
       LaterPayment DEF Next, HookStep
<1>3. PaymentInv => OneGrantPerPayment
  BY DEF PaymentInv, OneGrantPerPayment, Settled
<1> QED
  BY <1>1, <1>2, <1>3, PageStep, TypeCorrect, PTL DEF Spec

-----------------------------------------------------------------------------
(* Rows *)

Covered(row) == row.used + row.remaining >= row.total

\* Copies waiting to be saved are past their billing date and, like the rows
\* they were read from, account for their whole total.
CopyInv ==
  /\ \A i \in RowIds : Covered(rows[i])
  /\ \A u \in Requests :
       req[u].pc = "expire" => req[u].copy.due < now /\ Covered(req[u].copy)

\* Steps that leave the rows, the clock and the uploads alone keep the copies.
LEMMA CopyFrame ==
  ASSUME CopyInv, UNCHANGED <<rows, req, now>>
  PROVE  CopyInv'
BY DEF CopyInv, Covered

\* A grant writes a row that accounts for its whole total.
LEMMA GrantCopy ==
  ASSUME TypeOK, CopyInv, NEW d \in Deliveries, Grant(d)
  PROVE  CopyInv'
<1> DEFINE r == hook[d].ref
           i == IF hook[d].sub = 0 THEN last + 1 ELSE hook[d].sub
<1>1. Quota[r] \in Nat
  BY QuotaAssumption DEF TypeOK, Grant
<1>2. rows' = [rows EXCEPT ![i] = FreshRow(r)] /\ UNCHANGED <<req, now>>
  BY DEF Grant
<1>3. Covered(FreshRow(r))
  BY <1>1 DEF Covered, FreshRow
<1> HIDE DEF r, i
<1>4. \A j \in RowIds : rows'[j] = rows[j] \/ rows'[j] = FreshRow(r)
  BY <1>2 DEF TypeOK
<1> QED
  BY <1>2, <1>3, <1>4 DEF CopyInv, Covered

\* The steps of an upload keep every row balanced and every expired copy older
\* than the clock.
LEMMA RequestCopy ==
  ASSUME TypeOK, CopyInv, NEW u \in Requests, RequestStep(u)
  PROVE  CopyInv'
<1>0. UNCHANGED now /\ \A v \in Requests \ {u} : req'[v] = req[v]
  BY DEF TypeOK, RequestStep, RequireSubscription, CheckQuota, SaveExpired,
         Reserve, StoreInvoice, Release, Lose, Refuse, KeepExpired
<1>1. ASSUME KeepExpired(u), Subscribed, Expired(rows[last]), UNCHANGED rows
      PROVE  CopyInv'
  <2>1. last \in RowIds /\ rows[last] \in Row
    BY <1>1 DEF TypeOK, Subscribed, RowIds
  <2>2. req'[u].copy = [rows[last] EXCEPT !.active = FALSE]
    BY <1>1 DEF TypeOK, KeepExpired
  <2>3. req'[u].copy.due < now /\ Covered(req'[u].copy)
    BY <1>1, <2>1, <2>2 DEF CopyInv, Covered, Expired, Row, TypeOK
  <2> QED
    BY <1>0, <1>1, <2>3 DEF CopyInv, Covered
<1>2. ASSUME req'[u].pc # "expire", \A i \in RowIds : Covered(rows'[i])
      PROVE  CopyInv'
  BY <1>0, <1>2 DEF CopyInv, Covered
<1>3. Refuse(u) => req'[u].pc # "expire"
  BY DEF TypeOK, Req, Refuse
<1>4. CASE RequireSubscription(u) \/ CheckQuota(u)
  <2>1. UNCHANGED rows
    BY <1>4 DEF RequireSubscription, CheckQuota
  <2>2. \/ req'[u].pc # "expire"
        \/ KeepExpired(u) /\ Subscribed /\ Expired(rows[last])
    BY <1>3, <1>4 DEF TypeOK, Req, RequireSubscription, CheckQuota
  <2> QED
    BY <1>1, <1>2, <2>1, <2>2 DEF CopyInv
<1>5. CASE SaveExpired(u)
  <2>1. \A i \in RowIds : rows'[i] = rows[i] \/ rows'[i] = req[u].copy
    BY <1>5 DEF TypeOK, SaveExpired
  <2>2. Covered(req[u].copy)
    BY <1>5 DEF CopyInv, SaveExpired
  <2> QED
    BY <1>2, <1>3, <1>5, <2>1, <2>2 DEF CopyInv, SaveExpired
<1>6. CASE Reserve(u) \/ Release(u)
  <2>1. PICK i \in RowIds : i = req[u].sub
    BY <1>6 DEF TypeOK, Reserve, Release
  <2>2. rows[i] \in Row /\ Covered(rows[i])
    BY DEF TypeOK, CopyInv
  <2>3. Covered(rows'[i])
    BY <1>6, <2>1, <2>2 DEF TypeOK, Reserve, Release, Covered, Row
  <2>4. \A j \in RowIds \ {i} : rows'[j] = rows[j]
    BY <1>6, <2>1 DEF TypeOK, Reserve, Release
  <2>5. req'[u].pc # "expire"
    BY <1>3, <1>6 DEF TypeOK, Req, Reserve, Release
  <2> QED
    BY <1>2, <2>3, <2>4, <2>5 DEF CopyInv
<1>7. CASE StoreInvoice(u) \/ Lose(u)
  BY <1>2, <1>7 DEF TypeOK, Req, StoreInvoice, Lose, CopyInv
<1> QED
  BY <1>4, <1>5, <1>6, <1>7 DEF RequestStep

\* Every step keeps the rows balanced and the expired copies old.
LEMMA CopyStep ==
  ASSUME TypeOK, CopyInv, [Next]_vars
  PROVE  CopyInv'
<1>1. ASSUME NEW r \in Refs, SubscribeStep(r)
      PROVE  CopyInv'
  BY <1>1, CopyFrame
     DEF SubscribeStep, Subscribe, ProviderRejects, ProviderAccepts,
         ReturnPaymentPage, Emit
<1>2. ASSUME NEW d \in Deliveries, HookStep(d)
      PROVE  CopyInv'
  BY <1>2, GrantCopy, CopyFrame DEF HookStep, Fetch, SaveStatus, Lookup, HookStops
<1>3. CASE Tick
  BY <1>3 DEF Tick, CopyInv, Covered, TypeOK, Req, Row
<1>4. CASE UNCHANGED vars
  BY <1>4, CopyFrame DEF vars
<1> QED
  BY <1>1, <1>2, <1>3, <1>4, RequestCopy DEF Next

\* No row and no copy exists at first.
LEMMA CopyInit == Init => CopyInv
BY DEF Init, CopyInv, Covered, NoRow

\* The books of a row always cover its total, for every interleaving of any
\* number of reservations, releases, renewals and stale saves.
THEOREM QuotaAlwaysCovered == Spec => []QuotaCovered
<1>1. CopyInv => QuotaCovered
  BY DEF CopyInv, Covered, QuotaCovered
<1> QED
  BY <1>1, CopyInit, CopyStep, TypeCorrect, PTL DEF Spec

\* An unexpired period is only ever taken away by a copy older than its last
\* renewal.
THEOREM InDateRowsStay == Spec => OnlyStaleCopiesDeactivate
<1> DEFINE Stays == \A i \in RowIds :
             rows[i].active /\ now <= rows[i].due /\ ~rows'[i].active
               => rows'[i].due < rows[i].due
<1>1. TypeOK /\ CopyInv /\ [Next]_vars => [Stays]_vars
  <2> SUFFICES ASSUME TypeOK, CopyInv, Next, NEW i \in RowIds,
                      rows[i].active, now <= rows[i].due, ~rows'[i].active
               PROVE  rows'[i].due < rows[i].due
    BY DEF Stays
  <2>1. PICK u \in Requests : SaveExpired(u)
    <3>1. ASSUME NEW d \in Deliveries, Grant(d)
          PROVE  FALSE
      BY <3>1 DEF Grant, FreshRow, TypeOK
    <3>2. ASSUME NEW u \in Requests, Reserve(u) \/ Release(u)
          PROVE  FALSE
      BY <3>2 DEF Reserve, Release, TypeOK, Row
    <3>3. rows' # rows
      OBVIOUS
    <3> QED
      BY <3>1, <3>2, <3>3
         DEF Next, SubscribeStep, Subscribe, ProviderRejects, ProviderAccepts,
             ReturnPaymentPage, Emit, HookStep, Fetch, SaveStatus, Lookup,
             HookStops, RequestStep, RequireSubscription, CheckQuota,
             StoreInvoice, Lose, Tick
  <2>2. rows'[i] = req[u].copy /\ req[u].copy.due < now
    BY <2>1 DEF SaveExpired, TypeOK, CopyInv
  <2>3. rows[i] \in Row /\ req[u].copy \in Row /\ now \in Nat
    BY DEF TypeOK, Req
  <2> QED
    BY <2>2, <2>3 DEF Row
<1> QED
  BY <1>1, CopyInit, CopyStep, TypeCorrect, PTL DEF Spec, OnlyStaleCopiesDeactivate

-----------------------------------------------------------------------------
(* One row *)

\* Webhooks handled one at a time insert one row: whoever is about to grant
\* has found the row that is the newest still.
RowInv ==
  /\ last <= 1
  /\ \A d \in Deliveries : hook[d].pc = "grant" => hook[d].sub = last

\* A grant inserts a row only when there was none, and nobody else is about to.
LEMMA RowStep ==
  ASSUME TypeOK, RowInv, OneAtATime, [Next]_vars
  PROVE  RowInv'
<1> USE BoundsAssumption
<1>1. ASSUME UNCHANGED <<hook, last>>
      PROVE  RowInv'
  BY <1>1 DEF RowInv
<1>2. ASSUME NEW d \in Deliveries, NEW e \in events, Fetch(d, e)
      PROVE  RowInv'
  BY <1>2 DEF TypeOK, RowInv, Fetch
<1>3. ASSUME NEW d \in Deliveries, SaveStatus(d) \/ HookStops(d)
      PROVE  RowInv'
  BY <1>3 DEF TypeOK, Hook, RowInv, SaveStatus, HookStops
<1>4. ASSUME NEW d \in Deliveries, Lookup(d)
      PROVE  RowInv'
  <2>1. /\ UNCHANGED last /\ hook'[d].sub = last
        /\ \A o \in Deliveries \ {d} : hook'[o] = hook[o]
    BY <1>4 DEF TypeOK, Hook, Lookup
  <2> QED
    BY <2>1 DEF RowInv
<1>5. ASSUME NEW d \in Deliveries, Grant(d)
      PROVE  RowInv'
  <2>1. /\ hook[d].pc = "grant" /\ hook'[d].pc = "granted"
        /\ \A o \in Deliveries \ {d} : hook'[o] = hook[o]
    BY <1>5 DEF TypeOK, Hook, Grant
  <2>2. \A o \in Deliveries \ {d} : hook[o].pc # "grant"
    BY <2>1 DEF OneAtATime
  <2>3. last' \in {last, 1} /\ last \in Nat
    BY <1>5, <2>1 DEF TypeOK, RowInv, Grant
  <2> QED
    BY <2>1, <2>2, <2>3 DEF RowInv
<1>6. ASSUME NEW r \in Refs, SubscribeStep(r)
      PROVE  UNCHANGED <<hook, last>>
  BY <1>6 DEF SubscribeStep, Subscribe, ProviderRejects, ProviderAccepts,
              ReturnPaymentPage, Emit
<1>7. ASSUME NEW u \in Requests, RequestStep(u)
      PROVE  UNCHANGED <<hook, last>>
  BY <1>7 DEF RequestStep, RequireSubscription, CheckQuota, SaveExpired, Reserve,
              StoreInvoice, Release, Lose
<1>8. Tick \/ UNCHANGED vars => UNCHANGED <<hook, last>>
  BY DEF Tick, vars
<1> QED
  BY <1>1, <1>2, <1>3, <1>4, <1>5, <1>6, <1>7, <1>8 DEF Next, HookStep

\* The business and the aggregator share one row as long as webhooks are
\* handled one at a time, for any number of payments and deliveries.
THEOREM OneRowHolds == Spec => OneSubscriptionRow
<1>1. Init => RowInv
  BY DEF Init, RowInv
<1>2. TypeOK /\ RowInv /\ OneAtATime /\ [Next]_vars => RowInv'
  BY RowStep
<1>3. RowInv => last <= 1
  BY DEF RowInv
<1> QED
  BY <1>1, <1>2, <1>3, TypeCorrect, PTL DEF Spec, OneSubscriptionRow

-----------------------------------------------------------------------------
(* What was bought and what was charged *)

\* The webhooks that granted a row.
GrantedBy(i) == {d \in Deliveries : hook[d].pc = "granted" /\ hook[d].sub = i}

\* The invoices that webhooks grant, each webhook counted for itself.
Units(D) == UNION {{d} \X (1..Quota[hook[d].ref]) : d \in D}

\* ChargedWithinBought joins two invariants: a row is charged no more than it
\* was granted, and it was granted the plans of the webhooks that granted it.
\* A webhook works on an event that was sent, and grants only for a success.
BooksInv ==
  /\ \A d \in Deliveries :
       /\ hook[d].pc # "new" => [ref |-> hook[d].ref, kind |-> hook[d].kind] \in events
       /\ hook[d].pc \in {"lookup", "grant", "granted"} => hook[d].kind = "success"
       /\ hook[d].pc = "granted" => hook[d].sub \in RowIds
  /\ \A i \in RowIds : /\ IsFiniteSet(GrantedBy(i))
                       /\ grantedTo[i] = Cardinality(Units(GrantedBy(i)))

\* A set of natural numbers has a least one.
LEMMA LeastNumber ==
  ASSUME NEW S \in SUBSET Nat, S # {}
  PROVE  \E m \in S : \A j \in S : m <= j
<1>1. PICK m \in S : \A j \in S : ~(<<j, m>> \in OpToRel(<, Nat))
  BY NatLessThanWellFounded, WFMin
<1>2. ASSUME NEW j \in S
      PROVE  m <= j
  <2>1. <<j, m>> \in Nat \X Nat /\ <<j, m>>[1] = j /\ <<j, m>>[2] = m
    OBVIOUS
  <2>2. ~(j < m)
    BY <1>1, <2>1, Zenon DEF OpToRel
  <2> QED
    BY <2>2
<1> QED
  BY <1>2

\* Row by row no more charged than granted makes no more charged in all: the
\* least number of rows for which this failed would have a predecessor for
\* which it holds.
LEMMA RowsWithin ==
  ASSUME \A i \in RowIds : IsFiniteSet(Charged(i)) /\ IsFiniteSet(Units(GrantedBy(i))),
         \A i \in RowIds : Cardinality(Charged(i)) <= Cardinality(Units(GrantedBy(i))),
         \A i, j \in RowIds : i # j => Units(GrantedBy(i)) \cap Units(GrantedBy(j)) = {}
  PROVE  /\ IsFiniteSet(UNION {Units(GrantedBy(i)) : i \in RowIds})
         /\ Cardinality(UNION {Charged(i) : i \in RowIds})
              <= Cardinality(UNION {Units(GrantedBy(i)) : i \in RowIds})
<1> DEFINE n == MaxRows
           A == [i \in RowIds |-> Charged(i)]
           B == [i \in RowIds |-> Units(GrantedBy(i))]
<1>1. n \in Nat /\ RowIds = 1..n
  BY BoundsAssumption DEF RowIds
<1>2. /\ UNION {A[i] : i \in RowIds} = UNION {Charged(i) : i \in RowIds}
      /\ UNION {B[i] : i \in RowIds} = UNION {Units(GrantedBy(i)) : i \in RowIds}
  OBVIOUS
<1>3. \A i \in RowIds : A[i] = Charged(i) /\ B[i] = Units(GrantedBy(i))
  OBVIOUS
<1> HIDE DEF n, A, B
<1>4. /\ \A i \in 1..n : IsFiniteSet(A[i]) /\ IsFiniteSet(B[i])
      /\ \A i \in 1..n : Cardinality(A[i]) <= Cardinality(B[i])
      /\ \A i, j \in 1..n : i # j => B[i] \cap B[j] = {}
  BY <1>1, <1>3
<1> SUFFICES /\ IsFiniteSet(UNION {B[i] : i \in 1..n})
             /\ Cardinality(UNION {A[i] : i \in 1..n}) <= Cardinality(UNION {B[i] : i \in 1..n})
  BY <1>1, <1>2, Zenon
<1> DEFINE AU(k) == UNION {A[i] : i \in 1..k}
           BU(k) == UNION {B[i] : i \in 1..k}
           P(k) == /\ IsFiniteSet(AU(k)) /\ IsFiniteSet(BU(k))
                   /\ Cardinality(AU(k)) <= Cardinality(BU(k))
           Bad == {k \in 0..n : ~P(k)}
<1>5. SUFFICES Bad = {}
  BY <1>5, <1>1, n \in 0..n
<1>6. AU(0) = {} /\ BU(0) = {}
  OBVIOUS
<1>7. ASSUME NEW k \in 1..n
      PROVE  /\ AU(k) = AU(k - 1) \cup A[k] /\ BU(k) = BU(k - 1) \cup B[k]
             /\ BU(k - 1) \cap B[k] = {}
  <2>1. 1..k = (1..(k - 1)) \cup {k}
    BY <1>1
  <2>2. \A i \in 1..(k - 1) : i \in 1..n /\ i # k
    BY <1>1
  <2> QED
    BY <1>4, <2>1, <2>2
<1> HIDE DEF AU, BU
<1>8. P(0)
  BY <1>6, FS_EmptySet
<1> SUFFICES ASSUME Bad # {} PROVE FALSE
  OBVIOUS
<1>9. PICK m \in Bad : \A j \in Bad : m <= j
  <2>1. Bad \in SUBSET Nat
    OBVIOUS
  <2> HIDE DEF Bad
  <2> QED
    BY <2>1, LeastNumber
<1>10. m \in 0..n /\ ~P(m)
  BY <1>1
<1>11. m \in 1..n /\ m - 1 \in 0..n
  BY <1>1, <1>8, <1>10
<1>12. P(m - 1)
  <2>1. m - 1 \notin Bad
    BY <1>1, <1>9, <1>11
  <2> QED
    BY <1>1, <1>11, <2>1
<1>13. /\ IsFiniteSet(AU(m - 1)) /\ IsFiniteSet(A[m])
       /\ IsFiniteSet(BU(m - 1)) /\ IsFiniteSet(B[m])
       /\ Cardinality(AU(m - 1)) <= Cardinality(BU(m - 1))
       /\ Cardinality(A[m]) <= Cardinality(B[m])
  BY <1>1, <1>4, <1>11, <1>12
<1> HIDE DEF P, Bad
<1>14. /\ Cardinality(AU(m - 1)) \in Nat /\ Cardinality(A[m]) \in Nat
       /\ Cardinality(AU(m - 1) \cap A[m]) \in Nat
       /\ Cardinality(BU(m - 1)) \in Nat /\ Cardinality(B[m]) \in Nat
  BY <1>13, FS_CardinalityType, FS_Intersection
<1>15. /\ IsFiniteSet(AU(m))
       /\ Cardinality(AU(m)) = Cardinality(AU(m - 1)) + Cardinality(A[m])
                                 - Cardinality(AU(m - 1) \cap A[m])
  <2>1. AU(m) = AU(m - 1) \cup A[m]
    BY <1>7, <1>11
  <2> QED
    BY <1>13, <2>1, FS_Union
<1>16. /\ IsFiniteSet(BU(m))
       /\ Cardinality(BU(m)) = Cardinality(BU(m - 1)) + Cardinality(B[m]) - 0
  BY <1>7, <1>11, <1>13, FS_Union, FS_EmptySet
<1> QED
  BY <1>10, <1>13, <1>14, <1>15, <1>16 DEF P

\* The invoices one more webhook grants are that many more.
LEMMA MoreUnits ==
  ASSUME TypeOK, NEW D \in SUBSET Deliveries, NEW d \in Deliveries \ D,
         hook[d].ref \in Refs, IsFiniteSet(Units(D))
  PROVE  /\ IsFiniteSet(Units(D \cup {d}))
         /\ Cardinality(Units(D \cup {d})) = Cardinality(Units(D)) + Quota[hook[d].ref]
<1> DEFINE q == Quota[hook[d].ref]
           T == {d} \X (1..q)
<1>1. q \in Nat
  BY QuotaAssumption
<1>2. Units(D \cup {d}) = Units(D) \cup T
  BY DEF Units
<1>3. Units(D) \cap T = {}
  BY DEF Units
<1>4. IsFiniteSet(T) /\ Cardinality(T) = q
  <2> HIDE DEF q
  <2>1. IsFiniteSet({d}) /\ Cardinality({d}) = 1
    BY FS_Singleton
  <2> DEFINE I == 1..q
  <2>2. IsFiniteSet(I) /\ Cardinality(I) = IF 1 > q THEN 0 ELSE q - 1 + 1
    BY <1>1, FS_Interval
  <2> HIDE DEF I
  <2>3. Cardinality(I) = q
    BY <1>1, <2>2
  <2>4. IsFiniteSet({d} \X I) /\ Cardinality({d} \X I) = 1 * q
    BY <2>1, <2>2, <2>3, FS_Product
  <2> QED
    BY <1>1, <2>4 DEF I
<1> HIDE DEF T, q
<1>5. Cardinality(Units(D)) \in Nat
  BY FS_CardinalityType
<1>6. /\ IsFiniteSet(Units(D) \cup T)
      /\ Cardinality(Units(D) \cup T) = Cardinality(Units(D)) + Cardinality(T)
                                            - Cardinality(Units(D) \cap T)
  BY <1>4, FS_Union
<1>7. Cardinality(Units(D) \cap T) = 0
  BY <1>3, FS_EmptySet
<1>8. Cardinality(Units(D) \cup T) = Cardinality(Units(D)) + q
  BY <1>1, <1>4, <1>5, <1>6, <1>7
<1>9. /\ IsFiniteSet(Units(D \cup {d}))
      /\ Cardinality(Units(D \cup {d})) = Cardinality(Units(D)) + q
  BY <1>2, <1>6, <1>8, Zenon
<1> QED
  BY <1>9 DEF q

\* A finite number of webhooks grants a finite number of invoices.
LEMMA UnitsFinite ==
  ASSUME NEW D, IsFiniteSet(D), \A d \in D : hook[d].ref \in Refs
  PROVE  IsFiniteSet(Units(D))
<1> DEFINE of == [d \in D |-> {d} \X (1..Quota[hook[d].ref])]
           S == {of[d] : d \in D}
<1>1. of \in Surjection(D, S)
  BY DEF Surjection
<1>2. IsFiniteSet(S)
  BY <1>1, FS_Surjection
<1>3. ASSUME NEW d \in D
      PROVE  IsFiniteSet(of[d])
  <2> DEFINE q == Quota[hook[d].ref]
  <2>1. q \in Int
    BY QuotaAssumption
  <2> HIDE DEF of, q
  <2>2. IsFiniteSet({d}) /\ IsFiniteSet(1..q)
    <3>1. IsFiniteSet(1..q)
      BY <2>1, FS_Interval
    <3> QED
      BY <3>1, FS_Singleton
  <2>3. IsFiniteSet({d} \X (1..q))
    BY <2>2, FS_Product
  <2> QED
    BY <2>3 DEF of, q
<1>4. IsFiniteSet(UNION S)
  BY <1>2, <1>3, FS_UNION
<1>5. Units(D) = UNION S
  BY DEF Units
<1> QED
  BY <1>4, <1>5

\* A webhook that granted acted on a payment that was made.
LEMMA GrantedPaid ==
  ASSUME TypeOK, BooksInv, NEW d \in Deliveries, hook[d].pc = "granted"
  PROVE  hook[d].ref \in Paid /\ hook[d].ref \in Refs
<1> DEFINE e == [ref |-> hook[d].ref, kind |-> hook[d].kind]
<1>1. e \in events /\ e.kind = "success" /\ e.ref = hook[d].ref
  BY DEF BooksInv
<1> HIDE DEF e
<1> QED
  BY <1>1 DEF Paid, TypeOK

\* A step that changes no webhook and no grant keeps the books.
LEMMA BooksFrame ==
  ASSUME BooksInv, UNCHANGED <<hook, grantedTo>>, events \subseteq events'
  PROVE  BooksInv'
<1>1. \A i : GrantedBy(i)' = GrantedBy(i)
  BY DEF GrantedBy
<1>2. \A i : Units(GrantedBy(i))' = Units(GrantedBy(i))
  BY <1>1 DEF Units
<1> QED
  BY <1>1, <1>2 DEF BooksInv

\* Before the grant a webhook only learns of an event, and acts on a success.
LEMMA HookBooks ==
  ASSUME TypeOK, BooksInv, NEW d \in Deliveries,
         \/ \E e \in events : Fetch(d, e)
         \/ SaveStatus(d) \/ Lookup(d) \/ HookStops(d)
  PROVE  BooksInv'
<1>1. /\ UNCHANGED <<events, grantedTo>>
      /\ \A o \in Deliveries \ {d} : hook'[o] = hook[o]
      /\ hook[d].pc # "granted" /\ hook'[d].pc # "granted"
  BY DEF TypeOK, Hook, Fetch, SaveStatus, Lookup, HookStops
<1>2. /\ [ref |-> hook'[d].ref, kind |-> hook'[d].kind] \in events
      /\ hook'[d].pc \in {"lookup", "grant", "granted"} => hook'[d].kind = "success"
  <2>1. ASSUME NEW e \in events, Fetch(d, e)
        PROVE  /\ [ref |-> hook'[d].ref, kind |-> hook'[d].kind] \in events
               /\ hook'[d].pc = "save"
    <3>1. hook'[d].ref = e.ref /\ hook'[d].kind = e.kind /\ hook'[d].pc = "save"
      BY <2>1 DEF TypeOK, Fetch
    <3>2. e = [ref |-> e.ref, kind |-> e.kind]
      BY DEF TypeOK
    <3> QED
      BY <3>1, <3>2
  <2>2. CASE SaveStatus(d)
    <3>1. Earns(d) => hook[d].kind = "success"
      BY DEF Earns, StatusOf
    <3> QED
      BY <2>2, <3>1 DEF TypeOK, Hook, SaveStatus, BooksInv
  <2>3. CASE Lookup(d) \/ HookStops(d)
    BY <2>3 DEF TypeOK, Hook, Lookup, HookStops, BooksInv
  <2> QED
    BY <2>1, <2>2, <2>3
<1>3. \A i : GrantedBy(i)' = GrantedBy(i)
  BY <1>1 DEF GrantedBy
<1>4. \A i : Units(GrantedBy(i))' = Units(GrantedBy(i))
  <2>1. \A i : \A c \in GrantedBy(i) : hook'[c] = hook[c]
    BY <1>1 DEF GrantedBy
  <2> QED
    BY <1>3, <2>1 DEF Units
<1> QED
  BY <1>1, <1>2, <1>3, <1>4 DEF BooksInv

\* A grant adds the plan of one more webhook to one row.
LEMMA GrantBooks ==
  ASSUME TypeOK, BooksInv, NEW d \in Deliveries, Grant(d)
  PROVE  BooksInv'
<1> DEFINE new == IF hook[d].sub = 0 THEN last + 1 ELSE hook[d].sub
<1>1. PICK r \in Refs, i \in RowIds : r = hook[d].ref /\ i = new
  BY DEF TypeOK, Grant
<1>2. /\ UNCHANGED events
      /\ hook[d].pc = "grant" /\ hook'[d].pc = "granted"
      /\ hook'[d].ref = r /\ hook'[d].kind = hook[d].kind
      /\ \A o \in Deliveries \ {d} : hook'[o] = hook[o]
      /\ hook'[d].sub = i
      /\ grantedTo' = [grantedTo EXCEPT ![i] = @ + Quota[r]]
  BY <1>1 DEF TypeOK, Hook, Grant
<1>3. /\ GrantedBy(i)' = GrantedBy(i) \cup {d}
      /\ \A j \in RowIds \ {i} : GrantedBy(j)' = GrantedBy(j)
  BY <1>2 DEF GrantedBy
<1>4. \A D \in SUBSET Deliveries : Units(D)' = Units(D)
  <2>1. \A o \in Deliveries : hook'[o].ref = hook[o].ref
    BY <1>1, <1>2
  <2> QED
    BY <2>1 DEF Units
<1>5. ASSUME NEW j \in RowIds
      PROVE  /\ IsFiniteSet(GrantedBy(j)')
             /\ grantedTo'[j] = Cardinality(Units(GrantedBy(j))')
  <2>1. /\ grantedTo[j] = Cardinality(Units(GrantedBy(j)))
        /\ grantedTo[j] \in Nat /\ IsFiniteSet(GrantedBy(j))
    BY DEF TypeOK, BooksInv
  <2>2. GrantedBy(j) \in SUBSET Deliveries /\ d \notin GrantedBy(j)
    BY <1>2 DEF GrantedBy
  <2>3. CASE j = i
    <3>1. IsFiniteSet(Units(GrantedBy(j)))
      BY <2>1, GrantedPaid, UnitsFinite DEF GrantedBy
    <3>2. Cardinality(Units(GrantedBy(j) \cup {d})) = grantedTo[j] + Quota[r]
      BY <1>1, <2>1, <2>2, <3>1, MoreUnits
    <3>3. grantedTo'[j] = grantedTo[j] + Quota[r]
      BY <1>2, <2>3 DEF TypeOK
    <3>4. Units(GrantedBy(j))' = Units(GrantedBy(j) \cup {d})
      <4>1. PICK D \in SUBSET Deliveries : D = GrantedBy(j) \cup {d}
        BY <2>2
      <4>2. GrantedBy(j)' = D
        BY <1>3, <2>3, <4>1
      <4>3. Units(GrantedBy(j))' = Units(D)'
        BY <4>2 DEF Units
      <4>4. Units(D)' = Units(D)
        BY <1>4
      <4> QED
        BY <4>1, <4>3, <4>4
    <3>5. IsFiniteSet(GrantedBy(j) \cup {d})
      BY <2>1, FS_AddElement
    <3> QED
      BY <1>3, <2>3, <3>2, <3>3, <3>4, <3>5
  <2>4. CASE j # i
    <3>1. grantedTo'[j] = grantedTo[j] /\ GrantedBy(j)' = GrantedBy(j)
      BY <1>2, <1>3, <2>4 DEF TypeOK
    <3>2. Units(GrantedBy(j))' = Units(GrantedBy(j))
      BY <1>4, <2>2, <3>1 DEF Units
    <3> QED
      BY <2>1, <3>1, <3>2
  <2> QED
    BY <2>3, <2>4
<1>6. hook'[d].ref = hook[d].ref /\ hook[d].kind = "success"
  BY <1>1, <1>2 DEF BooksInv
<1> QED
  BY <1>2, <1>5, <1>6 DEF BooksInv

\* No step disturbs the books.
LEMMA BooksStep ==
  ASSUME TypeOK, BooksInv, [Next]_vars
  PROVE  BooksInv'
<1>1. ASSUME NEW r \in Refs, SubscribeStep(r)
      PROVE  BooksInv'
  <2>1. UNCHANGED <<hook, grantedTo>> /\ events \subseteq events'
    BY <1>1 DEF SubscribeStep, Subscribe, ProviderRejects, ProviderAccepts,
                ReturnPaymentPage, Emit
  <2> QED
    BY <2>1, BooksFrame
<1>2. ASSUME NEW d \in Deliveries, HookStep(d)
      PROVE  BooksInv'
  BY <1>2, HookBooks, GrantBooks DEF HookStep
<1>3. ASSUME NEW u \in Requests, RequestStep(u)
      PROVE  BooksInv'
  BY <1>3, BooksFrame
     DEF RequestStep, RequireSubscription, CheckQuota, SaveExpired, Reserve,
         StoreInvoice, Release, Lose
<1>4. CASE Tick \/ UNCHANGED vars
  BY <1>4, BooksFrame DEF Tick, vars
<1> QED
  BY <1>1, <1>2, <1>3, <1>4 DEF Next

\* Different webhooks that granted are different credits: two of one reference
\* are there only when it was raced or overwritten, and then count apart.
LEMMA CreditsDiffer ==
  ASSUME TypeOK, OneGrantPerPayment,
         NEW d \in Deliveries, NEW o \in Deliveries,
         hook[d].pc = "granted", hook[o].pc = "granted", Credit(d) = Credit(o)
  PROVE  d = o
<1>1. hook[d].ref = hook[o].ref /\ hook[d].ref \in Refs
  BY DEF Credit, TypeOK
<1>2. CASE hook[d].ref \in raced \cup regressed
  BY <1>1, <1>2 DEF Credit
<1>3. CASE hook[d].ref \notin raced \cup regressed
  BY <1>1, <1>3 DEF OneGrantPerPayment, Grantors
<1> QED
  BY <1>2, <1>3

\* Counted by credit or by webhook, what was granted is as much.
LEMMA BoughtCount ==
  ASSUME TypeOK, OneGrantPerPayment, BooksInv, NEW G \in SUBSET Deliveries,
         G = {d \in Deliveries : hook[d].pc = "granted"}, IsFiniteSet(Units(G))
  PROVE  Cardinality(Bought) = Cardinality(Units(G)) /\ Cardinality(Units(G)) \in Nat
<1> DEFINE f == [x \in Units(G) |-> <<Credit(x[1]), x[2]>>]
<1>1. G = {c \in Deliveries : hook[c].pc = "granted" /\ hook[c].ref \in Paid}
  BY GrantedPaid
<1>2. Bought = UNION {{Credit(d)} \X (1..Quota[hook[d].ref]) : d \in G}
  BY <1>1 DEF Bought
<1>3. \A x : x \in Units(G) <=> \E d \in G : \E n \in 1..Quota[hook[d].ref] : x = <<d, n>>
  BY DEF Units
<1>4. \A y : y \in Bought <=>
               \E d \in G : \E n \in 1..Quota[hook[d].ref] : y = <<Credit(d), n>>
  BY <1>2
<1>5. ASSUME NEW x \in Units(G), NEW y \in Units(G), f[x] = f[y]
      PROVE  x = y
  <2>0. PICK d \in G, o \in G : /\ \E n \in 1..Quota[hook[d].ref] : x = <<d, n>>
                               /\ \E m \in 1..Quota[hook[o].ref] : y = <<o, m>>
    BY <1>3
  <2>1. PICK n \in 1..Quota[hook[d].ref] : x = <<d, n>>
    BY <2>0
  <2>2. PICK m \in 1..Quota[hook[o].ref] : y = <<o, m>>
    BY <2>0
  <2>3. <<Credit(d), n>> = <<Credit(o), m>>
    BY <1>5, <2>1, <2>2
  <2>4. n = m /\ Credit(d) = Credit(o)
    BY <2>3
  <2>5. d = o
    BY <2>4, CreditsDiffer
  <2> QED
    BY <2>1, <2>2, <2>4, <2>5
<1>6. f \in [Units(G) -> Bought]
  <2>1. ASSUME NEW x \in Units(G)
        PROVE  <<Credit(x[1]), x[2]>> \in Bought
    BY <1>3, <1>4
  <2> QED
    BY <2>1
<1>7. ASSUME NEW y \in Bought
      PROVE  \E x \in Units(G) : f[x] = y
  <2>0. PICK d \in G : \E n \in 1..Quota[hook[d].ref] : y = <<Credit(d), n>>
    BY <1>4
  <2>1. PICK n \in 1..Quota[hook[d].ref] : y = <<Credit(d), n>>
    BY <2>0
  <2>2. <<d, n>> \in Units(G)
    BY <1>3
  <2> QED
    BY <2>1, <2>2
<1> HIDE DEF f
<1>8. f \in Surjection(Units(G), Bought)
  BY <1>6, <1>7 DEF Surjection
<1>9. f \in Injection(Units(G), Bought)
  BY <1>5, <1>6 DEF Injection, IsInjective
<1>10. /\ Cardinality(Bought) = Cardinality(Units(G)) <=> f \in Injection(Units(G), Bought)
       /\ IsFiniteSet(Bought)
  BY <1>8, FS_Surjection
<1>11. Cardinality(Units(G)) \in Nat
  BY FS_CardinalityType
<1> QED
  BY <1>9, <1>10, <1>11

\* Row by row what is charged is within what was granted, and what was granted
\* is what different credits bought.
LEMMA BooksAgree ==
  ASSUME TypeOK, AcceptedWithinGranted, OneGrantPerPayment, BooksInv
  PROVE  ChargedWithinBought
<1> DEFINE G == {d \in Deliveries : hook[d].pc = "granted"}
<1>2. ASSUME NEW i \in RowIds
      PROVE  /\ IsFiniteSet(Charged(i)) /\ IsFiniteSet(Units(GrantedBy(i)))
             /\ Cardinality(Charged(i)) <= Cardinality(Units(GrantedBy(i)))
  <2>1. IsFiniteSet(GrantedBy(i)) /\ \A d \in GrantedBy(i) : hook[d].ref \in Refs
    BY GrantedPaid DEF BooksInv, GrantedBy
  <2>2. IsFiniteSet(Charged(i)) /\ IsFiniteSet(Units(GrantedBy(i)))
    BY <2>1, UnitsFinite, ChargedFinite
  <2>3. Cardinality(Charged(i)) <= Cardinality(Units(GrantedBy(i)))
    BY DEF AcceptedWithinGranted, BooksInv
  <2> QED
    BY <2>2, <2>3, Zenon
<1>3. ASSUME NEW i \in RowIds, NEW j \in RowIds, i # j
      PROVE  Units(GrantedBy(i)) \cap Units(GrantedBy(j)) = {}
  <2>1. GrantedBy(i) \cap GrantedBy(j) = {}
    BY <1>3 DEF GrantedBy
  <2> QED
    BY <2>1 DEF Units
<1>4. /\ IsFiniteSet(UNION {Units(GrantedBy(i)) : i \in RowIds})
      /\ Cardinality(UNION {Charged(i) : i \in RowIds})
           <= Cardinality(UNION {Units(GrantedBy(i)) : i \in RowIds})
  BY <1>2, <1>3, RowsWithin, Zenon
<1>5. UNION {Units(GrantedBy(i)) : i \in RowIds} = Units(G)
  <2>1. \A d \in G : d \in GrantedBy(hook[d].sub) /\ hook[d].sub \in RowIds
    BY DEF BooksInv, GrantedBy
  <2>2. \A i \in RowIds : GrantedBy(i) \subseteq G
    BY DEF GrantedBy
  <2> HIDE DEF G
  <2>3. \A i \in RowIds : Units(GrantedBy(i)) \subseteq Units(G)
    BY <2>2 DEF Units
  <2>4. ASSUME NEW x \in Units(G)
        PROVE  \E i \in RowIds : x \in Units(GrantedBy(i))
    <3>1. PICK d \in G : x \in {d} \X (1..Quota[hook[d].ref])
      BY DEF Units
    <3>2. x \in Units(GrantedBy(hook[d].sub))
      BY <2>1, <3>1 DEF Units
    <3> QED
      BY <2>1, <3>2
  <2> QED
    BY <2>3, <2>4
<1>7. Cardinality(Bought) = Cardinality(Units(G))
  BY <1>4, <1>5, BoughtCount
<1> HIDE DEF G
<1> QED
  BY <1>4, <1>5, <1>7, Zenon DEF ChargedWithinBought

\* End to end, for any payments, deliveries, rows and uploads: the invoices
\* charged to quota are within what was bought, a payment counting once unless
\* webhooks of it raced or its success was overwritten.
THEOREM BoughtCoversCharged == Spec => []ChargedWithinBought
<1>1. Init => BooksInv
  <2> SUFFICES ASSUME Init PROVE BooksInv
    OBVIOUS
  <2>1. \A i : GrantedBy(i) = {}
    BY DEF Init, GrantedBy
  <2>2. \A i : Units(GrantedBy(i)) = {}
    BY <2>1 DEF Units
  <2> QED
    BY <2>1, <2>2, FS_EmptySet DEF Init, BooksInv
<1>2. TypeOK /\ BooksInv /\ [Next]_vars => BooksInv'
  BY BooksStep
<1>3. TypeOK /\ AcceptedWithinGranted /\ OneGrantPerPayment /\ BooksInv => ChargedWithinBought
  BY BooksAgree
<1> QED
  BY <1>1, <1>2, <1>3, TypeCorrect, QuotaNeverOversold, PaymentGrantedOnce, PTL DEF Spec
=============================================================================
