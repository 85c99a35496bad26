---------------------------- MODULE Subscription ----------------------------
(***************************************************************************)
(* The quota an aggregator buys for one business: the payment that starts  *)
(* in SubscribeBusinessToPlan, the Paystack webhook that turns a paid      *)
(* reference into a subscription row, and the reservation, release and     *)
(* expiry of invoices against that row                                     *)
(* (src/internal/app/subscription, src/internal/data/repositories).        *)
(*                                                                         *)
(* Every database call of the code is one step.  What a goroutine read is  *)
(* kept in its own record until it writes it back, because the code writes *)
(* whole rows (gorm Save) from values it read earlier.                     *)
(***************************************************************************)
EXTENDS Integers, FiniteSets

CONSTANTS
  Refs,        \* transaction references, each of one subscribe request
  Deliveries,  \* webhook calls: one goroutine each, duplicates included
  Requests,    \* invoices of bulk uploads that ask for quota
  Kinds,       \* kinds of event Paystack sends
  Quota,       \* Quota[r]: TotalInvoices of the plan that r pays for
  Cycle,       \* BillingCycle of the plans
  MaxNow,      \* bound on the clock
  MaxRows      \* bound on the subscription rows

EventKinds == {"success", "failed", "other"}

ASSUME RefsAssumption == "none" \notin Refs
ASSUME KindsAssumption == Kinds \subseteq EventKinds
ASSUME QuotaAssumption == Quota \in [Refs -> Nat]
ASSUME CycleAssumption == Cycle \in Nat
ASSUME BoundsAssumption == MaxNow \in Nat /\ MaxRows \in Nat
ASSUME FiniteAssumption == IsFiniteSet(Requests)

RowIds == 1..MaxRows

VARIABLES
  checkout,   \* how far the subscribe request of a reference got
  txn,        \* Transaction.Status of the row of a reference
  events,     \* events Paystack has sent; it may send each of them again
  rows,       \* the subscription rows, in the order of created_at
  last,       \* the number of rows inserted
  now,        \* the clock
  hook,       \* the webhook goroutines
  req,        \* the quota requests
  grantedTo,  \* history: invoices granted to a row by all its payments
  raced,      \* history: references two webhooks handled at once
  regressed   \* history: references whose success was overwritten

vars == <<checkout, txn, events, rows, last, now, hook, req,
          grantedTo, raced, regressed>>

TxnStatus == {"none", "initialized", "processing", "success", "failed"}
Row == [active: BOOLEAN, total: Nat, used: Nat, remaining: Nat, due: Nat]
NoRow == [active |-> FALSE, total |-> 0, used |-> 0, remaining |-> 0, due |-> 0]

Hook == [pc: {"new", "save", "lookup", "grant", "granted", "done", "stopped"},
         ref: Refs \cup {"none"}, kind: EventKinds, prev: TxnStatus,
         sub: 0..MaxRows]
Req == [pc: {"new", "expire", "checked", "held", "created", "released",
             "lost", "unmetered", "refused"},
        sub: 0..MaxRows, copy: Row]

TypeOK ==
  /\ checkout \in [Refs -> {"none", "created", "accepted", "open", "closed"}]
  /\ txn \in [Refs -> TxnStatus]
  /\ events \subseteq [ref: Refs, kind: Kinds]
  /\ rows \in [RowIds -> Row]
  /\ last \in 0..MaxRows
  /\ now \in Nat
  /\ hook \in [Deliveries -> Hook]
  /\ req \in [Requests -> Req]
  /\ grantedTo \in [RowIds -> Nat]
  /\ raced \subseteq Refs
  /\ regressed \subseteq Refs
  /\ \A d \in Deliveries : hook[d].pc # "new" => hook[d].ref \in Refs
  /\ \A u \in Requests :
       req[u].pc \in {"expire", "checked", "held"} => req[u].sub \in RowIds

Init ==
  /\ checkout = [r \in Refs |-> "none"]
  /\ txn = [r \in Refs |-> "none"]
  /\ events = {}
  /\ rows = [i \in RowIds |-> NoRow]
  /\ last = 0
  /\ now = 0
  /\ hook = [d \in Deliveries |-> [pc |-> "new", ref |-> "none",
                                   kind |-> "other", prev |-> "none", sub |-> 0]]
  /\ req = [u \in Requests |-> [pc |-> "new", sub |-> 0, copy |-> NoRow]]
  /\ grantedTo = [i \in RowIds |-> 0]
  /\ raced = {}
  /\ regressed = {}

-----------------------------------------------------------------------------
(* SubscribeBusinessToPlan *)

\* CreateTransaction of the row, before Paystack knows of the reference.
Subscribe(r) ==
  /\ checkout[r] = "none"
  /\ checkout' = [checkout EXCEPT ![r] = "created"]
  /\ txn' = [txn EXCEPT ![r] = "initialized"]
  /\ UNCHANGED <<events, rows, last, now, hook, req, grantedTo, raced, regressed>>

\* InitializeTransaction fails or is refused.  The error of the save that
\* records it is dropped, so the row may stay as it was.
ProviderRejects(r) ==
  /\ checkout[r] = "created"
  /\ checkout' = [checkout EXCEPT ![r] = "closed"]
  /\ \E s \in {"failed", txn[r]} : txn' = [txn EXCEPT ![r] = s]
  /\ UNCHANGED <<events, rows, last, now, hook, req, grantedTo, raced, regressed>>

ProviderAccepts(r) ==
  /\ checkout[r] = "created"
  /\ checkout' = [checkout EXCEPT ![r] = "accepted"]
  /\ UNCHANGED <<txn, events, rows, last, now, hook, req, grantedTo, raced, regressed>>

\* The row is saved as processing and only then is the payment page returned;
\* when the save fails the caller gets an error instead of the page.
ReturnPaymentPage(r) ==
  /\ checkout[r] = "accepted"
  /\ \/ /\ checkout' = [checkout EXCEPT ![r] = "open"]
        /\ txn' = [txn EXCEPT ![r] = "processing"]
     \/ /\ checkout' = [checkout EXCEPT ![r] = "closed"]
        /\ UNCHANGED txn
  /\ UNCHANGED <<events, rows, last, now, hook, req, grantedTo, raced, regressed>>

-----------------------------------------------------------------------------
(* Paystack: once a customer has the page, any event may be sent for it.  *)
(* That every event comes from Paystack is an assumption of this module:  *)
(* the handler accepts any call whose body names a reference, since its   *)
(* check of the signature is commented out.                               *)

Emit(r, k) ==
  /\ checkout[r] = "open"
  /\ [ref |-> r, kind |-> k] \notin events
  /\ events' = events \cup {[ref |-> r, kind |-> k]}
  /\ UNCHANGED <<checkout, txn, rows, last, now, hook, req, grantedTo, raced, regressed>>

-----------------------------------------------------------------------------
(* HandlePaystackWebhook, in the goroutine the handler starts after it has *)
(* acknowledged the call.                                                  *)

\* The status an event asks for.
StatusOf(kind) ==
  CASE kind = "success" -> "success"
    [] kind = "failed"  -> "failed"
    [] OTHER            -> "processing"

\* Mutants: the previous status is not looked at, or has to be processing.
Earns_Always(d) == StatusOf(hook[d].kind) = "success"
Earns_FromProcessing(d) ==
  StatusOf(hook[d].kind) = "success" /\ hook[d].prev = "processing"

\* A payment not yet credited: only the change into success grants.
Earns(d) == StatusOf(hook[d].kind) = "success" /\ hook[d].prev # "success"

\* GetTransactionByReference, for an event of the pool.
Fetch(d, e) ==
  /\ hook[d].pc = "new"
  /\ txn[e.ref] # "none"
  /\ hook' = [hook EXCEPT ![d] = [pc |-> "save", ref |-> e.ref, kind |-> e.kind,
                                  prev |-> txn[e.ref], sub |-> 0]]
  /\ raced' = IF \E o \in Deliveries : hook[o].pc = "save" /\ hook[o].ref = e.ref
              THEN raced \cup {e.ref} ELSE raced
  /\ UNCHANGED <<checkout, txn, events, rows, last, now, req, grantedTo, regressed>>

\* SaveTransaction with the status of the event, whatever is stored by now.
SaveStatus(d) ==
  LET r == hook[d].ref
      s == StatusOf(hook[d].kind)
  IN /\ hook[d].pc = "save"
     /\ txn' = [txn EXCEPT ![r] = s]
     /\ hook' = [hook EXCEPT ![d].pc = IF Earns(d) THEN "lookup" ELSE "done"]
     /\ regressed' = IF txn[r] = "success" /\ s # "success"
                     THEN regressed \cup {r} ELSE regressed
     /\ UNCHANGED <<checkout, events, rows, last, now, req, grantedTo, raced>>

\* Mutant: the lookup never finds the row there is.
Lookup_Blind(d) ==
  /\ hook[d].pc = "lookup"
  /\ hook' = [hook EXCEPT ![d].pc = "grant", ![d].sub = 0]
  /\ UNCHANGED <<checkout, txn, events, rows, last, now, req, grantedTo, raced, regressed>>

\* GetLatestSubscriptionByBusinessAndAggregator: the newest row, 0 for none.
Lookup(d) ==
  /\ hook[d].pc = "lookup"
  /\ hook' = [hook EXCEPT ![d].pc = "grant", ![d].sub = last]
  /\ UNCHANGED <<checkout, txn, events, rows, last, now, req, grantedTo, raced, regressed>>

\* Mutant: the invoices of the new period are not credited.
FreshRow_NoCredit(r) == [active |-> TRUE, total |-> Quota[r], used |-> 0,
                         remaining |-> 0, due |-> now + Cycle]

\* The quota of a fresh billing period.
FreshRow(r) == [active |-> TRUE, total |-> Quota[r], used |-> 0,
                remaining |-> Quota[r], due |-> now + Cycle]

\* SaveSubscription: the row that was read, or a new one, as a fresh period.
Grant(d) ==
  LET r == hook[d].ref
      i == IF hook[d].sub = 0 THEN last + 1 ELSE hook[d].sub
  IN /\ hook[d].pc = "grant"
     /\ i \in RowIds
     /\ rows' = [rows EXCEPT ![i] = FreshRow(r)]
     /\ last' = IF hook[d].sub = 0 THEN i ELSE last
     /\ grantedTo' = [grantedTo EXCEPT ![i] = @ + Quota[r]]
     /\ hook' = [hook EXCEPT ![d].pc = "granted", ![d].sub = i]
     /\ UNCHANGED <<checkout, txn, events, now, req, raced, regressed>>

\* A database error or an unknown plan makes the goroutine return, and a
\* restart of the process kills it, after the call was acknowledged.
HookStops(d) ==
  /\ hook[d].pc \in {"save", "lookup", "grant"}
  /\ hook' = [hook EXCEPT ![d].pc = "stopped"]
  /\ UNCHANGED <<checkout, txn, events, rows, last, now, req, grantedTo, raced, regressed>>

-----------------------------------------------------------------------------
(* RequireAggregatorBusinessSubscription and the quota of an upload *)

\* Mutant: the day a period ends on is no longer part of it.
Expired_OnTheDay(row) == now >= row.due

Expired(row) == now > row.due

Refuse(u) == req' = [req EXCEPT ![u].pc = "refused"]

\* The newest row, when there is one and it is active.
Subscribed == last # 0 /\ rows[last].active

\* The expired row is copied with is_active cleared, to be saved whole.
KeepExpired(u) ==
  req' = [req EXCEPT ![u] = [pc |-> "expire", sub |-> last,
                             copy |-> [rows[last] EXCEPT !.active = FALSE]]]

\* RequireAggregatorBusinessSubscription alone, as a single upload calls it:
\* what it lets through is not counted.
RequireSubscription(u) ==
  /\ req[u].pc = "new"
  /\ \/ ~Subscribed /\ Refuse(u)
     \/ Subscribed /\ Expired(rows[last]) /\ KeepExpired(u)
     \/ /\ Subscribed /\ ~Expired(rows[last])
        /\ req' = [req EXCEPT ![u].pc = "unmetered"]
  /\ UNCHANGED <<checkout, txn, events, rows, last, now, hook, grantedTo, raced, regressed>>

\* ReserveAggregatorInvoiceQuota for one invoice, up to its own UPDATE.
CheckQuota(u) ==
  /\ req[u].pc = "new"
  /\ \/ ~Subscribed /\ Refuse(u)
     \/ Subscribed /\ Expired(rows[last]) /\ KeepExpired(u)
     \/ /\ Subscribed /\ ~Expired(rows[last]) /\ rows[last].remaining < 1
        /\ Refuse(u)
     \/ /\ Subscribed /\ ~Expired(rows[last]) /\ rows[last].remaining >= 1
        /\ req' = [req EXCEPT ![u].pc = "checked", ![u].sub = last]
  /\ UNCHANGED <<checkout, txn, events, rows, last, now, hook, grantedTo, raced, regressed>>

\* SaveSubscription of the expired copy; its error is dropped.
SaveExpired(u) ==
  /\ req[u].pc = "expire"
  /\ \E row \in {req[u].copy, rows[req[u].sub]} :
       rows' = [rows EXCEPT ![req[u].sub] = row]
  /\ Refuse(u)
  /\ UNCHANGED <<checkout, txn, events, last, now, hook, grantedTo, raced, regressed>>

\* Mutant: the UPDATE trusts the quota that was checked before it.
Reservable_Unchecked(row) == row.active

\* ReserveSubscriptionInvoices: one UPDATE with the conditions in its WHERE.
Reservable(row) == row.active /\ row.remaining >= 1

Reserve(u) ==
  LET i == req[u].sub
  IN /\ req[u].pc = "checked"
     /\ \/ /\ Reservable(rows[i])
           /\ rows' = [rows EXCEPT ![i].used = @ + 1, ![i].remaining = @ - 1]
           /\ req' = [req EXCEPT ![u].pc = "held"]
        \/ ~Reservable(rows[i]) /\ Refuse(u) /\ UNCHANGED rows
     /\ UNCHANGED <<checkout, txn, events, last, now, hook, grantedTo, raced, regressed>>

\* The upload stored its invoice: the reservation is spent.
StoreInvoice(u) ==
  /\ req[u].pc = "held"
  /\ req' = [req EXCEPT ![u].pc = "created"]
  /\ UNCHANGED <<checkout, txn, events, rows, last, now, hook, grantedTo, raced, regressed>>

\* ReleaseSubscriptionInvoices, when no invoice came of the reservation.
Release(u) ==
  LET i == req[u].sub
  IN /\ req[u].pc = "held"
     /\ rows' = [rows EXCEPT ![i].used = IF @ > 0 THEN @ - 1 ELSE 0,
                             ![i].remaining = @ + 1]
     /\ req' = [req EXCEPT ![u].pc = "released"]
     /\ UNCHANGED <<checkout, txn, events, last, now, hook, grantedTo, raced, regressed>>

\* The release fails, its error dropped, or the worker dies holding quota.
Lose(u) ==
  /\ req[u].pc = "held"
  /\ req' = [req EXCEPT ![u].pc = "lost"]
  /\ UNCHANGED <<checkout, txn, events, rows, last, now, hook, grantedTo, raced, regressed>>

Tick ==
  /\ now < MaxNow
  /\ now' = now + 1
  /\ UNCHANGED <<checkout, txn, events, rows, last, hook, req, grantedTo, raced, regressed>>

-----------------------------------------------------------------------------
SubscribeStep(r) ==
  \/ Subscribe(r) \/ ProviderRejects(r) \/ ProviderAccepts(r)
  \/ ReturnPaymentPage(r) \/ \E k \in Kinds : Emit(r, k)

HookStep(d) ==
  \/ \E e \in events : Fetch(d, e)
  \/ SaveStatus(d) \/ Lookup(d) \/ Grant(d) \/ HookStops(d)

RequestStep(u) ==
  \/ RequireSubscription(u) \/ CheckQuota(u) \/ SaveExpired(u) \/ Reserve(u)
  \/ StoreInvoice(u) \/ Release(u) \/ Lose(u)

Next ==
  \/ \E r \in Refs : SubscribeStep(r)
  \/ \E d \in Deliveries : HookStep(d)
  \/ \E u \in Requests : RequestStep(u)
  \/ Tick

Spec == Init /\ [][Next]_vars

\* A goroutine that has started is scheduled until it returns.
Fairness == \A d \in Deliveries : WF_vars(SaveStatus(d) \/ Lookup(d) \/ Grant(d))

FairSpec == Spec /\ Fairness

-----------------------------------------------------------------------------
(* Properties *)

\* Bulk uploads that hold, spent or lost quota of a row.  A single upload that
\* RequireSubscription lets through is charged to no row, and not counted here.
Charged(i) == {u \in Requests : /\ req[u].sub = i
                                /\ req[u].pc \in {"held", "created", "lost"}}

\* The invoices charged to a subscription row never exceed what its
\* payments granted it, whatever reservations, releases, renewals and stale
\* whole-row saves of expired copies interleave
\* (ReserveAggregatorInvoiceQuota, ReleaseReservedInvoices).
AcceptedWithinGranted ==
  \A i \in RowIds : Cardinality(Charged(i)) <= grantedTo[i]

\* No invoice of a plan disappears from the books: what is used and what
\* remains of a row always cover its total.  They may exceed it, since a
\* release can meet a renewed row (ReleaseSubscriptionInvoices).
QuotaCovered ==
  \A i \in RowIds : rows[i].used + rows[i].remaining >= rows[i].total

\* Deliveries that granted, or will grant, the payment of a reference.
Grantors(r) == {d \in Deliveries :
                  hook[d].ref = r /\ hook[d].pc \in {"lookup", "grant", "granted"}}

\* A payment is granted at most once, unless two webhooks of the reference ran
\* at once or a later event overwrote its success: the test on the previous
\* status (HandlePaystackWebhook) stops every other duplicate.
OneGrantPerPayment ==
  \A r \in Refs \ (raced \cup regressed) :
    \A d, o \in Grantors(r) : d = o

\* What a webhook may be credited as.  A reference counts once, but once for
\* each webhook when two of them ran at once or its success was overwritten.
Credit(d) ==
  <<hook[d].ref, IF hook[d].ref \in raced \cup regressed THEN d ELSE "once">>

\* References Paystack reported a successful payment of.
Paid == {e.ref : e \in {f \in events : f.kind = "success"}}

\* The invoices bought: those of the plan of each credit that was paid and granted.
Bought ==
  UNION {{Credit(d)} \X (1..Quota[hook[d].ref]) :
           d \in {c \in Deliveries : hook[c].pc = "granted" /\ hook[c].ref \in Paid}}

\* End to end: the invoices charged to quota, over all rows of the business,
\* never exceed what was bought.  That no duplicate of a webhook adds to what
\* can be charged holds whatever happens to other references, and races and
\* overwritten successes add no more than one plan for each webhook that
\* granted (HandlePaystackWebhook and ReserveAggregatorInvoiceQuota together).
ChargedWithinBought ==
  Cardinality(UNION {Charged(i) : i \in RowIds}) <= Cardinality(Bought)

\* A step that makes an unexpired row inactive overwrites it with a copy read
\* before its last renewal: nothing else takes away a period that was paid
\* (RequireAggregatorBusinessSubscription saves the row it read).
OnlyStaleCopiesDeactivate ==
  [][\A i \in RowIds :
       rows[i].active /\ now <= rows[i].due /\ ~rows'[i].active
         => rows'[i].due < rows[i].due]_vars

\* A reference stored as paid is granted, unless the goroutine that was to
\* grant it stopped: nothing retries it afterwards (the webhook was
\* acknowledged before, and a redelivery finds the status success).
PaidIsGranted ==
  \A r \in Refs :
    txn[r] = "success" ~>
      \E d \in Deliveries : hook[d].ref = r /\ hook[d].pc \in {"granted", "stopped"}

\* No two webhooks are between their first read and their last write.
OneAtATime == \A d, o \in Deliveries :
  {hook[d].pc, hook[o].pc} \subseteq {"save", "lookup", "grant"} => d = o

\* The business and the aggregator share one row, the one every later lookup
\* finds, as long as webhooks are handled one at a time: two first payments
\* handled at once insert two rows (HandlePaystackWebhook).
OneSubscriptionRow == []OneAtATime => [](last <= 1)
=============================================================================
