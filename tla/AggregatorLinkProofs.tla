------------------------ MODULE AggregatorLinkProofs ------------------------
(***************************************************************************)
(* Proofs about AggregatorLink, for any number of aggregators, invitations *)
(* and requests at once.                                                   *)
(***************************************************************************)
EXTENDS AggregatorLink, TLAPS

\* Requests that answer or withdraw an invitation.
Answering == {"check", "link", "assigned", "accept", "reject"}
Revoking == {"revoke", "removed", "withdraw"}

\* What a request knows: whom it invites, which invitation it answers or
\* revokes, and that an acceptance found the business without an aggregator.
Knows(o) ==
  /\ op[o].pc \in Sending => op[o].agg \in Aggs
  /\ op[o].pc \in {"again", "lookup", "create"} => op[o].agg \in accounts
  /\ op[o].pc \in Answering \cup Revoking =>
       /\ op[o].inv \in InvIds
       /\ invs[op[o].inv].status # "none" /\ invs[op[o].inv].agg = op[o].agg
  /\ op[o].pc \in Answering => op[o].status = "pending"
  /\ op[o].pc \in {"revoke", "removed"} => op[o].status = "accepted"
  /\ op[o].pc = "link" => op[o].seen = None
  /\ op[o].pc = "unlink" => op[o].seen = op[o].agg

\* Only aggregators with an account are invited.
Accounted == \A i \in InvIds : invs[i].status # "none" => invs[i].agg \in accounts

Inv == TypeOK /\ Accounted /\ \A o \in Requests : Knows(o)

\* Accounts, invitations and mishaps are not undone.
Grows ==
  /\ accounts \subseteq accounts' /\ mishaps \subseteq mishaps'
  /\ \A i \in InvIds : invs[i].status # "none" =>
       invs'[i].status # "none" /\ invs'[i].agg = invs[i].agg

\* What a step of a request has to establish.
Good(o) ==
  /\ TypeOK' /\ Accounted' /\ Grows
  /\ Knows(o)'
  /\ \A p \in Requests \ {o} : op'[p] = op[p]

-----------------------------------------------------------------------------
(* Requests and their records *)

LEMMA IdleType == Idle \in Op
BY DEF Idle, Op, Links

\* The parts of a request.
LEMMA OpParts ==
  ASSUME TypeOK, NEW o \in Requests
  PROVE  /\ op[o] \in Op /\ op[o].agg \in Links /\ op[o].inv \in InvIds \cup {0}
         /\ op[o].status \in Statuses \cup {"none"} /\ op[o].seen \in Links
BY DEF TypeOK, Op

\* What another request knows outlasts a step.
LEMMA KnowledgeStays ==
  ASSUME NEW p \in Requests, Knows(p), Grows, op'[p] = op[p]
  PROVE  Knows(p)'
BY DEF Knows, Grows

\* A request that moves on to another place.
LEMMA ToType ==
  ASSUME Inv, NEW o \in Requests, NEW pc, To(o, pc),
         pc \in {"lookup", "create", "assigned", "accept", "removed", "withdraw",
                 "unassigned", "cancel"}
  PROVE  /\ op' \in [Requests -> Op] /\ \A p \in Requests \ {o} : op'[p] = op[p]
         /\ op'[o].pc = pc /\ op'[o].agg = op[o].agg /\ op'[o].inv = op[o].inv
         /\ op'[o].status = op[o].status /\ op'[o].seen = op[o].seen
<1>1. op \in [Requests -> Op] /\ op[o] \in Op
  BY DEF Inv, TypeOK
<1>2. [op[o] EXCEPT !.pc = pc] \in Op
  BY <1>1 DEF Op
<1>3. op' = [op EXCEPT ![o] = [op[o] EXCEPT !.pc = pc]]
  BY DEF To
<1>4. op'[o] = [op[o] EXCEPT !.pc = pc]
  BY <1>1, <1>3
<1>5. op' \in [Requests -> Op] /\ \A p \in Requests \ {o} : op'[p] = op[p]
  BY <1>1, <1>2, <1>3
<1> QED
  BY <1>1, <1>4, <1>5 DEF Op

LEMMA EndType ==
  ASSUME Inv, NEW o \in Requests, End(o)
  PROVE  /\ op' \in [Requests -> Op] /\ op'[o] = Idle
         /\ op'[o].pc = "idle" /\ \A p \in Requests \ {o} : op'[p] = op[p]
BY IdleType DEF Inv, TypeOK, End, Idle

\* A note adds at most a mishap.
LEMMA NoteGrows ==
  ASSUME TypeOK, NEW kind \in Mishaps, NEW test, Note(kind, test)
  PROVE  mishaps' \subseteq Mishaps /\ mishaps \subseteq mishaps'
BY DEF TypeOK, Note

\* A step that leaves accounts and invitations alone.
LEMMA MoveIsGood ==
  ASSUME Inv, NEW o \in Requests, UNCHANGED <<creator, accounts, invs>>,
         link' \in Links, latest' \in Entry,
         mishaps' \subseteq Mishaps, mishaps \subseteq mishaps',
         op' \in [Requests -> Op], \A p \in Requests \ {o} : op'[p] = op[p],
         Knows(o)'
  PROVE  Good(o)
BY DEF Good, Inv, TypeOK, Accounted, Grows

\* A request that ends knows nothing.
LEMMA EndKnows ==
  ASSUME NEW o \in Requests, op'[o].pc = "idle"
  PROVE  Knows(o)'
BY DEF Knows, Sending, Answering, Revoking

-----------------------------------------------------------------------------
(* Each action is good *)

\* A request that begins with the aggregator a.
LEMMA BeginIsGood ==
  ASSUME Inv, NEW o \in Requests, NEW a \in Aggs, NEW pc \in {"lookup", "again", "account"},
         Begin(o, a, pc), pc # "account" => a \in accounts
  PROVE  Good(o)
<1> DEFINE x == [Idle EXCEPT !.pc = pc, !.agg = a]
<1>1. x \in Op /\ x.pc = pc /\ x.agg = a
  BY IdleType DEF Op, Idle, Links
<1>2. op' = [op EXCEPT ![o] = x] /\ UNCHANGED <<link, creator, accounts, invs, latest>>
  BY DEF Begin
<1> HIDE DEF x
<1>3. /\ op' \in [Requests -> Op] /\ \A p \in Requests \ {o} : op'[p] = op[p]
      /\ op'[o].pc = pc /\ op'[o].agg = a
  BY <1>1, <1>2 DEF Inv, TypeOK
<1>4. Knows(o)'
  BY <1>2, <1>3 DEF Knows, Sending, Answering, Revoking
<1>5. mishaps' \subseteq Mishaps /\ mishaps \subseteq mishaps'
  BY NoteGrows DEF Begin, Mishaps, Inv
<1> QED
  BY <1>2, <1>3, <1>4, <1>5, MoveIsGood DEF Inv, TypeOK

LEMMA InviteIsGood ==
  ASSUME Inv, NEW o \in Requests, NEW a \in Aggs, Invite(o, a) \/ InviteByEmail(o, a)
  PROVE  Good(o)
BY BeginIsGood DEF Invite, InviteByEmail

LEMMA SendingIsGood ==
  ASSUME Inv, NEW o \in Requests, InviteAgain(o) \/ CheckExisting(o)
  PROVE  Good(o)
<1>1. UNCHANGED <<link, creator, accounts, invs, latest, mishaps>>
  BY DEF InviteAgain, CheckExisting
<1>2. CASE End(o)
  <2>1. Knows(o)'
    BY <1>2, EndType, EndKnows
  <2> QED
    BY <1>1, <1>2, <2>1, EndType, MoveIsGood DEF Inv, TypeOK
<1>3. CASE \E pc \in {"lookup", "create"} : To(o, pc) /\ op[o].pc \in {"again", "lookup"}
  <2> PICK pc \in {"lookup", "create"} : To(o, pc) /\ op[o].pc \in {"again", "lookup"}
    BY <1>3
  <2>1. /\ op' \in [Requests -> Op] /\ \A p \in Requests \ {o} : op'[p] = op[p]
        /\ op'[o].pc = pc /\ op'[o].agg = op[o].agg
    BY ToType
  <2>2. Knows(o)'
    BY <1>1, <2>1 DEF Inv, Knows, Sending, Answering, Revoking
  <2> QED
    BY <1>1, <2>1, <2>2, MoveIsGood DEF Inv, TypeOK
<1> QED
  BY <1>2, <1>3 DEF InviteAgain, CheckExisting

LEMMA CreateAccountIsGood ==
  ASSUME Inv, NEW o \in Requests, CreateAccount(o)
  PROVE  Good(o)
<1>1. /\ op' \in [Requests -> Op] /\ \A p \in Requests \ {o} : op'[p] = op[p]
      /\ op'[o].pc = "create" /\ op'[o].agg = op[o].agg
  BY ToType DEF CreateAccount
<1>2. op[o].agg \in Aggs
  BY DEF Inv, Knows, CreateAccount, Sending
<1>3. Knows(o)'
  BY <1>1, <1>2 DEF Knows, Sending, Answering, Revoking, CreateAccount
<1> QED
  BY <1>1, <1>2, <1>3 DEF Good, Inv, TypeOK, Accounted, Grows, CreateAccount

\* A request that ends and saves invitations.
LEMMA SaveIsGood ==
  ASSUME Inv, NEW o \in Requests, End(o),
         UNCHANGED <<link, creator, accounts, latest>>,
         mishaps' \subseteq Mishaps, mishaps \subseteq mishaps',
         invs' \in [InvIds -> Invitation], Accounted',
         \A i \in InvIds : invs[i].status # "none" =>
           invs'[i].status # "none" /\ invs'[i].agg = invs[i].agg
  PROVE  Good(o)
<1>1. Knows(o)'
  BY EndType, EndKnows
<1> QED
  BY <1>1, EndType DEF Good, Inv, TypeOK, Grows

LEMMA CreateInvitationIsGood ==
  ASSUME Inv, NEW o \in Requests, CreateInvitation(o)
  PROVE  Good(o)
<1>1. PICK i \in InvIds :
        /\ {j \in InvIds : invs[j].status = "none"} = i..MaxInvs
        /\ invs' = [invs EXCEPT ![i] = [agg |-> op[o].agg, status |-> "pending"]]
  BY DEF CreateInvitation
<1>2. invs[i].status = "none"
  BY <1>1, MaxInvsAssumption DEF InvIds
<1>3. op[o].agg \in accounts /\ op[o].agg \in Aggs
  BY DEF CreateInvitation, Inv, Knows, Sending
<1>4. [agg |-> op[o].agg, status |-> "pending"] \in Invitation
  BY <1>3 DEF Invitation, Statuses, Links
<1>5. invs' \in [InvIds -> Invitation] /\ invs'[i] = [agg |-> op[o].agg, status |-> "pending"]
      /\ \A j \in InvIds \ {i} : invs'[j] = invs[j]
  BY <1>1, <1>4 DEF Inv, TypeOK
<1>6. Accounted'
  BY <1>3, <1>5 DEF Accounted, Inv, CreateInvitation
<1> QED
  BY <1>2, <1>5, <1>6, SaveIsGood DEF CreateInvitation, Inv, TypeOK

LEMMA RespondIsGood ==
  ASSUME Inv, NEW o \in Requests, NEW i \in InvIds, NEW accept \in BOOLEAN,
         Respond(o, i, accept)
  PROVE  Good(o)
<1> DEFINE x == [Idle EXCEPT !.pc = IF accept THEN "check" ELSE "reject",
                             !.agg = invs[i].agg, !.inv = i, !.status = "pending"]
<1>1. x \in Op /\ x.pc \in {"check", "reject"} /\ x.agg = invs[i].agg
      /\ x.inv = i /\ x.status = "pending"
  BY IdleType DEF Op, Idle, Statuses, Inv, TypeOK, Invitation
<1>2. op' = [op EXCEPT ![o] = x]
  BY DEF Respond
<1> HIDE DEF x
<1>3. /\ op' \in [Requests -> Op] /\ \A p \in Requests \ {o} : op'[p] = op[p]
      /\ op'[o] = x
  BY <1>1, <1>2 DEF Inv, TypeOK
<1>4. Knows(o)'
  BY <1>1, <1>3 DEF Knows, Sending, Answering, Revoking, Respond
<1> QED
  BY <1>3, <1>4, MoveIsGood DEF Inv, TypeOK, Respond

LEMMA CheckBusinessIsGood ==
  ASSUME Inv, NEW o \in Requests, CheckBusiness(o)
  PROVE  Good(o)
<1>1. CASE End(o)
  <2>1. Knows(o)'
    BY <1>1, EndType, EndKnows
  <2> QED
    BY <1>1, <2>1, EndType, MoveIsGood DEF Inv, TypeOK, CheckBusiness
<1>2. CASE link = None /\ op' = [op EXCEPT ![o].pc = "link", ![o].seen = link]
  <2> DEFINE x == [op[o] EXCEPT !.pc = "link", !.seen = link]
  <2>1. x \in Op /\ x.pc = "link" /\ x.seen = None /\ x.agg = op[o].agg
        /\ x.inv = op[o].inv /\ x.status = op[o].status
    BY <1>2, OpParts DEF Op, Inv, TypeOK
  <2>2. op' = [op EXCEPT ![o] = x]
    BY <1>2
  <2> HIDE DEF x
  <2>3. /\ op' \in [Requests -> Op] /\ \A p \in Requests \ {o} : op'[p] = op[p]
        /\ op'[o] = x
    BY <2>1, <2>2 DEF Inv, TypeOK
  <2>4. Knows(o)'
    BY <2>1, <2>3 DEF Inv, Knows, Sending, Answering, Revoking, CheckBusiness
  <2> QED
    BY <2>3, <2>4, MoveIsGood DEF Inv, TypeOK, CheckBusiness
<1> QED
  BY <1>1, <1>2 DEF CheckBusiness, Unassigned

LEMMA LinkIsGood ==
  ASSUME Inv, NEW o \in Requests, LinkBusiness(o) \/ Unlink(o)
  PROVE  Good(o)
<1>1. PICK pc \in {"assigned", "removed", "unassigned"} :
        /\ To(o, pc)
        /\ \/ op[o].pc = "link" /\ pc = "assigned"
           \/ op[o].pc = "revoke" /\ pc = "removed"
           \/ op[o].pc = "unlink" /\ pc = "unassigned"
  BY DEF LinkBusiness, Unlink
<1>2. /\ op' \in [Requests -> Op] /\ \A p \in Requests \ {o} : op'[p] = op[p]
      /\ op'[o].pc = pc /\ op'[o].agg = op[o].agg /\ op'[o].inv = op[o].inv
      /\ op'[o].status = op[o].status
  BY <1>1, ToType
<1>3. UNCHANGED <<creator, accounts, invs, latest>> /\ link' \in Links
  BY OpParts DEF LinkBusiness, Unlink, Links, Inv
<1>4. Knows(o)'
  BY <1>1, <1>2, <1>3 DEF Inv, Knows, Sending, Answering, Revoking
<1>5. mishaps' \subseteq Mishaps /\ mishaps \subseteq mishaps'
  BY NoteGrows DEF LinkBusiness, Unlink, Mishaps, Inv
<1> QED
  BY <1>2, <1>3, <1>4, <1>5, MoveIsGood DEF Inv, TypeOK

\* The status of an invitation is saved with a new value.
LEMMA SaveStatusIsGood ==
  ASSUME Inv, NEW o \in Requests, NEW s \in Statuses, op[o].inv \in InvIds,
         invs[op[o].inv].status # "none",
         invs' = [invs EXCEPT ![op[o].inv].status = s],
         End(o), Note("answer", invs[op[o].inv].status # op[o].status),
         UNCHANGED <<link, creator, accounts, latest>>
  PROVE  /\ Good(o)
         /\ invs'[op[o].inv] = [invs[op[o].inv] EXCEPT !.status = s]
         /\ invs'[op[o].inv].status = s /\ invs'[op[o].inv].agg = invs[op[o].inv].agg
         /\ \A j \in InvIds \ {op[o].inv} : invs'[j] = invs[j]
<1> DEFINE i == op[o].inv
           x == [invs[i] EXCEPT !.status = s]
<1>1. invs \in [InvIds -> Invitation] /\ invs[i] \in Invitation
  BY DEF Inv, TypeOK
<1>2. x \in Invitation /\ x.status = s /\ x.agg = invs[i].agg
  BY <1>1 DEF Invitation
<1>3. invs' = [invs EXCEPT ![i] = x]
  OBVIOUS
<1> HIDE DEF x, i
<1>4. i \in InvIds
  BY DEF i
<1>5. invs' \in [InvIds -> Invitation] /\ invs'[i] = x /\ \A j \in InvIds \ {i} : invs'[j] = invs[j]
  BY <1>1, <1>2, <1>3, <1>4
<1>6. s # "none"
  BY DEF Statuses
<1>7. Accounted'
  BY <1>2, <1>5, <1>6 DEF Accounted, Inv, i
<1>8. mishaps' \subseteq Mishaps /\ mishaps \subseteq mishaps'
  BY NoteGrows DEF Mishaps, Inv
<1>9. Good(o)
  BY <1>2, <1>5, <1>6, <1>7, <1>8, SaveIsGood DEF i
<1> QED
  BY <1>2, <1>5, <1>9 DEF x, i

LEMMA SaveAnswerEffect ==
  ASSUME Inv, NEW o \in Requests, SaveAnswer(o)
  PROVE  /\ Good(o) /\ op[o].inv \in InvIds /\ op[o].status = "pending"
         /\ invs[op[o].inv].status # "none" /\ invs[op[o].inv].agg = op[o].agg
         /\ invs'[op[o].inv].status = Answer(o) /\ invs'[op[o].inv].agg = op[o].agg
         /\ \A j \in InvIds \ {op[o].inv} : invs'[j] = invs[j]
<1>1. op[o].inv \in InvIds /\ op[o].status = "pending"
      /\ invs[op[o].inv].status # "none" /\ invs[op[o].inv].agg = op[o].agg
  BY DEF SaveAnswer, Inv, Knows, Answering
<1>2. Answer(o) \in Statuses
  BY DEF Answer, Statuses
<1> QED
  BY <1>1, <1>2, SaveStatusIsGood DEF SaveAnswer

LEMMA SaveRevokedEffect ==
  ASSUME Inv, NEW o \in Requests, SaveRevoked(o)
  PROVE  /\ Good(o) /\ op[o].inv \in InvIds
         /\ invs[op[o].inv].status # "none" /\ invs[op[o].inv].agg = op[o].agg
         /\ invs'[op[o].inv].status = "revoked"
         /\ invs'[op[o].inv].agg = op[o].agg
         /\ \A j \in InvIds \ {op[o].inv} : invs'[j] = invs[j]
<1>1. op[o].inv \in InvIds /\ invs[op[o].inv].status # "none"
      /\ invs[op[o].inv].agg = op[o].agg
  BY DEF SaveRevoked, Inv, Knows, Revoking
<1> QED
  BY <1>1, SaveStatusIsGood DEF SaveRevoked, Statuses

\* A request that begins to revoke, to remove or to read the row.
LEMMA RevokeStart ==
  ASSUME Inv, NEW o \in Requests, NEW i \in InvIds, Revoke(o, i)
  PROVE  /\ Good(o) /\ op'[o].status = invs[i].status /\ op'[o].agg = invs[i].agg
         /\ op'[o].seen = link /\ invs[i].status # "none"
         /\ op'[o].pc = IF invs[i].status = "accepted" THEN "revoke" ELSE "withdraw"
<1> DEFINE x == [Idle EXCEPT !.pc = IF invs[i].status = "accepted"
                                     THEN "revoke" ELSE "withdraw",
                             !.agg = invs[i].agg, !.inv = i,
                             !.status = invs[i].status, !.seen = link]
<1>1. /\ x \in Op /\ x.pc = IF invs[i].status = "accepted" THEN "revoke" ELSE "withdraw"
      /\ x.agg = invs[i].agg /\ x.inv = i
      /\ x.status = invs[i].status /\ x.seen = link
  BY IdleType DEF Op, Idle, Inv, TypeOK, Invitation
<1>2. op' = [op EXCEPT ![o] = x] /\ invs[i].status # "none"
  BY DEF Revoke
<1> HIDE DEF x
<1>3. /\ op' \in [Requests -> Op] /\ \A p \in Requests \ {o} : op'[p] = op[p]
      /\ op'[o] = x
  BY <1>1, <1>2 DEF Inv, TypeOK
<1>4. Knows(o)'
  BY <1>1, <1>2, <1>3 DEF Knows, Sending, Answering, Revoking, Revoke
<1>5. Good(o)
  BY <1>3, <1>4, MoveIsGood DEF Inv, TypeOK, Revoke
<1> QED
  BY <1>1, <1>2, <1>3, <1>5

LEMMA RemoveStart ==
  ASSUME Inv, NEW o \in Requests, NEW a \in Aggs, Remove(o, a)
  PROVE  Good(o) /\ op'[o].pc = "unlink" /\ op'[o].seen = a /\ op'[o].agg = a
<1> DEFINE x == [Idle EXCEPT !.pc = "unlink", !.agg = a, !.seen = a]
<1>1. x \in Op /\ x.pc = "unlink" /\ x.agg = a /\ x.seen = a
  BY IdleType DEF Op, Idle, Links
<1>2. op' = [op EXCEPT ![o] = x]
  BY DEF Remove
<1> HIDE DEF x
<1>3. /\ op' \in [Requests -> Op] /\ \A p \in Requests \ {o} : op'[p] = op[p]
      /\ op'[o] = x
  BY <1>1, <1>2 DEF Inv, TypeOK
<1>4. Knows(o)'
  BY <1>1, <1>3 DEF Knows, Sending, Answering, Revoking
<1>5. Good(o)
  BY <1>3, <1>4, MoveIsGood DEF Inv, TypeOK, Remove
<1> QED
  BY <1>1, <1>3, <1>5

LEMMA ReadRowIsGood ==
  ASSUME Inv, NEW o \in Requests, NEW pc \in {"saverow", "savefields"}, ReadRow(o, pc)
  PROVE  Good(o) /\ op'[o].pc = pc
<1> DEFINE x == [Idle EXCEPT !.pc = pc, !.seen = link]
<1>1. x \in Op /\ x.pc = pc
  BY IdleType DEF Op, Idle, Inv, TypeOK
<1>2. op' = [op EXCEPT ![o] = x]
  BY DEF ReadRow
<1> HIDE DEF x
<1>3. /\ op' \in [Requests -> Op] /\ \A p \in Requests \ {o} : op'[p] = op[p]
      /\ op'[o] = x
  BY <1>1, <1>2 DEF Inv, TypeOK
<1>4. Knows(o)'
  BY <1>1, <1>3 DEF Knows, Sending, Answering, Revoking
<1>5. Good(o)
  BY <1>3, <1>4, MoveIsGood DEF Inv, TypeOK, ReadRow
<1> QED
  BY <1>1, <1>3, <1>5

\* The accepted invitations of the pair, or none, become revoked.
LEMMA CancelEffect ==
  ASSUME Inv, NEW o \in Requests, CancelInvitations(o)
  PROVE  /\ Good(o)
         /\ \A i \in InvIds : /\ invs'[i].agg = invs[i].agg
                              /\ invs'[i].status \in {invs[i].status, "revoked"}
                              /\ "dropped" \notin mishaps' /\ i \in Cancelled(op[o].agg)
                                   => invs'[i].status = "revoked"
<1>1. PICK saved \in BOOLEAN :
        /\ invs' = [i \in InvIds |-> IF saved /\ i \in Cancelled(op[o].agg)
                                     THEN [invs[i] EXCEPT !.status = "revoked"]
                                     ELSE invs[i]]
        /\ Note("dropped", ~saved)
  BY DEF CancelInvitations
<1>2. \A i \in InvIds : /\ invs[i] \in Invitation
                        /\ [invs[i] EXCEPT !.status = "revoked"] \in Invitation
                        /\ [invs[i] EXCEPT !.status = "revoked"].agg = invs[i].agg
                        /\ [invs[i] EXCEPT !.status = "revoked"].status = "revoked"
  BY DEF Inv, TypeOK, Invitation, Statuses
<1>3. \A i \in Cancelled(op[o].agg) : invs[i].status = "accepted"
  BY DEF Cancelled
<1>4. invs' \in [InvIds -> Invitation]
  BY <1>1, <1>2
<1>5. \A i \in InvIds : /\ invs'[i].agg = invs[i].agg
                        /\ invs'[i].status \in {invs[i].status, "revoked"}
                        /\ saved /\ i \in Cancelled(op[o].agg) => invs'[i].status = "revoked"
                        /\ invs[i].status = "none" => invs'[i].status = "none"
                        /\ invs[i].status # "none" => invs'[i].status # "none"
  BY <1>1, <1>2, <1>3
<1>6. mishaps' \subseteq Mishaps /\ mishaps \subseteq mishaps'
      /\ ("dropped" \notin mishaps' => saved)
  BY <1>1, NoteGrows DEF Mishaps, Inv, Note
<1>7. Accounted'
  BY <1>5 DEF Accounted, Inv, CancelInvitations
<1>8. Good(o)
  BY <1>4, <1>5, <1>6, <1>7, SaveIsGood DEF CancelInvitations
<1> QED
  BY <1>5, <1>6, <1>8

LEMMA RecordEffect ==
  ASSUME Inv, NEW o \in Requests, RecordHistory(o)
  PROVE  /\ Good(o) /\ op[o].pc \in {"assigned", "removed", "unassigned"}
         /\ op'[o].agg = op[o].agg /\ op'[o].status = op[o].status
         /\ op'[o].inv = op[o].inv
         /\ op'[o].pc = IF op[o].pc = "assigned" THEN "accept"
                        ELSE IF op[o].pc = "removed" THEN "withdraw" ELSE "cancel"
<1>1. DOMAIN AfterHistory = {"assigned", "removed", "unassigned"}
  BY DEF AfterHistory
<1>2. op[o].pc \in {"assigned", "removed", "unassigned"}
  BY <1>1 DEF RecordHistory
<1>3. AfterHistory[op[o].pc] = IF op[o].pc = "assigned" THEN "accept"
                               ELSE IF op[o].pc = "removed" THEN "withdraw" ELSE "cancel"
  BY <1>2 DEF AfterHistory
<1>4. To(o, AfterHistory[op[o].pc]) /\ UNCHANGED <<link, creator, accounts, invs>>
  BY DEF RecordHistory
<1>5. /\ op' \in [Requests -> Op] /\ \A p \in Requests \ {o} : op'[p] = op[p]
      /\ op'[o].pc = AfterHistory[op[o].pc] /\ op'[o].agg = op[o].agg
      /\ op'[o].inv = op[o].inv /\ op'[o].status = op[o].status
  BY <1>2, <1>3, <1>4, ToType
<1>6. mishaps' \subseteq Mishaps /\ mishaps \subseteq mishaps'
  BY DEF RecordHistory, Mishaps, Inv, TypeOK
<1>7. Action(op[o].pc) \in {"assigned", "removed"} /\ op[o].agg \in Links
  BY OpParts DEF Action, Inv
<1>8. latest' \in Entry
  BY <1>7 DEF RecordHistory, Entry, Inv, TypeOK
<1>9. Knows(o)'
  BY <1>2, <1>3, <1>4, <1>5 DEF Inv, Knows, Sending, Answering, Revoking
<1>10. Good(o)
  BY <1>4, <1>5, <1>6, <1>8, <1>9, MoveIsGood DEF Inv, TypeOK
<1> QED
  BY <1>2, <1>3, <1>5, <1>10

LEMMA EndIsGood ==
  ASSUME Inv, NEW o \in Requests, SaveRow(o) \/ SaveFields(o) \/ Stop(o)
  PROVE  Good(o) /\ op'[o].pc = "idle"
<1>1. End(o) /\ UNCHANGED <<creator, accounts, invs, latest>>
  BY DEF SaveRow, SaveFields, Stop
<1>2. link' \in Links
  BY OpParts DEF SaveRow, SaveFields, Stop, Inv, TypeOK
<1>3. mishaps' \subseteq Mishaps /\ mishaps \subseteq mishaps'
  BY NoteGrows DEF SaveRow, SaveFields, Stop, Mishaps, Inv
<1>4. Knows(o)'
  BY <1>1, EndType, EndKnows
<1> QED
  BY <1>1, <1>2, <1>3, <1>4, EndType, MoveIsGood DEF Inv, TypeOK

-----------------------------------------------------------------------------
(* The invariant of requests *)

LEMMA InitInv == Init => Inv
<1> SUFFICES ASSUME Init PROVE Inv
  OBVIOUS
<1>1. TypeOK
  BY IdleType DEF Init, TypeOK, Invitation, Entry, Links, Mishaps
<1>2. \A o \in Requests : Knows(o)
  BY DEF Init, Knows, Idle, Sending, Answering, Revoking
<1> QED
  BY <1>1, <1>2 DEF Inv, Accounted, Init

LEMMA StepIsGood ==
  ASSUME Inv, NEW o \in Requests, Step(o)
  PROVE  Good(o)
<1>1. CASE \E a \in Aggs : Invite(o, a) \/ InviteByEmail(o, a) \/ Remove(o, a)
  BY <1>1, InviteIsGood, RemoveStart
<1>2. CASE \E i \in InvIds, accept \in BOOLEAN : Respond(o, i, accept)
  BY <1>2, RespondIsGood
<1>3. CASE \E i \in InvIds : Revoke(o, i)
  BY <1>3, RevokeStart
<1>4. CASE \E pc \in {"saverow", "savefields"} : ReadRow(o, pc)
  BY <1>4, ReadRowIsGood
<1>5. CASE \/ InviteAgain(o) \/ CreateAccount(o) \/ CheckExisting(o)
           \/ CreateInvitation(o) \/ CheckBusiness(o)
  BY <1>5, SendingIsGood, CreateAccountIsGood, CreateInvitationIsGood, CheckBusinessIsGood
<1>6. CASE \/ LinkBusiness(o) \/ SaveAnswer(o) \/ Unlink(o) \/ SaveRevoked(o)
           \/ CancelInvitations(o) \/ RecordHistory(o) \/ SaveRow(o) \/ SaveFields(o) \/ Stop(o)
  BY <1>6, LinkIsGood, SaveAnswerEffect, SaveRevokedEffect, CancelEffect, RecordEffect, EndIsGood
<1> QED
  BY <1>1, <1>2, <1>3, <1>4, <1>5, <1>6 DEF Step

LEMMA GoodKeepsInv ==
  ASSUME Inv, NEW o \in Requests, Good(o)
  PROVE  Inv'
<1>1. ASSUME NEW p \in Requests PROVE Knows(p)'
  <2>1. CASE p = o
    BY <2>1 DEF Good
  <2>2. CASE p # o
    BY <2>2, KnowledgeStays DEF Good, Inv
  <2> QED
    BY <2>1, <2>2
<1> QED
  BY <1>1 DEF Inv, Good

LEMMA StutterKeepsInv == Inv /\ UNCHANGED vars => Inv'
BY DEF Inv, vars, TypeOK, Accounted, Knows

LEMMA NextInv == Inv /\ [Next]_vars => Inv'
BY StepIsGood, GoodKeepsInv, StutterKeepsInv DEF Next

THEOREM InvHolds == Spec => []Inv
BY InitInv, NextInv, PTL DEF Spec

\* The link, the invitations and every request keep their types.
THEOREM LinkTypeCorrect == Spec => []TypeOK
<1>1. Inv => TypeOK
  BY DEF Inv
<1> QED
  BY <1>1, InvHolds, PTL

-----------------------------------------------------------------------------
(* No aggregator takes over the business of another *)

\* An acceptance found no aggregator, so a link that is there by the time it is
\* written has moved; rows are saved as they were read.
LEMMA NextTakeover ==
  ASSUME Inv, [Next]_vars, link # None, link' \notin {None, link}
  PROVE  mishaps' \cap {"crossed", "row"} # {}
<1>1. PICK o \in Requests : Step(o)
  BY DEF Next, vars
<1>2. LinkBusiness(o) \/ Unlink(o) \/ SaveRow(o) \/ SaveFields(o)
  BY <1>1 DEF Step, Invite, InviteByEmail, Begin, Remove, Respond, Revoke, ReadRow,
     InviteAgain, CreateAccount, CheckExisting, CreateInvitation, CheckBusiness,
     SaveAnswer, SaveRevoked, CancelInvitations, RecordHistory, Stop
<1>3. CASE LinkBusiness(o)
  BY <1>3 DEF LinkBusiness, Inv, Knows, Note, Crossed, LinkMoved
<1>4. CASE Unlink(o)
  BY <1>4 DEF Unlink
<1>5. CASE SaveRow(o) \/ SaveFields(o)
  BY <1>5 DEF SaveRow, SaveFields, Note, LinkMoved
<1> QED
  BY <1>2, <1>3, <1>4, <1>5

\* An aggregator takes over no business of another, whoever accepts, revokes
\* and removes at once, unless the link moved between the look and the write.
THEOREM BusinessesAreNotTakenOver == Spec => NoTakeover
<1>1. Inv /\ [Next]_vars
      => [link # None /\ link' \notin {None, link} => mishaps' \cap {"crossed", "row"} # {}]_vars
  BY NextTakeover
<1> QED
  BY <1>1, InvHolds, PTL DEF Spec, NoTakeover

-----------------------------------------------------------------------------
(* The link and the requests that have written it *)

\* Every write of the link found it as it had been read.
Calm == mishaps \cap {"crossed", "row"} = {}

\* One request at most is between the link and the invitation, and the link is
\* what it wrote.
OneHalfway ==
  Calm => /\ \A o \in Requests : Halfway(o) =>
               link = IF op[o].pc \in {"assigned", "accept"} THEN op[o].agg ELSE None
          /\ \A o, p \in Requests : Halfway(o) /\ Halfway(p) => o = p

\* A step that writes neither link nor invitations.
Quiet(o) ==
  /\ UNCHANGED <<link, creator, invs, latest>>
  /\ ~Halfway(o)'
  /\ Halfway(o) => "stopped" \in mishaps'
  /\ op'[o].pc = "revoke" => op'[o].seen = link
                          /\ \E i \in InvIds : /\ invs[i].status = "accepted"
                                               /\ invs[i].agg = op'[o].agg

LEMMA Unwinding == Inv /\ [Next]_vars /\ Calm' => Calm
<1> SUFFICES ASSUME Inv, [Next]_vars, Calm' PROVE Calm
  OBVIOUS
<1>1. mishaps \subseteq mishaps'
  BY StepIsGood DEF Next, Good, Grows, vars
<1> QED
  BY <1>1 DEF Calm

\* The other steps.
Writes(o) ==
  \/ CreateInvitation(o) \/ LinkBusiness(o) \/ SaveAnswer(o) \/ Unlink(o)
  \/ SaveRevoked(o) \/ CancelInvitations(o) \/ RecordHistory(o)

LEMMA QuietSteps ==
  ASSUME Inv, NEW o \in Requests, Step(o), Calm'
  PROVE  Quiet(o) \/ Writes(o)
<1>1. CASE \E a \in Aggs : Invite(o, a) \/ InviteByEmail(o, a)
  <2> PICK a \in Aggs, pc \in {"lookup", "again", "account"} : Begin(o, a, pc)
    BY <1>1 DEF Invite, InviteByEmail
  <2>1. op[o].pc = "idle" /\ op'[o].pc = pc /\ UNCHANGED <<link, creator, invs, latest>>
    BY DEF Begin, Inv, TypeOK, Idle
  <2> QED
    BY <2>1 DEF Quiet, Halfway
<1>2. CASE \E a \in Aggs : Remove(o, a)
  BY <1>2, RemoveStart DEF Remove, Quiet, Halfway
<1>3. CASE \E i \in InvIds, accept \in BOOLEAN : Respond(o, i, accept)
  <2>1. op'[o].pc \in {"check", "reject"} /\ op[o].pc = "idle"
        /\ UNCHANGED <<link, creator, invs, latest>>
    BY <1>3 DEF Respond, Inv, TypeOK, Idle
  <2> QED
    BY <2>1 DEF Quiet, Halfway
<1>4. CASE \E i \in InvIds : Revoke(o, i)
  BY <1>4, RevokeStart DEF Revoke, Quiet, Halfway
<1>5. CASE \E pc \in {"saverow", "savefields"} : ReadRow(o, pc)
  BY <1>5, ReadRowIsGood DEF ReadRow, Quiet, Halfway
<1>6. CASE InviteAgain(o) \/ CreateAccount(o) \/ CheckExisting(o)
  <2>1. op'[o].pc \in {"lookup", "create", "idle"} /\ op[o].pc \in {"account", "again", "lookup"}
    BY <1>6, ToType, EndType DEF InviteAgain, CreateAccount, CheckExisting
  <2> QED
    BY <1>6, <2>1 DEF InviteAgain, CreateAccount, CheckExisting, Quiet, Halfway
<1>7. CASE CheckBusiness(o)
  <2>1. op'[o].pc \in {"link", "idle"} /\ op[o].pc = "check"
    BY <1>7, EndType DEF CheckBusiness, Inv, TypeOK, Op
  <2> QED
    BY <1>7, <2>1 DEF CheckBusiness, Quiet, Halfway
<1>8. CASE SaveRow(o) \/ SaveFields(o)
  <2>1. link' = link
    BY <1>8 DEF SaveRow, SaveFields, Note, LinkMoved, Calm
  <2> QED
    BY <1>8, <2>1, EndIsGood DEF SaveRow, SaveFields, Quiet, Halfway
<1>9. CASE Stop(o)
  BY <1>9, EndIsGood DEF Stop, Quiet, Halfway, Note
<1> QED
  BY <1>1, <1>2, <1>3, <1>4, <1>5, <1>6, <1>7, <1>8, <1>9 DEF Step, Writes

\* An undisturbed write of the link finds it as it was read, and no request
\* between the link and the invitation.
LEMMA LinkEffect ==
  ASSUME Inv, NEW o \in Requests, LinkBusiness(o), Calm'
  PROVE  /\ link = None /\ link' = op[o].agg /\ \A p \in Requests : ~Halfway(p)
         /\ op'[o].pc = "assigned" /\ op'[o].agg = op[o].agg
         /\ UNCHANGED <<creator, invs, latest>> /\ op[o].agg \in Aggs
<1>1. ~Crossed(o) /\ op[o].pc = "link"
  BY DEF LinkBusiness, Note, Calm
<1>2. op[o].seen = None /\ op[o].agg \in Aggs
  BY <1>1 DEF Inv, Knows, Answering, Accounted, TypeOK
<1> QED
  BY <1>1, <1>2, ToType DEF LinkBusiness, Crossed, LinkMoved, Halfway

LEMMA UnlinkEffect ==
  ASSUME Inv, NEW o \in Requests, Unlink(o), Calm'
  PROVE  /\ link = op[o].seen /\ link' = None /\ \A p \in Requests : ~Halfway(p)
         /\ \/ op[o].pc = "revoke" /\ op'[o].pc = "removed"
            \/ op[o].pc = "unlink" /\ op'[o].pc = "unassigned" /\ op[o].seen = op[o].agg
         /\ op'[o].agg = op[o].agg
         /\ UNCHANGED <<creator, invs, latest>>
<1>1. ~Crossed(o) /\ op[o].pc \in {"revoke", "unlink"}
  BY DEF Unlink, Note, Calm
<1>2. op[o].pc = "unlink" => op[o].seen = op[o].agg
  BY DEF Inv, Knows
<1> QED
  BY <1>1, <1>2, ToType DEF Unlink, Crossed, LinkMoved, Halfway

\* Recording the history leaves a request halfway.
LEMMA RecordStays ==
  ASSUME Inv, NEW o \in Requests, RecordHistory(o)
  PROVE  /\ Halfway(o) /\ Halfway(o)'
         /\ op'[o].pc \in {"assigned", "accept"} <=> op[o].pc \in {"assigned", "accept"}
<1>1. op[o].pc = "removed" => op[o].status = "accepted"
  BY DEF Inv, Knows
<1> QED
  BY <1>1, RecordEffect DEF Halfway

LEMMA OtherHalfway ==
  ASSUME NEW o \in Requests, NEW p \in Requests \ {o}, Good(o)
  PROVE  Halfway(p)' <=> Halfway(p)
BY DEF Good, Halfway

\* Every other request that ends leaves nobody halfway.
LEMMA EndedIsNotHalfway ==
  ASSUME Inv, NEW o \in Requests,
         CreateInvitation(o) \/ SaveAnswer(o) \/ SaveRevoked(o) \/ CancelInvitations(o)
  PROVE  UNCHANGED <<link, creator, latest>> /\ ~Halfway(o)'
BY EndType DEF CreateInvitation, SaveAnswer, SaveRevoked, CancelInvitations, Halfway

LEMMA NextOneHalfway == Inv /\ OneHalfway /\ [Next]_vars => OneHalfway'
<1> SUFFICES ASSUME Inv, OneHalfway, [Next]_vars, Calm' PROVE OneHalfway'
  BY DEF OneHalfway
<1>1. Calm
  BY Unwinding
<1>2. CASE UNCHANGED vars
  BY <1>2 DEF vars, OneHalfway, Calm, Halfway
<1>3. CASE \E o \in Requests : Step(o)
  <2> PICK o \in Requests : Step(o)
    BY <1>3
  <2>1. Good(o)
    BY StepIsGood
  <2>2. \A p \in Requests \ {o} : (Halfway(p)' <=> Halfway(p)) /\ op'[p] = op[p]
    BY <2>1, OtherHalfway DEF Good
  <2>3. CASE link' = link /\ ~Halfway(o)'
    BY <1>1, <2>2, <2>3 DEF OneHalfway
  <2>4. CASE LinkBusiness(o)
    BY <2>2, <2>4, LinkEffect DEF OneHalfway
  <2>5. CASE Unlink(o)
    BY <2>2, <2>5, UnlinkEffect DEF OneHalfway
  <2>6. CASE RecordHistory(o)
    <3>1. link' = link /\ op'[o].agg = op[o].agg
      BY <2>6, RecordEffect DEF RecordHistory
    <3> QED
      BY <1>1, <2>2, <2>6, <3>1, RecordStays DEF OneHalfway
  <2> QED
    BY <2>3, <2>4, <2>5, <2>6, QuietSteps, EndedIsNotHalfway DEF Writes, Quiet
<1> QED
  BY <1>2, <1>3 DEF Next

LEMMA InitOneHalfway == Init => OneHalfway
BY DEF Init, OneHalfway, Halfway, Idle

\* The invariant of the link: a mishap that is there stays.
LEMMA MishapsStay == Inv /\ [Next]_vars => mishaps \subseteq mishaps'
BY StepIsGood DEF Next, Good, Grows, vars

THEOREM HalfwayHolds == Spec => [](Inv /\ OneHalfway)
<1>1. Init => Inv /\ OneHalfway
  BY InitInv, InitOneHalfway
<1>2. Inv /\ OneHalfway /\ [Next]_vars => Inv' /\ OneHalfway'
  BY NextInv, NextOneHalfway
<1> QED
  BY <1>1, <1>2, PTL DEF Spec

-----------------------------------------------------------------------------
(* The aggregator of a business was accepted *)

\* What a saved answer does when nobody else answered: the invitation was
\* pending, and becomes accepted by a request that has linked the business.
LEMMA AnswerEffect ==
  ASSUME Inv, NEW o \in Requests, SaveAnswer(o), "answer" \notin mishaps'
  PROVE  /\ op[o].inv \in InvIds /\ invs[op[o].inv].status = "pending"
         /\ invs'[op[o].inv].agg = op[o].agg
         /\ \/ op[o].pc = "accept" /\ invs'[op[o].inv].status = "accepted"
            \/ op[o].pc = "reject" /\ invs'[op[o].inv].status = "rejected"
         /\ \A j \in InvIds \ {op[o].inv} : invs'[j] = invs[j]
<1>1. invs[op[o].inv].status = op[o].status
  BY DEF SaveAnswer, Note
<1> QED
  BY <1>1, SaveAnswerEffect DEF SaveAnswer, Answer

LEMMA RevokedEffect ==
  ASSUME Inv, NEW o \in Requests, SaveRevoked(o), "answer" \notin mishaps'
  PROVE  /\ op[o].inv \in InvIds /\ invs'[op[o].inv].status = "revoked"
         /\ Halfway(o) <=> invs[op[o].inv].status = "accepted"
         /\ \A j \in InvIds \ {op[o].inv} : invs'[j] = invs[j]
<1>1. invs[op[o].inv].status = op[o].status
  BY DEF SaveRevoked, Note
<1> QED
  BY <1>1, SaveRevokedEffect DEF SaveRevoked, Halfway

LEMMA CreatedEffect ==
  ASSUME Inv, NEW o \in Requests, CreateInvitation(o)
  PROVE  \E i \in InvIds :
           /\ invs[i].status = "none"
           /\ invs'[i] = [agg |-> op[o].agg, status |-> "pending"]
           /\ \A j \in InvIds \ {i} : invs'[j] = invs[j]
<1>1. PICK i \in InvIds :
        /\ {j \in InvIds : invs[j].status = "none"} = i..MaxInvs
        /\ invs' = [invs EXCEPT ![i] = [agg |-> op[o].agg, status |-> "pending"]]
  BY DEF CreateInvitation
<1> QED
  BY <1>1, MaxInvsAssumption DEF InvIds, Inv, TypeOK

LEMMA NextMandate ==
  Inv /\ OneHalfway /\ LinkIsAccepted /\ [Next]_vars => LinkIsAccepted'
<1> DEFINE Excused == mishaps \cap {"crossed", "answer", "row", "stopped"} # {}
           Behind == \/ \E i \in InvIds : invs[i].agg = link /\ invs[i].status = "accepted"
                     \/ \E o \in Requests : op[o].pc \in {"assigned", "accept"} /\ op[o].agg = link
<1> SUFFICES ASSUME Inv, OneHalfway, LinkIsAccepted, [Next]_vars, ~Excused',
                    link' \notin {None, creator'}
             PROVE  Behind'
  BY DEF LinkIsAccepted
<1>1. Calm /\ Calm' /\ ~Excused
  BY MishapsStay DEF Calm
<1>2. CASE UNCHANGED vars
  BY <1>1, <1>2 DEF vars, LinkIsAccepted
<1>3. CASE \E o \in Requests : Step(o)
  <2> PICK o \in Requests : Step(o)
    BY <1>3
  <2>1. creator' = creator /\ \A p \in Requests \ {o} : op'[p] = op[p]
    BY StepIsGood, QuietSteps, <1>1, LinkEffect, UnlinkEffect, EndedIsNotHalfway
       DEF Good, Quiet, Writes, RecordHistory
  <2>2. CASE Quiet(o)
    <3>1. op[o].pc \notin {"assigned", "accept"}
      BY <2>2 DEF Quiet, Halfway
    <3> QED
      BY <1>1, <2>1, <2>2, <3>1 DEF Quiet, LinkIsAccepted
  <2>3. CASE CreateInvitation(o)
    BY <1>1, <2>1, <2>3, CreatedEffect, EndedIsNotHalfway DEF LinkIsAccepted, CreateInvitation
  <2>4. CASE LinkBusiness(o)
    BY <1>1, <2>4, LinkEffect
  <2>5. CASE SaveAnswer(o)
    BY <1>1, <2>1, <2>5, AnswerEffect, EndedIsNotHalfway DEF LinkIsAccepted
  <2>6. CASE Unlink(o)
    BY <1>1, <2>6, UnlinkEffect
  <2>7. CASE SaveRevoked(o)
    <3>1. CASE Halfway(o)
      BY <1>1, <2>7, <3>1, EndedIsNotHalfway DEF OneHalfway, SaveRevoked
    <3>2. CASE ~Halfway(o)
      BY <1>1, <2>1, <2>7, <3>2, RevokedEffect, EndedIsNotHalfway DEF LinkIsAccepted, SaveRevoked
    <3> QED
      BY <3>1, <3>2
  <2>8. CASE CancelInvitations(o)
    <3>1. link = None
      BY <1>1, <2>8 DEF OneHalfway, Halfway, CancelInvitations
    <3> QED
      BY <2>8, <3>1, EndedIsNotHalfway
  <2>9. CASE RecordHistory(o)
    <3>1. link' = link /\ invs' = invs /\ op'[o].agg = op[o].agg
      BY <2>9, RecordEffect DEF RecordHistory
    <3> QED
      BY <1>1, <2>1, <2>9, <3>1, RecordStays DEF LinkIsAccepted
  <2> QED
    BY <1>1, <2>2, <2>3, <2>4, <2>5, <2>6, <2>7, <2>8, <2>9, QuietSteps DEF Writes
<1> QED
  BY <1>2, <1>3 DEF Next

LEMMA InitMandate == Init => LinkIsAccepted
BY DEF Init, LinkIsAccepted

\* Behind the aggregator of a business there is an accepted invitation, or the
\* request that is about to save one, unless the business was created by it or
\* one of the mishaps the property names came between.
THEOREM MandateIsAccepted == Spec => []LinkIsAccepted
<1>1. Inv /\ OneHalfway /\ LinkIsAccepted /\ [Next]_vars => LinkIsAccepted'
  BY NextMandate
<1> QED
  BY <1>1, InitMandate, HalfwayHolds, PTL DEF Spec

-----------------------------------------------------------------------------
(* The history names the aggregator *)

LEMMA NextHistory ==
  Inv /\ OneHalfway /\ HistoryAgrees /\ [Next]_vars => HistoryAgrees'
<1> DEFINE Excused == mishaps \cap {"crossed", "row", "stopped", "dropped"} # {}
           Recorded == link = IF latest.action = "assigned" THEN latest.agg ELSE None
           Due(o) == op[o].pc \in DOMAIN AfterHistory
<1> SUFFICES ASSUME Inv, OneHalfway, HistoryAgrees, [Next]_vars, ~Excused',
                    \A o \in Requests : ~Due(o)'
             PROVE  Recorded'
  BY DEF HistoryAgrees
<1>1. Calm /\ Calm' /\ ~Excused
  BY MishapsStay DEF Calm
<1>2. DOMAIN AfterHistory = {"assigned", "removed", "unassigned"}
  BY DEF AfterHistory
<1>3. CASE UNCHANGED vars
  BY <1>1, <1>3 DEF vars, HistoryAgrees
<1>4. CASE \E o \in Requests : Step(o)
  <2> PICK o \in Requests : Step(o)
    BY <1>4
  <2>1. \A p \in Requests \ {o} : op'[p] = op[p]
    BY StepIsGood DEF Good
  <2>2. CASE UNCHANGED <<link, latest>> /\ ~Due(o)
    BY <1>1, <2>1, <2>2 DEF HistoryAgrees
  <2>3. CASE Quiet(o)
    <3>1. ~Due(o)
      BY <1>2, <2>3 DEF Quiet, Halfway
    <3> QED
      BY <2>2, <2>3, <3>1 DEF Quiet
  <2>4. CASE CreateInvitation(o) \/ SaveAnswer(o) \/ SaveRevoked(o) \/ CancelInvitations(o)
    <3>1. ~Due(o)
      BY <1>2, <2>4 DEF CreateInvitation, SaveAnswer, SaveRevoked, CancelInvitations
    <3> QED
      BY <2>2, <2>4, <3>1, EndedIsNotHalfway
  <2>5. CASE LinkBusiness(o) \/ Unlink(o)
    BY <1>1, <1>2, <2>5, LinkEffect, UnlinkEffect
  <2>6. CASE RecordHistory(o)
    <3>1. link' = link /\ latest' = [agg |-> op[o].agg, action |-> Action(op[o].pc)]
      BY <2>6 DEF RecordHistory
    <3>2. link = IF op[o].pc \in {"assigned", "accept"} THEN op[o].agg ELSE None
      BY <1>1, <2>6, RecordStays DEF OneHalfway
    <3> QED
      BY <2>6, <3>1, <3>2, RecordEffect DEF Action
  <2> QED
    BY <1>1, <2>3, <2>4, <2>5, <2>6, QuietSteps DEF Writes
<1> QED
  BY <1>3, <1>4 DEF Next

LEMMA InitHistory == Init => HistoryAgrees
BY DEF Init, HistoryAgrees

\* When no request is about to record its write, the newest row of the history
\* names the aggregator of the business or says that it was removed.
THEOREM HistoryHolds == Spec => []HistoryAgrees
<1>1. Inv /\ OneHalfway /\ HistoryAgrees /\ [Next]_vars => HistoryAgrees'
  BY NextHistory
<1> QED
  BY <1>1, InitHistory, HalfwayHolds, PTL DEF Spec

-----------------------------------------------------------------------------
(* Accepted invitations belong to the aggregator *)

Quarrels == {"crossed", "answer", "row", "stopped", "dropped"}

\* At most one invitation is accepted, none while an acceptance is halfway, and
\* a revocation read the link that the invitation stands for, or none.
AcceptedInv ==
  mishaps \cap Quarrels = {} =>
    /\ \A i \in InvIds : invs[i].status = "accepted" =>
         \/ link = invs[i].agg
         \/ \E o \in Requests : Halfway(o) /\ op[o].agg = invs[i].agg
    /\ \A i, j \in InvIds :
         invs[i].status = "accepted" /\ invs[j].status = "accepted" => i = j
    /\ \A o \in Requests : op[o].pc \in {"assigned", "accept"} =>
         \A i \in InvIds : invs[i].status # "accepted"
    /\ \A o \in Requests : op[o].pc = "revoke" => op[o].seen \in {None, op[o].agg}

\* An undisturbed write of the link leaves only the invitations of the writer
\* accepted.
LEMMA NoneElse ==
  ASSUME Inv, AcceptedInv, mishaps \cap Quarrels = {}, \A p \in Requests : ~Halfway(p),
         NEW i \in InvIds, invs[i].status = "accepted"
  PROVE  link = invs[i].agg /\ link # None
<1>1. link = invs[i].agg
  BY DEF AcceptedInv
<1>2. invs[i].agg \in Aggs
  BY DEF Inv, Accounted, TypeOK
<1> QED
  BY <1>1, <1>2, NoneAssumption

LEMMA NextAccepted ==
  Inv /\ OneHalfway /\ AcceptedInv /\ [Next]_vars => AcceptedInv'
<1> SUFFICES ASSUME Inv, OneHalfway, AcceptedInv, [Next]_vars, mishaps' \cap Quarrels = {}
             PROVE  AcceptedInv'
  BY DEF AcceptedInv, Quarrels
<1>1. Calm /\ Calm' /\ mishaps \cap Quarrels = {}
      /\ "answer" \notin mishaps' /\ "dropped" \notin mishaps' /\ "stopped" \notin mishaps'
  BY MishapsStay DEF Calm, Quarrels
<1>2. CASE UNCHANGED vars
  BY <1>1, <1>2 DEF vars, AcceptedInv, Halfway, Quarrels
<1>3. CASE \E o \in Requests : Step(o)
  <2> PICK o \in Requests : Step(o)
    BY <1>3
  <2>1. Good(o)
    BY StepIsGood
  <2>2. \A p \in Requests \ {o} : (Halfway(p)' <=> Halfway(p)) /\ op'[p] = op[p]
    BY <2>1, OtherHalfway DEF Good
  <2>3. CASE Quiet(o)
    <3>1. ~Halfway(o) /\ ~Halfway(o)' /\ op'[o].pc \notin {"assigned", "accept"}
      BY <1>1, <2>3 DEF Quiet, Halfway
    <3>2. op'[o].pc = "revoke" => op'[o].seen \in {None, op'[o].agg}
      <4> SUFFICES ASSUME op'[o].pc = "revoke", link # op'[o].agg
                   PROVE  link = None /\ op'[o].seen = link
        BY <2>3 DEF Quiet
      <4>1. PICK i \in InvIds : invs[i].status = "accepted" /\ invs[i].agg = op'[o].agg
        BY <2>3 DEF Quiet
      <4>2. PICK p \in Requests : Halfway(p) /\ op[p].agg = invs[i].agg
        BY <1>1, <4>1 DEF AcceptedInv
      <4> QED
        BY <1>1, <2>3, <4>1, <4>2 DEF OneHalfway, Quiet
    <3> QED
      BY <1>1, <2>2, <2>3, <3>1, <3>2 DEF AcceptedInv, Quiet
  <2>4. CASE CreateInvitation(o)
    <3>1. PICK i \in InvIds :
            /\ invs[i].status = "none"
            /\ invs'[i] = [agg |-> op[o].agg, status |-> "pending"]
            /\ \A j \in InvIds \ {i} : invs'[j] = invs[j]
      BY <2>4, CreatedEffect
    <3>2. op'[o].pc = "idle" /\ link' = link /\ ~Halfway(o) /\ ~Halfway(o)'
      BY <2>4, EndType, EndedIsNotHalfway DEF CreateInvitation, Halfway
    <3> QED
      BY <1>1, <2>2, <3>1, <3>2 DEF AcceptedInv
  <2>5. CASE LinkBusiness(o)
    <3>1. \A i \in InvIds : invs[i].status # "accepted"
      BY <1>1, <2>5, LinkEffect, NoneElse
    <3> QED
      BY <1>1, <2>2, <2>5, <3>1, LinkEffect DEF AcceptedInv
  <2>6. CASE SaveAnswer(o)
    <3>1. op'[o].pc = "idle" /\ link' = link /\ ~Halfway(o)'
      BY <2>6, EndType, EndedIsNotHalfway DEF SaveAnswer
    <3>2. CASE op[o].pc = "accept"
      <4>1. Halfway(o) /\ link = op[o].agg
        BY <1>1, <3>2 DEF Halfway, OneHalfway
      <4>2. \A p \in Requests \ {o} : ~Halfway(p)
        BY <1>1, <4>1 DEF OneHalfway
      <4>3. \A i \in InvIds : invs[i].status # "accepted"
        BY <1>1, <3>2 DEF AcceptedInv
      <4>4. \A p \in Requests \ {o} : op[p].pc \notin {"assigned", "accept"}
        BY <4>2 DEF Halfway
      <4>5. \A i \in InvIds : invs'[i].status = "accepted" => i = op[o].inv /\ invs'[i].agg = link
        BY <1>1, <2>6, <4>1, <4>3, AnswerEffect
      <4> QED
        BY <1>1, <2>2, <3>1, <4>4, <4>5 DEF AcceptedInv
    <3>3. CASE op[o].pc = "reject"
      <4>1. ~Halfway(o)
        BY <3>3 DEF Halfway
      <4>2. \A i \in InvIds : invs'[i].status = "accepted" => invs'[i] = invs[i]
        BY <1>1, <2>6, <3>3, AnswerEffect
      <4> QED
        BY <1>1, <2>2, <3>1, <4>1, <4>2 DEF AcceptedInv
    <3> QED
      BY <2>6, <3>2, <3>3 DEF SaveAnswer
  <2>7. CASE Unlink(o)
    <3>1. \A i \in InvIds : invs[i].status = "accepted" => op[o].agg = invs[i].agg
      <4> SUFFICES ASSUME NEW i \in InvIds, invs[i].status = "accepted"
                   PROVE  op[o].agg = invs[i].agg
        OBVIOUS
      <4>1. link = invs[i].agg /\ link # None /\ link = op[o].seen
        BY <1>1, <2>7, UnlinkEffect, NoneElse
      <4> QED
        BY <1>1, <2>7, <4>1, UnlinkEffect DEF AcceptedInv
    <3>2. Halfway(o)' /\ op'[o].pc \notin {"assigned", "accept", "revoke"}
      BY <1>1, <2>7, UnlinkEffect DEF Halfway
    <3>3. op'[o].agg = op[o].agg /\ invs' = invs
      BY <1>1, <2>7, UnlinkEffect
    <3> QED
      BY <1>1, <2>2, <3>1, <3>2, <3>3 DEF AcceptedInv
  <2>8. CASE SaveRevoked(o)
    <3>1. op'[o].pc = "idle" /\ link' = link /\ ~Halfway(o)'
      BY <2>8, EndType, EndedIsNotHalfway DEF SaveRevoked
    <3>2. \A i \in InvIds : invs'[i].status = "accepted" => invs'[i] = invs[i]
      BY <1>1, <2>8, RevokedEffect
    <3>3. CASE Halfway(o)
      <4>1. \A i \in InvIds : invs'[i].status # "accepted"
        BY <1>1, <2>8, <3>2, <3>3, RevokedEffect DEF AcceptedInv
      <4> QED
        BY <1>1, <2>2, <3>1, <4>1 DEF AcceptedInv
    <3>4. CASE ~Halfway(o)
      BY <1>1, <2>2, <3>1, <3>2, <3>4 DEF AcceptedInv
    <3> QED
      BY <3>3, <3>4
  <2>9. CASE CancelInvitations(o)
    <3>1. op'[o].pc = "idle" /\ link' = link /\ ~Halfway(o)' /\ Halfway(o)
      BY <2>9, EndType, EndedIsNotHalfway DEF CancelInvitations, Halfway
    <3>2. link = None /\ \A p \in Requests \ {o} : ~Halfway(p)
      BY <1>1, <2>9, <3>1 DEF OneHalfway, CancelInvitations
    <3>3. \A i \in InvIds : invs[i].status = "accepted" => invs[i].agg = op[o].agg
      <4> SUFFICES ASSUME NEW i \in InvIds, invs[i].status = "accepted"
                   PROVE  invs[i].agg = op[o].agg
        OBVIOUS
      <4>1. invs[i].agg \in Aggs
        BY DEF Inv, Accounted, TypeOK
      <4> QED
        BY <1>1, <3>2, <4>1, NoneAssumption DEF AcceptedInv
    <3>4. \A i \in InvIds : invs'[i].status # "accepted"
      BY <1>1, <2>9, <3>3, CancelEffect DEF Cancelled
    <3> QED
      BY <1>1, <2>2, <3>1, <3>4 DEF AcceptedInv
  <2>10. CASE RecordHistory(o)
    <3>1. /\ link' = link /\ invs' = invs /\ op'[o].agg = op[o].agg
          /\ op'[o].pc # "revoke"
      BY <2>10, RecordEffect DEF RecordHistory
    <3> QED
      BY <1>1, <2>2, <2>10, <3>1, RecordStays DEF AcceptedInv
  <2> QED
    BY <1>1, <2>3, <2>4, <2>5, <2>6, <2>7, <2>8, <2>9, <2>10, QuietSteps DEF Writes
<1> QED
  BY <1>2, <1>3 DEF Next

LEMMA InitAccepted == Init => AcceptedInv
BY DEF Init, AcceptedInv, Idle

\* An accepted invitation belongs to the aggregator of the business, or a
\* request between the link and the invitation is about to settle it, unless
\* one of the mishaps the property names came between.
THEOREM AcceptedHolds == Spec => []AcceptedIsLinked
<1>1. Inv /\ OneHalfway /\ AcceptedInv /\ [Next]_vars => AcceptedInv'
  BY NextAccepted
<1>2. AcceptedInv => AcceptedIsLinked
  BY DEF AcceptedInv, AcceptedIsLinked, Quarrels
<1> QED
  BY <1>1, <1>2, InitAccepted, HalfwayHolds, PTL DEF Spec

-----------------------------------------------------------------------------
(* One active invitation *)

Active(i) == invs[i].status \in {"pending", "accepted"}

\* One request at most sends to an aggregator, and one that is about to store
\* an invitation has no active one beside it.
ActiveInv ==
  mishaps \cap {"overlap", "answer"} = {} =>
    /\ \A i, j \in InvIds : Active(i) /\ Active(j) /\ invs[i].agg = invs[j].agg => i = j
    /\ \A o, p \in Requests :
         op[o].pc \in Sending /\ op[p].pc \in Sending /\ op[o].agg = op[p].agg => o = p
    /\ \A o \in Requests : op[o].pc = "create" =>
         \A i \in InvIds : Active(i) => invs[i].agg # op[o].agg

\* A step that begins no sending and makes no invitation active.
LEMMA NothingNew ==
  ASSUME ActiveInv, NEW o \in Requests, mishaps \cap {"overlap", "answer"} = {},
         \A p \in Requests \ {o} : op'[p] = op[p],
         \/ op'[o].pc \notin Sending
         \/ /\ op'[o].pc \in Sending \ {"create"} /\ op[o].pc \in Sending
            /\ op'[o].agg = op[o].agg,
         \A i \in InvIds : Active(i)' => Active(i) /\ invs'[i].agg = invs[i].agg
  PROVE  ActiveInv'
BY DEF ActiveInv, Sending

\* Steps of a request that sends no invitation.
LEMMA NoSending ==
  ASSUME Inv, NEW o \in Requests,
         \/ \E a \in Aggs : Remove(o, a)
         \/ \E i \in InvIds, accept \in BOOLEAN : Respond(o, i, accept)
         \/ \E i \in InvIds : Revoke(o, i)
         \/ \E pc \in {"saverow", "savefields"} : ReadRow(o, pc)
         \/ CheckBusiness(o) \/ LinkBusiness(o) \/ Unlink(o)
         \/ RecordHistory(o) \/ SaveRow(o) \/ SaveFields(o) \/ Stop(o)
  PROVE  op'[o].pc \notin Sending /\ invs' = invs
<1>1. CASE \E a \in Aggs : Remove(o, a)
  BY <1>1, RemoveStart DEF Remove, Sending
<1>2. CASE \E i \in InvIds, accept \in BOOLEAN : Respond(o, i, accept)
  <2>1. op'[o].pc \in {"check", "reject"} /\ invs' = invs
    BY ZenonT(40), <1>2 DEF Respond, Inv, TypeOK, Idle
  <2> QED
    BY <2>1 DEF Sending
<1>3. CASE \E i \in InvIds : Revoke(o, i)
  BY <1>3, RevokeStart DEF Revoke, Sending
<1>4. CASE \E pc \in {"saverow", "savefields"} : ReadRow(o, pc)
  BY <1>4, ReadRowIsGood DEF ReadRow, Sending
<1>5. CASE CheckBusiness(o)
  BY <1>5, EndType DEF CheckBusiness, Inv, TypeOK, Op, Sending
<1>6. CASE LinkBusiness(o) \/ Unlink(o)
  BY <1>6, ToType DEF LinkBusiness, Unlink, Sending
<1>7. CASE RecordHistory(o)
  BY <1>7, RecordEffect DEF RecordHistory, Sending
<1>8. CASE SaveRow(o) \/ SaveFields(o) \/ Stop(o)
  BY <1>8, EndIsGood DEF SaveRow, SaveFields, Stop, Sending
<1> QED
  BY <1>1, <1>2, <1>3, <1>4, <1>5, <1>6, <1>7, <1>8

LEMMA NextActive == Inv /\ ActiveInv /\ [Next]_vars => ActiveInv'
<1> SUFFICES ASSUME Inv, ActiveInv, [Next]_vars, mishaps' \cap {"overlap", "answer"} = {}
             PROVE  ActiveInv'
  BY DEF ActiveInv
<1>1. mishaps \cap {"overlap", "answer"} = {} /\ "overlap" \notin mishaps'
      /\ "answer" \notin mishaps'
  BY MishapsStay
<1>2. CASE UNCHANGED vars
  BY <1>1, <1>2 DEF vars, ActiveInv, Active
<1>3. CASE \E o \in Requests : Step(o)
  <2> PICK o \in Requests : Step(o)
    BY <1>3
  <2>1. \A p \in Requests \ {o} : op'[p] = op[p]
    BY StepIsGood DEF Good
  <2>2. CASE \E a \in Aggs : Invite(o, a) \/ InviteByEmail(o, a)
    <3> PICK a \in Aggs, pc \in {"lookup", "again", "account"} : Begin(o, a, pc)
      BY <2>2 DEF Invite, InviteByEmail
    <3>1. op'[o].pc = pc /\ op'[o].agg = a /\ invs' = invs
      BY DEF Begin, Inv, TypeOK, Idle
    <3>2. \A p \in Requests \ {o} : ~(op[p].pc \in Sending /\ op[p].agg = a)
      BY <1>1 DEF Begin, Note
    <3> QED
      BY <1>1, <2>1, <3>1, <3>2 DEF ActiveInv, Active
  <2>3. CASE InviteAgain(o) \/ CheckExisting(o)
    <3>1. invs' = invs /\ op[o].pc \in {"again", "lookup"}
      BY <2>3 DEF InviteAgain, CheckExisting
    <3>2. CASE End(o)
      BY <1>1, <2>1, <3>1, <3>2, EndType, NothingNew DEF Active, Sending
    <3>3. CASE InviteAgain(o)
      BY <1>1, <2>1, <3>1, <3>3, ToType, NothingNew DEF InviteAgain, Active, Sending
    <3>4. CASE CheckExisting(o) /\ ~End(o)
      <4>1. op'[o].pc = "create" /\ op'[o].agg = op[o].agg
            /\ \A i \in InvIds : Active(i) => invs[i].agg # op[o].agg
        BY <3>4, ToType DEF CheckExisting, Existing, Active
      <4> QED
        BY <1>1, <2>1, <3>1, <4>1 DEF ActiveInv, Active, Sending
    <3> QED
      BY <2>3, <3>2, <3>3, <3>4
  <2>4. CASE CreateAccount(o)
    <3>1. /\ invs' = invs /\ op[o].pc = "account" /\ op[o].agg \notin accounts
          /\ op'[o].pc = "create" /\ op'[o].agg = op[o].agg
      BY <2>4, ToType DEF CreateAccount
    <3>2. \A i \in InvIds : Active(i) => invs[i].agg # op[o].agg
      BY <3>1 DEF Inv, Accounted, Active
    <3> QED
      BY <1>1, <2>1, <3>1, <3>2 DEF ActiveInv, Active, Sending
  <2>5. CASE CreateInvitation(o)
    <3>1. PICK i \in InvIds :
            /\ invs[i].status = "none"
            /\ invs'[i] = [agg |-> op[o].agg, status |-> "pending"]
            /\ \A j \in InvIds \ {i} : invs'[j] = invs[j]
      BY <2>5, CreatedEffect
    <3>2. op'[o].pc = "idle" /\ op[o].pc = "create"
      BY <2>5, EndType DEF CreateInvitation
    <3>3. \A j \in InvIds \ {i} : Active(j) => invs[j].agg # op[o].agg
      BY <1>1, <3>2 DEF ActiveInv
    <3>4. \A p \in Requests \ {o} : op[p].pc = "create" => op[p].agg # op[o].agg
      BY <1>1, <3>2 DEF ActiveInv, Sending
    <3>5. \A j, k \in InvIds : Active(j)' /\ Active(k)' /\ invs'[j].agg = invs'[k].agg => j = k
      BY <1>1, <3>1, <3>3 DEF ActiveInv, Active
    <3> QED
      BY <1>1, <2>1, <3>1, <3>2, <3>4, <3>5 DEF ActiveInv, Active, Sending
  <2>6. CASE SaveAnswer(o)
    <3>1. op'[o].pc = "idle"
      BY <2>6, EndType DEF SaveAnswer
    <3>2. \A i \in InvIds : Active(i)' => Active(i) /\ invs'[i].agg = invs[i].agg
      BY <1>1, <2>6, AnswerEffect, SaveAnswerEffect DEF Active
    <3> QED
      BY <1>1, <2>1, <3>1, <3>2, NothingNew DEF Sending
  <2>7. CASE SaveRevoked(o)
    <3>1. op'[o].pc = "idle"
      BY <2>7, EndType DEF SaveRevoked
    <3>2. \A i \in InvIds : Active(i)' => Active(i) /\ invs'[i].agg = invs[i].agg
      BY <2>7, SaveRevokedEffect DEF Active
    <3> QED
      BY <1>1, <2>1, <3>1, <3>2, NothingNew DEF Sending
  <2>8. CASE CancelInvitations(o)
    <3>1. op'[o].pc = "idle"
      BY <2>8, EndType DEF CancelInvitations
    <3>2. \A i \in InvIds : Active(i)' => Active(i) /\ invs'[i].agg = invs[i].agg
      BY <2>8, CancelEffect DEF Active
    <3> QED
      BY <1>1, <2>1, <3>1, <3>2, NothingNew DEF Sending
  <2>9. CASE op'[o].pc \notin Sending /\ invs' = invs
    BY <1>1, <2>1, <2>9, NothingNew DEF Active
  <2> QED
    BY <2>2, <2>3, <2>4, <2>5, <2>6, <2>7, <2>8, <2>9, NoSending DEF Step
<1> QED
  BY <1>2, <1>3 DEF Next

LEMMA InitActive == Init => ActiveInv
BY DEF Init, ActiveInv, Active, Idle, Sending

\* A business and an aggregator have one active invitation at most, unless two
\* were sent at once or an answer crossed another.
THEOREM OneActiveHolds == Spec => []OneActiveInvitation
<1>1. Inv /\ ActiveInv /\ [Next]_vars => ActiveInv'
  BY NextActive
<1>2. ActiveInv => OneActiveInvitation
  BY DEF ActiveInv, OneActiveInvitation, Active
<1> QED
  BY <1>1, <1>2, InitActive, InvHolds, PTL DEF Spec

=============================================================================
