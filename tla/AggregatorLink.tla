--------------------------- MODULE AggregatorLink ---------------------------
(***************************************************************************)
(* Which aggregator manages a business, and by which invitation: sending,  *)
(* answering and revoking invitations, removing a business, and the writes *)
(* of whole business rows that carry the link along                        *)
(* (src/internal/app/aggregator, src/internal/app/business,                *)
(* src/internal/data/repositories).                                        *)
(*                                                                         *)
(* One business.  Every database call is one step; nothing is locked       *)
(* between two calls of a request.  A request that is refused at its first *)
(* look changes nothing and is not a step.                                 *)
(***************************************************************************)
EXTENDS Naturals, FiniteSets

CONSTANTS
  Aggs,      \* aggregators
  Requests,  \* requests that can be in progress at once
  MaxInvs,   \* bound on the invitations
  None       \* no aggregator

ASSUME NoneAssumption == None \notin Aggs
ASSUME MaxInvsAssumption == MaxInvs \in Nat

InvIds == 1..MaxInvs

VARIABLES
  link,      \* businesses.aggregator_id
  creator,   \* the aggregator that created the business, if one did
  accounts,  \* aggregators that have an account, a pending one included
  invs,      \* the invitations, in the order they were created
  latest,    \* the newest row of BusinessAggregatorHistory
  op,        \* the requests in progress
  mishaps    \* history: how requests got into each other's way

vars == <<link, creator, accounts, invs, latest, op, mishaps>>

Links == Aggs \cup {None}
Statuses == {"pending", "accepted", "rejected", "revoked"}
Invitation == [agg: Links, status: Statuses \cup {"none"}]
Entry == [agg: Links, action: {"none", "assigned", "removed"}]

\* seen is what the request read of the link, status what it read of the
\* invitation.
Op == [pc: {"idle", "account", "again", "lookup", "create",
            "check", "link", "assigned", "accept", "reject",
            "revoke", "removed", "withdraw",
            "unlink", "unassigned", "cancel", "saverow", "savefields"},
       agg: Links, inv: InvIds \cup {0}, status: Statuses \cup {"none"},
       seen: Links]

\* Two invitations sent at once; a link that changed between the read and the
\* write of a request, or was written while another request had written it and
\* not yet the invitation; an invitation that changed between the read and the
\* write; an old row written whole; a request that ended between two of its
\* writes; a write that failed and whose error is dropped.
Mishaps == {"overlap", "crossed", "answer", "row", "stopped", "dropped"}

TypeOK ==
  /\ link \in Links
  /\ creator \in Links
  /\ accounts \subseteq Aggs
  /\ invs \in [InvIds -> Invitation]
  /\ latest \in Entry
  /\ op \in [Requests -> Op]
  /\ mishaps \subseteq Mishaps

Idle == [pc |-> "idle", agg |-> None, inv |-> 0, status |-> "none", seen |-> None]

\* CreateBusiness links a business to its creator without an invitation.
Init ==
  /\ creator \in Links
  /\ link = creator
  /\ accounts \in SUBSET Aggs
  /\ creator # None => creator \in accounts
  /\ invs = [i \in InvIds |-> [agg |-> None, status |-> "none"]]
  /\ latest = [agg |-> creator, action |-> IF creator = None THEN "none" ELSE "assigned"]
  /\ op = [o \in Requests |-> Idle]
  /\ mishaps = {}

To(o, pc) == op' = [op EXCEPT ![o].pc = pc]
End(o) == op' = [op EXCEPT ![o] = Idle]
Note(kind, test) == mishaps' = IF test THEN mishaps \cup {kind} ELSE mishaps

\* The link was written and the invitation not yet.
Halfway(o) ==
  \/ op[o].pc \in {"assigned", "accept", "removed", "unassigned", "cancel"}
  \/ op[o].pc = "withdraw" /\ op[o].status = "accepted"

\* The link was written since the request read it.
LinkMoved(o) == link # op[o].seen

Crossed(o) == LinkMoved(o) \/ \E p \in Requests \ {o} : Halfway(p)

Sending == {"account", "again", "lookup", "create"}

-----------------------------------------------------------------------------
(* SendInvitation and SendInvitationByEmail *)

Begin(o, a, pc) ==
  /\ op[o].pc = "idle" /\ link = None
  /\ op' = [op EXCEPT ![o] = [Idle EXCEPT !.pc = pc, !.agg = a]]
  /\ Note("overlap", \E p \in Requests \ {o} : op[p].pc \in Sending /\ op[p].agg = a)
  /\ UNCHANGED <<link, creator, accounts, invs, latest>>

\* By id: the business has no aggregator and the aggregator exists.
Invite(o, a) == a \in accounts /\ Begin(o, a, "lookup")

\* By e-mail: whoever has an account is invited by id after another look at
\* the business, for anyone else a pending account is made.
InviteByEmail(o, a) == Begin(o, a, IF a \in accounts THEN "again" ELSE "account")

InviteAgain(o) ==
  /\ op[o].pc = "again" /\ link = None
  /\ To(o, "lookup")
  /\ UNCHANGED <<link, creator, accounts, invs, latest, mishaps>>

\* The address is unique: of two requests that found no account, one fails.
CreateAccount(o) ==
  /\ op[o].pc = "account" /\ op[o].agg \notin accounts
  /\ accounts' = accounts \cup {op[o].agg}
  /\ To(o, "create")
  /\ UNCHANGED <<link, creator, invs, latest, mishaps>>

\* Mutant: only an accepted invitation counts as active.
Existing_Accepted(a) == {i \in InvIds : invs[i].agg = a /\ invs[i].status = "accepted"}

Existing(a) == {i \in InvIds : invs[i].agg = a /\ invs[i].status \in {"pending", "accepted"}}

\* CheckExistingActiveInvitation: one that is there is only mailed again.
CheckExisting(o) ==
  /\ op[o].pc = "lookup"
  /\ IF Existing(op[o].agg) # {} THEN End(o) ELSE To(o, "create")
  /\ UNCHANGED <<link, creator, accounts, invs, latest, mishaps>>

CreateInvitation(o) ==
  /\ op[o].pc = "create"
  /\ \E i \in InvIds :
       /\ {j \in InvIds : invs[j].status = "none"} = i..MaxInvs
       /\ invs' = [invs EXCEPT ![i] = [agg |-> op[o].agg, status |-> "pending"]]
  /\ End(o)
  /\ UNCHANGED <<link, creator, accounts, latest, mishaps>>

-----------------------------------------------------------------------------
(* RespondToInvitation *)

\* The invitation is pending; a rejection goes on to save it.
Respond(o, i, accept) ==
  /\ op[o].pc = "idle" /\ invs[i].status = "pending"
  /\ op' = [op EXCEPT ![o] = [Idle EXCEPT !.pc = IF accept THEN "check" ELSE "reject",
                                          !.agg = invs[i].agg, !.inv = i,
                                          !.status = "pending"]]
  /\ UNCHANGED <<link, creator, accounts, invs, latest, mishaps>>

\* Mutant: the business is not looked at.
Unassigned_Any == TRUE

Unassigned == link = None

\* Accepting takes a business without an aggregator.
CheckBusiness(o) ==
  /\ op[o].pc = "check"
  /\ IF Unassigned
     THEN op' = [op EXCEPT ![o].pc = "link", ![o].seen = link]
     ELSE End(o)
  /\ UNCHANGED <<link, creator, accounts, invs, latest, mishaps>>

\* The link is written whatever it is by now.
LinkBusiness(o) ==
  /\ op[o].pc = "link"
  /\ link' = op[o].agg
  /\ To(o, "assigned")
  /\ Note("crossed", Crossed(o))
  /\ UNCHANGED <<creator, accounts, invs, latest>>

\* Mutant: an acceptance leaves the status as it was read.
Answer_Unset(o) == IF op[o].pc = "accept" THEN op[o].status ELSE "rejected"

Answer(o) == IF op[o].pc = "accept" THEN "accepted" ELSE "rejected"

\* The whole invitation is saved as it was read, with the answer.
SaveAnswer(o) ==
  /\ op[o].pc \in {"accept", "reject"}
  /\ invs' = [invs EXCEPT ![op[o].inv].status = Answer(o)]
  /\ Note("answer", invs[op[o].inv].status # op[o].status)
  /\ End(o)
  /\ UNCHANGED <<link, creator, accounts, latest>>

-----------------------------------------------------------------------------
(* RevokeInvitation by the business, RemoveBusiness by the aggregator *)

\* Revoking an accepted invitation unlinks the business first.
Revoke(o, i) ==
  /\ op[o].pc = "idle" /\ invs[i].status \in {"pending", "accepted", "rejected"}
  /\ op' = [op EXCEPT ![o] = [Idle EXCEPT !.pc = IF invs[i].status = "accepted"
                                                  THEN "revoke" ELSE "withdraw",
                                          !.agg = invs[i].agg, !.inv = i,
                                          !.status = invs[i].status, !.seen = link]]
  /\ UNCHANGED <<link, creator, accounts, invs, latest, mishaps>>

\* The aggregator manages the business.
Remove(o, a) ==
  /\ op[o].pc = "idle" /\ link = a
  /\ op' = [op EXCEPT ![o] = [Idle EXCEPT !.pc = "unlink", !.agg = a, !.seen = a]]
  /\ UNCHANGED <<link, creator, accounts, invs, latest, mishaps>>

\* Both clear the link of the business, whoever it links to by now.
Unlink(o) ==
  /\ op[o].pc \in {"revoke", "unlink"}
  /\ link' = None
  /\ To(o, IF op[o].pc = "revoke" THEN "removed" ELSE "unassigned")
  /\ Note("crossed", Crossed(o))
  /\ UNCHANGED <<creator, accounts, invs, latest>>

SaveRevoked(o) ==
  /\ op[o].pc = "withdraw"
  /\ invs' = [invs EXCEPT ![op[o].inv].status = "revoked"]
  /\ Note("answer", invs[op[o].inv].status # op[o].status)
  /\ End(o)
  /\ UNCHANGED <<link, creator, accounts, latest>>

\* Mutant: the invitation by which the business was managed stays accepted.
Cancelled_None(a) == {}

\* The accepted invitations of the pair.
Cancelled(a) == {i \in InvIds : invs[i].agg = a /\ invs[i].status = "accepted"}

\* RemoveBusiness revokes them in one update, whose error is dropped.
CancelInvitations(o) ==
  /\ op[o].pc = "cancel"
  /\ \E saved \in BOOLEAN :
       /\ invs' = [i \in InvIds |-> IF saved /\ i \in Cancelled(op[o].agg)
                                    THEN [invs[i] EXCEPT !.status = "revoked"]
                                    ELSE invs[i]]
       /\ Note("dropped", ~saved)
  /\ End(o)
  /\ UNCHANGED <<link, creator, accounts, latest>>

-----------------------------------------------------------------------------
(* The history, other writes of the business row, and requests that end early *)

\* Mutant: the removal is recorded as another assignment.
Action_Assigned(pc) == "assigned"

Action(pc) == IF pc = "assigned" THEN "assigned" ELSE "removed"

AfterHistory == [assigned |-> "accept", removed |-> "withdraw", unassigned |-> "cancel"]

\* CreateBusinessAggregatorHistory, whose error is dropped.
RecordHistory(o) ==
  LET pc == op[o].pc
  IN /\ pc \in DOMAIN AfterHistory
     /\ \/ /\ latest' = [agg |-> op[o].agg, action |-> Action(pc)]
           /\ UNCHANGED mishaps
        \/ /\ mishaps' = mishaps \cup {"dropped"}
           /\ UNCHANGED latest
     /\ To(o, AfterHistory[pc])
     /\ UNCHANGED <<link, creator, accounts, invs>>

\* A request reads the whole row of the business ...
ReadRow(o, pc) ==
  /\ op[o].pc = "idle"
  /\ op' = [op EXCEPT ![o] = [Idle EXCEPT !.pc = pc, !.seen = link]]
  /\ UNCHANGED <<link, creator, accounts, invs, latest, mishaps>>

\* ... and saves all of it with the signing keys (SaveBusinessIRNSigningKeys) or
\* what an administrator changed (UpdateBusiness),
SaveRow(o) ==
  /\ op[o].pc = "saverow"
  /\ link' = op[o].seen
  /\ Note("row", LinkMoved(o))
  /\ End(o)
  /\ UNCHANGED <<creator, accounts, invs, latest>>

\* or all fields that are set, with a new password (ChangePassword).
SaveFields(o) ==
  /\ op[o].pc = "savefields"
  /\ link' = IF op[o].seen = None THEN link ELSE op[o].seen
  /\ Note("row", op[o].seen # None /\ LinkMoved(o))
  /\ End(o)
  /\ UNCHANGED <<creator, accounts, invs, latest>>

\* A database error is answered, or the process restarts.
Stop(o) ==
  /\ op[o].pc # "idle"
  /\ Note("stopped", Halfway(o))
  /\ End(o)
  /\ UNCHANGED <<link, creator, accounts, invs, latest>>

-----------------------------------------------------------------------------
Step(o) ==
  \/ \E a \in Aggs : Invite(o, a) \/ InviteByEmail(o, a) \/ Remove(o, a)
  \/ \E i \in InvIds, accept \in BOOLEAN : Respond(o, i, accept)
  \/ \E i \in InvIds : Revoke(o, i)
  \/ \E pc \in {"saverow", "savefields"} : ReadRow(o, pc)
  \/ InviteAgain(o) \/ CreateAccount(o) \/ CheckExisting(o) \/ CreateInvitation(o)
  \/ CheckBusiness(o) \/ LinkBusiness(o) \/ SaveAnswer(o)
  \/ Unlink(o) \/ SaveRevoked(o) \/ CancelInvitations(o)
  \/ RecordHistory(o) \/ SaveRow(o) \/ SaveFields(o) \/ Stop(o)

Next == \E o \in Requests : Step(o)

Spec == Init /\ [][Next]_vars

-----------------------------------------------------------------------------
(* Properties *)

\* A business can always revoke the mandate of an aggregator it invited: there
\* is an accepted invitation behind the link, or a request is about to save
\* one (RevokeInvitation needs an invitation, and unlinks for an accepted one).
LinkIsAccepted ==
  /\ mishaps \cap {"crossed", "answer", "row", "stopped"} = {}
  /\ link \notin {None, creator}
  => \/ \E i \in InvIds : invs[i].agg = link /\ invs[i].status = "accepted"
     \/ \E o \in Requests : op[o].pc \in {"assigned", "accept"} /\ op[o].agg = link

\* An accepted invitation belongs to the aggregator of the business, so that
\* revoking it does not unlink another one (RevokeInvitation clears the link
\* whatever it is; RemoveBusiness revokes the accepted invitations).
AcceptedIsLinked ==
  mishaps \cap {"crossed", "answer", "row", "stopped", "dropped"} = {}
  => \A i \in InvIds : invs[i].status = "accepted" =>
       \/ link = invs[i].agg
       \/ \E o \in Requests : Halfway(o) /\ op[o].agg = invs[i].agg

\* An aggregator takes over no business of another, unless the link moved
\* between the look at the business and its update (RespondToInvitation).
NoTakeover ==
  [][link # None /\ link' \notin {None, link} => mishaps' \cap {"crossed", "row"} # {}]_vars

\* A business and an aggregator have one active invitation at most, unless two
\* were sent at once or an answer crossed a revocation
\* (CheckExistingActiveInvitation).
OneActiveInvitation ==
  mishaps \cap {"overlap", "answer"} = {}
  => \A i, j \in InvIds :
       /\ invs[i].agg = invs[j].agg
       /\ {invs[i].status, invs[j].status} \subseteq {"pending", "accepted"}
       => i = j

\* The newest history row names the aggregator of the business, or its removal.
HistoryAgrees ==
  /\ mishaps \cap {"crossed", "row", "stopped", "dropped"} = {}
  /\ \A o \in Requests : op[o].pc \notin DOMAIN AfterHistory
  => link = IF latest.action = "assigned" THEN latest.agg ELSE None
=============================================================================
