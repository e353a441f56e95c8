------------------------------- MODULE Groups -------------------------------
(***************************************************************************)
(* The services that manage a group: group_membership_service.go,          *)
(* quiniela_service.go, payment_service.go, admin_group_service.go,        *)
(* admin_user_service.go and conflict_service.go in internal/service.      *)
(*                                                                         *)
(* A request reads first and then runs its transactions one after the      *)
(* other; between any two of them other requests run, and it may end there *)
(* with an error or with its process.  call[c] is what request c has read  *)
(* and the transaction it runs next.                                       *)
(***************************************************************************)
EXTENDS Memberships

CONSTANTS Calls,       \* requests that run at the same time
          GeneralFee,  \* tournament.general_entry_fee_cents
          MaxRequests  \* bound: how many requests are made

ASSUME GroupsAssumption == GeneralFee \in Nat /\ MaxRequests \in Nat

VARIABLES call,
          requests,  \* how many requests were made; bounds the model
          due,    \* the entry fee when the user asked to join; like
          base    \* the payments of the user before that, for a property

history == <<due, base>>
groupVars == <<accounts, memberships, call, requests, history>>

Idle == [pc |-> "idle"]

\* The payments of u to the group: charges to the balance and confirmed
\* payment records.
Charges(u) ==
    Cardinality({k \in DOMAIN ledger[u] : ledger[u][k].origin = FeeOrigin})
Payments(u) ==
    Charges(u) +
    Cardinality({k \in DOMAIN records[u] : records[u][k] = "confirmed"})

GroupsInit ==
    /\ MembershipsInit
    /\ call = [c \in Calls |-> Idle]
    /\ requests = 0
    /\ due = [u \in Users |-> 0]
    /\ base = [u \in Users |-> 0]

-----------------------------------------------------------------------------

\* A request arrives; how many do is bounded.
IsRequest ==
    /\ requests < MaxRequests
    /\ requests' = requests + 1

Starts(c, next) ==
    /\ call[c] = Idle
    /\ IsRequest
    /\ call' = [call EXCEPT ![c] = next]

Goes(c, pc) == call' = [call EXCEPT ![c].pc = pc] /\ UNCHANGED requests
Ends(c) == call' = [call EXCEPT ![c] = Idle] /\ UNCHANGED requests

\* The rest of a join once the payment is under way: nothing, or the
\* approval, without asking anyone where the group does not require it.
AfterPayment(c) == IF call[c].approval THEN Ends(c) ELSE Goes(c, "approve")

\* An error return, or the end of the process, between two transactions.
Abandon(c) ==
    /\ call[c] # Idle
    /\ Ends(c)
    /\ UNCHANGED <<accounts, memberships, history>>

\* The transaction that Join and JoinWithBalance begin with.
AskToJoin(u) ==
    /\ RequestJoin(u)
    /\ due' = [due EXCEPT ![u] = group.fee]
    /\ base' = [base EXCEPT ![u] = Payments(u)]
    /\ UNCHANGED accounts

Join(c, u) ==
    /\ AskToJoin(u)
    /\ Starts(c, IF group.fee = 0 /\ group.approval THEN Idle
                 ELSE [pc |-> IF group.fee > 0 THEN "record" ELSE "approve",
                       user |-> u, approval |-> group.approval])

\* createPendingPayment: a failure is logged and swallowed.
CreatePendingPayment(c) ==
    /\ call[c].pc = "record"
    /\ AfterPayment(c)
    /\ CreateRecord(call[c].user) \/ UNCHANGED memberships
    /\ UNCHANGED <<accounts, history>>

\* A group without a fee refuses JoinWithBalance when the request to join is
\* already committed.
JoinWithBalance(c, u) ==
    /\ AskToJoin(u)
    /\ Starts(c, IF group.fee > 0
                 THEN [pc |-> "debit", user |-> u, fee |-> group.fee,
                       approval |-> group.approval]
                 ELSE Idle)

PayFromBalance(c) ==
    /\ call[c].pc = "debit"
    /\ \E charge \in EntryFeeInUserCurrency(call[c].user, call[c].fee) :
            DebitBalanceAndMarkPaid(call[c].user, charge)
    /\ AfterPayment(c)
    /\ UNCHANGED history

\* ApproveJoin up to enforceApprovalFeeRules; any active member may approve.
ApproveJoin(c, approver, u) ==
    /\ approver \in Active
    /\ member[u].status = "pending"
    /\ HasFreeRoom
    /\ Starts(c, [pc |-> IF group.premium /\ ~member[u].paid /\ group.fee > 0
                         THEN "debit" ELSE "approve",
                  user |-> u, fee |-> group.fee, approval |-> FALSE])
    /\ UNCHANGED <<accounts, memberships, history>>

Approve(c) ==
    /\ call[c].pc = "approve"
    /\ ApproveMembership(call[c].user)
    /\ Ends(c)
    /\ UNCHANGED <<accounts, history>>

\* RejectJoin: the request is pending when it is read.
RejectJoin(c, rejector, u) ==
    /\ rejector \in Active
    /\ member[u].status = "pending"
    /\ Starts(c, [pc |-> "reject", user |-> u])
    /\ UNCHANGED <<accounts, memberships, history>>

Reject(c) ==
    /\ call[c].pc = "reject"
    /\ RemoveByAdmin({call[c].user})
    /\ Ends(c)
    /\ UNCHANGED <<accounts, history>>

\* Leave reads the role and, for an owner, who would follow.
Leave(c, u) ==
    /\ u \in Active
    /\ IF member[u].role = "owner" /\ OldestActiveMember({u}) # {}
       THEN \E v \in OldestActiveMember({u}) :
                Starts(c, [pc |-> "handover", user |-> u, successor |-> v])
       ELSE Starts(c, [pc |-> "leave", user |-> u])
    /\ UNCHANGED <<accounts, memberships, history>>

LeaveGroup(c) ==
    /\ \/ call[c].pc = "leave" /\ LeaveMembership(call[c].user)
       \/ /\ call[c].pc = "handover"
          /\ LeaveAndTransfer(call[c].user, call[c].successor)
    /\ Ends(c)
    /\ UNCHANGED <<accounts, history>>

-----------------------------------------------------------------------------

\* RequireOwner asks for the role and not for the status.
IsOwner(u) == member[u].role = "owner"

\* SetTournamentMode: free, premium with the general fee, or per round.
SetTournamentMode(c, u, premium, fee) ==
    /\ IsOwner(u)
    /\ premium => group.status = "active"
    /\ Starts(c, [pc |-> IF premium /\ fee > 0 /\ ~group.premium
                         THEN "charge" ELSE "mode",
                  premium |-> premium, fee |-> fee])
    /\ UNCHANGED <<accounts, memberships, history>>

\* chargeExistingMembersIfNeeded.
ChargeMembers(c) ==
    /\ call[c].pc = "charge"
    /\ BulkDebitAndMarkPaid(call[c].fee)
    /\ Goes(c, "mode")
    /\ UNCHANGED history

SetMode(c) ==
    /\ call[c].pc = "mode"
    /\ UpdateTournamentMode(call[c].premium, call[c].fee)
    /\ Ends(c)
    /\ UNCHANGED <<accounts, history>>

RequireApproval(u, approval) ==
    /\ IsOwner(u)
    /\ group.approval # approval
    /\ UpdateRequireApproval(approval)
    /\ IsRequest
    /\ UNCHANGED <<accounts, call, history>>

\* UpdateGroupSettings of an administrator.
ChangeFee(fee) ==
    /\ group.fee # fee
    /\ UpdateTournamentMode(group.premium, fee)
    /\ IsRequest
    /\ UNCHANGED <<accounts, call, history>>

\* TransferOwnership of an administrator.
TransferOwnership(c, v) ==
    /\ v \in Active
    /\ Starts(c, [pc |-> "transfer", user |-> v])
    /\ UNCHANGED <<accounts, memberships, history>>

\* BanUser, for the group that the banned user owns, and autoFix for a group
\* without an owner: both promote the oldest member who is left.
FindSuccessor(c, banned) ==
    /\ IF banned = {} THEN ActiveOwners = {} ELSE banned \subseteq ActiveOwners
    /\ \E v \in OldestActiveMember(banned) :
            Starts(c, [pc |-> "promote", user |-> v])
    /\ UNCHANGED <<accounts, memberships, history>>

ChangeOwner(c) ==
    /\ \/ call[c].pc = "transfer" /\ TransferOwnershipRoles(call[c].user)
       \/ call[c].pc = "promote" /\ PromoteToOwner(call[c].user)
    /\ Ends(c)
    /\ UNCHANGED <<accounts, history>>

\* RemoveMember, BulkRemoveMembers and autoFix for a stale request.
RemoveMembers(us) ==
    /\ RemoveByAdmin(us)
    /\ IsRequest
    /\ UNCHANGED <<accounts, call, history>>

\* ValidateDeposit and RejectDeposit; autoFix rejects a stale record.
ReviewRecord(u, k) ==
    /\ ValidateAndMarkPaid(u, k) \/ RejectRecord(u, k)
    /\ IsRequest
    /\ UNCHANGED <<accounts, call, history>>

GroupsNext ==
    \/ \E c \in Calls :
        \/ Abandon(c)
        \/ CreatePendingPayment(c) \/ PayFromBalance(c)
        \/ Approve(c) \/ Reject(c) \/ LeaveGroup(c)
        \/ ChargeMembers(c) \/ SetMode(c) \/ ChangeOwner(c)
        \/ FindSuccessor(c, {})
        \/ \E u \in Users :
            \/ Join(c, u) \/ JoinWithBalance(c, u) \/ Leave(c, u)
            \/ TransferOwnership(c, u) \/ FindSuccessor(c, {u})
            \/ SetTournamentMode(c, u, FALSE, 0)
            \/ SetTournamentMode(c, u, TRUE, 0)
            \/ SetTournamentMode(c, u, TRUE, GeneralFee)
            \/ \E v \in Users : ApproveJoin(c, v, u) \/ RejectJoin(c, v, u)
    \/ \E us \in SUBSET Users : RemoveMembers(us)
    \/ \E u \in Users, approval \in BOOLEAN : RequireApproval(u, approval)
    \/ \E fee \in Fees : ChangeFee(fee)
    \/ \E u \in Users : \E k \in DOMAIN records[u] : ReviewRecord(u, k)

GroupsSpec == GroupsInit /\ [][GroupsNext]_groupVars

-----------------------------------------------------------------------------

GroupsTypeOK ==
    /\ MembershipsTypeOK
    /\ requests \in Nat
    /\ due \in [Users -> Nat] /\ base \in [Users -> Nat]

\* However joins, approvals, removals and leaves race for the last place, the
\* group never has more active members than group.max_size: ApproveMembership
\* counts under the lock of the quinielas row, after everything that the
\* service has read before may have changed.
CapacityKept == Cardinality(Active) <= MaxMembers

\* Nobody plays for nothing: whoever is marked as paid, and asked to join when
\* there was a fee, has paid since then, by a charge to the balance or by a
\* confirmed payment record.  A member who left and came back pays again.
PaidIsBacked ==
    \A u \in Users :
        member[u].paid /\ due[u] > 0 => Payments(u) > base[u]

\* An owner who leaves and hands the group over (the row loses the role)
\* leaves exactly one active owner behind, also when the successor that Leave
\* had chosen is gone by then.
HandoverKeepsOwner ==
    [][\A u \in ActiveOwners :
            member'[u].status = "left" /\ member'[u].role = "member"
            => Cardinality(ActiveOwners') = 1]_groupVars
=============================================================================
