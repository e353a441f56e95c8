---------------------------- MODULE Memberships -----------------------------
(***************************************************************************)
(* The rows of one group: its quinielas row, its group_memberships and     *)
(* their payment_records, and the transactions that change them            *)
(* (internal/repository/group_membership_repository.go,                    *)
(* payment_record_repository.go and quiniela_repository.go).               *)
(*                                                                         *)
(* One operator is one transaction.  What the services do between two      *)
(* transactions is in module Groups.  The soft delete of the group stops   *)
(* every later call and is left out, and so is the name of the group.      *)
(***************************************************************************)
EXTENDS Accounts

LOCAL INSTANCE Functions
LOCAL INSTANCE FiniteSetsExt

CONSTANTS Group,           \* the id of the group
          Owner,           \* the user who creates it
          Dollars,         \* the users whose balance is in dollars
          SellRate,        \* quetzales for a dollar
          Fees,            \* entry fees that the group may be given
          MaxMembers,      \* group.max_size
          FreeMaxMembers,  \* group.free_max_members
          MinMembers       \* group.min_members_for_active

ASSUME MembershipsAssumption ==
    /\ Group \in Ids
    /\ Owner \in Users /\ Dollars \subseteq Users
    /\ IsFiniteSet(Users)
    /\ SellRate \in Nat \ {0}
    /\ Fees \subseteq Nat
    /\ MaxMembers \in Nat \ {0}
    /\ FreeMaxMembers \in Nat /\ MinMembers \in Nat

VARIABLES member,   \* group_memberships: status, role and paid of each user
          joined,   \* joined_at of the active members, as an order; else 0
          group,    \* quinielas: is_premium, entry_fee, require_approval, status
          records   \* payment_records: per user, the status of each row

memberships == <<member, joined, group, records>>

Absent == [status |-> "none", role |-> "member", paid |-> FALSE]

Active == {u \in Users : member[u].status = "active"}
ActiveOwners == {u \in Active : member[u].role = "owner"}

\* quinielaService.Create and CreateWithMembership, for a group that is
\* created free, as the handler does.
MembershipsInit ==
    /\ balance = Opening
    /\ denom = [u \in Users |-> IF u \in Dollars THEN "USD" ELSE "GTQ"]
    /\ tier \in [Users -> StartTiers]
    /\ deleted = {}
    /\ ledger = [u \in Users |->
                    IF Opening[u] = 0 THEN <<>> ELSE <<OpeningRow(u)>>]
    /\ aged = [u \in Users |-> IF Opening[u] = 0 THEN 0 ELSE 1]
    /\ group = [premium |-> FALSE, fee |-> 0, approval |-> TRUE,
                status |-> "inactive"]
    /\ member = [u \in Users |->
            IF u = Owner
            THEN [status |-> "active", role |-> "owner", paid |-> TRUE]
            ELSE Absent]
    /\ joined = [u \in Users |-> IF u = Owner THEN 1 ELSE 0]
    /\ records = [u \in Users |-> <<>>]

-----------------------------------------------------------------------------
\* Reads.

\* OldestActiveMember: the active member not in us who joined first, if any.
OldestActiveMember(us) ==
    {v \in Active \ us : \A w \in Active \ us : joined[v] <= joined[w]}

\* enforceJoinCapacity: the limit of a free group, and that of every group.
HasRoom == Cardinality(Active) < MaxMembers
HasFreeRoom == group.premium \/ Cardinality(Active) < FreeMaxMembers

\* entryFeeInUserCurrency, what it may return: the fee in dollars for a
\* balance in dollars, the fee as it is for the others and when the lookup
\* of the currency or the conversion fails.
EntryFeeInUserCurrency(u, fee) ==
    {[cents |-> fee, unit |-> "GTQ"]} \cup
    (IF denom[u] = "USD" THEN {[cents |-> fee \div SellRate, unit |-> "USD"]}
                         ELSE {})

-----------------------------------------------------------------------------
\* Transactions.

\* syncStatusInTx, run at the end of a transaction that leaves n members.
SyncStatus(n) ==
    group' = [group EXCEPT !.status =
                IF n >= MinMembers THEN "active" ELSE "inactive"]

\* Mutant: a member who comes back keeps the paid flag of the first time.
RejoinedPaid(u) ==
    [member[u] EXCEPT !.status = "pending", !.paid = @ \/ group.fee = 0]

\* reactivateMembership and createPendingMembership: the role is kept, and
\* paid starts again.
Requested(u) ==
    [member[u] EXCEPT !.status = "pending", !.paid = group.fee = 0]

\* RequestJoinByInviteCode, which holds the lock of the quinielas row.
RequestJoin(u) ==
    /\ member[u].status \in {"none", "left"}
    /\ HasFreeRoom /\ HasRoom
    /\ member' = [member EXCEPT ![u] = Requested(u)]
    /\ UNCHANGED <<joined, group, records>>

\* paymentService.CreateRecord: the reference is empty, so no row is reused.
CreateRecord(u) ==
    /\ records' = [records EXCEPT ![u] = Append(@, "pending")]
    /\ UNCHANGED <<member, joined, group>>

\* Mutant: the capacity is checked by the caller and not again here.
PendingOnly(u) == member[u].status = "pending"

\* ApproveMembership, which holds the lock of the quinielas row: the check
\* of the capacity and the condition of the UPDATE.
Approvable(u) == member[u].status = "pending" /\ HasRoom

ApproveMembership(u) ==
    /\ Approvable(u)
    /\ member' = [member EXCEPT ![u].status = "active"]
    /\ joined' = [joined EXCEPT ![u] = Max({joined[v] : v \in Users}) + 1]
    /\ SyncStatus(Cardinality(Active) + 1)
    /\ UNCHANGED records

\* LeaveMembership: the role stays on the row.
LeaveMembership(u) ==
    /\ u \in Active
    /\ member' = [member EXCEPT ![u].status = "left"]
    /\ joined' = [joined EXCEPT ![u] = 0]
    /\ SyncStatus(Cardinality(Active) - 1)
    /\ UNCHANGED records

\* Mutant: the successor is promoted whatever became of it.
SuccessorKnown(u, successor) == u \in Active

\* The condition of the promotion, and of the leave that follows it.
SuccessorActive(u, successor) ==
    successor \in Active \ {u} /\ u \in Active

\* LeaveMembershipAndTransferOwnership: demote every active owner, promote
\* the successor, leave.
LeaveAndTransfer(u, successor) ==
    /\ SuccessorActive(u, successor)
    /\ member' = [v \in Users |->
            IF v = u THEN [member[u] EXCEPT !.status = "left", !.role = "member"]
            ELSE IF v = successor THEN [member[v] EXCEPT !.role = "owner"]
            ELSE IF v \in Active THEN [member[v] EXCEPT !.role = "member"]
            ELSE member[v]]
    /\ joined' = [joined EXCEPT ![u] = 0]
    /\ SyncStatus(Cardinality(Active) - 1)
    /\ UNCHANGED records

\* TransferOwnershipRoles: the new owner is found by id, whatever its status.
TransferOwnershipRoles(v) ==
    /\ member' = [w \in Users |->
            IF w = v THEN [member[w] EXCEPT !.role = "owner"]
            ELSE IF w \in Active THEN [member[w] EXCEPT !.role = "member"]
            ELSE member[w]]
    /\ UNCHANGED <<joined, group, records>>

\* SetRole, as BanUser and the repair of a group without owner use it.
PromoteToOwner(v) ==
    /\ member' = [member EXCEPT ![v].role = "owner"]
    /\ UNCHANGED <<joined, group, records>>

\* RemoveByAdmin and BulkRemoveByAdmin: active rows only; neither the role
\* nor the status of the group is touched.
RemoveByAdmin(us) ==
    /\ us # {} /\ us \subseteq Active
    /\ member' = [u \in Users |->
            IF u \in us THEN [member[u] EXCEPT !.status = "left"] ELSE member[u]]
    /\ joined' = [u \in Users |-> IF u \in us THEN 0 ELSE joined[u]]
    /\ UNCHANGED <<group, records>>

FeeOrigin == <<"group_membership", Group>>

\* DebitBalanceAndMarkPaid: neither paid nor the status is asked for.
DebitBalanceAndMarkPaid(u, charge) ==
    /\ member[u].status # "none"
    /\ DebitUser(u, charge.cents, "entry_fee", FeeOrigin, charge.unit)
    /\ member' = [member EXCEPT ![u].paid = TRUE]
    /\ UNCHANGED <<joined, group, records>>

\* fetchUnpaidMemberIDs and the loop of BulkDebitAndMarkPaid: one member who
\* cannot pay rolls all of them back.
Unpaid == {u \in Active : ~member[u].paid}

BulkDebitAndMarkPaid(cents) ==
    /\ \A u \in Unpaid : CanDebit(u, cents)
    /\ balance' = [u \in Users |->
            IF u \in Unpaid THEN balance[u] - cents ELSE balance[u]]
    /\ ledger' = [u \in Users |->
            IF u \in Unpaid
            THEN Append(ledger[u], LedgerRow(u, -cents, "entry_fee", FeeOrigin,
                                             NoReference, "GTQ", denom[u]))
            ELSE ledger[u]]
    /\ member' = [u \in Users |->
            IF u \in Unpaid THEN [member[u] EXCEPT !.paid = TRUE] ELSE member[u]]
    /\ UNCHANGED <<denom, tier, deleted, aged, joined, group, records>>

\* ValidateAndMarkPaid: the row and the flag of the member together.
ValidateAndMarkPaid(u, k) ==
    /\ records[u][k] = "pending"
    /\ records' = [records EXCEPT ![u][k] = "confirmed"]
    /\ member' = [member EXCEPT ![u].paid = TRUE]
    /\ UNCHANGED <<joined, group>>

\* PaymentRecordRepository.Reject.
RejectRecord(u, k) ==
    /\ records[u][k] = "pending"
    /\ records' = [records EXCEPT ![u][k] = "rejected"]
    /\ UNCHANGED <<member, joined, group>>

UpdateTournamentMode(premium, fee) ==
    /\ group' = [group EXCEPT !.premium = premium, !.fee = fee]
    /\ UNCHANGED <<member, joined, records>>

UpdateRequireApproval(approval) ==
    /\ group' = [group EXCEPT !.approval = approval]
    /\ UNCHANGED <<member, joined, records>>

-----------------------------------------------------------------------------

MembershipsTypeOK ==
    /\ AccountsTypeOK
    /\ member \in [Users -> [status : {"none", "pending", "active", "left"},
                             role : {"owner", "member"}, paid : BOOLEAN]]
    /\ joined \in [Users -> Nat]
    /\ group \in [premium : BOOLEAN, fee : Nat, approval : BOOLEAN,
                  status : {"active", "inactive"}]
    /\ records \in [Users -> Seq({"pending", "confirmed", "rejected"})]
=============================================================================
