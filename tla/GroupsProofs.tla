---------------------------- MODULE GroupsProofs ----------------------------
(***************************************************************************)
(* Proofs about Groups: the capacity of a group, the handover of its       *)
(* ownership and the payments behind its members, for any number of users  *)
(* and of requests in progress.                                            *)
(*                                                                         *)
(* For the first two no request is believed: of call[c] nothing is         *)
(* assumed, not even that its user exists.  Every transaction but two is   *)
(* quiet, in that it neither makes anyone active nor takes the role of an  *)
(* owner who leaves.  ApproveMembership counts before it makes someone     *)
(* active, and LeaveAndTransfer leaves the successor as the only owner.    *)
(*                                                                         *)
(* The payments need the requests typed (CallsFit), and that nobody's      *)
(* payments are ever fewer than when asking to join (PaidNoLess).          *)
(***************************************************************************)
EXTENDS Groups, AccountsProofs

LOCAL INSTANCE FiniteSetTheorems

LOCAL INSTANCE FiniteSetsExt

MemberRows == [status : {"none", "pending", "active", "left"},
         role : {"owner", "member"}, paid : BOOLEAN]

GroupsInv == member \in [Users -> MemberRows] /\ CapacityKept

\* What a transaction does that neither activates nor hands over.
Quiet ==
    /\ member' \in [Users -> MemberRows]
    /\ \A v \in Users :
        /\ member'[v].status = "active" => member[v].status = "active"
        /\ /\ member[v].status = "active" /\ member[v].role = "owner"
           /\ member'[v].status = "left"
           => member'[v].role = "owner"

\* The body of HandoverKeepsOwner.
HandoverStep ==
    \A u \in ActiveOwners :
        member'[u].status = "left" /\ member'[u].role = "member"
        => Cardinality(ActiveOwners') = 1

LEMMA ActiveFinite == IsFiniteSet(Active) /\ Cardinality(Active) \in Nat
<1>1. Active \in SUBSET Users /\ IsFiniteSet(Users)
    BY MembershipsAssumption DEF Active
<1> QED BY <1>1, FS_Subset, FS_CardinalityType

LEMMA InitEstablishes == GroupsInit => GroupsInv
<1> SUFFICES ASSUME GroupsInit PROVE GroupsInv
    OBVIOUS
<1>1. Absent \in MemberRows
      /\ [status |-> "active", role |-> "owner", paid |-> TRUE] \in MemberRows
      /\ Absent.status = "none"
    BY DEF Absent, MemberRows
<1>2. member \in [Users -> MemberRows]
    BY <1>1 DEF GroupsInit, MembershipsInit
<1>3. Active = {Owner}
    BY <1>1, MembershipsAssumption DEF GroupsInit, MembershipsInit, Active
<1>4. Cardinality(Active) = 1
    BY <1>3, FS_Singleton
<1> QED BY <1>2, <1>4, MembershipsAssumption DEF GroupsInv, CapacityKept

LEMMA QuietKeeps ==
    ASSUME GroupsInv, Quiet PROVE GroupsInv' /\ HandoverStep
<1>1. Active' \in SUBSET Active
    BY DEF Quiet, Active
<1>2. IsFiniteSet(Active') /\ Cardinality(Active') <= Cardinality(Active)
    BY <1>1, ActiveFinite, FS_Subset
<1>3. Cardinality(Active') \in Nat
    BY <1>2, FS_CardinalityType
<1>4. CapacityKept'
    BY <1>2, <1>3, ActiveFinite, MembershipsAssumption DEF GroupsInv, CapacityKept
<1>5. HandoverStep
    BY DEF Quiet, HandoverStep, ActiveOwners, Active
<1> QED BY <1>4, <1>5 DEF GroupsInv, Quiet

LEMMA SameIsQuiet == ASSUME GroupsInv, UNCHANGED member PROVE Quiet
BY DEF GroupsInv, Quiet

\* A field of one row is written.
LEMMA StatusWritten ==
    ASSUME GroupsInv, NEW u, NEW status \in {"none", "pending", "active", "left"},
           member' = [member EXCEPT ![u].status = status]
    PROVE  /\ member' \in [Users -> MemberRows]
           /\ \A v \in Users :
                /\ member'[v].status = IF v = u THEN status ELSE member[v].status
                /\ member'[v].role = member[v].role
<1>1. CASE u \in Users
    BY <1>1 DEF GroupsInv, MemberRows
<1>2. CASE u \notin Users
    BY <1>2 DEF GroupsInv, MemberRows
<1> QED BY <1>1, <1>2

LEMMA PaidWritten ==
    ASSUME GroupsInv, NEW u, member' = [member EXCEPT ![u].paid = TRUE]
    PROVE  Quiet
<1>1. CASE u \in Users
    BY <1>1 DEF GroupsInv, MemberRows, Quiet
<1>2. CASE u \notin Users
    BY <1>2 DEF GroupsInv, MemberRows, Quiet
<1> QED BY <1>1, <1>2

LEMMA RequestJoinIsQuiet ==
    ASSUME GroupsInv, NEW u \in Users, RequestJoin(u) PROVE Quiet
<1>1. member[u] \in MemberRows
    BY DEF GroupsInv
<1>2. Requested(u) \in MemberRows /\ Requested(u).status = "pending"
    BY <1>1 DEF Requested, MemberRows
<1>3. member' = [member EXCEPT ![u] = Requested(u)]
    BY DEF RequestJoin
<1> QED BY <1>2, <1>3 DEF GroupsInv, Quiet

LEMMA LeaveIsQuiet ==
    ASSUME GroupsInv, NEW u, LeaveMembership(u) PROVE Quiet
<1>1. member' = [member EXCEPT ![u].status = "left"]
    BY DEF LeaveMembership
<1>2. /\ member' \in [Users -> MemberRows]
      /\ \A v \in Users :
            /\ member'[v].status = IF v = u THEN "left" ELSE member[v].status
            /\ member'[v].role = member[v].role
    BY <1>1, StatusWritten
<1> QED BY <1>2 DEF Quiet

LEMMA PromoteIsQuiet ==
    ASSUME GroupsInv, NEW v, PromoteToOwner(v) PROVE Quiet
<1>1. CASE v \in Users
    BY <1>1 DEF PromoteToOwner, GroupsInv, MemberRows, Quiet
<1>2. CASE v \notin Users
    BY <1>2 DEF PromoteToOwner, GroupsInv, MemberRows, Quiet
<1> QED BY <1>1, <1>2

\* The transactions that write several rows.
LEMMA TransferIsQuiet ==
    ASSUME GroupsInv, NEW v, TransferOwnershipRoles(v) PROVE Quiet
<1>1. \A w \in Users :
        /\ member'[w] \in MemberRows /\ member'[w].status = member[w].status
    BY DEF TransferOwnershipRoles, GroupsInv, MemberRows
<1>2. member' \in [Users -> MemberRows]
    BY <1>1 DEF TransferOwnershipRoles
<1> QED BY <1>1, <1>2 DEF Quiet, GroupsInv

LEMMA RemoveIsQuiet ==
    ASSUME GroupsInv, NEW us, RemoveByAdmin(us) PROVE Quiet
<1>1. \A w \in Users :
        /\ member'[w] \in MemberRows /\ member'[w].role = member[w].role
        /\ member'[w].status = IF w \in us THEN "left" ELSE member[w].status
    BY DEF RemoveByAdmin, GroupsInv, MemberRows
<1>2. member' \in [Users -> MemberRows]
    BY <1>1 DEF RemoveByAdmin
<1> QED BY <1>1, <1>2 DEF Quiet, GroupsInv

LEMMA BulkDebitIsQuiet ==
    ASSUME GroupsInv, NEW cents, BulkDebitAndMarkPaid(cents) PROVE Quiet
<1>1. \A w \in Users :
        /\ member'[w] \in MemberRows /\ member'[w].role = member[w].role
        /\ member'[w].status = member[w].status
    BY DEF BulkDebitAndMarkPaid, GroupsInv, MemberRows
<1>2. member' \in [Users -> MemberRows]
    BY <1>1 DEF BulkDebitAndMarkPaid
<1> QED BY <1>1, <1>2 DEF Quiet, GroupsInv

\* ApproveMembership has counted under the lock.
LEMMA ApprovalKeeps ==
    ASSUME GroupsInv, NEW u, ApproveMembership(u)
    PROVE  GroupsInv' /\ HandoverStep
<1>1. member' = [member EXCEPT ![u].status = "active"]
      /\ Cardinality(Active) < MaxMembers
    BY DEF ApproveMembership, Approvable, HasRoom
<1>2. /\ member' \in [Users -> MemberRows]
      /\ \A v \in Users :
            /\ member'[v].status = IF v = u THEN "active" ELSE member[v].status
            /\ member'[v].role = member[v].role
    BY <1>1, StatusWritten
<1>3. Active' \in SUBSET (Active \cup {u})
    BY <1>2 DEF Active
<1>4. /\ IsFiniteSet(Active \cup {u})
      /\ Cardinality(Active \cup {u}) <= Cardinality(Active) + 1
    BY ActiveFinite, FS_AddElement
<1>5. IsFiniteSet(Active') /\ Cardinality(Active') <= Cardinality(Active \cup {u})
    BY <1>3, <1>4, FS_Subset
<1>6. Cardinality(Active') \in Nat /\ Cardinality(Active \cup {u}) \in Nat
    BY <1>4, <1>5, FS_CardinalityType
<1>7. CapacityKept'
    BY <1>1, <1>4, <1>5, <1>6, ActiveFinite, MembershipsAssumption DEF CapacityKept
<1>8. HandoverStep
    BY <1>2 DEF HandoverStep, ActiveOwners, Active
<1> QED BY <1>2, <1>7, <1>8 DEF GroupsInv

\* LeaveMembershipAndTransferOwnership has promoted before it leaves.
LEMMA HandoverKeeps ==
    ASSUME GroupsInv, NEW u, NEW successor, LeaveAndTransfer(u, successor)
    PROVE  GroupsInv' /\ HandoverStep
<1>1. successor \in Active /\ successor # u /\ u \in Active
    BY DEF LeaveAndTransfer, SuccessorActive
<1>2. \A v \in Users :
        /\ member'[v] \in MemberRows
        /\ member'[v].status = IF v = u THEN "left" ELSE member[v].status
        /\ v = successor => member'[v].role = "owner"
        /\ v \in Active /\ v # successor => member'[v].role = "member"
    BY <1>1 DEF LeaveAndTransfer, GroupsInv, MemberRows, Active
<1>3. member' \in [Users -> MemberRows]
    BY <1>2 DEF LeaveAndTransfer
<1>4. ActiveOwners' = {successor}
    BY <1>1, <1>2 DEF ActiveOwners, Active
<1>5. HandoverStep
    BY <1>4, FS_Singleton DEF HandoverStep
<1>6. Active' \in SUBSET Active
    BY <1>1, <1>2 DEF Active
<1>7. IsFiniteSet(Active') /\ Cardinality(Active') <= Cardinality(Active)
    BY <1>6, ActiveFinite, FS_Subset
<1>8. Cardinality(Active') \in Nat
    BY <1>7, FS_CardinalityType
<1>9. CapacityKept'
    BY <1>7, <1>8, ActiveFinite, MembershipsAssumption DEF GroupsInv, CapacityKept
<1> QED BY <1>3, <1>5, <1>9 DEF GroupsInv

\* The requests, one step per transaction they run.
LEMMA CallKeeps ==
    ASSUME GroupsInv, NEW c \in Calls,
           \/ Abandon(c)
           \/ CreatePendingPayment(c) \/ PayFromBalance(c)
           \/ Approve(c) \/ Reject(c) \/ LeaveGroup(c)
           \/ ChargeMembers(c) \/ SetMode(c) \/ ChangeOwner(c)
           \/ FindSuccessor(c, {})
    PROVE  GroupsInv' /\ HandoverStep
<1>1. CASE Abandon(c) \/ CreatePendingPayment(c) \/ SetMode(c)
           \/ FindSuccessor(c, {})
    <2>1. UNCHANGED member
        BY <1>1 DEF Abandon, CreatePendingPayment, CreateRecord, SetMode,
                    UpdateTournamentMode, FindSuccessor, memberships
    <2> QED BY <2>1, SameIsQuiet, QuietKeeps
<1>2. CASE PayFromBalance(c)
    <2>1. member' = [member EXCEPT ![call[c].user].paid = TRUE]
        BY <1>2 DEF PayFromBalance, DebitBalanceAndMarkPaid
    <2> QED BY <2>1, PaidWritten, QuietKeeps
<1>3. CASE Approve(c)
    BY <1>3, ApprovalKeeps DEF Approve
<1>4. CASE Reject(c)
    BY <1>4, RemoveIsQuiet, QuietKeeps DEF Reject
<1>5. CASE LeaveGroup(c)
    BY <1>5, LeaveIsQuiet, QuietKeeps, HandoverKeeps DEF LeaveGroup
<1>6. CASE ChargeMembers(c)
    BY <1>6, BulkDebitIsQuiet, QuietKeeps DEF ChargeMembers
<1>7. CASE ChangeOwner(c)
    BY <1>7, TransferIsQuiet, PromoteIsQuiet, QuietKeeps DEF ChangeOwner
<1> QED BY <1>1, <1>2, <1>3, <1>4, <1>5, <1>6, <1>7

LEMMA UserCallKeeps ==
    ASSUME GroupsInv, NEW c \in Calls, NEW u \in Users,
           \/ Join(c, u) \/ JoinWithBalance(c, u) \/ Leave(c, u)
           \/ TransferOwnership(c, u) \/ FindSuccessor(c, {u})
           \/ SetTournamentMode(c, u, FALSE, 0)
           \/ SetTournamentMode(c, u, TRUE, 0)
           \/ SetTournamentMode(c, u, TRUE, GeneralFee)
           \/ \E v \in Users : ApproveJoin(c, v, u) \/ RejectJoin(c, v, u)
    PROVE  GroupsInv' /\ HandoverStep
<1>1. CASE Join(c, u) \/ JoinWithBalance(c, u)
    <2>1. RequestJoin(u)
        BY <1>1 DEF Join, JoinWithBalance, AskToJoin
    <2> QED BY <2>1, RequestJoinIsQuiet, QuietKeeps
<1>2. CASE ~(Join(c, u) \/ JoinWithBalance(c, u))
    <2>1. UNCHANGED member
        BY <1>2 DEF Leave, TransferOwnership, FindSuccessor, SetTournamentMode,
                    ApproveJoin, RejectJoin, memberships
    <2> QED BY <2>1, SameIsQuiet, QuietKeeps
<1> QED BY <1>1, <1>2

LEMMA AdminKeeps ==
    ASSUME GroupsInv,
           \/ \E us \in SUBSET Users : RemoveMembers(us)
           \/ \E u \in Users, approval \in BOOLEAN : RequireApproval(u, approval)
           \/ \E fee \in Fees : ChangeFee(fee)
           \/ \E u \in Users : \E k \in DOMAIN records[u] : ReviewRecord(u, k)
    PROVE  GroupsInv' /\ HandoverStep
<1>1. ASSUME NEW us, RemoveMembers(us) PROVE Quiet
    BY <1>1, RemoveIsQuiet DEF RemoveMembers
<1>2. ASSUME NEW u, NEW approval, RequireApproval(u, approval) PROVE Quiet
    BY <1>2, SameIsQuiet DEF RequireApproval, UpdateRequireApproval
<1>3. ASSUME NEW fee, ChangeFee(fee) PROVE Quiet
    BY <1>3, SameIsQuiet DEF ChangeFee, UpdateTournamentMode
<1>4. ASSUME NEW u, NEW k, ReviewRecord(u, k) PROVE Quiet
    <2>1. CASE ValidateAndMarkPaid(u, k)
        BY <2>1, PaidWritten DEF ValidateAndMarkPaid
    <2>2. CASE RejectRecord(u, k)
        BY <2>2, SameIsQuiet DEF RejectRecord
    <2> QED BY <1>4, <2>1, <2>2 DEF ReviewRecord
<1> QED BY <1>1, <1>2, <1>3, <1>4, QuietKeeps

LEMMA StepKeeps ==
    GroupsInv /\ [GroupsNext]_groupVars => GroupsInv' /\ [HandoverStep]_groupVars
<1> SUFFICES ASSUME GroupsInv, [GroupsNext]_groupVars
    PROVE  GroupsInv' /\ [HandoverStep]_groupVars
    OBVIOUS
<1>1. CASE GroupsNext
    BY <1>1, CallKeeps, UserCallKeeps, AdminKeeps DEF GroupsNext
<1>2. CASE UNCHANGED groupVars
    <2>1. UNCHANGED member
        BY <1>2 DEF groupVars, memberships
    <2> QED BY <1>2, <2>1, SameIsQuiet, QuietKeeps
<1> QED BY <1>1, <1>2

\* The rows of the members are rows of the schema and the group is never over
\* its limit, whatever the requests under way have read.
THEOREM GroupsInvariant == GroupsSpec => []GroupsInv
BY InitEstablishes, StepKeeps, PTL DEF GroupsSpec

\* No group ever has more active members than group.max_size, for any number
\* of users and of joins, approvals, removals and leaves in progress.
THEOREM GroupsKeepCapacity == GroupsSpec => []CapacityKept
<1>1. GroupsInv => CapacityKept BY DEF GroupsInv
<1> QED BY <1>1, GroupsInvariant, PTL

\* LeaveMembershipAndTransferOwnership leaves exactly one active owner behind,
\* whatever became of the successor since it was chosen.
THEOREM GroupsHandOver == GroupsSpec => HandoverKeepsOwner
<1>1. HandoverKeepsOwner <=> [][HandoverStep]_groupVars
    BY PTL DEF HandoverKeepsOwner, HandoverStep
<1> QED BY <1>1, GroupsInvariant, StepKeeps, PTL DEF GroupsSpec

-----------------------------------------------------------------------------
(***************************************************************************)
(* The types, and that whoever is marked as paid has paid.  Here the       *)
(* requests are believed, and that is an invariant of its own: what a      *)
(* request has read has the types that its next transaction needs.  The    *)
(* second strengthening is that nobody has paid less than when asking to   *)
(* join, so that one payment more is enough.                               *)
(***************************************************************************)

JoinCalls == [pc : {"record", "approve"}, user : Users, approval : BOOLEAN]
FeeCalls == [pc : {"debit", "approve"}, user : Users, fee : Nat,
             approval : BOOLEAN]
MemberCalls == [pc : {"reject", "leave", "transfer", "promote"}, user : Users]
HandoverCalls == [pc : {"handover"}, user : Users, successor : Users]
ModeCalls == [pc : {"charge", "mode"}, premium : BOOLEAN, fee : Nat]

CallStates == {Idle} \cup JoinCalls \cup FeeCalls \cup MemberCalls
              \cup HandoverCalls \cup ModeCalls

CallsFit == call \in [Calls -> CallStates]

PaidNoLess == \A u \in Users : base[u] <= Payments(u)

BackedInv ==
    /\ GroupsInv /\ GroupsTypeOK /\ CallsFit
    /\ PaidNoLess /\ PaidIsBacked

\* What a request needs to know of its own state.
LEMMA CallKinds ==
    ASSUME NEW r \in CallStates
    PROVE  /\ r.pc = "record" => r \in JoinCalls
           /\ r.pc = "approve" => r \in JoinCalls \cup FeeCalls
           /\ r.pc = "debit" => r \in FeeCalls
           /\ r.pc \in {"reject", "leave", "transfer", "promote"}
              => r \in MemberCalls
           /\ r.pc = "handover" => r \in HandoverCalls
           /\ r.pc \in {"charge", "mode"} => r \in ModeCalls
BY DEF CallStates, Idle, JoinCalls, FeeCalls, MemberCalls, HandoverCalls,
       ModeCalls

LEMMA CallMoves ==
    /\ \A r \in JoinCalls : [r EXCEPT !.pc = "approve"] \in JoinCalls
    /\ \A r \in FeeCalls : [r EXCEPT !.pc = "approve"] \in FeeCalls
    /\ \A r \in ModeCalls : [r EXCEPT !.pc = "mode"] \in ModeCalls
<1>1. \A r \in JoinCalls : [r EXCEPT !.pc = "approve"] \in JoinCalls
    BY DEF JoinCalls
<1>2. \A r \in FeeCalls : [r EXCEPT !.pc = "approve"] \in FeeCalls
    BY DEF FeeCalls
<1>3. \A r \in ModeCalls : [r EXCEPT !.pc = "mode"] \in ModeCalls
    BY DEF ModeCalls
<1> QED BY <1>1, <1>2, <1>3

LEMMA CallSet ==
    ASSUME CallsFit, NEW c \in Calls, NEW r \in CallStates,
           call' = [call EXCEPT ![c] = r]
    PROVE  CallsFit'
BY DEF CallsFit

LEMMA CallEnds ==
    ASSUME CallsFit, NEW c \in Calls, Ends(c)
    PROVE  CallsFit'
<1>1. Idle \in CallStates
    BY DEF CallStates
<1> QED BY <1>1, CallSet DEF Ends

LEMMA CallGoesOn ==
    ASSUME CallsFit, NEW c \in Calls,
           \/ call[c].pc \in {"record", "debit"} /\ AfterPayment(c)
           \/ call[c].pc = "charge" /\ Goes(c, "mode")
    PROVE  CallsFit'
<1>1. call[c] \in CallStates
    BY DEF CallsFit
<1>2. CASE Ends(c)
    BY <1>2, CallEnds
<1>3. ASSUME call[c].pc \in {"record", "debit"}, Goes(c, "approve")
      PROVE  CallsFit'
    <2>1. call[c] \in JoinCalls \cup FeeCalls
        BY <1>1, <1>3, CallKinds
    <2>2. [call[c] EXCEPT !.pc = "approve"] \in CallStates
        BY <2>1, CallMoves DEF CallStates
    <2>3. call' = [call EXCEPT ![c] = [call[c] EXCEPT !.pc = "approve"]]
        BY <1>3 DEF Goes, CallsFit
    <2> QED BY <2>2, <2>3, CallSet
<1>4. ASSUME call[c].pc = "charge", Goes(c, "mode")
      PROVE  CallsFit'
    <2>1. call[c] \in ModeCalls
        BY <1>1, <1>4, CallKinds
    <2>2. [call[c] EXCEPT !.pc = "mode"] \in CallStates
        BY <2>1, CallMoves DEF CallStates
    <2>3. call' = [call EXCEPT ![c] = [call[c] EXCEPT !.pc = "mode"]]
        BY <1>4 DEF Goes, CallsFit
    <2> QED BY <2>2, <2>3, CallSet
<1> QED BY <1>2, <1>3, <1>4 DEF AfterPayment

LEMMA CallStarts ==
    ASSUME CallsFit, NEW c \in Calls, NEW r \in CallStates, Starts(c, r)
    PROVE  CallsFit'
BY CallSet DEF Starts

-----------------------------------------------------------------------------
\* Payments are counted.

RecordStates == {"pending", "confirmed", "rejected"}

Charged(u) == {k \in DOMAIN ledger[u] : ledger[u][k].origin = FeeOrigin}
Confirmed(u) == {k \in DOMAIN records[u] : records[u][k] = "confirmed"}

LEMMA PaymentsAre ==
    ASSUME NEW u
    PROVE  Payments(u) = Cardinality(Charged(u)) + Cardinality(Confirmed(u))
BY DEF Payments, Charges, Charged, Confirmed

LEMMA IndicesFinite ==
    ASSUME NEW R, NEW s \in Seq(R), NEW S \in SUBSET DOMAIN s
    PROVE  IsFiniteSet(S) /\ Cardinality(S) \in Nat
<1>1. DOMAIN s = 1 .. Len(s) /\ Len(s) \in Nat
    OBVIOUS
<1>2. IsFiniteSet(DOMAIN s)
    BY <1>1, FS_Interval
<1> QED BY <1>2, FS_Subset, FS_CardinalityType

LEMMA PaymentsFinite ==
    ASSUME MembershipsTypeOK, NEW u \in Users
    PROVE  /\ IsFiniteSet(Charged(u)) /\ Cardinality(Charged(u)) \in Nat
           /\ IsFiniteSet(Confirmed(u)) /\ Cardinality(Confirmed(u)) \in Nat
           /\ Payments(u) \in Nat
<1>1. ledger[u] \in Seq(Rows) /\ records[u] \in Seq(RecordStates)
    BY DEF MembershipsTypeOK, AccountsTypeOK, RecordStates
<1>2. /\ Charged(u) \in SUBSET DOMAIN ledger[u]
      /\ Confirmed(u) \in SUBSET DOMAIN records[u]
    BY DEF Charged, Confirmed
<1>3. /\ IsFiniteSet(Charged(u)) /\ Cardinality(Charged(u)) \in Nat
      /\ IsFiniteSet(Confirmed(u)) /\ Cardinality(Confirmed(u)) \in Nat
    BY <1>1, <1>2, IndicesFinite
<1> QED BY <1>3, PaymentsAre

\* What a transaction does to the payments of the users: nobody loses one,
\* and whoever becomes paid has one more.
Backs ==
    \A v \in Users :
        /\ Payments(v)' >= Payments(v)
        /\ member'[v].paid => member[v].paid \/ Payments(v)' > Payments(v)

LEMMA SamePayments ==
    ASSUME NEW v, ledger'[v] = ledger[v], records'[v] = records[v]
    PROVE  Payments(v)' = Payments(v)
<1>1. Charged(v)' = Charged(v) /\ Confirmed(v)' = Confirmed(v)
    BY DEF Charged, Confirmed
<1>2. Payments(v)' = Cardinality(Charged(v)') + Cardinality(Confirmed(v)')
    BY DEF Payments, Charges, Charged, Confirmed
<1> QED BY <1>1, <1>2, PaymentsAre

LEMMA NothingPaid ==
    ASSUME MembershipsTypeOK, UNCHANGED <<ledger, records>>,
           \A v \in Users : member'[v].paid = member[v].paid
    PROVE  Backs
<1> SUFFICES ASSUME NEW v \in Users
             PROVE  /\ Payments(v)' = Payments(v) /\ Payments(v) \in Nat
                    /\ member'[v].paid = member[v].paid
    BY DEF Backs
<1> QED BY SamePayments, PaymentsFinite

LEMMA OneChargeMore ==
    ASSUME MembershipsTypeOK, NEW u \in Users, NEW row,
           row.origin = FeeOrigin,
           ledger'[u] = Append(ledger[u], row), records'[u] = records[u]
    PROVE  Payments(u)' = Payments(u) + 1
<1>1. PICK n \in Nat : n = Len(ledger[u])
    BY DEF MembershipsTypeOK, AccountsTypeOK
<1>2. /\ DOMAIN ledger[u] = 1 .. n /\ DOMAIN ledger'[u] = 1 .. n + 1
      /\ ledger'[u][n + 1] = row
      /\ \A k \in 1 .. n : ledger'[u][k] = ledger[u][k]
    <2>1. ledger[u] \in Seq(Rows)
        BY DEF MembershipsTypeOK, AccountsTypeOK
    <2> QED BY <1>1, <2>1
<1>3. 1 .. n + 1 = 1 .. n \cup {n + 1} /\ n + 1 \notin 1 .. n
    OBVIOUS
<1>4. Charged(u)' = Charged(u) \cup {n + 1} /\ n + 1 \notin Charged(u)
    BY <1>2, <1>3 DEF Charged
<1>5. Confirmed(u)' = Confirmed(u)
    BY DEF Confirmed
<1>6. Cardinality(Charged(u) \cup {n + 1}) = Cardinality(Charged(u)) + 1
    BY <1>4, PaymentsFinite, FS_AddElement
<1>7. Payments(u)' = Cardinality(Charged(u)') + Cardinality(Confirmed(u)')
    BY DEF Payments, Charges, Charged, Confirmed
<1> QED BY <1>4, <1>5, <1>6, <1>7, PaymentsAre, PaymentsFinite

LEMMA OneRecordMore ==
    ASSUME MembershipsTypeOK, NEW u \in Users, NEW k \in DOMAIN records[u],
           records[u][k] = "pending", ledger'[u] = ledger[u],
           records' = [records EXCEPT ![u][k] = "confirmed"]
    PROVE  Payments(u)' = Payments(u) + 1
<1>1. /\ DOMAIN records'[u] = DOMAIN records[u]
      /\ records'[u][k] = "confirmed"
      /\ \A j \in DOMAIN records[u] \ {k} : records'[u][j] = records[u][j]
    BY DEF MembershipsTypeOK
<1>2. Confirmed(u)' = Confirmed(u) \cup {k} /\ k \notin Confirmed(u)
    BY <1>1 DEF Confirmed
<1>3. Charged(u)' = Charged(u)
    BY DEF Charged
<1>4. Cardinality(Confirmed(u) \cup {k}) = Cardinality(Confirmed(u)) + 1
    BY <1>2, PaymentsFinite, FS_AddElement
<1>5. Payments(u)' = Cardinality(Charged(u)') + Cardinality(Confirmed(u)')
    BY DEF Payments, Charges, Charged, Confirmed
<1> QED BY <1>2, <1>3, <1>4, <1>5, PaymentsAre, PaymentsFinite

\* A record that is added, or rejected while it is pending, is no payment.
LEMMA NoRecordMore ==
    ASSUME MembershipsTypeOK, NEW u \in Users, ledger'[u] = ledger[u],
           \/ records' = [records EXCEPT ![u] = Append(@, "pending")]
           \/ \E k \in DOMAIN records[u] :
                /\ records[u][k] = "pending"
                /\ records' = [records EXCEPT ![u][k] = "rejected"]
    PROVE  Payments(u)' = Payments(u)
<1>1. Confirmed(u)' = Confirmed(u)
    <2>1. records \in [Users -> Seq(RecordStates)]
        BY DEF MembershipsTypeOK, RecordStates
    <2>2. CASE records' = [records EXCEPT ![u] = Append(@, "pending")]
        <3>1. PICK s \in Seq(RecordStates) : s = records[u]
            BY <2>1
        <3>2. records'[u] = Append(s, "pending")
            BY <2>1, <2>2, <3>1
        <3>3. PICK n \in Nat : n = Len(s)
            BY <3>1
        <3>4. /\ DOMAIN s = 1 .. n /\ DOMAIN records'[u] = 1 .. n + 1
              /\ records'[u][n + 1] = "pending"
              /\ \A k \in 1 .. n : records'[u][k] = s[k]
            BY <3>1, <3>2, <3>3
        <3>5. 1 .. n + 1 = 1 .. n \cup {n + 1} /\ n + 1 \notin 1 .. n
            OBVIOUS
        <3> QED BY <3>1, <3>4, <3>5 DEF Confirmed
    <2>3. ASSUME NEW k \in DOMAIN records[u], records[u][k] = "pending",
                 records' = [records EXCEPT ![u][k] = "rejected"]
          PROVE  Confirmed(u)' = Confirmed(u)
        <3>1. /\ DOMAIN records'[u] = DOMAIN records[u]
              /\ records'[u][k] = "rejected"
              /\ \A j \in DOMAIN records[u] \ {k} :
                    records'[u][j] = records[u][j]
            BY <2>1, <2>3
        <3> QED BY <2>3, <3>1 DEF Confirmed
    <2> QED BY <2>2, <2>3
<1>2. Charged(u)' = Charged(u)
    BY DEF Charged
<1>3. Payments(u)' = Cardinality(Charged(u)') + Cardinality(Confirmed(u)')
    BY DEF Payments, Charges, Charged, Confirmed
<1> QED BY <1>1, <1>2, <1>3, PaymentsAre

\* joined_at of the member who joined last.
LEMMA LastJoined ==
    ASSUME joined \in [Users -> Nat]
    PROVE  Max({joined[v] : v \in Users}) \in Nat
<1> DEFINE Later(x) == {v \in Users : joined[v] > joined[x]}
           T == {Later(x) : x \in Users}
           R == StrictSubsetOrdering(Users)
<1>1. IsFiniteSet(Users) /\ Owner \in Users
    BY MembershipsAssumption
<1>2. IsWellFoundedOn(R, SUBSET Users)
    BY <1>1, FS_StrictSubsetOrderingWellFounded, FS_FiniteSubsetsOfFinite
<1>3. T \subseteq SUBSET Users /\ T # {}
    BY <1>1
<1>4. \A a \in SUBSET Users, b \in SUBSET Users :
        a \subseteq b /\ a # b => <<a, b>> \in R
    BY DEF StrictSubsetOrdering
<1> HIDE DEF R
<1>5. PICK least \in T : \A t \in T : ~(<<t, least>> \in R)
    <2> HIDE DEF T
    <2> QED BY <1>2, <1>3, WFMin, Zenon
<1>6. PICK x \in Users : least = Later(x)
    BY <1>5
<1>7. Later(x) = {}
    <2> SUFFICES ASSUME NEW y \in Later(x)
                 PROVE  FALSE
        OBVIOUS
    <2>1. y \in Users /\ joined[y] > joined[x]
        OBVIOUS
    <2>2. Later(y) \subseteq Later(x) /\ y \notin Later(y)
        BY <2>1
    <2>3. Later(y) \in T /\ Later(y) # Later(x)
        BY <2>1, <2>2
    <2> QED BY <1>3, <1>4, <1>5, <1>6, <2>2, <2>3
<1>8. \A v \in Users : joined[x] >= joined[v]
    BY <1>7
<1>9. \E m \in {joined[v] : v \in Users} :
        \A n \in {joined[v] : v \in Users} : m >= n
    BY <1>8
<1> QED BY <1>9 DEF Max

-----------------------------------------------------------------------------
\* The transactions: each keeps the types of the rows it writes and backs the
\* flags it sets.

GroupRows == [premium : BOOLEAN, fee : Nat, approval : BOOLEAN,
              status : {"active", "inactive"}]

RowsFit ==
    /\ joined \in [Users -> Nat]
    /\ group \in GroupRows
    /\ records \in [Users -> Seq(RecordStates)]

LEMMA TypeIs ==
    MembershipsTypeOK
    <=> AccountsTypeOK /\ member \in [Users -> MemberRows] /\ RowsFit
BY DEF MembershipsTypeOK, MemberRows, RowsFit, GroupRows, RecordStates

\* Nobody's flag and nobody's record is written.
FlagsKept ==
    /\ \A v \in Users : member'[v].paid = member[v].paid
    /\ UNCHANGED records

LEMMA StatusSynced ==
    ASSUME group \in GroupRows, NEW n, SyncStatus(n) PROVE group' \in GroupRows
BY DEF GroupRows, SyncStatus

LEMMA ApprovalFits ==
    ASSUME MembershipsTypeOK, NEW u \in Users, ApproveMembership(u)
    PROVE  RowsFit' /\ FlagsKept
<1>1. member \in [Users -> MemberRows] /\ RowsFit
    BY TypeIs
<1>2. group' \in GroupRows
    BY <1>1, StatusSynced DEF ApproveMembership, RowsFit
<1>3. joined' \in [Users -> Nat]
    <2>1. PICK m \in Nat : m = Max({joined[v] : v \in Users})
        BY <1>1, LastJoined DEF RowsFit
    <2>2. joined' = [joined EXCEPT ![u] = m + 1]
        BY <2>1 DEF ApproveMembership
    <2> QED BY <1>1, <2>2 DEF RowsFit
<1>4. FlagsKept
    BY <1>1 DEF ApproveMembership, FlagsKept, MemberRows
<1> QED BY <1>1, <1>2, <1>3, <1>4 DEF RowsFit, ApproveMembership

LEMMA LeaveFits ==
    ASSUME MembershipsTypeOK, NEW u \in Users, LeaveMembership(u)
    PROVE  RowsFit' /\ FlagsKept
<1>1. member \in [Users -> MemberRows] /\ RowsFit
    BY TypeIs
<1>2. group' \in GroupRows
    BY <1>1, StatusSynced DEF LeaveMembership, RowsFit
<1>3. joined' \in [Users -> Nat] /\ UNCHANGED records
    BY <1>1 DEF LeaveMembership, RowsFit
<1>4. FlagsKept
    BY <1>1 DEF LeaveMembership, FlagsKept, MemberRows
<1> QED BY <1>1, <1>2, <1>3, <1>4 DEF RowsFit

LEMMA HandoverFits ==
    ASSUME MembershipsTypeOK, NEW u \in Users, NEW successor \in Users,
           LeaveAndTransfer(u, successor)
    PROVE  RowsFit' /\ FlagsKept
<1>1. member \in [Users -> MemberRows] /\ RowsFit
    BY TypeIs
<1>2. group' \in GroupRows
    BY <1>1, StatusSynced DEF LeaveAndTransfer, RowsFit
<1>3. joined' \in [Users -> Nat] /\ UNCHANGED records
    BY <1>1 DEF LeaveAndTransfer, RowsFit
<1>4. FlagsKept
    BY <1>1 DEF LeaveAndTransfer, FlagsKept, MemberRows
<1> QED BY <1>1, <1>2, <1>3, <1>4 DEF RowsFit

LEMMA RolesFit ==
    ASSUME MembershipsTypeOK, NEW v \in Users,
           TransferOwnershipRoles(v) \/ PromoteToOwner(v)
    PROVE  RowsFit' /\ FlagsKept
<1>1. member \in [Users -> MemberRows] /\ RowsFit
    BY TypeIs
<1>2. UNCHANGED <<joined, group, records>>
    BY DEF TransferOwnershipRoles, PromoteToOwner
<1>3. CASE TransferOwnershipRoles(v)
    BY <1>1, <1>2, <1>3 DEF TransferOwnershipRoles, FlagsKept, MemberRows,
                            RowsFit
<1>4. CASE PromoteToOwner(v)
    BY <1>1, <1>2, <1>4 DEF PromoteToOwner, FlagsKept, MemberRows, RowsFit
<1> QED BY <1>3, <1>4

LEMMA RemovalFits ==
    ASSUME MembershipsTypeOK, NEW us, RemoveByAdmin(us)
    PROVE  RowsFit' /\ FlagsKept
<1>1. member \in [Users -> MemberRows] /\ RowsFit
    BY TypeIs
<1>2. joined' \in [Users -> Nat] /\ UNCHANGED <<group, records>>
    BY <1>1 DEF RemoveByAdmin, RowsFit
<1>3. FlagsKept
    BY <1>1 DEF RemoveByAdmin, FlagsKept, MemberRows
<1> QED BY <1>1, <1>2, <1>3 DEF RowsFit

LEMMA SettingsFit ==
    ASSUME MembershipsTypeOK, NEW on \in BOOLEAN, NEW fee \in Nat,
           UpdateTournamentMode(on, fee) \/ UpdateRequireApproval(on)
    PROVE  RowsFit' /\ FlagsKept
<1>1. RowsFit /\ UNCHANGED <<member, joined, records>>
    BY TypeIs DEF UpdateTournamentMode, UpdateRequireApproval
<1>2. group' \in GroupRows
    BY <1>1 DEF UpdateTournamentMode, UpdateRequireApproval, RowsFit, GroupRows
<1> QED BY <1>1, <1>2 DEF RowsFit, FlagsKept

\* Such a transaction moves no money either.
LEMMA FlagsKeptBacks ==
    ASSUME MembershipsTypeOK, FlagsKept, UNCHANGED accounts PROVE Backs
BY NothingPaid DEF FlagsKept, accounts

\* The payment records.
LEMMA RecordWritten ==
    ASSUME RowsFit, NEW u \in Users, UNCHANGED <<joined, group>>,
           \/ records' = [records EXCEPT ![u] = Append(@, "pending")]
           \/ \E k \in DOMAIN records[u] :
                records' = [records EXCEPT ![u][k] = "rejected"]
           \/ \E k \in DOMAIN records[u] :
                records' = [records EXCEPT ![u][k] = "confirmed"]
    PROVE  RowsFit' /\ \A v \in Users : v # u => records'[v] = records[v]
<1>1. records \in [Users -> Seq(RecordStates)]
    BY DEF RowsFit
<1>2. CASE records' = [records EXCEPT ![u] = Append(@, "pending")]
    <2>1. Append(records[u], "pending") \in Seq(RecordStates)
        BY <1>1 DEF RecordStates
    <2> QED BY <1>1, <1>2, <2>1 DEF RowsFit
<1>3. ASSUME NEW k \in DOMAIN records[u], NEW s \in RecordStates,
             records' = [records EXCEPT ![u][k] = s]
      PROVE  RowsFit' /\ \A v \in Users : v # u => records'[v] = records[v]
    <2>1. [records[u] EXCEPT ![k] = s] \in Seq(RecordStates)
        BY <1>1
    <2>2. records' = [records EXCEPT ![u] = [records[u] EXCEPT ![k] = s]]
        BY <1>1, <1>3
    <2> QED BY <1>1, <2>1, <2>2 DEF RowsFit
<1>4. "rejected" \in RecordStates /\ "confirmed" \in RecordStates
    BY DEF RecordStates
<1> QED BY <1>2, <1>3, <1>4

LEMMA RecordCreated ==
    ASSUME MembershipsTypeOK, NEW u \in Users, CreateRecord(u),
           UNCHANGED accounts
    PROVE  RowsFit' /\ Backs
<1>1. /\ records' = [records EXCEPT ![u] = Append(@, "pending")]
      /\ UNCHANGED <<member, joined, group, ledger>>
    BY DEF CreateRecord, accounts
<1>2. RowsFit' /\ \A v \in Users : v # u => records'[v] = records[v]
    BY <1>1, TypeIs, RecordWritten
<1>3. \A v \in Users : Payments(v)' = Payments(v)
    <2> SUFFICES ASSUME NEW v \in Users PROVE Payments(v)' = Payments(v)
        OBVIOUS
    <2>1. CASE v = u
        BY <1>1, <2>1, NoRecordMore
    <2>2. CASE v # u
        BY <1>1, <1>2, <2>2, SamePayments
    <2> QED BY <2>1, <2>2
<1> QED BY <1>1, <1>2, <1>3, PaymentsFinite DEF Backs

LEMMA RecordRejected ==
    ASSUME MembershipsTypeOK, NEW u \in Users, NEW k \in DOMAIN records[u],
           RejectRecord(u, k), UNCHANGED accounts
    PROVE  RowsFit' /\ Backs
<1>1. /\ records[u][k] = "pending"
      /\ records' = [records EXCEPT ![u][k] = "rejected"]
      /\ UNCHANGED <<member, joined, group, ledger>>
    BY DEF RejectRecord, accounts
<1>2. RowsFit' /\ \A v \in Users : v # u => records'[v] = records[v]
    BY <1>1, TypeIs, RecordWritten
<1>3. \A v \in Users : Payments(v)' = Payments(v)
    <2> SUFFICES ASSUME NEW v \in Users PROVE Payments(v)' = Payments(v)
        OBVIOUS
    <2>1. CASE v = u
        BY <1>1, <2>1, NoRecordMore
    <2>2. CASE v # u
        BY <1>1, <1>2, <2>2, SamePayments
    <2> QED BY <2>1, <2>2
<1> QED BY <1>1, <1>2, <1>3, PaymentsFinite DEF Backs

LEMMA RecordValidated ==
    ASSUME MembershipsTypeOK, NEW u \in Users, NEW k \in DOMAIN records[u],
           ValidateAndMarkPaid(u, k), UNCHANGED accounts
    PROVE  RowsFit' /\ Backs
<1>1. /\ records[u][k] = "pending"
      /\ records' = [records EXCEPT ![u][k] = "confirmed"]
      /\ member' = [member EXCEPT ![u].paid = TRUE]
      /\ UNCHANGED <<joined, group, ledger>>
    BY DEF ValidateAndMarkPaid, accounts
<1>2. RowsFit' /\ \A v \in Users : v # u => records'[v] = records[v]
    BY <1>1, TypeIs, RecordWritten
<1>3. ASSUME NEW v \in Users
      PROVE  /\ Payments(v)' = Payments(v) + (IF v = u THEN 1 ELSE 0)
             /\ v # u => member'[v] = member[v]
    <2>1. CASE v = u
        BY <1>1, <2>1, OneRecordMore
    <2>2. CASE v # u
        BY <1>1, <1>2, <2>2, SamePayments, PaymentsFinite, TypeIs
    <2> QED BY <2>1, <2>2
<1> QED BY <1>2, <1>3, PaymentsFinite DEF Backs

\* The entry fee, from one balance or from those of all who have not paid.
LEMMA FeeIsKnown ==
    FeeOrigin \in Origins /\ "entry_fee" \in Kinds /\ "GTQ" \in Currencies
BY MembershipsAssumption DEF FeeOrigin, Origins, Kinds, Currencies

LEMMA FeeConverted ==
    ASSUME NEW u, NEW fee \in Nat, NEW charge \in EntryFeeInUserCurrency(u, fee)
    PROVE  charge.cents \in Nat /\ charge.unit \in Currencies
<1>1. fee \div SellRate \in Nat
    BY MembershipsAssumption
<1> QED BY <1>1 DEF EntryFeeInUserCurrency, Currencies

LEMMA BalanceDebited ==
    ASSUME MembershipsTypeOK, NEW u \in Users, NEW fee \in Nat,
           NEW charge \in EntryFeeInUserCurrency(u, fee),
           DebitBalanceAndMarkPaid(u, charge)
    PROVE  AccountsTypeOK' /\ RowsFit' /\ Backs
<1>1. /\ DebitUser(u, charge.cents, "entry_fee", FeeOrigin, charge.unit)
      /\ member' = [member EXCEPT ![u].paid = TRUE]
      /\ UNCHANGED <<joined, group, records>>
    BY DEF DebitBalanceAndMarkPaid
<1>2. AccountsTypeOK /\ RowsFit /\ member \in [Users -> MemberRows]
    BY TypeIs
<1>3. charge.cents \in Nat /\ charge.unit \in Currencies
    BY FeeConverted
<1>4. AccountsTypeOK'
    BY <1>1, <1>2, <1>3, FeeIsKnown, AccountsAssumption, DebitUserType
<1>5. RowsFit'
    BY <1>1, <1>2 DEF RowsFit
<1>6. PICK row : /\ row.origin = FeeOrigin
                 /\ ledger' = [ledger EXCEPT ![u] = Append(@, row)]
    BY <1>1 DEF DebitUser, LedgerRow
<1>7. ASSUME NEW v \in Users
      PROVE  /\ Payments(v)' = Payments(v) + (IF v = u THEN 1 ELSE 0)
             /\ v # u => member'[v] = member[v]
    <2>1. /\ ledger'[v] = IF v = u THEN Append(ledger[v], row) ELSE ledger[v]
          /\ records'[v] = records[v]
        BY <1>1, <1>2, <1>6 DEF AccountsTypeOK
    <2>2. CASE v = u
        BY <1>6, <2>1, <2>2, OneChargeMore
    <2>3. CASE v # u
        BY <1>1, <1>2, <2>1, <2>3, SamePayments, PaymentsFinite
    <2> QED BY <2>2, <2>3
<1> QED BY <1>4, <1>5, <1>7, PaymentsFinite DEF Backs

LEMMA AllDebited ==
    ASSUME MembershipsTypeOK, NEW cents \in Nat, BulkDebitAndMarkPaid(cents)
    PROVE  AccountsTypeOK' /\ RowsFit' /\ Backs
<1> DEFINE Row(v) == LedgerRow(v, -cents, "entry_fee", FeeOrigin, NoReference,
                               "GTQ", denom[v])
<1>1. AccountsTypeOK /\ RowsFit /\ member \in [Users -> MemberRows]
    BY TypeIs
<1>2. /\ UNCHANGED <<denom, tier, deleted, aged, joined, group, records>>
      /\ balance' = [v \in Users |->
            IF v \in Unpaid THEN balance[v] - cents ELSE balance[v]]
      /\ ledger' = [v \in Users |->
            IF v \in Unpaid THEN Append(ledger[v], Row(v)) ELSE ledger[v]]
      /\ member' = [v \in Users |->
            IF v \in Unpaid THEN [member[v] EXCEPT !.paid = TRUE] ELSE member[v]]
    BY DEF BulkDebitAndMarkPaid
<1>3. Unpaid \subseteq Users
    BY DEF Unpaid, Active
<1>4. ASSUME NEW v \in Unpaid
      PROVE  /\ balance[v] - cents \in Cents /\ Row(v) \in Rows
             /\ Row(v).origin = FeeOrigin
    <2>1. balance[v] \in Cents /\ denom[v] \in Currencies
        BY <1>1, <1>3 DEF AccountsTypeOK
    <2>2. balance[v] >= cents
        BY DEF BulkDebitAndMarkPaid, CanDebit
    <2>3. balance[v] - cents \in Cents /\ balance[v] + (-cents) \in Cents
        BY <2>1, <2>2, AccountsAssumption DEF Cents, AccountsAssumption
    <2>4. -cents \in Int /\ NoReference \in References
        BY DEF References
    <2>5. Row(v) \in Rows
        BY <1>1, <1>3, <2>1, <2>3, <2>4, FeeIsKnown, LedgerRowType
    <2> QED BY <2>3, <2>5 DEF LedgerRow
<1> HIDE DEF Row
<1>5. AccountsTypeOK'
    <2>1. balance' \in [Users -> Cents]
        BY <1>1, <1>2, <1>4 DEF AccountsTypeOK
    <2>2. ledger' \in [Users -> Seq(Rows)]
        BY <1>1, <1>2, <1>4 DEF AccountsTypeOK
    <2> QED BY <1>1, <1>2, <2>1, <2>2 DEF AccountsTypeOK
<1>6. RowsFit'
    BY <1>1, <1>2 DEF RowsFit
<1>7. ASSUME NEW v \in Users
      PROVE  /\ Payments(v)' = Payments(v) + (IF v \in Unpaid THEN 1 ELSE 0)
             /\ v \notin Unpaid => member'[v] = member[v]
    <2>1. CASE v \in Unpaid
        <3>1. ledger'[v] = Append(ledger[v], Row(v)) /\ records'[v] = records[v]
            BY <1>2, <2>1
        <3> QED BY <1>4, <2>1, <3>1, OneChargeMore
    <2>2. CASE v \notin Unpaid
        <3>1. /\ ledger'[v] = ledger[v] /\ records'[v] = records[v]
              /\ member'[v] = member[v]
            BY <1>2, <2>2
        <3>2. Payments(v)' = Payments(v) /\ Payments(v) \in Nat
            BY <3>1, SamePayments, PaymentsFinite
        <3> QED BY <2>2, <3>1, <3>2
    <2> QED BY <2>1, <2>2
<1> QED BY <1>5, <1>6, <1>7, PaymentsFinite DEF Backs

-----------------------------------------------------------------------------
\* The requests, one step per transaction they run.

\* What every step does but the one that asks to join, which starts the
\* history of the member anew.
StepFits ==
    /\ AccountsTypeOK' /\ RowsFit' /\ Backs
    /\ CallsFit' /\ requests' \in Nat /\ UNCHANGED history

LEMMA FitKeeps ==
    ASSUME BackedInv, GroupsInv', StepFits PROVE BackedInv'
<1>1. MembershipsTypeOK /\ due \in [Users -> Nat] /\ base \in [Users -> Nat]
    BY DEF BackedInv, GroupsTypeOK
<1>2. MembershipsTypeOK'
    <2>1. AccountsTypeOK' /\ (member \in [Users -> MemberRows])' /\ RowsFit'
        BY DEF StepFits, GroupsInv
    <2> QED BY <2>1 DEF MembershipsTypeOK, MemberRows, RowsFit, GroupRows,
                        RecordStates
<1>3. GroupsTypeOK'
    BY <1>1, <1>2 DEF GroupsTypeOK, StepFits, history
<1>4. ASSUME NEW u \in Users
      PROVE  /\ base'[u] <= Payments(u)'
             /\ member'[u].paid /\ due'[u] > 0 => Payments(u)' > base'[u]
    <2>1. due'[u] = due[u] /\ base'[u] = base[u] /\ base[u] \in Nat
        BY <1>1 DEF StepFits, history
    <2>2. Payments(u) \in Nat /\ Payments(u)' \in Nat
        <3>1. Payments(u) \in Nat
            BY <1>1, PaymentsFinite
        <3>2. (MembershipsTypeOK => Payments(u) \in Nat)'
            BY PaymentsFinite, PTL
        <3> QED BY <1>2, <3>1, <3>2
    <2>3. /\ Payments(u)' >= Payments(u)
          /\ member'[u].paid => member[u].paid \/ Payments(u)' > Payments(u)
        BY DEF StepFits, Backs
    <2>4. /\ base[u] <= Payments(u)
          /\ member[u].paid /\ due[u] > 0 => Payments(u) > base[u]
        BY DEF BackedInv, PaidNoLess, PaidIsBacked
    <2> QED BY <2>1, <2>2, <2>3, <2>4
<1>5. PaidNoLess' /\ PaidIsBacked'
    BY <1>4 DEF PaidNoLess, PaidIsBacked
<1> QED BY <1>3, <1>5 DEF BackedInv, StepFits

\* A step that moves no money and writes no flag, or nothing at all.
LEMMA FlagsKeptFits ==
    ASSUME BackedInv, RowsFit', FlagsKept, UNCHANGED <<accounts, history>>,
           CallsFit', requests' \in Nat
    PROVE  StepFits
<1>1. MembershipsTypeOK
    BY DEF BackedInv, GroupsTypeOK
<1>2. AccountsTypeOK'
    BY <1>1 DEF MembershipsTypeOK, AccountsTypeOK, accounts
<1> QED BY <1>1, <1>2, FlagsKeptBacks DEF StepFits

LEMMA NothingWrittenFits ==
    ASSUME BackedInv, UNCHANGED <<accounts, memberships, history>>,
           CallsFit', requests' \in Nat
    PROVE  StepFits
<1>1. RowsFit /\ UNCHANGED <<member, joined, group, records>>
    BY TypeIs DEF BackedInv, GroupsTypeOK, memberships
<1>2. RowsFit' /\ FlagsKept
    BY <1>1 DEF RowsFit, FlagsKept
<1> QED BY <1>2, FlagsKeptFits

LEMMA RequestsCounted ==
    ASSUME requests \in Nat,
           \/ IsRequest \/ UNCHANGED requests
    PROVE  requests' \in Nat
BY DEF IsRequest

\* The second and later transactions of a request.
LEMMA CallFits ==
    ASSUME BackedInv, NEW c \in Calls,
           \/ Abandon(c)
           \/ CreatePendingPayment(c) \/ PayFromBalance(c)
           \/ Approve(c) \/ Reject(c) \/ LeaveGroup(c)
           \/ ChargeMembers(c) \/ SetMode(c) \/ ChangeOwner(c)
    PROVE  StepFits
<1>1. /\ MembershipsTypeOK /\ AccountsTypeOK /\ RowsFit
      /\ CallsFit /\ call[c] \in CallStates
    BY TypeIs DEF BackedInv, GroupsTypeOK, CallsFit
<1>2. requests' \in Nat
    BY DEF Abandon, CreatePendingPayment, PayFromBalance, Approve, Reject,
           LeaveGroup, ChargeMembers, SetMode, ChangeOwner, AfterPayment, Ends,
           Goes, BackedInv, GroupsTypeOK
<1>3. CASE Abandon(c)
    <2>1. CallsFit'
        BY <1>1, <1>3, CallEnds DEF Abandon
    <2> QED BY <1>2, <1>3, <2>1, NothingWrittenFits DEF Abandon
<1>4. CASE CreatePendingPayment(c)
    <2>1. CallsFit'
        BY <1>1, <1>4, CallGoesOn DEF CreatePendingPayment
    <2>2. UNCHANGED <<accounts, history>>
        BY <1>4 DEF CreatePendingPayment
    <2>3. CASE UNCHANGED memberships
        BY <1>2, <2>1, <2>2, <2>3, NothingWrittenFits
    <2>4. CASE CreateRecord(call[c].user)
        <3>1. call[c].user \in Users
            BY <1>1, <1>4, CallKinds DEF CreatePendingPayment, JoinCalls
        <3>2. RowsFit' /\ Backs
            BY <1>1, <2>2, <2>4, <3>1, RecordCreated
        <3>3. AccountsTypeOK'
            BY <1>1, <2>2 DEF AccountsTypeOK, accounts
        <3> QED BY <1>2, <2>1, <2>2, <3>2, <3>3 DEF StepFits
    <2> QED BY <1>4, <2>3, <2>4 DEF CreatePendingPayment
<1>5. CASE PayFromBalance(c)
    <2>1. CallsFit' /\ UNCHANGED history
        BY <1>1, <1>5, CallGoesOn DEF PayFromBalance
    <2>2. call[c].user \in Users /\ call[c].fee \in Nat
        BY <1>1, <1>5, CallKinds DEF PayFromBalance, FeeCalls
    <2>3. PICK charge \in EntryFeeInUserCurrency(call[c].user, call[c].fee) :
            DebitBalanceAndMarkPaid(call[c].user, charge)
        BY <1>5 DEF PayFromBalance
    <2>4. AccountsTypeOK' /\ RowsFit' /\ Backs
        BY <1>1, <2>2, <2>3, BalanceDebited
    <2> QED BY <1>2, <2>1, <2>4 DEF StepFits
<1>6. CASE Approve(c)
    <2>1. CallsFit' /\ UNCHANGED <<accounts, history>>
        BY <1>1, <1>6, CallEnds DEF Approve
    <2>2. call[c].user \in Users
        BY <1>1, <1>6, CallKinds DEF Approve, JoinCalls, FeeCalls
    <2>3. RowsFit' /\ FlagsKept
        BY <1>1, <1>6, <2>2, ApprovalFits DEF Approve
    <2> QED BY <1>2, <2>1, <2>3, FlagsKeptFits
<1>7. CASE Reject(c)
    <2>1. CallsFit' /\ UNCHANGED <<accounts, history>>
        BY <1>1, <1>7, CallEnds DEF Reject
    <2>2. RowsFit' /\ FlagsKept
        BY <1>1, <1>7, RemovalFits DEF Reject
    <2> QED BY <1>2, <2>1, <2>2, FlagsKeptFits
<1>8. CASE LeaveGroup(c)
    <2>1. CallsFit' /\ UNCHANGED <<accounts, history>>
        BY <1>1, <1>8, CallEnds DEF LeaveGroup
    <2>2. ASSUME call[c].pc = "leave", LeaveMembership(call[c].user)
          PROVE  RowsFit' /\ FlagsKept
        <3>1. call[c].user \in Users
            BY <1>1, <2>2, CallKinds DEF MemberCalls
        <3> QED BY <1>1, <2>2, <3>1, LeaveFits
    <2>3. ASSUME call[c].pc = "handover",
                 LeaveAndTransfer(call[c].user, call[c].successor)
          PROVE  RowsFit' /\ FlagsKept
        <3>1. call[c].user \in Users /\ call[c].successor \in Users
            BY <1>1, <2>3, CallKinds DEF HandoverCalls
        <3> QED BY <1>1, <2>3, <3>1, HandoverFits
    <2>4. RowsFit' /\ FlagsKept
        BY <1>8, <2>2, <2>3 DEF LeaveGroup
    <2> QED BY <1>2, <2>1, <2>4, FlagsKeptFits
<1>9. CASE ChargeMembers(c)
    <2>1. CallsFit' /\ UNCHANGED history
        BY <1>1, <1>9, CallGoesOn DEF ChargeMembers
    <2>2. call[c].fee \in Nat
        BY <1>1, <1>9, CallKinds DEF ChargeMembers, ModeCalls
    <2>3. AccountsTypeOK' /\ RowsFit' /\ Backs
        BY <1>1, <1>9, <2>2, AllDebited DEF ChargeMembers
    <2> QED BY <1>2, <2>1, <2>3 DEF StepFits
<1>10. CASE SetMode(c)
    <2>1. CallsFit' /\ UNCHANGED <<accounts, history>>
        BY <1>1, <1>10, CallEnds DEF SetMode
    <2>2. call[c].premium \in BOOLEAN /\ call[c].fee \in Nat
        BY <1>1, <1>10, CallKinds DEF SetMode, ModeCalls
    <2>3. RowsFit' /\ FlagsKept
        BY <1>1, <1>10, <2>2, SettingsFit DEF SetMode
    <2> QED BY <1>2, <2>1, <2>3, FlagsKeptFits
<1>11. CASE ChangeOwner(c)
    <2>1. CallsFit' /\ UNCHANGED <<accounts, history>>
        BY <1>1, <1>11, CallEnds DEF ChangeOwner
    <2>2. call[c].user \in Users
        BY <1>1, <1>11, CallKinds DEF ChangeOwner, MemberCalls
    <2>3. RowsFit' /\ FlagsKept
        BY <1>1, <1>11, <2>2, RolesFit DEF ChangeOwner
    <2> QED BY <1>2, <2>1, <2>3, FlagsKeptFits
<1> QED BY <1>3, <1>4, <1>5, <1>6, <1>7, <1>8, <1>9, <1>10, <1>11

\* The requests that only read before their first transaction.
LEMMA ReadFits ==
    ASSUME BackedInv, NEW c \in Calls, NEW r \in CallStates, Starts(c, r),
           UNCHANGED <<accounts, memberships, history>>
    PROVE  StepFits
<1>1. CallsFit'
    BY CallStarts DEF BackedInv
<1>2. requests' \in Nat
    BY RequestsCounted DEF Starts, BackedInv, GroupsTypeOK
<1> QED BY <1>1, <1>2, NothingWrittenFits

LEMMA UserCallFits ==
    ASSUME BackedInv, NEW c \in Calls, NEW u \in Users,
           \/ Leave(c, u)
           \/ TransferOwnership(c, u)
           \/ FindSuccessor(c, {}) \/ FindSuccessor(c, {u})
           \/ SetTournamentMode(c, u, FALSE, 0)
           \/ SetTournamentMode(c, u, TRUE, 0)
           \/ SetTournamentMode(c, u, TRUE, GeneralFee)
           \/ \E v \in Users : ApproveJoin(c, v, u) \/ RejectJoin(c, v, u)
    PROVE  StepFits
<1>1. UNCHANGED <<accounts, memberships, history>>
    BY DEF Leave, TransferOwnership, FindSuccessor, SetTournamentMode,
           ApproveJoin, RejectJoin
<1>2. \A us : OldestActiveMember(us) \subseteq Users
    BY DEF OldestActiveMember, Active
<1>3. ASSUME NEW r, Starts(c, r), r \in CallStates PROVE StepFits
    BY <1>1, <1>3, ReadFits
<1>4. CASE Leave(c, u)
    <2>1. [pc |-> "leave", user |-> u] \in CallStates
        BY DEF CallStates, MemberCalls
    <2>2. ASSUME NEW v \in Users
          PROVE  [pc |-> "handover", user |-> u, successor |-> v] \in CallStates
        BY DEF CallStates, HandoverCalls
    <2> QED BY <1>2, <1>3, <1>4, <2>1, <2>2 DEF Leave
<1>5. CASE TransferOwnership(c, u)
    <2>1. [pc |-> "transfer", user |-> u] \in CallStates
        BY DEF CallStates, MemberCalls
    <2> QED BY <1>3, <1>5, <2>1 DEF TransferOwnership
<1>6. CASE FindSuccessor(c, {}) \/ FindSuccessor(c, {u})
    <2>1. \A v \in Users : [pc |-> "promote", user |-> v] \in CallStates
        BY DEF CallStates, MemberCalls
    <2> QED BY <1>2, <1>3, <1>6, <2>1 DEF FindSuccessor
<1>7. ASSUME NEW premium \in BOOLEAN, NEW fee \in Nat,
             SetTournamentMode(c, u, premium, fee)
      PROVE  StepFits
    <2>1. \A pc \in {"charge", "mode"} :
            [pc |-> pc, premium |-> premium, fee |-> fee] \in CallStates
        BY DEF CallStates, ModeCalls
    <2> QED BY <1>3, <1>7, <2>1 DEF SetTournamentMode
<1>8. ASSUME NEW v, ApproveJoin(c, v, u) PROVE StepFits
    <2>1. group.fee \in Nat
        BY DEF BackedInv, GroupsTypeOK, MembershipsTypeOK
    <2>2. \A pc \in {"debit", "approve"} :
            [pc |-> pc, user |-> u, fee |-> group.fee, approval |-> FALSE]
                \in CallStates
        BY <2>1 DEF CallStates, FeeCalls
    <2> QED BY <1>3, <1>8, <2>2 DEF ApproveJoin
<1>9. ASSUME NEW v, RejectJoin(c, v, u) PROVE StepFits
    <2>1. [pc |-> "reject", user |-> u] \in CallStates
        BY DEF CallStates, MemberCalls
    <2> QED BY <1>3, <1>9, <2>1 DEF RejectJoin
<1>10. 0 \in Nat /\ GeneralFee \in Nat
    BY GroupsAssumption
<1> QED BY <1>4, <1>5, <1>6, <1>7, <1>8, <1>9, <1>10

LEMMA AdminFits ==
    ASSUME BackedInv,
           \/ \E us \in SUBSET Users : RemoveMembers(us)
           \/ \E u \in Users, approval \in BOOLEAN : RequireApproval(u, approval)
           \/ \E fee \in Fees : ChangeFee(fee)
           \/ \E u \in Users : \E k \in DOMAIN records[u] : ReviewRecord(u, k)
    PROVE  StepFits
<1>1. /\ MembershipsTypeOK /\ AccountsTypeOK /\ CallsFit
      /\ group.premium \in BOOLEAN
    BY DEF BackedInv, GroupsTypeOK, MembershipsTypeOK
<1>2. UNCHANGED <<accounts, call, history>>
    BY DEF RemoveMembers, RequireApproval, ChangeFee, ReviewRecord
<1>3. CallsFit'
    BY <1>1, <1>2 DEF CallsFit
<1>4. requests' \in Nat
    BY RequestsCounted DEF RemoveMembers, RequireApproval, ChangeFee,
                           ReviewRecord, BackedInv, GroupsTypeOK
<1>5. ASSUME RowsFit', FlagsKept PROVE StepFits
    BY <1>2, <1>3, <1>4, <1>5, FlagsKeptFits
<1>6. ASSUME NEW us, RemoveMembers(us) PROVE StepFits
    BY <1>1, <1>5, <1>6, RemovalFits DEF RemoveMembers
<1>7. ASSUME NEW u, NEW approval \in BOOLEAN, RequireApproval(u, approval)
      PROVE  StepFits
    <2>1. 0 \in Nat
        OBVIOUS
    <2> QED BY <1>1, <1>5, <1>7, <2>1, SettingsFit DEF RequireApproval
<1>8. ASSUME NEW fee \in Fees, ChangeFee(fee) PROVE StepFits
    <2>1. fee \in Nat
        BY MembershipsAssumption
    <2> QED BY <1>1, <1>5, <1>8, <2>1, SettingsFit DEF ChangeFee
<1>9. ASSUME NEW u \in Users, NEW k \in DOMAIN records[u], ReviewRecord(u, k)
      PROVE  StepFits
    <2>1. RowsFit' /\ Backs
        BY <1>1, <1>2, <1>9, RecordValidated, RecordRejected DEF ReviewRecord
    <2>2. AccountsTypeOK'
        BY <1>1, <1>2 DEF AccountsTypeOK, accounts
    <2> QED BY <1>2, <1>3, <1>4, <2>1, <2>2 DEF StepFits
<1> QED BY <1>6, <1>7, <1>8, <1>9

\* Asking to join: the flag starts again, and so does the history.
LEMMA JoinKeeps ==
    ASSUME BackedInv, GroupsInv', NEW c \in Calls, NEW u \in Users,
           Join(c, u) \/ JoinWithBalance(c, u)
    PROVE  BackedInv'
<1>1. /\ MembershipsTypeOK /\ RowsFit /\ AccountsTypeOK
      /\ member \in [Users -> MemberRows] /\ group \in GroupRows
      /\ due \in [Users -> Nat] /\ base \in [Users -> Nat]
    BY TypeIs DEF BackedInv, GroupsTypeOK, RowsFit
<1>2. /\ RequestJoin(u) /\ UNCHANGED accounts
      /\ due' = [due EXCEPT ![u] = group.fee]
      /\ base' = [base EXCEPT ![u] = Payments(u)]
    BY DEF Join, JoinWithBalance, AskToJoin
<1>3. PICK r \in CallStates : Starts(c, r)
    <2>1. group.fee \in Nat /\ group.approval \in BOOLEAN
        BY <1>1 DEF GroupRows
    <2>2. Idle \in CallStates
        BY DEF CallStates
    <2>3. \A pc \in {"record", "approve"} :
            [pc |-> pc, user |-> u, approval |-> group.approval] \in CallStates
        BY <2>1 DEF CallStates, JoinCalls
    <2>4. [pc |-> "debit", user |-> u, fee |-> group.fee,
           approval |-> group.approval] \in CallStates
        BY <2>1 DEF CallStates, FeeCalls
    <2>5. CASE Join(c, u)
        BY <2>2, <2>3, <2>5 DEF Join
    <2>6. CASE JoinWithBalance(c, u)
        BY <2>2, <2>4, <2>6 DEF JoinWithBalance
    <2> QED BY <2>5, <2>6
<1>4. CallsFit' /\ requests' \in Nat
    BY <1>3, CallStarts, RequestsCounted DEF Starts, BackedInv, GroupsTypeOK
<1>5. /\ UNCHANGED <<joined, group, records, ledger>>
      /\ member' = [member EXCEPT ![u] = Requested(u)]
    BY <1>2 DEF RequestJoin, accounts
<1>6. MembershipsTypeOK'
    <2>1. AccountsTypeOK'
        BY <1>1, <1>2 DEF AccountsTypeOK, accounts
    <2>2. RowsFit'
        BY <1>1, <1>5 DEF RowsFit
    <2>3. (member \in [Users -> MemberRows])'
        BY DEF GroupsInv
    <2> QED BY <2>1, <2>2, <2>3 DEF MembershipsTypeOK, MemberRows, RowsFit,
                                    GroupRows, RecordStates
<1>7. \A v \in Users : Payments(v)' = Payments(v) /\ Payments(v) \in Nat
    BY <1>1, <1>5, SamePayments, PaymentsFinite
<1>8. group.fee \in Nat /\ member'[u].paid = (group.fee = 0)
    <2>1. member[u] \in MemberRows
        BY <1>1
    <2>2. Requested(u).paid = (group.fee = 0)
        BY <2>1 DEF Requested, MemberRows
    <2> QED BY <1>1, <1>5, <2>2 DEF GroupRows
<1>9. GroupsTypeOK'
    <2>1. due' \in [Users -> Nat] /\ base' \in [Users -> Nat]
        BY <1>1, <1>2, <1>7, <1>8
    <2> QED BY <1>4, <1>6, <2>1 DEF GroupsTypeOK
<1>10. ASSUME NEW v \in Users
       PROVE  /\ base'[v] <= Payments(v)'
              /\ member'[v].paid /\ due'[v] > 0 => Payments(v)' > base'[v]
    <2>1. CASE v = u
        <3>1. base'[v] = Payments(v) /\ due'[v] = group.fee
            BY <1>1, <1>2, <2>1
        <3>2. member'[v].paid => group.fee = 0
            BY <1>8, <2>1
        <3>3. Payments(v)' = Payments(v) /\ Payments(v) \in Nat
            BY <1>7
        <3> QED BY <3>1, <3>2, <3>3
    <2>2. CASE v # u
        <3>1. /\ member'[v] = member[v] /\ due'[v] = due[v]
              /\ base'[v] = base[v]
            BY <1>1, <1>2, <1>5, <2>2
        <3>2. /\ base[v] <= Payments(v)
              /\ member[v].paid /\ due[v] > 0 => Payments(v) > base[v]
            BY DEF BackedInv, PaidNoLess, PaidIsBacked
        <3> QED BY <1>7, <3>1, <3>2
    <2> QED BY <2>1, <2>2
<1>11. PaidNoLess' /\ PaidIsBacked'
    BY <1>10 DEF PaidNoLess, PaidIsBacked
<1> QED BY <1>4, <1>9, <1>11 DEF BackedInv

LEMMA BackedInitially == GroupsInit => BackedInv
<1> SUFFICES ASSUME GroupsInit PROVE BackedInv
    OBVIOUS
<1>1. GroupsInv
    BY InitEstablishes
<1>2. AccountsTypeOK
    <2>1. \A u \in Users : OpeningRow(u) \in Rows
        BY AccountsAssumption
        DEF OpeningRow, Rows, Cents, Kinds, Origins, References, Currencies,
            AccountsAssumption
    <2>2. ledger \in [Users -> Seq(Rows)]
        BY <2>1 DEF GroupsInit, MembershipsInit
    <2>3. /\ balance \in [Users -> Cents] /\ denom \in [Users -> Currencies]
          /\ tier \in [Users -> 0 .. 3] /\ deleted \subseteq Users
          /\ aged \in [Users -> Nat]
        BY AccountsAssumption
        DEF GroupsInit, MembershipsInit, Cents, Currencies, AccountsAssumption
    <2> QED BY <2>2, <2>3 DEF AccountsTypeOK
<1>3. RowsFit
    <2>1. joined \in [Users -> Nat] /\ group \in GroupRows
        BY DEF GroupsInit, MembershipsInit, GroupRows
    <2>2. <<>> \in Seq(RecordStates)
        OBVIOUS
    <2> QED BY <2>1, <2>2 DEF GroupsInit, MembershipsInit, RowsFit
<1>4. MembershipsTypeOK
    BY <1>1, <1>2, <1>3, TypeIs DEF GroupsInv
<1>5. GroupsTypeOK
    BY <1>4 DEF GroupsTypeOK, GroupsInit
<1>6. CallsFit
    BY DEF CallsFit, CallStates, GroupsInit
<1>7. PaidNoLess /\ PaidIsBacked
    <2>1. \A u \in Users : due[u] = 0 /\ base[u] = 0
        BY DEF GroupsInit
    <2> QED BY <1>4, <2>1, PaymentsFinite DEF PaidNoLess, PaidIsBacked
<1> QED BY <1>1, <1>5, <1>6, <1>7 DEF BackedInv

LEMMA BackedStep == BackedInv /\ [GroupsNext]_groupVars => BackedInv'
<1> SUFFICES ASSUME BackedInv, [GroupsNext]_groupVars PROVE BackedInv'
    OBVIOUS
<1>1. GroupsInv'
    BY StepKeeps DEF BackedInv
<1>2. ASSUME NEW c \in Calls, NEW u \in Users,
             Join(c, u) \/ JoinWithBalance(c, u)
      PROVE  BackedInv'
    BY <1>1, <1>2, JoinKeeps
<1>3. ASSUME StepFits PROVE BackedInv'
    BY <1>1, <1>3, FitKeeps
<1>4. CASE UNCHANGED groupVars
    <2>1. UNCHANGED <<accounts, memberships, call, requests, history>>
        BY <1>4 DEF groupVars
    <2>2. CallsFit' /\ requests' \in Nat
        BY <2>1 DEF BackedInv, CallsFit, GroupsTypeOK
    <2> QED BY <1>3, <2>1, <2>2, NothingWrittenFits
<1>5. CASE GroupsNext
    <2>1. ASSUME NEW c \in Calls, FindSuccessor(c, {}) PROVE StepFits
        <3>1. Owner \in Users
            BY MembershipsAssumption
        <3> QED BY <2>1, <3>1, UserCallFits
    <2> QED BY <1>2, <1>3, <1>5, <2>1, CallFits, UserCallFits, AdminFits
            DEF GroupsNext
<1> QED BY <1>4, <1>5

\* Together with the capacity: the types of all rows and of all requests, and
\* that nobody's payments are fewer than when asking to join.
THEOREM GroupsBackedInvariant == GroupsSpec => []BackedInv
BY BackedInitially, BackedStep, PTL DEF GroupsSpec

\* The rows of the group, of its members and of their accounts keep their
\* types: no charge of an entry fee, to one balance or to many at once,
\* leaves a balance below zero.
THEOREM GroupsTypeCorrect == GroupsSpec => []GroupsTypeOK
<1>1. BackedInv => GroupsTypeOK BY DEF BackedInv
<1> QED BY <1>1, GroupsBackedInvariant, PTL

\* Whoever is marked as paid, and asked to join when there was a fee, has paid
\* since then: through every interleaving of joins, charges, reviews of
\* payment records, removals and returns.
THEOREM GroupsPaidIsBacked == GroupsSpec => []PaidIsBacked
<1>1. BackedInv => PaidIsBacked BY DEF BackedInv
<1> QED BY <1>1, GroupsBackedInvariant, PTL

=============================================================================
