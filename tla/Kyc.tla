-------------------------------- MODULE Kyc ---------------------------------
(***************************************************************************)
(* KYC profiles: internal/service/kyc_service.go and                       *)
(* internal/repository/kyc_profile_repository.go.  A review moves the      *)
(* status of the profile and the tier, which is stored twice: on the       *)
(* profile and, for the gate, on the user.                                 *)
(***************************************************************************)
EXTENDS KycGate

CONSTANTS Reviewed,   \* users who submit and are reviewed during a run
          Grants      \* tiers that a reviewer grants; the handler takes 1 to 3

ASSUME KycAssumption == Reviewed \subseteq Users /\ Grants \subseteq 1 .. 3

VARIABLES kstatus,     \* kyc_profiles.status; "none" when there is no row
          ktier,       \* kyc_profiles.tier
          submitting   \* users whose Submit has passed its checks

kyc == <<kstatus, ktier, submitting>>
kycVars == <<accounts, kyc>>

KycStatuses ==
    {"none", "unverified", "pending", "approved", "rejected", "escalated"}

\* EnsureStub may have failed at registration: such a user has no profile.
KycInit ==
    /\ kstatus \in [Users -> {"none", "unverified", "approved"}]
    /\ \A u \in Users : kstatus[u] = "approved" <=> tier[u] > 0
    /\ ktier = tier
    /\ submitting = {}

-----------------------------------------------------------------------------

\* Submit reads the profile and checks it; an approved or escalated profile
\* may be submitted again.
CheckSubmission(u) ==
    /\ u \notin submitting \cup deleted
    /\ kstatus[u] # "pending"
    /\ submitting' = submitting \cup {u}
    /\ UNCHANGED <<accounts, kstatus, ktier>>

\* The upsert writes the status without looking at it again, and leaves the
\* tier of an existing profile alone.
UpsertSubmission(u) ==
    /\ u \in submitting
    /\ kstatus' = [kstatus EXCEPT ![u] = "pending"]
    /\ submitting' = submitting \ {u}
    /\ UNCHANGED <<accounts, ktier>>

SetTier(u, t) ==
    /\ ktier' = [ktier EXCEPT ![u] = t]
    /\ tier' = [tier EXCEPT ![u] = t]
    /\ UNCHANGED <<balance, denom, deleted, ledger, aged, submitting>>

\* Approve accepts a profile in any status.
ApproveAndSetTier(u, t) ==
    /\ kstatus[u] # "none"
    /\ kstatus' = [kstatus EXCEPT ![u] = "approved"]
    /\ SetTier(u, t)

\* UpdateStatusWithEvent, with the downgrade to tier 0.
RejectProfile(u) ==
    /\ kstatus[u] # "none"
    /\ kstatus' = [kstatus EXCEPT ![u] = "rejected"]
    /\ SetTier(u, 0)

\* Mutant: only the profile loses the tier, the user keeps it.
EscalateProfileOnly(u) ==
    /\ kstatus[u] # "none"
    /\ kstatus' = [kstatus EXCEPT ![u] = "escalated"]
    /\ ktier' = [ktier EXCEPT ![u] = 0]
    /\ UNCHANGED <<accounts, submitting>>

EscalateProfile(u) ==
    /\ kstatus[u] # "none"
    /\ kstatus' = [kstatus EXCEPT ![u] = "escalated"]
    /\ SetTier(u, 0)

KycNext ==
    \E u \in Reviewed :
        \/ CheckSubmission(u) \/ UpsertSubmission(u)
        \/ \E t \in Grants : ApproveAndSetTier(u, t)
        \/ RejectProfile(u) \/ EscalateProfile(u)

-----------------------------------------------------------------------------

KycTypeOK ==
    /\ kstatus \in [Users -> KycStatuses]
    /\ ktier \in [Users -> 0 .. 3]
    /\ submitting \subseteq Users

\* The gate reads users.kyc_tier and the review screens kyc_profiles.tier:
\* they never differ, and a user whose identity was rejected or is suspected
\* has none of the limits of an earlier approval, however submissions and
\* reviews interleave.
TierMatchesReview ==
    \A u \in Users :
        /\ ktier[u] = tier[u]
        /\ kstatus[u] \in {"none", "unverified", "rejected", "escalated"}
                => tier[u] = 0
=============================================================================
