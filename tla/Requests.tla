------------------------------ MODULE Requests ------------------------------
(***************************************************************************)
(* The Idempotency-Key middleware of the payment writes (internal/         *)
(* middleware/idempotency.go) over its store (pkg/idempotency).            *)
(*                                                                         *)
(* A request is a delivery of a call: a client that retries sends another  *)
(* request with the same key.  The handler is known by its outcome: the    *)
(* 2xx answer and its effect, or an error.  The store keeps, per key, the  *)
(* state of the entry and the request that wrote it.                       *)
(***************************************************************************)
EXTENDS Naturals, FiniteSets

CONSTANTS Requests,    \* requests that carry a key
          Keys,        \* keys, scoped by the subject
          KeyOf,       \* the key of a request
          MaxFaults    \* bound: errors of the store, crashes, lost answers

NoRequest == "no request"

ASSUME RequestsAssumption ==
    /\ KeyOf \in [Requests -> Keys]
    /\ NoRequest \notin Requests
    /\ MaxFaults \in Nat

VARIABLES store,      \* per key: the entry, or nothing
          request,    \* per request: how far serveIdempotent is
          effects,    \* per request: how often its handler took effect
          answer,     \* per request: what the client was told, and whose it is
          excused,    \* keys that one of the documented gaps has befallen
          faults      \* how much has gone wrong; bounds the model

requestVars == <<store, request, effects, answer, excused, faults>>

Missing == [state |-> "missing", by |-> NoRequest]
InFlight(r) == [state |-> "in flight", by |-> r]
Committed(r) == [state |-> "committed", by |-> r]
Unanswered == [said |-> "nothing", of |-> NoRequest]

RequestsInit ==
    /\ store = [k \in Keys |-> Missing]
    /\ request = [r \in Requests |-> "unsent"]
    /\ effects = [r \in Requests |-> 0]
    /\ answer = [r \in Requests |-> Unanswered]
    /\ excused = {}
    /\ faults = 0

Fault ==
    /\ faults < MaxFaults
    /\ faults' = faults + 1

Goto(r, pc) == request' = [request EXCEPT ![r] = pc]
Answered(r, said, of) ==
    answer' = [answer EXCEPT ![r] = [said |-> said, of |-> of]]
Excuse(r) == excused' = excused \cup {KeyOf[r]}

Send(r) ==
    /\ request[r] = "unsent"
    /\ Goto(r, "load")
    /\ UNCHANGED <<store, effects, answer, excused, faults>>

-----------------------------------------------------------------------------
\* The store's operations.

\* Mutant: Reserve overwrites, a SET where the code has SET NX.
ReserveAnyway(r) == TRUE

Reservable(r) == store[KeyOf[r]] = Missing

Reserve(r) == store' = [store EXCEPT ![KeyOf[r]] = InFlight(r)]

\* Commit and Release go by the key: they do not ask whose entry is there.
Commit(r) == store' = [store EXCEPT ![KeyOf[r]] = Committed(r)]
Release(r) == store' = [store EXCEPT ![KeyOf[r]] = Missing]

\* Mutant: a reservation is made without a time to live.
CommittedExpires(k) == store[k].state = "committed"

Expires(k) == store[k] # Missing

\* The time to live of an entry has passed.
Expire(k) ==
    /\ Expires(k)
    /\ store' = [store EXCEPT ![k] = Missing]
    /\ excused' = excused \cup {k}
    /\ UNCHANGED <<request, effects, answer, faults>>

-----------------------------------------------------------------------------
\* serveIdempotent.

\* Load, and handleExistingEntry when there is an entry.
Load(r) ==
    /\ request[r] = "load"
    /\ LET entry == store[KeyOf[r]]
       IN \/ /\ entry.state = "missing"
             /\ Goto(r, "reserve")
             /\ UNCHANGED answer
          \/ /\ entry.state = "in flight"
             /\ Goto(r, "over")
             /\ Answered(r, "conflict", NoRequest)
          \/ /\ entry.state = "committed"
             /\ Goto(r, "over")
             /\ Answered(r, "replayed", entry.by)
    /\ UNCHANGED <<store, effects, excused, faults>>

LoadFails(r) ==
    /\ request[r] = "load"
    /\ Fault /\ Excuse(r)
    /\ Goto(r, "unguarded")
    /\ UNCHANGED <<store, effects, answer>>

TryReserve(r) ==
    /\ request[r] = "reserve"
    /\ \/ /\ Reservable(r)
          /\ Reserve(r)
          /\ Goto(r, "handle")
          /\ UNCHANGED answer
       \/ /\ ~Reservable(r)
          /\ Goto(r, "over")
          /\ Answered(r, "conflict", NoRequest)
          /\ UNCHANGED store
    /\ UNCHANGED <<effects, excused, faults>>

\* An error does not say whether the reservation was made.
ReserveFails(r) ==
    /\ request[r] = "reserve"
    /\ Fault /\ Excuse(r)
    /\ (Reservable(r) /\ Reserve(r)) \/ UNCHANGED store
    /\ Goto(r, "unguarded")
    /\ UNCHANGED <<effects, answer>>

TakesEffect(r) == effects' = [effects EXCEPT ![r] = @ + 1]

\* Mutant: an error is committed as a success is.
CommitEither(r, pc) == Goto(r, "commit")

\* commitOrRelease goes by the status of the answer.
ToStore(r, pc) == Goto(r, pc)

\* The handler, behind the reservation.
Handle(r) ==
    /\ request[r] = "handle"
    /\ \/ /\ TakesEffect(r)
          /\ Answered(r, "done", r)
          /\ ToStore(r, "commit")
       \/ /\ Answered(r, "error", r)
          /\ ToStore(r, "release")
          /\ UNCHANGED effects
    /\ UNCHANGED <<store, excused, faults>>

\* What the handler did is committed, and yet it answers an error.
HandleErrsLate(r) ==
    /\ request[r] = "handle"
    /\ Fault /\ Excuse(r)
    /\ TakesEffect(r)
    /\ Answered(r, "error", r)
    /\ ToStore(r, "release")
    /\ UNCHANGED store

\* The handler without the reservation, when the store was not available.
HandleUnguarded(r) ==
    /\ request[r] = "unguarded"
    /\ \/ TakesEffect(r) /\ Answered(r, "done", r)
       \/ UNCHANGED effects /\ Answered(r, "error", r)
    /\ Goto(r, "over")
    /\ UNCHANGED <<store, excused, faults>>

CommitOrRelease(r) ==
    /\ \/ request[r] = "commit" /\ Commit(r)
       \/ request[r] = "release" /\ Release(r)
    /\ Goto(r, "over")
    /\ UNCHANGED <<effects, answer, excused, faults>>

\* Mutant: the handler is run once more.
HandleAgain(r) ==
    /\ request[r] \in {"commit", "release"}
    /\ Fault
    /\ Goto(r, "handle")
    /\ UNCHANGED <<store, effects, answer, excused>>

\* The store fails, or the client has gone and its context is cancelled: the
\* error is logged and the reservation stays.
CommitOrReleaseFails(r) ==
    /\ request[r] \in {"commit", "release"}
    /\ Fault
    /\ Goto(r, "over")
    /\ UNCHANGED <<store, effects, answer, excused>>

\* The process dies, or the handler panics and Recover answers: nothing is
\* deferred, so the reservation stays; the work may have been done.
Crash(r) ==
    /\ request[r] \notin {"unsent", "over"}
    /\ Fault
    /\ Goto(r, "over")
    /\ \/ UNCHANGED effects
       \/ request[r] \in {"handle", "unguarded"} /\ TakesEffect(r)
    /\ UNCHANGED <<store, answer, excused>>

-----------------------------------------------------------------------------

RequestsNext ==
    \/ \E r \in Requests :
        \/ Send(r) \/ Load(r) \/ LoadFails(r) \/ TryReserve(r)
        \/ ReserveFails(r) \/ Handle(r) \/ HandleErrsLate(r)
        \/ HandleUnguarded(r) \/ CommitOrRelease(r)
        \/ CommitOrReleaseFails(r) \/ Crash(r)
    \/ \E k \in Keys : Expire(k)

\* Every entry is written with a time to live.
RequestsFairness == \A k \in Keys : WF_requestVars(Expire(k))

RequestsSpec == RequestsInit /\ [][RequestsNext]_requestVars /\ RequestsFairness

-----------------------------------------------------------------------------

Steps == {"unsent", "load", "reserve", "handle", "unguarded", "commit",
          "release", "over"}
Entries == {Missing} \cup [state : {"in flight", "committed"}, by : Requests]
Answers == [said : {"nothing", "conflict", "replayed", "done", "error"},
            of : Requests \cup {NoRequest}]

RequestsTypeOK ==
    /\ store \in [Keys -> Entries]
    /\ request \in [Requests -> Steps]
    /\ effects \in [Requests -> {0, 1}]
    /\ answer \in [Requests -> Answers]
    /\ excused \subseteq Keys
    /\ faults \in 0 .. MaxFaults

\* A key's work is done at most once, however its requests interleave and
\* whichever of them dies, unless one of the gaps opened that the code
\* accepts: the store failed before the handler ran (ADR 0014), the handler
\* erred after its work was committed, or an entry outlived its time to live.
EffectOnce ==
    \A k \in Keys \ excused :
        \A r, s \in Requests :
            KeyOf[r] = k /\ KeyOf[s] = k /\ effects[r] = 1 /\ effects[s] = 1
            => r = s

\* A replayed answer is the success of a request with the same key that did
\* its work: replayResponse never repeats an error, or another key's answer.
ReplayIsOriginal ==
    \A r \in Requests :
        answer[r].said = "replayed" =>
            /\ KeyOf[answer[r].of] = KeyOf[r]
            /\ effects[answer[r].of] = 1
            /\ answer[answer[r].of].said = "done"

\* A key does not stay in flight for ever, although the process that reserved
\* it may die and a commit may fail: no client is answered 409 for good.
KeyFreed ==
    \A k \in Keys : store[k].state = "in flight" ~> store[k].state # "in flight"

=============================================================================
