------------------------------- MODULE Outbox -------------------------------
(***************************************************************************)
(* The notification outbox: the table domain_outbox with the writer, the   *)
(* worker replicas that claim, dispatch and settle its entries, the        *)
(* notification_dlq with the workers that replay it and the administrator  *)
(* who writes letters off, the scheduler jobs and the purge                *)
(* (internal/notification, internal/repository/purger.go).                 *)
(*                                                                         *)
(* An event is the triple of the unique index idx_outbox_pending_event_    *)
(* dedup: its type and the aggregate it is about.  Clocks are two flags of *)
(* an entry: due (scheduled_at has come) and stale (locked_until and the   *)
(* threshold have passed), which time raises.                              *)
(***************************************************************************)
EXTENDS Naturals, FiniteSets

LOCAL INSTANCE FiniteSetsExt

CONSTANTS Workers,      \* replicas of the worker process
          Replayers,    \* those whose DLQWorker is modelled
          Types,        \* event types
          AdminTypes,   \* those that IsAdminEvent sends to AdminDispatcher
          Recipients,   \* per other type, the users who are notified
          Entities,     \* the aggregates that services write about
          Keys,         \* dedup keys of the scheduler jobs
          KeyEvent,     \* the event that a key stands for
          MaxAttempts,  \* notify.outbox_max_attempts
          ReplayLimit,  \* notify.dlq_replay_max_attempts
          MaxRows,      \* bound: entries ever written
          MaxDead,      \* bound: dead letters
          MaxFaults     \* bound: crashes, failed statements, slow workers

Rows == 1 .. MaxRows
Dead == 1 .. MaxDead
Users == UNION {Recipients[t] : t \in Types \ AdminTypes}
Event == [type : Types, about : Entities \cup Dead]
NoKey == "no key"

ASSUME OutboxAssumption ==
    /\ Replayers \subseteq Workers /\ AdminTypes \subseteq Types
    /\ Recipients \in [Types \ AdminTypes -> SUBSET Users]
    /\ NoKey \notin Keys /\ KeyEvent \in [Keys -> Event]
    /\ MaxAttempts \in Nat \ {0} /\ ReplayLimit \in Nat \ {0}
    /\ MaxRows \in Nat /\ MaxDead \in Nat /\ MaxFaults \in Nat

VARIABLES outbox,    \* domain_outbox: event, key, status, attempts, due, stale
          worker,    \* per replica: where its outbox loop is, and its batch
          inbox,     \* notifications, per entry and user
          dead,      \* notification_dlq: event, state, attempts, and whether an
                     \* administrator resolved it last; that for the properties
          replay,    \* per replica: the dead letter that is being replayed
          window,    \* the keys whose reminder window is open
          written,   \* how often each key was written; for the properties
          faults     \* how much has gone wrong; bounds the model

outboxVars == <<outbox, worker, inbox, dead, replay, window, written, faults>>

Free == [event |-> [type |-> "none", about |-> 0], key |-> NoKey,
         status |-> "free", attempts |-> 0, due |-> FALSE, stale |-> FALSE]

\* A batch gives each claimed id the attempts that the claim returned; at is
\* the entry that process is working on.
Waiting == [pc |-> "idle", batch |-> [id \in {} |-> 0], at |-> 0]
NoReplay == [pc |-> "idle", of |-> 0]

OutboxInit ==
    /\ outbox = [id \in Rows |-> Free]
    /\ worker = [w \in Workers |-> Waiting]
    /\ inbox = [id \in Rows |-> [u \in Users |-> 0]]
    /\ dead = [d \in Dead |-> [event |-> Free.event, state |-> "free",
                               attempts |-> 0, off |-> FALSE]]
    /\ replay = [w \in Replayers |-> NoReplay]
    /\ window = Keys
    /\ written = [k \in Keys |-> 0]
    /\ faults = 0

Fault ==
    /\ faults < MaxFaults
    /\ faults' = faults + 1

-----------------------------------------------------------------------------
\* The writer.

\* Mutant: the key is compared with entries that wait, as the other index is.
PendingConflict(table, e, k) ==
    \E id \in Rows :
        /\ table[id].status = "pending"
        /\ table[id].event = e \/ (k # NoKey /\ table[id].key = k)

\* What ON CONFLICT DO NOTHING skips: a second pending entry for the event,
\* and a second entry with the key whatever became of the first.
Conflict(table, e, k) ==
    \E id \in Rows :
        \/ table[id].status = "pending" /\ table[id].event = e
        \/ k # NoKey /\ table[id].key = k /\ table[id].status # "purged"

Inserted(table, e, k) ==
    IF Conflict(table, e, k) THEN table
    ELSE [table EXCEPT ![Min({id \in Rows : table[id].status = "free"})] =
            [event |-> e, key |-> k, status |-> "pending", attempts |-> 0,
             due |-> TRUE, stale |-> FALSE]]

HasSpace(n) ==
    Cardinality({id \in Rows : outbox[id].status = "free"}) >= n

\* Write and WriteInTx, from a service or from a job without a key.
Write(e) ==
    /\ HasSpace(1)
    /\ outbox' = Inserted(outbox, e, NoKey)
    /\ UNCHANGED <<worker, inbox, dead, replay, window, written, faults>>

\* WriteBatch: the alert of the administrators and the notification of the
\* user in one transaction.
WriteBatch(alert, notice) ==
    /\ alert.type \in AdminTypes /\ notice.type \notin AdminTypes
    /\ HasSpace(2)
    /\ outbox' = Inserted(Inserted(outbox, alert, NoKey), notice, NoKey)
    /\ UNCHANGED <<worker, inbox, dead, replay, window, written, faults>>

WriteDedup(e, k) ==
    /\ HasSpace(1)
    /\ outbox' = Inserted(outbox, e, k)
    /\ written' = [written EXCEPT
            ![k] = @ + (IF Conflict(outbox, e, k) THEN 0 ELSE 1)]
    /\ UNCHANGED <<worker, inbox, dead, replay, faults>>

-----------------------------------------------------------------------------
\* The scheduler.  No elector is configured, so every replica runs every job,
\* as often as its clock ticks inside the window of a reminder.

RunReminderJob(k) ==
    /\ k \in window
    /\ WriteDedup(KeyEvent[k], k)
    /\ UNCHANGED window

\* An entry is kept for days: the window of its reminder has closed by then.
PurgeOldOutboxEntries(id) ==
    /\ outbox[id].status \in {"done", "failed"}
    /\ outbox' = [outbox EXCEPT ![id].status = "purged"]
    /\ window' = window \ {outbox[id].key}
    /\ UNCHANGED <<worker, inbox, dead, replay, written, faults>>

-----------------------------------------------------------------------------
\* The outbox worker.

\* Mutant: the claims that a crashed worker left are recovered at its next
\* start, by the worker that made them, and it does not know them any more.
NoneStale == {}

StaleRows ==
    {id \in Rows : outbox[id].status = "processing" /\ outbox[id].stale}

\* The unique index refuses two pending entries for one event.
Unlockable(ids) ==
    \A i \in ids, j \in Rows :
        i # j /\ outbox[i].event = outbox[j].event
        => outbox[j].status # "pending" /\ j \notin ids

\* UnlockStale is one statement: the index refuses all of it or nothing.
UnlockStale ==
    outbox' = IF Unlockable(StaleRows)
              THEN [id \in Rows |->
                        IF id \in StaleRows
                        THEN [outbox[id] EXCEPT !.status = "pending",
                                                !.stale = FALSE]
                        ELSE outbox[id]]
              ELSE outbox

\* Every tick of Run begins with unlockStale; an error is logged.
Unlock(w) ==
    /\ worker[w].pc = "idle"
    /\ StaleRows # {}
    /\ UnlockStale
    /\ UNCHANGED <<worker, inbox, dead, replay, window, written, faults>>

Claimable == {id \in Rows : outbox[id].status = "pending" /\ outbox[id].due}

\* ClaimBatch, with fewer entries than a batch holds.  UPDATE ... RETURNING
\* gives them in no order.
ClaimBatch(w) ==
    /\ worker[w].pc = "idle"
    /\ Claimable # {}
    /\ outbox' = [id \in Rows |->
            IF id \in Claimable
            THEN [outbox[id] EXCEPT !.status = "processing",
                                    !.attempts = @ + 1, !.stale = FALSE]
            ELSE outbox[id]]
    /\ worker' = [worker EXCEPT ![w] =
            [pc |-> "dispatch", at |-> 0,
             batch |-> [id \in Claimable |-> outbox[id].attempts + 1]]]
    /\ UNCHANGED <<inbox, dead, replay, window, written, faults>>

Current(w) == worker[w].at

\* writeDLQ and writeDLQEntry: best effort.
DeadLetter(e) ==
    \/ UNCHANGED dead
    \/ \E d \in Dead :
        /\ dead[d].state = "free" /\ \A c \in 1 .. d - 1 : dead[c].state # "free"
        /\ dead' = [dead EXCEPT ![d] =
                        [event |-> e, state |-> "open", attempts |-> 0,
                         off |-> FALSE]]

Returned(w, id, result) ==
    worker' = [worker EXCEPT ![w] =
        [pc |-> result, batch |-> worker[w].batch, at |-> id]]

\* AdminDispatcher.Dispatch: one e-mail to all administrators; only a failure
\* leaves a dead letter.
DispatchAdmin(w, id) ==
    /\ outbox[id].event.type \in AdminTypes
    /\ \/ Returned(w, id, "succeeded") /\ UNCHANGED dead
       \/ Returned(w, id, "erred") /\ DeadLetter(outbox[id].event)
    /\ UNCHANGED inbox

\* Mutant: the notification is inserted again with every delivery.
ShownAgain(id, us) ==
    [u \in Users |-> inbox[id][u] + (IF u \in us THEN 1 ELSE 0)]

\* notifRepo.Create for each of us: the idempotency key is the entry's id and
\* the user, and a conflict is no error.
Shown(id, us) ==
    [u \in Users |-> IF u \in us /\ inbox[id][u] = 0 THEN 1 ELSE inbox[id][u]]

\* Mutant: the error of a recipient who was not the last is forgotten.
AnyReached(us, all) == us # {} \/ all = {}

\* dispatchBroadcast returns the last error there was.
AllReached(us, all) == us = all

\* deliverToUser for every recipient, of whom us are reached; the others, and
\* an e-mail or a push that fails, leave a dead letter.
DispatchUser(w, id) ==
    /\ outbox[id].event.type \notin AdminTypes
    /\ LET all == Recipients[outbox[id].event.type]
       IN \E us \in SUBSET all :
            /\ inbox' = [inbox EXCEPT ![id] = Shown(id, us)]
            /\ Returned(w, id,
                        IF AllReached(us, all) THEN "succeeded" ELSE "erred")
    /\ DeadLetter(outbox[id].event)

Dispatch(w) ==
    /\ worker[w].pc = "dispatch"
    /\ \E id \in DOMAIN worker[w].batch :
            DispatchAdmin(w, id) \/ DispatchUser(w, id)
    /\ UNCHANGED <<outbox, replay, window, written, faults>>

\* On to the next entry of the batch.
Proceed(w) ==
    LET rest == DOMAIN worker[w].batch \ {Current(w)}
    IN worker' = [worker EXCEPT ![w] =
           [pc |-> IF rest = {} THEN "idle" ELSE "dispatch", at |-> 0,
            batch |-> [id \in rest |-> worker[w].batch[id]]]]

Settle(w, status) ==
    outbox' = [outbox EXCEPT ![Current(w)].status = status,
                             ![Current(w)].stale = FALSE]

\* MarkDone, MarkFailed and Schedule look for the id only: they do not ask
\* whether this worker still holds the entry, or whether it is there.
MarkDone(w) ==
    /\ worker[w].pc = "succeeded"
    /\ Settle(w, IF outbox[Current(w)].status = "purged" THEN "purged" ELSE "done")

\* Mutant: one attempt too many.
ExhaustedLate(w) == worker[w].batch[Current(w)] > MaxAttempts

\* What process compares is the count of this claim.
Exhausted(w) == worker[w].batch[Current(w)] >= MaxAttempts

MarkFailed(w) ==
    /\ worker[w].pc = "erred"
    /\ Exhausted(w)
    /\ Settle(w, IF outbox[Current(w)].status = "purged" THEN "purged"
                 ELSE "failed")

\* Schedule, which the unique index refuses as it does UnlockStale.
Schedule(w) ==
    /\ worker[w].pc = "erred"
    /\ ~Exhausted(w)
    /\ outbox' = IF Unlockable({Current(w)}) /\ outbox[Current(w)].status # "purged"
                 THEN [outbox EXCEPT ![Current(w)].status = "pending",
                                     ![Current(w)].stale = FALSE,
                                     ![Current(w)].due = FALSE]
                 ELSE outbox

Finish(w) ==
    /\ MarkDone(w) \/ MarkFailed(w) \/ Schedule(w)
    /\ Proceed(w)
    /\ UNCHANGED <<inbox, dead, replay, window, written, faults>>

\* The statement fails: the entry stays in process.
FinishFails(w) ==
    /\ worker[w].pc \in {"succeeded", "erred"}
    /\ Fault
    /\ Proceed(w)
    /\ UNCHANGED <<outbox, inbox, dead, replay, window, written>>

Held(id) ==
    \E w \in Workers : id \in DOMAIN worker[w].batch

\* Time passes: a retry is due, and a claim lapses.  It also lapses under a
\* worker that is slow, which counts as a fault.
BecomeDue(id) ==
    /\ outbox[id].status = "pending" /\ ~outbox[id].due
    /\ outbox' = [outbox EXCEPT ![id].due = TRUE]
    /\ UNCHANGED <<worker, inbox, dead, replay, window, written, faults>>

Lapse(id) ==
    /\ outbox[id].status = "processing" /\ ~outbox[id].stale
    /\ IF Held(id) THEN Fault ELSE UNCHANGED faults
    /\ outbox' = [outbox EXCEPT ![id].stale = TRUE]
    /\ UNCHANGED <<worker, inbox, dead, replay, window, written>>

-----------------------------------------------------------------------------
\* The replay of the dead letters.

\* ClaimBatch of the dead letters claims nothing: two replicas may read one.
ClaimDead(w, d) ==
    /\ replay[w] = NoReplay
    /\ dead[d].state = "open" /\ dead[d].attempts < ReplayLimit
    /\ replay' = [replay EXCEPT ![w] = [pc |-> "write", of |-> d]]
    /\ UNCHANGED <<outbox, worker, inbox, dead, window, written, faults>>

ReplayEvent(d) == [type |-> dead[d].event.type, about |-> d]

\* Mutant: the dead letter is resolved when it is read.
ResolveThenReplay(w) ==
    /\ dead' = [dead EXCEPT ![replay[w].of].state = "resolved"]
    /\ replay' = [replay EXCEPT ![w].pc = "resolve"]
    /\ UNCHANGED outbox

\* DLQWorker.process: write the entry back to the outbox,
ReplayDead(w) ==
    /\ HasSpace(1)
    /\ outbox' = Inserted(outbox, ReplayEvent(replay[w].of), NoKey)
    /\ replay' = [replay EXCEPT ![w].pc = "resolve"]
    /\ UNCHANGED dead

WriteReplay(w) ==
    /\ replay[w].pc = "write"
    /\ ReplayDead(w)
    /\ UNCHANGED <<worker, inbox, window, written, faults>>

\* or RecordFailure when that fails,
ReplayFails(w) ==
    /\ replay[w].pc = "write"
    /\ Fault
    /\ dead' = [dead EXCEPT ![replay[w].of].attempts = @ + 1]
    /\ replay' = [replay EXCEPT ![w] = NoReplay]
    /\ UNCHANGED <<outbox, worker, inbox, window, written>>

\* then MarkResolved.
MarkResolved(w) ==
    /\ replay[w].pc = "resolve"
    /\ dead' = [dead EXCEPT ![replay[w].of].state = "resolved",
                            ![replay[w].of].off = FALSE]
    /\ replay' = [replay EXCEPT ![w] = NoReplay]
    /\ UNCHANGED <<outbox, worker, inbox, window, written, faults>>

\* AdminNotificationDLQHandler.Resolve: the administrator writes a letter off,
\* with the same statement and no replay, even while a worker replays it.  A
\* letter that is resolved only gets another time.
Resolve(d) ==
    /\ dead[d].state = "open"
    /\ dead' = [dead EXCEPT ![d].state = "resolved", ![d].off = TRUE]
    /\ UNCHANGED <<outbox, worker, inbox, replay, window, written, faults>>

\* A replica dies and starts again: it forgets its batch and its replay.
Crash(w) ==
    /\ Fault
    /\ worker' = [worker EXCEPT ![w] = Waiting]
    /\ replay' = [v \in Replayers |-> IF v = w THEN NoReplay ELSE replay[v]]
    /\ <<worker', replay'>> # <<worker, replay>>
    /\ UNCHANGED <<outbox, inbox, dead, window, written>>

-----------------------------------------------------------------------------

Services == [type : Types, about : Entities]

OutboxNext ==
    \/ \E e \in Services : Write(e)
    \/ \E a \in Services, n \in Services : WriteBatch(a, n)
    \/ \E k \in Keys : RunReminderJob(k)
    \/ \E id \in Rows :
        PurgeOldOutboxEntries(id) \/ BecomeDue(id) \/ Lapse(id)
    \/ \E w \in Workers :
        \/ Unlock(w) \/ ClaimBatch(w) \/ Dispatch(w) \/ Finish(w)
        \/ FinishFails(w) \/ Crash(w)
    \/ \E w \in Replayers :
        \/ \E d \in Dead : ClaimDead(w, d)
        \/ WriteReplay(w) \/ ReplayFails(w) \/ MarkResolved(w)
    \/ \E d \in Dead : Resolve(d)

\* The ticker of every replica keeps ticking and time keeps passing; the
\* statements that fail are finitely many.  Nothing is asked of services and
\* jobs, nor that a delivery ever succeeds.
OutboxFairness ==
    /\ \A w \in Workers :
            /\ WF_outboxVars(Unlock(w))
            /\ WF_outboxVars(ClaimBatch(w) \/ Dispatch(w) \/ Finish(w))
    /\ \A id \in Rows :
        WF_outboxVars(BecomeDue(id)) /\ WF_outboxVars(Lapse(id))

OutboxSpec == OutboxInit /\ [][OutboxNext]_outboxVars /\ OutboxFairness

-----------------------------------------------------------------------------

\* An entry that was delivered several times, because a worker died before
\* MarkDone or was overtaken, is shown once to each user; and an entry that is
\* done was shown to every recipient, whatever failed on the way and whoever
\* marked it.
DoneReachedAll ==
    \A id \in Rows :
        /\ \A u \in Users : inbox[id][u] <= 1
        /\ outbox[id].status = "done" /\ outbox[id].event.type \notin AdminTypes
           => \A u \in Recipients[outbox[id].event.type] : inbox[id][u] = 1

\* An entry is claimed MaxAttempts times, and once more for every crash, slow
\* worker and statement that failed: the count is raised by ClaimBatch and kept
\* by UnlockStale and Schedule, so nothing is delivered without end.
ClaimsBounded ==
    \A id \in Rows : outbox[id].attempts <= MaxAttempts + faults

\* A reminder is written once, although every replica runs the jobs and the
\* entry may be done before the window closes.
RemindedOnce == \A k \in Keys : written[k] <= 1

\* The worker does not resolve a dead letter before its event is back in the
\* outbox: a crash between the two repeats the replay and does not lose it.  A
\* letter that an administrator wrote off need not come back.
ResolvedWasReplayed ==
    \A d \in Dead :
        dead[d].state = "resolved" /\ ~dead[d].off
        => \E id \in Rows : outbox[id].event = ReplayEvent(d)

\* Two entries for one event that are both waiting or in process.
Twins ==
    \E i \in Rows, j \in Rows :
        /\ i # j /\ outbox[i].event = outbox[j].event
        /\ {outbox[i].status, outbox[j].status} \subseteq {"pending", "processing"}

Settled(id) == outbox[id].status \in {"done", "failed", "purged"}
Open(id) == outbox[id].status \in {"pending", "processing"}

\* Every entry is done or failed in the end, whatever crashes, unless two
\* entries for one event were open at the same time.
EntrySettles == \A id \in Rows : Open(id) ~> (Settled(id) \/ Twins)

\* UnlockStale "recovers entries left behind by a crashed worker instance"
\* (outbox/repository.go), so every entry is done or failed in the end.  Two
\* entries for one event that were left behind together are refused by the
\* unique index for ever, and all other stale entries with them.
EntryRecovered == \A id \in Rows : Open(id) ~> Settled(id)
=============================================================================
