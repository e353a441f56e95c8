---------------------------- MODULE OutboxProofs ----------------------------
(***************************************************************************)
(* Proofs about the notification outbox: whatever crashes, however many    *)
(* replicas run and however slow they are, an entry that is done was shown *)
(* to every recipient once, a reminder is written once, a dead letter that *)
(* a worker resolved is back in the outbox, and no entry is claimed        *)
(* without end.                                                            *)
(***************************************************************************)
EXTENDS Outbox, TLAPS

LOCAL INSTANCE FiniteSetTheorems

LOCAL INSTANCE WellFoundedInduction

LOCAL INSTANCE FiniteSetsExt

Statuses == {"free", "pending", "processing", "done", "failed", "purged"}

AnyEvent == [type : Types \cup {"none"}, about : Entities \cup Dead \cup {0}]

Entry == [event : AnyEvent, key : Keys \cup {NoKey}, status : Statuses,
          attempts : Nat, due : BOOLEAN, stale : BOOLEAN]

Batches == UNION {[S -> Nat \ {0}] : S \in SUBSET Rows}

WorkerState == [pc : {"idle", "dispatch", "succeeded", "erred"},
                batch : Batches, at : Rows \cup {0}]

Letter == [event : AnyEvent, state : {"free", "open", "resolved"},
           attempts : Nat, off : BOOLEAN]

OutboxTypeOK ==
    /\ outbox \in [Rows -> Entry]
    /\ worker \in [Workers -> WorkerState]
    /\ inbox \in [Rows -> [Users -> 0 .. 1]]
    /\ dead \in [Dead -> Letter]
    /\ replay \in [Replayers -> [pc : {"idle", "write", "resolve"},
                                 of : Dead \cup {0}]]
    /\ window \subseteq Keys
    /\ written \in [Keys -> Nat]
    /\ faults \in Nat

\* A row that was never written is blank; one that was has an event of the
\* services, the jobs or the replay.
RowsFilled ==
    \A id \in Rows :
        IF outbox[id].status = "free" THEN outbox[id] = Free
        ELSE outbox[id].event.type \in Types

DeadFilled ==
    \A d \in Dead : dead[d].state # "free" => dead[d].event.type \in Types

\* A worker that waits holds nothing, and one between Dispatch and the
\* settling statement works on an entry of its batch.
Fits(s) ==
    /\ s.pc = "idle" => DOMAIN s.batch = {}
    /\ s.pc \in {"succeeded", "erred"} => s.at \in DOMAIN s.batch

BatchFits == \A w \in Workers : Fits(worker[w])

\* What a worker remembers of a claim is not newer than the entry.
ClaimsPast ==
    \A w \in Workers : \A id \in DOMAIN worker[w].batch :
        worker[w].batch[id] <= outbox[id].attempts

\* Two workers that hold one entry hold different claims of it.
ClaimsDistinct ==
    \A w \in Workers, v \in Workers :
        w # v => \A id \in DOMAIN worker[w].batch \cap DOMAIN worker[v].batch :
                    worker[w].batch[id] # worker[v].batch[id]

\* The claims below the limit that are over: no worker can retry with them.
Spent(id) ==
    {a \in 1 .. MaxAttempts - 1 :
        /\ a <= outbox[id].attempts
        /\ \A w \in Workers :
            id \in DOMAIN worker[w].batch => worker[w].batch[id] # a}

\* An entry that can be claimed once more without another retry or fault.
Recoverable(id) ==
    \/ outbox[id].status = "pending"
    \/ outbox[id].status = "processing" /\ (outbox[id].stale \/ ~Held(id))

\* The first claim is free, every further one is paid by a claim below the
\* limit that is over or by a fault.
Paid(id) ==
    outbox[id].attempts + (IF Recoverable(id) THEN 1 ELSE 0)
    <= 1 + Cardinality(Spent(id)) + faults

ClaimsPaid == \A id \in Rows : Paid(id)

\* What a worker saw succeed was shown to every recipient.
SuccessReachedAll ==
    \A w \in Workers :
        LET id == worker[w].at
        IN worker[w].pc = "succeeded" /\ outbox[id].event.type \notin AdminTypes
           => \A u \in Recipients[outbox[id].event.type] : inbox[id][u] = 1

\* While the window of a reminder is open its entry is not purged.
ReminderKept ==
    \A k \in Keys :
        /\ written[k] <= 1
        /\ written[k] = 1 /\ k \in window
           => \E id \in Rows : outbox[id].key = k /\ outbox[id].status # "purged"

Replayed(d) == \E id \in Rows : outbox[id].event = ReplayEvent(d)

\* A replica that replays has a dead letter that is there; once it has
\* written, the event is in the outbox.
RealReplay(v) ==
    replay[v].pc # "idle"
    => /\ replay[v].of \in Dead /\ dead[replay[v].of].state # "free"
       /\ replay[v].pc = "resolve" => Replayed(replay[v].of)

ReplayReal == \A w \in Replayers : RealReplay(w)

OutboxInv ==
    /\ OutboxTypeOK /\ RowsFilled /\ DeadFilled /\ BatchFits
    /\ ClaimsPast /\ ClaimsDistinct /\ ClaimsPaid
    /\ SuccessReachedAll /\ DoneReachedAll
    /\ ReminderKept
    /\ ReplayReal /\ ResolvedWasReplayed

-----------------------------------------------------------------------------
\* The helpers of the writer.

LEMMA MinIsMember ==
    ASSUME NEW S \in SUBSET Nat, S # {}
    PROVE  Min(S) \in S
<1>. DEFINE R == OpToRel(<, Nat)
<1>1. IsWellFoundedOn(R, Nat)
    BY NatLessThanWellFounded, Zenon
<1>2. \A x \in Nat, y \in Nat : y < x => <<y, x>> \in R
    BY DEF OpToRel
<1>. HIDE DEF R
<1>3. PICK x \in S : \A y \in S : ~(<<y, x>> \in R)
    BY <1>1, WFMin, Zenon
<1>4. x \in Nat /\ \A y \in S : y \in Nat /\ ~(y < x)
    BY <1>2, <1>3, Zenon
<1>5. \A y \in S : x <= y
    BY <1>4
<1>. QED BY <1>5 DEF Min

LEMMA FreeRow ==
    ASSUME NEW table \in [Rows -> Entry],
           \E id \in Rows : table[id].status = "free"
    PROVE  LET slot == Min({id \in Rows : table[id].status = "free"})
           IN slot \in Rows /\ table[slot].status = "free"
<1>1. {id \in Rows : table[id].status = "free"} \in SUBSET Nat
    BY OutboxAssumption DEF Rows
<1>. QED BY <1>1, MinIsMember

LEMMA SpaceIsRow ==
    ASSUME OutboxTypeOK, HasSpace(1)
    PROVE  \E id \in Rows : outbox[id].status = "free"
<1>1. {id \in Rows : outbox[id].status = "free"} # {}
    BY FS_EmptySet DEF HasSpace
<1>. QED BY <1>1

\* A row that an INSERT filled, and a row that an UPDATE left the event, the
\* key and the count of claims so far.
RowFilled(old, new) ==
    /\ old.status = "free"
    /\ new \in Entry /\ new.status = "pending"
    /\ new.event.type \in Types /\ new.attempts = 0

RowKept(old, new) ==
    /\ old.status # "free" /\ new.status # "free"
    /\ new.event = old.event /\ new.key = old.key
    /\ new.attempts >= old.attempts

Filled(old, new) ==
    /\ new \in [Rows -> Entry]
    /\ \A id \in Rows : new[id] = old[id] \/ RowFilled(old[id], new[id])

Grown(old, new) ==
    /\ new \in [Rows -> Entry]
    /\ \A id \in Rows : \/ new[id] = old[id] \/ RowFilled(old[id], new[id])
                        \/ RowKept(old[id], new[id])

\* INSERT ... ON CONFLICT DO NOTHING fills one row that was not there, or
\* changes nothing.
LEMMA InsertFills ==
    ASSUME NEW table \in [Rows -> Entry],
           \E id \in Rows : table[id].status = "free",
           NEW e \in AnyEvent, e.type \in Types, NEW k \in Keys \cup {NoKey}
    PROVE  /\ Filled(table, Inserted(table, e, k))
           /\ Conflict(table, e, k) => Inserted(table, e, k) = table
           /\ ~Conflict(table, e, k)
              => \E slot \in Rows :
                    /\ table[slot].status = "free"
                    /\ Inserted(table, e, k)[slot].event = e
                    /\ Inserted(table, e, k)[slot].key = k
                    /\ Inserted(table, e, k)[slot].status = "pending"
                    /\ \A id \in Rows \ {slot} :
                            Inserted(table, e, k)[id] = table[id]
<1>1. CASE Conflict(table, e, k)
    BY <1>1 DEF Inserted, Filled
<1>2. CASE ~Conflict(table, e, k)
    <2>. DEFINE slot == Min({id \in Rows : table[id].status = "free"})
                new == [event |-> e, key |-> k, status |-> "pending",
                        attempts |-> 0, due |-> TRUE, stale |-> FALSE]
                after == Inserted(table, e, k)
    <2>1. slot \in Rows /\ table[slot].status = "free"
        BY FreeRow
    <2>2. after = [table EXCEPT ![slot] = new]
        BY <1>2 DEF Inserted
    <2>3. /\ new \in Entry
          /\ new.event = e /\ new.key = k /\ new.status = "pending"
          /\ new.attempts = 0
        BY DEF Entry, Statuses
    <2>. HIDE DEF slot, new, after
    <2>4. /\ after \in [Rows -> Entry] /\ after[slot] = new
          /\ \A id \in Rows \ {slot} : after[id] = table[id]
        BY <2>1, <2>2, <2>3
    <2>5. RowFilled(table[slot], after[slot])
        BY <2>1, <2>3, <2>4 DEF RowFilled
    <2>6. Filled(table, after)
        BY <2>4, <2>5 DEF Filled
    <2>7. \E r \in Rows :
                    /\ table[r].status = "free"
                    /\ after[r].event = e /\ after[r].key = k
                    /\ after[r].status = "pending"
                    /\ \A id \in Rows \ {r} : after[id] = table[id]
        BY <2>1, <2>3, <2>4
    <2>. QED BY <1>2, <2>6, <2>7 DEF after
<1>. QED BY <1>1, <1>2

LEMMA FilledTwice ==
    ASSUME NEW a, NEW b, NEW c, Filled(a, b), Filled(b, c)
    PROVE  Filled(a, c)
BY DEF Filled, RowFilled

LEMMA FilledIsGrown ==
    ASSUME NEW a, NEW b, Filled(a, b)
    PROVE  Grown(a, b)
BY DEF Filled, Grown

LEMMA SameIsGrown ==
    ASSUME NEW a \in [Rows -> Entry]
    PROVE  Grown(a, a)
BY DEF Grown

\* The second row of WriteBatch finds its place too.
LEMMA SpaceForTwo ==
    ASSUME OutboxTypeOK, HasSpace(2), NEW e \in AnyEvent, e.type \in Types
    PROVE  \E id \in Rows : Inserted(outbox, e, NoKey)[id].status = "free"
<1>. DEFINE free == {id \in Rows : outbox[id].status = "free"}
<1>1. Cardinality(free) >= 2
    BY DEF HasSpace
<1>2. free # {} /\ \A x : free # {x}
    <2>1. Cardinality(free) # 0 /\ Cardinality(free) # 1
        BY <1>1
    <2>. HIDE DEF free
    <2>2. Cardinality({}) = 0 /\ \A x : Cardinality({x}) = 1
        BY FS_Singleton, FS_EmptySet, Zenon
    <2>. QED BY <2>1, <2>2, Zenon
<1>3. \E id \in Rows : outbox[id].status = "free"
    BY <1>2
<1>4. outbox \in [Rows -> Entry] /\ NoKey \in Keys \cup {NoKey}
    BY DEF OutboxTypeOK
<1>5. CASE Conflict(outbox, e, NoKey)
    BY <1>3, <1>5 DEF Inserted
<1>6. CASE ~Conflict(outbox, e, NoKey)
    <2>1. PICK slot \in Rows :
                \A id \in Rows \ {slot} :
                    Inserted(outbox, e, NoKey)[id] = outbox[id]
        BY <1>3, <1>4, <1>6, InsertFills
    <2>2. PICK other \in free : other # slot
        BY <1>2
    <2>. QED BY <2>1, <2>2
<1>. QED BY <1>5, <1>6

\* An UPDATE of one row.
RowSet(old, new, id, status, stale) ==
    /\ new \in [Rows -> Entry]
    /\ \A j \in Rows \ {id} : new[j] = old[j]
    /\ new[id].status = status /\ new[id].stale = stale
    /\ new[id].event = old[id].event /\ new[id].key = old[id].key
    /\ new[id].attempts = old[id].attempts

LEMMA RowUpdates ==
    ASSUME NEW t \in [Rows -> Entry], NEW id \in Rows, NEW s \in Statuses
    PROVE  /\ RowSet(t, [t EXCEPT ![id].status = s], id, s, t[id].stale)
           /\ RowSet(t, [t EXCEPT ![id].status = s, ![id].stale = FALSE],
                     id, s, FALSE)
           /\ RowSet(t, [t EXCEPT ![id].status = s, ![id].stale = FALSE,
                                  ![id].due = FALSE],
                     id, s, FALSE)
           /\ RowSet(t, [t EXCEPT ![id].due = TRUE],
                     id, t[id].status, t[id].stale)
           /\ RowSet(t, [t EXCEPT ![id].stale = TRUE], id, t[id].status, TRUE)
<1>. USE DEF RowSet, Entry
<1>1. RowSet(t, [t EXCEPT ![id].status = s], id, s, t[id].stale)
    OBVIOUS
<1>2. RowSet(t, [t EXCEPT ![id].status = s, ![id].stale = FALSE], id, s, FALSE)
    OBVIOUS
<1>3. RowSet(t, [t EXCEPT ![id].status = s, ![id].stale = FALSE,
                          ![id].due = FALSE], id, s, FALSE)
    OBVIOUS
<1>4. RowSet(t, [t EXCEPT ![id].due = TRUE], id, t[id].status, t[id].stale)
    OBVIOUS
<1>5. RowSet(t, [t EXCEPT ![id].stale = TRUE], id, t[id].status, TRUE)
    OBVIOUS
<1>. QED BY <1>1, <1>2, <1>3, <1>4, <1>5

LEMMA RowSetIsGrown ==
    ASSUME NEW t \in [Rows -> Entry], NEW new, NEW id \in Rows,
           NEW s \in Statuses, NEW b, RowSet(t, new, id, s, b),
           t[id].status # "free", s # "free"
    PROVE  Grown(t, new)
<1>1. t[id].attempts \in Nat
    BY DEF Entry
<1>2. RowKept(t[id], new[id])
    BY <1>1 DEF RowSet, RowKept
<1>. QED BY <1>2 DEF RowSet, Grown

\* The rows after the two statements that update many.
LEMMA UnlockRows ==
    ASSUME OutboxTypeOK, UnlockStale
    PROVE  /\ Grown(outbox, outbox')
           /\ \A id \in Rows :
                /\ outbox'[id].attempts = outbox[id].attempts
                /\ \/ outbox'[id] = outbox[id]
                   \/ /\ outbox[id].status = "processing" /\ outbox[id].stale
                      /\ outbox'[id].status = "pending"
<1>1. outbox \in [Rows -> Entry]
    BY DEF OutboxTypeOK
<1>2. CASE ~Unlockable(StaleRows)
    BY <1>1, <1>2, SameIsGrown DEF UnlockStale
<1>3. CASE Unlockable(StaleRows)
    <2>1. outbox' = [id \in Rows |->
                        IF id \in StaleRows
                        THEN [outbox[id] EXCEPT !.status = "pending",
                                                !.stale = FALSE]
                        ELSE outbox[id]]
        BY <1>3 DEF UnlockStale
    <2>2. ASSUME NEW id \in Rows, id \in StaleRows
          PROVE  /\ outbox'[id] \in Entry
                 /\ outbox'[id].attempts = outbox[id].attempts
                 /\ outbox[id].status = "processing" /\ outbox[id].stale
                 /\ outbox'[id].status = "pending"
                 /\ RowKept(outbox[id], outbox'[id])
        <3>1. outbox'[id] = [outbox[id] EXCEPT !.status = "pending",
                                               !.stale = FALSE]
            BY <2>1, <2>2
        <3>2. outbox[id] \in Entry /\ outbox[id].attempts \in Nat
            BY <1>1 DEF Entry
        <3>3. outbox[id].status = "processing" /\ outbox[id].stale
            BY <2>2 DEF StaleRows
        <3>4. /\ outbox'[id] \in Entry /\ outbox'[id].status = "pending"
              /\ outbox'[id].event = outbox[id].event
              /\ outbox'[id].key = outbox[id].key
              /\ outbox'[id].attempts = outbox[id].attempts
            BY <3>1, <3>2 DEF Entry, Statuses
        <3>. QED BY <3>2, <3>3, <3>4 DEF RowKept
    <2>3. \A id \in Rows : id \notin StaleRows => outbox'[id] = outbox[id]
        BY <2>1
    <2>4. outbox' \in [Rows -> Entry]
        BY <1>1, <2>1, <2>2, <2>3
    <2>. QED BY <2>2, <2>3, <2>4 DEF Grown
<1>. QED BY <1>2, <1>3

LEMMA ClaimRows ==
    ASSUME OutboxTypeOK, NEW w, ClaimBatch(w)
    PROVE  /\ Grown(outbox, outbox')
           /\ \A id \in Rows :
                IF id \in Claimable
                THEN /\ outbox[id].status = "pending"
                     /\ outbox'[id].status = "processing"
                     /\ ~outbox'[id].stale
                     /\ outbox'[id].attempts = outbox[id].attempts + 1
                ELSE outbox'[id] = outbox[id]
<1>1. outbox \in [Rows -> Entry]
    BY DEF OutboxTypeOK
<1>2. outbox' = [id \in Rows |->
            IF id \in Claimable
            THEN [outbox[id] EXCEPT !.status = "processing",
                                    !.attempts = @ + 1, !.stale = FALSE]
            ELSE outbox[id]]
    BY DEF ClaimBatch
<1>3. ASSUME NEW id \in Rows, id \in Claimable
      PROVE  /\ outbox'[id] \in Entry
             /\ outbox[id].status = "pending"
             /\ outbox'[id].status = "processing" /\ ~outbox'[id].stale
             /\ outbox'[id].attempts = outbox[id].attempts + 1
             /\ RowKept(outbox[id], outbox'[id])
    <2>1. outbox'[id] = [outbox[id] EXCEPT !.status = "processing",
                                    !.attempts = @ + 1, !.stale = FALSE]
        BY <1>2, <1>3
    <2>2. outbox[id] \in Entry /\ outbox[id].attempts \in Nat
        BY <1>1 DEF Entry
    <2>3. outbox[id].status = "pending"
        BY <1>3 DEF Claimable
    <2>4. /\ outbox'[id].status = "processing" /\ ~outbox'[id].stale
          /\ outbox'[id].event = outbox[id].event
          /\ outbox'[id].key = outbox[id].key
          /\ outbox'[id].attempts = outbox[id].attempts + 1
        BY <2>1, <2>2 DEF Entry
    <2>5. outbox'[id] \in Entry
        <3>1. outbox[id].attempts + 1 \in Nat
            BY <2>2
        <3>2. ASSUME NEW r \in Entry, NEW n \in Nat
              PROVE  [r EXCEPT !.status = "processing", !.attempts = n,
                               !.stale = FALSE] \in Entry
            BY DEF Entry, Statuses
        <3>. QED BY <2>1, <2>2, <3>1, <3>2
    <2>. QED BY <2>2, <2>3, <2>4, <2>5 DEF RowKept
<1>4. \A id \in Rows : id \notin Claimable => outbox'[id] = outbox[id]
    BY <1>2
<1>5. outbox' \in [Rows -> Entry]
    BY <1>1, <1>2, <1>3, <1>4
<1>. QED BY <1>3, <1>4, <1>5 DEF Grown

-----------------------------------------------------------------------------
\* Which actions change which table.

LEMMA WhoChangesOutbox ==
    ASSUME OutboxNext
    PROVE  \/ UNCHANGED outbox
           \/ \E e \in Services : Write(e)
           \/ \E a \in Services, n \in Services : WriteBatch(a, n)
           \/ \E k \in Keys : RunReminderJob(k)
           \/ \E id \in Rows :
                PurgeOldOutboxEntries(id) \/ BecomeDue(id) \/ Lapse(id)
           \/ \E w \in Workers : Unlock(w) \/ ClaimBatch(w) \/ Finish(w)
           \/ \E w \in Replayers : WriteReplay(w)
BY DEF OutboxNext, Dispatch, FinishFails, Crash, ClaimDead, ReplayFails,
       MarkResolved, Resolve

LEMMA WhoChangesDead ==
    ASSUME OutboxNext
    PROVE  \/ UNCHANGED dead
           \/ \E w \in Workers : Dispatch(w)
           \/ \E w \in Replayers : ReplayFails(w) \/ MarkResolved(w)
           \/ \E d \in Dead : Resolve(d)
BY DEF OutboxNext, Write, WriteBatch, RunReminderJob, WriteDedup,
       PurgeOldOutboxEntries, BecomeDue, Lapse, Unlock, ClaimBatch, Finish,
       FinishFails, Crash, ClaimDead, WriteReplay, ReplayDead

LEMMA WhoChangesWorkers ==
    ASSUME OutboxNext
    PROVE  \/ UNCHANGED worker
           \/ \E w \in Workers :
                ClaimBatch(w) \/ Dispatch(w) \/ Finish(w) \/ FinishFails(w)
                \/ Crash(w)
BY DEF OutboxNext, Write, WriteBatch, RunReminderJob, WriteDedup,
       PurgeOldOutboxEntries, BecomeDue, Lapse, Unlock, ClaimDead,
       WriteReplay, ReplayDead, ReplayFails, MarkResolved, Resolve

LEMMA WhoChangesInbox ==
    ASSUME OutboxNext
    PROVE  UNCHANGED inbox \/ \E w \in Workers : Dispatch(w)
BY DEF OutboxNext, Write, WriteBatch, RunReminderJob, WriteDedup,
       PurgeOldOutboxEntries, BecomeDue, Lapse, Unlock, ClaimBatch, Finish,
       FinishFails, Crash, ClaimDead, WriteReplay, ReplayDead, ReplayFails,
       MarkResolved, Resolve

LEMMA WhoChangesReplay ==
    ASSUME OutboxNext
    PROVE  \/ UNCHANGED replay
           \/ \E w \in Workers : Crash(w)
           \/ \E w \in Replayers :
                \/ \E d \in Dead : ClaimDead(w, d)
                \/ WriteReplay(w) \/ ReplayFails(w) \/ MarkResolved(w)
BY DEF OutboxNext, Write, WriteBatch, RunReminderJob, WriteDedup,
       PurgeOldOutboxEntries, BecomeDue, Lapse, Unlock, ClaimBatch, Dispatch,
       Finish, FinishFails, Resolve

LEMMA WhoChangesReminders ==
    ASSUME OutboxNext
    PROVE  \/ UNCHANGED <<window, written>>
           \/ \E k \in Keys : RunReminderJob(k)
           \/ \E id \in Rows : PurgeOldOutboxEntries(id)
BY DEF OutboxNext, Write, WriteBatch, BecomeDue, Lapse, Unlock, ClaimBatch,
       Dispatch, Finish, FinishFails, Crash, ClaimDead, WriteReplay,
       ReplayDead, ReplayFails, MarkResolved, Resolve

LEMMA FaultsGrow ==
    ASSUME OutboxTypeOK, OutboxNext
    PROVE  faults' \in Nat /\ faults' >= faults
<1>1. faults \in Nat
    BY DEF OutboxTypeOK
<1>2. UNCHANGED faults \/ Fault
    BY DEF OutboxNext, Write, WriteBatch, RunReminderJob, WriteDedup,
       PurgeOldOutboxEntries, BecomeDue, Lapse, Unlock, ClaimBatch, Dispatch,
       Finish, FinishFails, Crash, ClaimDead, WriteReplay, ReplayDead,
       ReplayFails, MarkResolved, Resolve
<1>. QED BY <1>1, <1>2 DEF Fault

-----------------------------------------------------------------------------
\* How the tables grow: no step takes the event, the key or a claim from an
\* entry, the event from a dead letter, or a notification from a user.

LEMMA HeldIsRow ==
    ASSUME OutboxTypeOK, RowsFilled, ClaimsPast, NEW w \in Workers,
           NEW id \in DOMAIN worker[w].batch
    PROVE  /\ id \in Rows /\ outbox[id].status # "free"
           /\ outbox[id].attempts \in Nat /\ worker[w].batch[id] \in Nat
           /\ 1 <= worker[w].batch[id]
           /\ worker[w].batch[id] <= outbox[id].attempts
<1>1. worker[w].batch \in Batches
    BY DEF OutboxTypeOK, WorkerState
<1>2. PICK S \in SUBSET Rows : worker[w].batch \in [S -> Nat \ {0}]
    BY <1>1 DEF Batches
<1>3. id \in Rows /\ worker[w].batch[id] \in Nat \ {0}
    BY <1>2
<1>4. worker[w].batch[id] <= outbox[id].attempts
    BY DEF ClaimsPast
<1>5. outbox[id].attempts \in Nat
    BY <1>3 DEF OutboxTypeOK, Entry
<1>6. outbox[id].status # "free"
    BY <1>3, <1>4, <1>5 DEF RowsFilled, Free
<1>. QED BY <1>3, <1>4, <1>5, <1>6

\* The entry that a worker settles.
LEMMA CurrentIsRow ==
    ASSUME OutboxTypeOK, RowsFilled, ClaimsPast, BatchFits, NEW w \in Workers,
           worker[w].pc \in {"succeeded", "erred"}
    PROVE  /\ Current(w) \in DOMAIN worker[w].batch
           /\ Current(w) \in Rows /\ outbox[Current(w)].status # "free"
<1>1. Current(w) \in DOMAIN worker[w].batch
    BY DEF BatchFits, Fits, Current
<1>. QED BY <1>1, HeldIsRow

LEMMA ServiceEvents ==
    /\ \A e \in Services : e \in AnyEvent /\ e.type \in Types
    /\ \A k \in Keys : KeyEvent[k] \in AnyEvent /\ KeyEvent[k].type \in Types
BY OutboxAssumption DEF Services, AnyEvent, Event

LEMMA ReplayedEvent ==
    ASSUME OutboxTypeOK, DeadFilled, ReplayReal, NEW w \in Replayers,
           replay[w].pc = "write"
    PROVE  /\ ReplayEvent(replay[w].of) \in AnyEvent
           /\ ReplayEvent(replay[w].of).type \in Types
<1>1. replay[w].of \in Dead /\ dead[replay[w].of].state # "free"
    BY DEF ReplayReal, RealReplay
<1>2. dead[replay[w].of].event.type \in Types
    BY <1>1 DEF DeadFilled
<1>. QED BY <1>1, <1>2 DEF ReplayEvent, AnyEvent

\* The statements that settle an entry.
LEMMA SettleRow ==
    ASSUME OutboxTypeOK, RowsFilled, ClaimsPast, BatchFits, NEW w \in Workers,
           Finish(w)
    PROVE  LET id == Current(w)
           IN /\ id \in DOMAIN worker[w].batch /\ id \in Rows
              /\ outbox[id].status # "free"
              /\ \/ /\ worker[w].pc = "succeeded"
                    /\ \E s \in {"done", "purged"} :
                        /\ RowSet(outbox, outbox', id, s, FALSE)
                        /\ s = "purged" <=> outbox[id].status = "purged"
                 \/ /\ worker[w].pc = "erred"
                    /\ \E s \in {"failed", "purged"} :
                        /\ RowSet(outbox, outbox', id, s, FALSE)
                        /\ s = "purged" <=> outbox[id].status = "purged"
                 \/ /\ worker[w].pc = "erred" /\ ~Exhausted(w)
                    /\ \/ outbox' = outbox
                       \/ /\ RowSet(outbox, outbox', id, "pending", FALSE)
                          /\ outbox[id].status # "purged"
<1>. DEFINE id == Current(w)
<1>1. outbox \in [Rows -> Entry]
    BY DEF OutboxTypeOK
<1>2. worker[w].pc \in {"succeeded", "erred"}
    BY DEF Finish, MarkDone, MarkFailed, Schedule
<1>3. id \in DOMAIN worker[w].batch /\ id \in Rows /\ outbox[id].status # "free"
    BY <1>2, CurrentIsRow
<1>. HIDE DEF id
<1>4. CASE MarkDone(w)
    <2>. DEFINE s == IF outbox[id].status = "purged" THEN "purged" ELSE "done"
    <2>1. outbox' = [outbox EXCEPT ![id].status = s, ![id].stale = FALSE]
        BY <1>4 DEF MarkDone, Settle, id
    <2>2. s \in {"done", "purged"} /\ s \in Statuses
        BY DEF Statuses
    <2>3. s = "purged" <=> outbox[id].status = "purged"
        OBVIOUS
    <2>. HIDE DEF s
    <2>4. RowSet(outbox, outbox', id, s, FALSE)
        BY <1>1, <1>3, <2>1, <2>2, RowUpdates
    <2>. QED BY <1>3, <1>4, <2>2, <2>3, <2>4 DEF MarkDone, id
<1>5. CASE MarkFailed(w)
    <2>. DEFINE s == IF outbox[id].status = "purged" THEN "purged" ELSE "failed"
    <2>1. outbox' = [outbox EXCEPT ![id].status = s, ![id].stale = FALSE]
        BY <1>5 DEF MarkFailed, Settle, id
    <2>2. s \in {"failed", "purged"} /\ s \in Statuses
        BY DEF Statuses
    <2>3. s = "purged" <=> outbox[id].status = "purged"
        OBVIOUS
    <2>. HIDE DEF s
    <2>4. RowSet(outbox, outbox', id, s, FALSE)
        BY <1>1, <1>3, <2>1, <2>2, RowUpdates
    <2>. QED BY <1>3, <1>5, <2>2, <2>3, <2>4 DEF MarkFailed, id
<1>6. CASE Schedule(w)
    <2>1. \/ outbox' = outbox
          \/ /\ outbox' = [outbox EXCEPT ![id].status = "pending",
                                         ![id].stale = FALSE,
                                         ![id].due = FALSE]
             /\ outbox[id].status # "purged"
        BY <1>6 DEF Schedule, id
    <2>2. "pending" \in Statuses
        BY DEF Statuses
    <2>3. \/ outbox' = outbox
          \/ /\ RowSet(outbox, outbox', id, "pending", FALSE)
             /\ outbox[id].status # "purged"
        <3>1. CASE outbox' = outbox
            BY <3>1
        <3>2. CASE /\ outbox' = [outbox EXCEPT ![id].status = "pending",
                                               ![id].stale = FALSE,
                                               ![id].due = FALSE]
                   /\ outbox[id].status # "purged"
            BY <1>1, <1>3, <2>2, <3>2, RowUpdates
        <3>. QED BY <2>1, <3>1, <3>2
    <2>. QED BY <1>3, <1>6, <2>3 DEF Schedule, id
<1>. QED BY <1>4, <1>5, <1>6 DEF Finish

Writes ==
    \/ \E e \in Services : Write(e)
    \/ \E a \in Services, n \in Services : WriteBatch(a, n)
    \/ \E k \in Keys : RunReminderJob(k)
    \/ \E w \in Replayers : WriteReplay(w)

LEMMA WritersFill ==
    ASSUME OutboxInv, Writes
    PROVE  Filled(outbox, outbox') /\ UNCHANGED <<worker, inbox, dead, faults>>
<1>. USE DEF OutboxInv
<1>1. outbox \in [Rows -> Entry]
    BY DEF OutboxTypeOK
<1>2. UNCHANGED <<worker, inbox, dead, faults>>
    BY DEF Writes, Write, WriteBatch, RunReminderJob, WriteDedup, WriteReplay,
           ReplayDead
<1>3. ASSUME NEW e \in Services, Write(e)
      PROVE  Filled(outbox, outbox')
    BY <1>1, <1>3, SpaceIsRow, ServiceEvents, InsertFills DEF Write
<1>4. ASSUME NEW a \in Services, NEW n \in Services, WriteBatch(a, n)
      PROVE  Filled(outbox, outbox')
    <2>1. /\ a \in AnyEvent /\ a.type \in Types
          /\ n \in AnyEvent /\ n.type \in Types
        BY ServiceEvents
    <2>2. Cardinality({id \in Rows : outbox[id].status = "free"}) \in Nat
        <3>1. IsFiniteSet(Rows)
            BY FS_Interval, OutboxAssumption DEF Rows
        <3>. QED BY <3>1, FS_Subset, FS_CardinalityType
    <2>3. HasSpace(2) /\ HasSpace(1)
        BY <1>4, <2>2 DEF WriteBatch, HasSpace
    <2>. DEFINE first == Inserted(outbox, a, NoKey)
    <2>4. Filled(outbox, first)
        BY <1>1, <2>1, <2>3, SpaceIsRow, InsertFills
    <2>5. \E id \in Rows : first[id].status = "free"
        BY <2>1, <2>3, SpaceForTwo
    <2>6. first \in [Rows -> Entry]
        BY <2>4 DEF Filled
    <2>7. outbox' = Inserted(first, n, NoKey)
        BY <1>4 DEF WriteBatch
    <2>. HIDE DEF first
    <2>8. Filled(first, outbox')
        BY <2>1, <2>5, <2>6, <2>7, InsertFills
    <2>. QED BY <2>4, <2>8, FilledTwice
<1>5. ASSUME NEW k \in Keys, RunReminderJob(k)
      PROVE  Filled(outbox, outbox')
    BY <1>1, <1>5, SpaceIsRow, ServiceEvents, InsertFills
       DEF RunReminderJob, WriteDedup
<1>6. ASSUME NEW w \in Replayers, WriteReplay(w)
      PROVE  Filled(outbox, outbox')
    <2>1. /\ ReplayEvent(replay[w].of) \in AnyEvent
          /\ ReplayEvent(replay[w].of).type \in Types
        BY <1>6, ReplayedEvent DEF WriteReplay
    <2>. QED BY <1>1, <1>6, <2>1, SpaceIsRow, InsertFills
             DEF WriteReplay, ReplayDead
<1>. QED BY <1>2, <1>3, <1>4, <1>5, <1>6 DEF Writes

\* The purge and the passing of time.
LEMMA TimeRow ==
    ASSUME OutboxTypeOK, NEW id \in Rows
    PROVE  /\ PurgeOldOutboxEntries(id)
              => /\ RowSet(outbox, outbox', id, "purged", outbox[id].stale)
                 /\ outbox[id].status \in {"done", "failed"}
           /\ BecomeDue(id)
              => /\ RowSet(outbox, outbox', id, "pending", outbox[id].stale)
                 /\ outbox[id].status = "pending"
           /\ Lapse(id)
              => /\ RowSet(outbox, outbox', id, "processing", TRUE)
                 /\ outbox[id].status = "processing"
<1>1. outbox \in [Rows -> Entry]
    BY DEF OutboxTypeOK
<1>2. ASSUME PurgeOldOutboxEntries(id)
      PROVE  /\ RowSet(outbox, outbox', id, "purged", outbox[id].stale)
             /\ outbox[id].status \in {"done", "failed"}
    BY <1>1, <1>2, RowUpdates DEF PurgeOldOutboxEntries, Statuses
<1>3. ASSUME BecomeDue(id)
      PROVE  /\ RowSet(outbox, outbox', id, "pending", outbox[id].stale)
             /\ outbox[id].status = "pending"
    <2>1. /\ outbox' = [outbox EXCEPT ![id].due = TRUE]
          /\ outbox[id].status = "pending"
        BY <1>3 DEF BecomeDue
    <2>2. RowSet(outbox, outbox', id, outbox[id].status, outbox[id].stale)
        BY <1>1, <2>1, RowUpdates DEF Statuses
    <2>. QED BY <2>1, <2>2
<1>4. ASSUME Lapse(id)
      PROVE  /\ RowSet(outbox, outbox', id, "processing", TRUE)
             /\ outbox[id].status = "processing"
    <2>1. /\ outbox' = [outbox EXCEPT ![id].stale = TRUE]
          /\ outbox[id].status = "processing"
        BY <1>4 DEF Lapse
    <2>2. RowSet(outbox, outbox', id, outbox[id].status, TRUE)
        BY <1>1, <2>1, RowUpdates DEF Statuses
    <2>. QED BY <2>1, <2>2
<1>. QED BY <1>2, <1>3, <1>4

LEMMA OutboxGrows ==
    ASSUME OutboxInv, OutboxNext
    PROVE  Grown(outbox, outbox')
<1>. USE DEF OutboxInv
<1>1. outbox \in [Rows -> Entry]
    BY DEF OutboxTypeOK
<1>2. CASE UNCHANGED outbox
    BY <1>1, <1>2, SameIsGrown
<1>3. CASE Writes
    BY <1>3, WritersFill, FilledIsGrown
<1>4. ASSUME NEW id \in Rows,
             PurgeOldOutboxEntries(id) \/ BecomeDue(id) \/ Lapse(id)
      PROVE  Grown(outbox, outbox')
    <2>1. /\ outbox[id].status # "free"
          /\ \E s \in {"purged", "pending", "processing"}, b \in BOOLEAN :
                RowSet(outbox, outbox', id, s, b)
        <3>1. outbox[id].stale \in BOOLEAN
            BY <1>1 DEF Entry
        <3>. QED BY <1>4, <3>1, TimeRow
    <2>. QED BY <1>1, <2>1, RowSetIsGrown DEF Statuses
<1>5. ASSUME NEW w \in Workers, Unlock(w)
      PROVE  Grown(outbox, outbox')
    BY <1>5, UnlockRows DEF Unlock
<1>6. ASSUME NEW w \in Workers, ClaimBatch(w)
      PROVE  Grown(outbox, outbox')
    BY <1>6, ClaimRows
<1>7. ASSUME NEW w \in Workers, Finish(w)
      PROVE  Grown(outbox, outbox')
    <2>1. Current(w) \in Rows /\ outbox[Current(w)].status # "free"
        BY <1>7, SettleRow
    <2>2. \/ outbox' = outbox
          \/ \E s \in {"done", "failed", "purged", "pending"} :
                RowSet(outbox, outbox', Current(w), s, FALSE)
        BY <1>7, SettleRow
    <2>. QED BY <1>1, <2>1, <2>2, RowSetIsGrown, SameIsGrown DEF Statuses
<1>. QED BY <1>2, <1>3, <1>4, <1>5, <1>6, <1>7, WhoChangesOutbox DEF Writes

LetterGrown(old, new) ==
    \/ new = old
    \/ old.state = "free" /\ new.state # "free" /\ new.event.type \in Types
    \/ old.state # "free" /\ new.state # "free" /\ new.event = old.event

DeadGrown(old, new) ==
    /\ new \in [Dead -> Letter]
    /\ \A d \in Dead : LetterGrown(old[d], new[d])

LEMMA LetterWritten ==
    ASSUME OutboxTypeOK, NEW e \in AnyEvent, e.type \in Types, DeadLetter(e)
    PROVE  /\ DeadGrown(dead, dead')
           /\ \A d \in Dead : dead'[d].state = "resolved"
                                => dead'[d] = dead[d]
<1>1. dead \in [Dead -> Letter]
    BY DEF OutboxTypeOK
<1>2. CASE UNCHANGED dead
    BY <1>1, <1>2 DEF DeadGrown, LetterGrown
<1>3. ASSUME NEW d \in Dead, dead[d].state = "free",
             dead' = [dead EXCEPT ![d] =
                        [event |-> e, state |-> "open", attempts |-> 0,
                         off |-> FALSE]]
      PROVE  /\ DeadGrown(dead, dead')
             /\ \A c \in Dead : dead'[c].state = "resolved"
                                  => dead'[c] = dead[c]
    <2>1. PICK r : r = [event |-> e, state |-> "open", attempts |-> 0,
                        off |-> FALSE]
        OBVIOUS
    <2>2. r \in Letter /\ r.event = e /\ r.state = "open"
        BY <2>1 DEF Letter
    <2>3. /\ dead' \in [Dead -> Letter] /\ dead'[d] = r
          /\ \A c \in Dead \ {d} : dead'[c] = dead[c]
        BY <1>1, <1>3, <2>1, <2>2
    <2>. QED BY <1>3, <2>2, <2>3 DEF DeadGrown, LetterGrown
<1>. QED BY <1>2, <1>3 DEF DeadLetter

\* The entry that Dispatch works on has an event.
LEMMA DispatchedEvent ==
    ASSUME OutboxInv, NEW w \in Workers, NEW id \in DOMAIN worker[w].batch
    PROVE  /\ id \in Rows /\ outbox[id].status # "free"
           /\ outbox[id].event \in AnyEvent /\ outbox[id].event.type \in Types
<1>1. id \in Rows /\ outbox[id].status # "free"
    BY HeldIsRow DEF OutboxInv
<1>. QED BY <1>1 DEF OutboxInv, OutboxTypeOK, Entry, RowsFilled

LEMMA DeadGrows ==
    ASSUME OutboxInv, OutboxNext
    PROVE  DeadGrown(dead, dead')
<1>. USE DEF OutboxInv
<1>1. dead \in [Dead -> Letter]
    BY DEF OutboxTypeOK
<1>2. CASE UNCHANGED dead
    BY <1>1, <1>2 DEF DeadGrown, LetterGrown
<1>3. ASSUME NEW w \in Workers, Dispatch(w)
      PROVE  DeadGrown(dead, dead')
    <2>1. PICK id \in DOMAIN worker[w].batch :
                DispatchAdmin(w, id) \/ DispatchUser(w, id)
        BY <1>3 DEF Dispatch
    <2>2. outbox[id].event \in AnyEvent /\ outbox[id].event.type \in Types
        BY DispatchedEvent
    <2>3. UNCHANGED dead \/ DeadLetter(outbox[id].event)
        BY <2>1 DEF DispatchAdmin, DispatchUser
    <2>. QED BY <1>2, <2>2, <2>3, LetterWritten
<1>4. ASSUME NEW w \in Replayers, ReplayFails(w) \/ MarkResolved(w)
      PROVE  DeadGrown(dead, dead')
    <2>1. PICK d : d = replay[w].of
        OBVIOUS
    <2>2. d \in Dead /\ dead[d].state # "free"
        BY <1>4, <2>1 DEF ReplayReal, RealReplay, ReplayFails, MarkResolved
    <2>3. PICK r \in Letter : /\ dead' = [dead EXCEPT ![d] = r]
                              /\ r.event = dead[d].event /\ r.state # "free"
        <3>1. CASE ReplayFails(w)
            <4>1. dead' = [dead EXCEPT ![d].attempts = @ + 1]
                BY <2>1, <3>1 DEF ReplayFails
            <4>2. PICK r : r = [dead[d] EXCEPT !.attempts = @ + 1]
                OBVIOUS
            <4>3. dead' = [dead EXCEPT ![d] = r]
                BY <1>1, <2>2, <4>1, <4>2
            <4>4. dead[d] \in Letter /\ dead[d].attempts + 1 \in Nat
                BY <1>1, <2>2 DEF Letter
            <4>5. r \in Letter /\ r.event = dead[d].event
                  /\ r.state = dead[d].state
                BY <4>2, <4>4 DEF Letter
            <4>. QED BY <2>2, <4>3, <4>5
        <3>2. CASE MarkResolved(w)
            <4>1. dead' = [dead EXCEPT ![d].state = "resolved",
                                       ![d].off = FALSE]
                BY <2>1, <3>2 DEF MarkResolved
            <4>2. PICK r : r = [dead[d] EXCEPT !.state = "resolved",
                                               !.off = FALSE]
                OBVIOUS
            <4>3. dead' = [dead EXCEPT ![d] = r]
                BY <1>1, <2>2, <4>1, <4>2
            <4>4. dead[d] \in Letter
                BY <1>1, <2>2
            <4>5. r \in Letter /\ r.event = dead[d].event
                  /\ r.state = "resolved"
                BY <4>2, <4>4 DEF Letter
            <4>. QED BY <4>3, <4>5
        <3>. QED BY <1>4, <3>1, <3>2
    <2>4. /\ dead' \in [Dead -> Letter] /\ dead'[d] = r
          /\ \A c \in Dead \ {d} : dead'[c] = dead[c]
        BY <1>1, <2>2, <2>3
    <2>. QED BY <2>2, <2>3, <2>4 DEF DeadGrown, LetterGrown
<1>5. ASSUME NEW d \in Dead, Resolve(d)
      PROVE  DeadGrown(dead, dead')
    <2>1. PICK r : r = [dead[d] EXCEPT !.state = "resolved", !.off = TRUE]
        OBVIOUS
    <2>2. dead' = [dead EXCEPT ![d] = r] /\ dead[d].state = "open"
        BY <1>1, <1>5, <2>1 DEF Resolve
    <2>3. dead[d] \in Letter
        BY <1>1
    <2>4. r \in Letter /\ r.event = dead[d].event /\ r.state = "resolved"
        BY <2>1, <2>3 DEF Letter
    <2>5. /\ dead' \in [Dead -> Letter] /\ dead'[d] = r
          /\ \A c \in Dead \ {d} : dead'[c] = dead[c]
        BY <1>1, <2>2, <2>4
    <2>. QED BY <2>2, <2>4, <2>5 DEF DeadGrown, LetterGrown
<1>. QED BY <1>2, <1>3, <1>4, <1>5, WhoChangesDead

InboxGrown(old, new) ==
    /\ new \in [Rows -> [Users -> 0 .. 1]]
    /\ \A id \in Rows, u \in Users : old[id][u] = 1 => new[id][u] = 1

\* notifRepo.Create leaves one notification per entry and user.
LEMMA ShownOnce ==
    ASSUME OutboxTypeOK, NEW id \in Rows, NEW us \in SUBSET Users,
           inbox' = [inbox EXCEPT ![id] = Shown(id, us)]
    PROVE  /\ InboxGrown(inbox, inbox')
           /\ \A u \in us : inbox'[id][u] = 1
<1>1. inbox \in [Rows -> [Users -> 0 .. 1]]
    BY DEF OutboxTypeOK
<1>2. PICK f : f = Shown(id, us)
    OBVIOUS
<1>3. f \in [Users -> 0 .. 1]
    BY <1>1, <1>2 DEF Shown
<1>4. \A u \in Users : u \in us \/ inbox[id][u] = 1 => f[u] = 1
    BY <1>1, <1>2 DEF Shown
<1>5. /\ inbox' \in [Rows -> [Users -> 0 .. 1]] /\ inbox'[id] = f
      /\ \A j \in Rows \ {id} : inbox'[j] = inbox[j]
    BY <1>1, <1>2, <1>3
<1>. QED BY <1>4, <1>5 DEF InboxGrown

LEMMA InboxGrows ==
    ASSUME OutboxInv, OutboxNext
    PROVE  InboxGrown(inbox, inbox')
<1>. USE DEF OutboxInv
<1>1. inbox \in [Rows -> [Users -> 0 .. 1]]
    BY DEF OutboxTypeOK
<1>2. CASE UNCHANGED inbox
    BY <1>1, <1>2 DEF InboxGrown
<1>3. ASSUME NEW w \in Workers, Dispatch(w)
      PROVE  InboxGrown(inbox, inbox')
    <2>1. PICK id \in DOMAIN worker[w].batch :
                DispatchAdmin(w, id) \/ DispatchUser(w, id)
        BY <1>3 DEF Dispatch
    <2>2. id \in Rows /\ outbox[id].event.type \in Types
        BY DispatchedEvent
    <2>3. CASE DispatchAdmin(w, id)
        BY <1>2, <2>3 DEF DispatchAdmin
    <2>4. CASE DispatchUser(w, id)
        <3>1. PICK us \in SUBSET Recipients[outbox[id].event.type] :
                    inbox' = [inbox EXCEPT ![id] = Shown(id, us)]
            BY <2>4 DEF DispatchUser
        <3>2. us \in SUBSET Users
            BY <2>2, <2>4, <3>1, OutboxAssumption DEF DispatchUser
        <3>. QED BY <2>2, <3>1, <3>2, ShownOnce
    <2>. QED BY <2>1, <2>3, <2>4
<1>. QED BY <1>2, <1>3, WhoChangesInbox

-----------------------------------------------------------------------------
\* The claims that the workers hold.

Shrunk(old, new) ==
    \A w \in Workers :
        /\ DOMAIN new[w].batch \subseteq DOMAIN old[w].batch
        /\ \A id \in DOMAIN new[w].batch :
                new[w].batch[id] = old[w].batch[id]

LEMMA OneWorker ==
    ASSUME OutboxTypeOK, BatchFits, NEW w \in Workers,
           NEW r \in WorkerState, Fits(r), worker' = [worker EXCEPT ![w] = r]
    PROVE  /\ worker' \in [Workers -> WorkerState]
           /\ BatchFits'
           /\ worker'[w] = r
           /\ \A v \in Workers \ {w} : worker'[v] = worker[v]
<1>1. /\ worker' \in [Workers -> WorkerState]
      /\ worker'[w] = r
      /\ \A v \in Workers \ {w} : worker'[v] = worker[v]
    BY DEF OutboxTypeOK
<1>. QED BY <1>1 DEF BatchFits

LEMMA BatchShape ==
    ASSUME OutboxTypeOK, NEW w \in Workers
    PROVE  /\ DOMAIN worker[w].batch \in SUBSET Rows
           /\ worker[w].batch \in [DOMAIN worker[w].batch -> Nat \ {0}]
           /\ worker[w].batch \in Batches
<1>1. worker[w].batch \in Batches
    BY DEF OutboxTypeOK, WorkerState
<1>2. PICK S \in SUBSET Rows : worker[w].batch \in [S -> Nat \ {0}]
    BY <1>1 DEF Batches
<1>. QED BY <1>1, <1>2

LEMMA ClaimState ==
    ASSUME OutboxTypeOK, BatchFits, NEW w \in Workers, ClaimBatch(w)
    PROVE  /\ worker' \in [Workers -> WorkerState]
           /\ BatchFits'
           /\ DOMAIN worker[w].batch = {} /\ worker'[w].pc = "dispatch"
           /\ DOMAIN worker'[w].batch = Claimable
           /\ \A id \in Claimable :
                worker'[w].batch[id] = outbox[id].attempts + 1
           /\ \A v \in Workers \ {w} : worker'[v] = worker[v]
<1>1. PICK b : b = [id \in Claimable |-> outbox[id].attempts + 1]
    OBVIOUS
<1>2. PICK r : r = [pc |-> "dispatch", at |-> 0, batch |-> b]
    OBVIOUS
<1>3. worker' = [worker EXCEPT ![w] = r]
    BY <1>1, <1>2 DEF ClaimBatch
<1>4. Claimable \in SUBSET Rows
    BY DEF Claimable
<1>5. \A id \in Claimable : outbox[id].attempts + 1 \in Nat \ {0}
    <2>1. \A id \in Claimable : outbox[id].attempts \in Nat
        BY <1>4 DEF OutboxTypeOK, Entry
    <2>. QED BY <2>1
<1>6. b \in [Claimable -> Nat \ {0}]
    BY <1>1, <1>5
<1>7. b \in Batches
    BY <1>4, <1>6 DEF Batches
<1>8. r \in WorkerState /\ r.batch = b /\ r.pc = "dispatch"
    BY <1>2, <1>7 DEF WorkerState
<1>9. Fits(r)
    BY <1>8 DEF Fits
<1>10. worker[w].pc = "idle"
    BY DEF ClaimBatch
<1>11. DOMAIN worker[w].batch = {}
    BY <1>10 DEF BatchFits, Fits
<1>12. /\ worker' \in [Workers -> WorkerState] /\ BatchFits'
       /\ worker'[w] = r /\ \A v \in Workers \ {w} : worker'[v] = worker[v]
    BY <1>3, <1>8, <1>9, OneWorker
<1>13. /\ DOMAIN b = Claimable
       /\ \A id \in Claimable : b[id] = outbox[id].attempts + 1
    BY <1>1
<1>. QED BY <1>8, <1>11, <1>12, <1>13

LEMMA ReturnedState ==
    ASSUME OutboxTypeOK, BatchFits, NEW w \in Workers,
           NEW id \in DOMAIN worker[w].batch,
           NEW result \in {"succeeded", "erred"}, Returned(w, id, result)
    PROVE  /\ worker' \in [Workers -> WorkerState]
           /\ BatchFits'
           /\ worker'[w].pc = result /\ worker'[w].at = id
           /\ worker'[w].batch = worker[w].batch
           /\ \A v \in Workers \ {w} : worker'[v] = worker[v]
<1>1. PICK r : r = [pc |-> result, batch |-> worker[w].batch, at |-> id]
    OBVIOUS
<1>2. worker' = [worker EXCEPT ![w] = r]
    BY <1>1 DEF Returned
<1>3. id \in Rows /\ worker[w].batch \in Batches
    BY BatchShape
<1>4. /\ r \in WorkerState /\ r.batch = worker[w].batch /\ r.pc = result
      /\ r.at = id
    BY <1>1, <1>3 DEF WorkerState
<1>5. Fits(r)
    BY <1>4 DEF Fits
<1>. QED BY <1>2, <1>4, <1>5, OneWorker

LEMMA ProceedState ==
    ASSUME OutboxTypeOK, BatchFits, NEW w \in Workers, Proceed(w)
    PROVE  /\ worker' \in [Workers -> WorkerState]
           /\ BatchFits'
           /\ worker'[w].pc \in {"idle", "dispatch"}
           /\ DOMAIN worker'[w].batch = DOMAIN worker[w].batch \ {Current(w)}
           /\ \A id \in DOMAIN worker'[w].batch :
                worker'[w].batch[id] = worker[w].batch[id]
           /\ \A v \in Workers \ {w} : worker'[v] = worker[v]
<1>1. PICK rest : rest = DOMAIN worker[w].batch \ {Current(w)}
    OBVIOUS
<1>2. PICK b : b = [id \in rest |-> worker[w].batch[id]]
    OBVIOUS
<1>3. PICK r : r = [pc |-> IF rest = {} THEN "idle" ELSE "dispatch",
                    at |-> 0, batch |-> b]
    OBVIOUS
<1>4. worker' = [worker EXCEPT ![w] = r]
    BY <1>1, <1>2, <1>3 DEF Proceed
<1>5. rest \in SUBSET Rows /\ \A id \in rest : worker[w].batch[id] \in Nat \ {0}
    BY <1>1, BatchShape
<1>6. b \in [rest -> Nat \ {0}]
    BY <1>2, <1>5
<1>7. b \in Batches
    BY <1>5, <1>6 DEF Batches
<1>8. /\ r \in WorkerState /\ r.batch = b /\ r.pc \in {"idle", "dispatch"}
      /\ r.pc = "idle" => rest = {}
    BY <1>3, <1>7 DEF WorkerState
<1>9. Fits(r)
    BY <1>6, <1>8 DEF Fits
<1>10. /\ worker' \in [Workers -> WorkerState] /\ BatchFits'
       /\ worker'[w] = r /\ \A v \in Workers \ {w} : worker'[v] = worker[v]
    BY <1>4, <1>8, <1>9, OneWorker
<1>11. DOMAIN b = rest /\ \A id \in rest : b[id] = worker[w].batch[id]
    BY <1>2
<1>. QED BY <1>1, <1>8, <1>10, <1>11

LEMMA CrashState ==
    ASSUME OutboxTypeOK, BatchFits, NEW w \in Workers, Crash(w)
    PROVE  /\ worker' \in [Workers -> WorkerState]
           /\ BatchFits'
           /\ worker'[w].pc = "idle" /\ DOMAIN worker'[w].batch = {}
           /\ \A v \in Workers \ {w} : worker'[v] = worker[v]
<1>1. PICK b : b = [id \in {} |-> 0]
    OBVIOUS
<1>2. b \in Batches /\ DOMAIN b = {}
    BY <1>1 DEF Batches
<1>3. Waiting = [pc |-> "idle", batch |-> b, at |-> 0]
    BY <1>1 DEF Waiting
<1>4. /\ Waiting \in WorkerState /\ Waiting.batch = b
      /\ Waiting.pc = "idle"
    BY <1>2, <1>3 DEF WorkerState
<1>5. Fits(Waiting)
    BY <1>2, <1>4 DEF Fits
<1>6. worker' = [worker EXCEPT ![w] = Waiting]
    BY DEF Crash
<1>. QED BY <1>2, <1>4, <1>5, <1>6, OneWorker

\* What Dispatch does to the worker.
LEMMA DispatchState ==
    ASSUME OutboxInv, NEW w \in Workers, Dispatch(w)
    PROVE  \E id \in DOMAIN worker[w].batch,
              result \in {"succeeded", "erred"} :
                /\ DispatchAdmin(w, id) \/ DispatchUser(w, id)
                /\ Returned(w, id, result)
BY DEF Dispatch, DispatchAdmin, DispatchUser

LEMMA WorkersStep ==
    ASSUME OutboxInv, OutboxNext
    PROVE  /\ worker' \in [Workers -> WorkerState]
           /\ BatchFits'
           /\ Shrunk(worker, worker') \/ \E w \in Workers : ClaimBatch(w)
<1>. USE DEF OutboxInv
<1>1. CASE UNCHANGED worker
    BY <1>1 DEF OutboxTypeOK, BatchFits, Shrunk
<1>2. ASSUME NEW w \in Workers, ClaimBatch(w)
      PROVE  worker' \in [Workers -> WorkerState] /\ BatchFits'
    BY <1>2, ClaimState
<1>3. ASSUME NEW w \in Workers, Dispatch(w)
      PROVE  /\ worker' \in [Workers -> WorkerState] /\ BatchFits'
             /\ Shrunk(worker, worker')
    <2>1. PICK id \in DOMAIN worker[w].batch,
               result \in {"succeeded", "erred"} : Returned(w, id, result)
        BY <1>3, DispatchState
    <2>. QED BY <2>1, ReturnedState DEF Shrunk
<1>4. ASSUME NEW w \in Workers, Finish(w) \/ FinishFails(w)
      PROVE  /\ worker' \in [Workers -> WorkerState] /\ BatchFits'
             /\ Shrunk(worker, worker')
    <2>1. Proceed(w)
        BY <1>4 DEF Finish, FinishFails
    <2>. QED BY <2>1, ProceedState DEF Shrunk
<1>5. ASSUME NEW w \in Workers, Crash(w)
      PROVE  /\ worker' \in [Workers -> WorkerState] /\ BatchFits'
             /\ Shrunk(worker, worker')
    BY <1>5, CrashState DEF Shrunk
<1>. QED BY <1>1, <1>2, <1>3, <1>4, <1>5, WhoChangesWorkers

LEMMA RowsFilledStep ==
    ASSUME OutboxInv, Grown(outbox, outbox')
    PROVE  RowsFilled'
<1>1. SUFFICES ASSUME NEW id \in Rows
               PROVE  IF outbox'[id].status = "free" THEN outbox'[id] = Free
                      ELSE outbox'[id].event.type \in Types
    BY DEF RowsFilled
<1>. QED BY DEF OutboxInv, RowsFilled, Grown, RowFilled, RowKept

LEMMA DeadFilledStep ==
    ASSUME OutboxInv, DeadGrown(dead, dead')
    PROVE  DeadFilled'
BY DEF OutboxInv, DeadFilled, DeadGrown, LetterGrown

\* The count of an entry that somebody holds does not go back.
LEMMA HeldRowGrows ==
    ASSUME OutboxInv, Grown(outbox, outbox'), NEW w \in Workers,
           NEW id \in DOMAIN worker[w].batch
    PROVE  /\ id \in Rows /\ outbox'[id].status # "free"
           /\ outbox'[id].event = outbox[id].event
           /\ outbox[id].attempts \in Nat /\ outbox'[id].attempts \in Nat
           /\ outbox[id].attempts <= outbox'[id].attempts
           /\ worker[w].batch[id] \in Nat /\ 1 <= worker[w].batch[id]
           /\ worker[w].batch[id] <= outbox[id].attempts
<1>1. /\ id \in Rows /\ outbox[id].status # "free"
      /\ outbox[id].attempts \in Nat /\ worker[w].batch[id] \in Nat
      /\ 1 <= worker[w].batch[id] /\ worker[w].batch[id] <= outbox[id].attempts
    BY HeldIsRow DEF OutboxInv
<1>2. outbox'[id].attempts \in Nat
    BY <1>1 DEF Grown, Entry
<1>3. outbox'[id] = outbox[id] \/ RowKept(outbox[id], outbox'[id])
    BY <1>1 DEF Grown, RowFilled
<1>. QED BY <1>1, <1>2, <1>3 DEF RowKept

LEMMA ClaimsStep ==
    ASSUME OutboxInv, Grown(outbox, outbox'),
           Shrunk(worker, worker') \/ \E w \in Workers : ClaimBatch(w)
    PROVE  ClaimsPast' /\ ClaimsDistinct'
<1>1. CASE Shrunk(worker, worker')
    <2>1. ASSUME NEW w \in Workers, NEW id \in DOMAIN worker'[w].batch
          PROVE  worker'[w].batch[id] <= outbox'[id].attempts
        <3>1. /\ id \in DOMAIN worker[w].batch
              /\ worker'[w].batch[id] = worker[w].batch[id]
            BY <1>1 DEF Shrunk
        <3>2. /\ outbox[id].attempts \in Nat /\ outbox'[id].attempts \in Nat
              /\ outbox[id].attempts <= outbox'[id].attempts
              /\ worker[w].batch[id] \in Nat
              /\ worker[w].batch[id] <= outbox[id].attempts
            BY <3>1, HeldRowGrows
        <3>. QED BY <3>1, <3>2
    <2>2. ClaimsDistinct'
        BY <1>1 DEF OutboxInv, ClaimsDistinct, Shrunk
    <2>. QED BY <2>1, <2>2 DEF ClaimsPast
<1>2. ASSUME NEW w \in Workers, ClaimBatch(w)
      PROVE  ClaimsPast' /\ ClaimsDistinct'
    <2>1. /\ DOMAIN worker'[w].batch = Claimable
          /\ \A id \in Claimable :
                worker'[w].batch[id] = outbox[id].attempts + 1
          /\ \A v \in Workers \ {w} : worker'[v] = worker[v]
        BY <1>2, ClaimState DEF OutboxInv
    <2>2. \A id \in Claimable :
            /\ id \in Rows /\ outbox[id].attempts \in Nat
            /\ outbox'[id].attempts = outbox[id].attempts + 1
        <3>1. \A id \in Claimable : id \in Rows
            BY DEF Claimable
        <3>. QED BY <1>2, <3>1, ClaimRows DEF OutboxInv, OutboxTypeOK, Entry
    <2>3. ASSUME NEW v \in Workers, v # w, NEW id \in DOMAIN worker[v].batch
          PROVE  /\ outbox[id].attempts \in Nat /\ outbox'[id].attempts \in Nat
                 /\ outbox[id].attempts <= outbox'[id].attempts
                 /\ worker[v].batch[id] \in Nat
                 /\ worker[v].batch[id] <= outbox[id].attempts
        BY HeldRowGrows
    <2>4. ASSUME NEW v \in Workers, NEW id \in DOMAIN worker'[v].batch
          PROVE  worker'[v].batch[id] <= outbox'[id].attempts
        <3>1. CASE v = w
            BY <2>1, <2>2, <2>4, <3>1
        <3>2. CASE v # w
            <4>1. worker'[v] = worker[v]
                BY <2>1, <3>2
            <4>. QED BY <2>3, <2>4, <3>2, <4>1
        <3>. QED BY <3>1, <3>2
    <2>5. ASSUME NEW v \in Workers, v # w,
                 NEW id \in Claimable \cap DOMAIN worker[v].batch
          PROVE  worker'[w].batch[id] # worker'[v].batch[id]
        <3>1. /\ worker'[w].batch[id] = outbox[id].attempts + 1
              /\ worker'[v] = worker[v]
            BY <2>1, <2>5
        <3>2. /\ outbox[id].attempts \in Nat /\ worker[v].batch[id] \in Nat
              /\ worker[v].batch[id] <= outbox[id].attempts
            BY <2>3, <2>5
        <3>. QED BY <3>1, <3>2
    <2>6. ClaimsDistinct'
        BY <2>1, <2>5 DEF OutboxInv, ClaimsDistinct
    <2>. QED BY <2>4, <2>6 DEF ClaimsPast
<1>. QED BY <1>1, <1>2

-----------------------------------------------------------------------------
\* Every claim is paid for.

LEMMA BelowLimit ==
    ASSUME NEW S \in SUBSET (1 .. MaxAttempts - 1)
    PROVE  /\ IsFiniteSet(S) /\ Cardinality(S) \in Nat
           /\ Cardinality(S) <= MaxAttempts - 1
           /\ \A T \in SUBSET S : Cardinality(T) <= Cardinality(S)
<1>1. MaxAttempts \in Nat /\ MaxAttempts >= 1
    BY OutboxAssumption
<1>2. /\ IsFiniteSet(1 .. MaxAttempts - 1)
      /\ Cardinality(1 .. MaxAttempts - 1) = MaxAttempts - 1
    BY <1>1, FS_Interval
<1>3. IsFiniteSet(S) /\ Cardinality(S) <= MaxAttempts - 1
    BY <1>2, FS_Subset
<1>. QED BY <1>3, FS_Subset, FS_CardinalityType

\* A step that neither claims the entry nor makes it recoverable, or that is
\* a fault.
LEMMA PaidQuietly ==
    ASSUME OutboxInv, OutboxNext, NEW id \in Rows,
           outbox'[id].attempts = outbox[id].attempts,
           Shrunk(worker, worker') \/ id \notin Claimable,
           Shrunk(worker, worker') \/ \E w \in Workers : ClaimBatch(w),
           (Recoverable(id)' => Recoverable(id)) \/ faults' = faults + 1
    PROVE  Paid(id)'
<1>. DEFINE S == Spent(id)
            T == Spent(id)'
<1>1. outbox[id].attempts \in Nat /\ faults \in Nat
    BY DEF OutboxInv, OutboxTypeOK, Entry
<1>2. faults' \in Nat /\ faults' >= faults
    BY FaultsGrow DEF OutboxInv
<1>3. S \subseteq T
    <2>1. CASE Shrunk(worker, worker')
        BY <2>1 DEF Spent, Shrunk
    <2>2. ASSUME NEW w \in Workers, ClaimBatch(w), id \notin Claimable
          PROVE  S \subseteq T
        <3>1. /\ DOMAIN worker'[w].batch = Claimable
              /\ \A v \in Workers \ {w} : worker'[v] = worker[v]
            BY <2>2, ClaimState DEF OutboxInv
        <3>. QED BY <2>2, <3>1 DEF Spent
    <2>. QED BY <2>1, <2>2
<1>4. S \in SUBSET (1 .. MaxAttempts - 1) /\ T \in SUBSET (1 .. MaxAttempts - 1)
    BY DEF Spent
<1>5. Paid(id)
    BY DEF OutboxInv, ClaimsPaid
<1>6. outbox[id].attempts + (IF Recoverable(id) THEN 1 ELSE 0)
      <= 1 + Cardinality(S) + faults
    BY <1>5 DEF Paid
<1>. HIDE DEF S, T
<1>7. /\ Cardinality(S) \in Nat /\ Cardinality(T) \in Nat
      /\ Cardinality(S) <= Cardinality(T)
    BY <1>3, <1>4, BelowLimit
<1>8. outbox'[id].attempts + (IF Recoverable(id)' THEN 1 ELSE 0)
      <= 1 + Cardinality(T) + faults'
    BY <1>1, <1>2, <1>6, <1>7
<1>. QED BY <1>8 DEF Paid, T

\* The entries that a step leaves alone, when the worker states too are
\* unchanged.
LEMMA SameHeld ==
    ASSUME NEW id \in Rows, UNCHANGED worker
    PROVE  /\ Held(id)' <=> Held(id)
           /\ Shrunk(worker, worker')
           /\ outbox'[id] = outbox[id] => (Recoverable(id)' <=> Recoverable(id))
BY DEF Held, Shrunk, Recoverable

LEMMA PaidNew ==
    ASSUME OutboxInv, OutboxNext, NEW id \in Rows, outbox'[id].attempts = 0
    PROVE  Paid(id)'
<1>1. faults' \in Nat
    BY FaultsGrow DEF OutboxInv
<1>. DEFINE T == Spent(id)'
<1>2. T \in SUBSET (1 .. MaxAttempts - 1)
    BY DEF Spent
<1>. HIDE DEF T
<1>3. Cardinality(T) \in Nat
    BY <1>2, BelowLimit
<1>4. outbox'[id].attempts + (IF Recoverable(id)' THEN 1 ELSE 0)
      <= 1 + Cardinality(T) + faults'
    BY <1>1, <1>3
<1>. QED BY <1>4 DEF Paid, T

\* A claim is made of an entry that was pending.
LEMMA PaidClaim ==
    ASSUME OutboxInv, OutboxNext, NEW w \in Workers, ClaimBatch(w),
           NEW id \in Rows
    PROVE  Paid(id)'
<1>1. /\ DOMAIN worker[w].batch = {}
      /\ DOMAIN worker'[w].batch = Claimable
      /\ \A j \in Claimable : worker'[w].batch[j] = outbox[j].attempts + 1
      /\ \A v \in Workers \ {w} : worker'[v] = worker[v]
    BY ClaimState DEF OutboxInv
<1>2. IF id \in Claimable
      THEN /\ outbox[id].status = "pending"
           /\ outbox'[id].status = "processing" /\ ~outbox'[id].stale
           /\ outbox'[id].attempts = outbox[id].attempts + 1
      ELSE outbox'[id] = outbox[id]
    BY ClaimRows DEF OutboxInv
<1>3. CASE id \notin Claimable
    <2>1. Held(id)' <=> Held(id)
        BY <1>1, <1>3 DEF Held
    <2>2. Recoverable(id)' <=> Recoverable(id)
        BY <1>2, <1>3, <2>1 DEF Recoverable
    <2>. QED BY <1>2, <1>3, <2>2, PaidQuietly
<1>4. CASE id \in Claimable
    <2>. DEFINE S == Spent(id)
                T == Spent(id)'
    <2>1. outbox[id].attempts \in Nat /\ faults \in Nat
        BY DEF OutboxInv, OutboxTypeOK, Entry
    <2>2. faults' \in Nat /\ faults' >= faults
        BY FaultsGrow DEF OutboxInv
    <2>3. Held(id)'
        BY <1>1, <1>4 DEF Held
    <2>4. ~Recoverable(id)'
        BY <1>2, <1>4, <2>3 DEF Recoverable
    <2>5. Recoverable(id)
        BY <1>2, <1>4 DEF Recoverable
    <2>6. S \subseteq T
        <3>1. SUFFICES ASSUME NEW a \in S
                       PROVE  a \in T
            OBVIOUS
        <3>2. /\ a \in 1 .. MaxAttempts - 1 /\ a \in Nat
              /\ a <= outbox[id].attempts
              /\ \A v \in Workers : id \in DOMAIN worker[v].batch
                                      => worker[v].batch[id] # a
            BY OutboxAssumption DEF Spent
        <3>3. a <= outbox'[id].attempts /\ worker'[w].batch[id] # a
            BY <1>1, <1>2, <1>4, <2>1, <3>2
        <3>4. \A v \in Workers : id \in DOMAIN worker'[v].batch
                                   => worker'[v].batch[id] # a
            BY <1>1, <3>2, <3>3
        <3>. QED BY <3>2, <3>3, <3>4 DEF Spent
    <2>7. /\ S \in SUBSET (1 .. MaxAttempts - 1)
          /\ T \in SUBSET (1 .. MaxAttempts - 1)
        BY DEF Spent
    <2>8. outbox[id].attempts + 1 <= 1 + Cardinality(S) + faults
        BY <2>5 DEF OutboxInv, ClaimsPaid, Paid
    <2>. HIDE DEF S, T
    <2>9. /\ Cardinality(S) \in Nat /\ Cardinality(T) \in Nat
          /\ Cardinality(S) <= Cardinality(T)
        BY <2>6, <2>7, BelowLimit
    <2>10. outbox'[id].attempts + 0 <= 1 + Cardinality(T) + faults'
        BY <1>2, <1>4, <2>1, <2>2, <2>8, <2>9
    <2>. QED BY <2>4, <2>10 DEF Paid, T
<1>. QED BY <1>3, <1>4

\* A retry uses up a claim below the limit, which no other worker holds.
LEMMA PaidRetry ==
    ASSUME OutboxInv, OutboxNext, NEW w \in Workers, Proceed(w),
           NEW id \in Rows, id = Current(w),
           id \in DOMAIN worker[w].batch, ~Exhausted(w),
           outbox'[id].attempts = outbox[id].attempts
    PROVE  Paid(id)'
<1>. DEFINE S == Spent(id)
            T == Spent(id)'
<1>1. PICK a : a = worker[w].batch[id]
    OBVIOUS
<1>2. /\ outbox[id].attempts \in Nat
      /\ a \in Nat /\ 1 <= a /\ a <= outbox[id].attempts
    BY <1>1, HeldIsRow DEF OutboxInv
<1>3. a \in 1 .. MaxAttempts - 1
    BY <1>1, <1>2, OutboxAssumption DEF Exhausted
<1>4. /\ DOMAIN worker'[w].batch = DOMAIN worker[w].batch \ {id}
      /\ \A v \in Workers \ {w} : worker'[v] = worker[v]
    BY ProceedState DEF OutboxInv
<1>5. \A v \in Workers \ {w} :
        id \in DOMAIN worker[v].batch => worker[v].batch[id] # a
    BY <1>1 DEF OutboxInv, ClaimsDistinct
<1>6. S \cup {a} \subseteq T
    <2>1. \A v \in Workers : id \in DOMAIN worker'[v].batch
                               => v # w /\ worker'[v] = worker[v]
        BY <1>4
    <2>2. a \in T
        BY <1>2, <1>3, <1>5, <2>1 DEF Spent
    <2>3. S \subseteq T
        BY <2>1 DEF Spent
    <2>. QED BY <2>2, <2>3
<1>7. a \notin S
    BY <1>1 DEF Spent
<1>8. /\ S \in SUBSET (1 .. MaxAttempts - 1)
      /\ T \in SUBSET (1 .. MaxAttempts - 1)
    BY DEF Spent
<1>9. faults \in Nat /\ faults' \in Nat /\ faults' >= faults
    BY FaultsGrow DEF OutboxInv, OutboxTypeOK
<1>10. outbox[id].attempts + (IF Recoverable(id) THEN 1 ELSE 0)
       <= 1 + Cardinality(S) + faults
    BY DEF OutboxInv, ClaimsPaid, Paid
<1>. HIDE DEF S, T
<1>11. /\ IsFiniteSet(S) /\ Cardinality(S) \in Nat /\ Cardinality(T) \in Nat
       /\ Cardinality(S \cup {a}) <= Cardinality(T)
    BY <1>6, <1>8, BelowLimit
<1>12. Cardinality(S \cup {a}) = Cardinality(S) + 1
    BY <1>7, <1>11, FS_AddElement
<1>13. outbox'[id].attempts + (IF Recoverable(id)' THEN 1 ELSE 0)
       <= 1 + Cardinality(T) + faults'
    BY <1>2, <1>9, <1>10, <1>11, <1>12
<1>. QED BY <1>13 DEF Paid, T

LEMMA PaidFinish ==
    ASSUME OutboxInv, OutboxNext, NEW w \in Workers, Finish(w),
           NEW id \in Rows
    PROVE  Paid(id)'
<1>1. Proceed(w)
    BY DEF Finish
<1>2. /\ DOMAIN worker'[w].batch = DOMAIN worker[w].batch \ {Current(w)}
      /\ \A j \in DOMAIN worker'[w].batch :
            worker'[w].batch[j] = worker[w].batch[j]
      /\ \A v \in Workers \ {w} : worker'[v] = worker[v]
    BY <1>1, ProceedState DEF OutboxInv
<1>3. Shrunk(worker, worker')
    BY <1>2 DEF Shrunk
<1>4. /\ Current(w) \in DOMAIN worker[w].batch /\ Current(w) \in Rows
      /\ \/ \E s \in {"done", "failed", "purged"} :
                RowSet(outbox, outbox', Current(w), s, FALSE)
         \/ /\ ~Exhausted(w)
            /\ \/ outbox' = outbox
               \/ RowSet(outbox, outbox', Current(w), "pending", FALSE)
    BY SettleRow DEF OutboxInv
<1>5. CASE id # Current(w)
    <2>1. outbox'[id] = outbox[id]
        BY <1>4, <1>5 DEF RowSet
    <2>2. Held(id)' <=> Held(id)
        BY <1>2, <1>5 DEF Held
    <2>3. Recoverable(id)' <=> Recoverable(id)
        BY <2>1, <2>2 DEF Recoverable
    <2>. QED BY <1>3, <2>1, <2>3, PaidQuietly
<1>6. CASE id = Current(w)
    <2>1. outbox'[id].attempts = outbox[id].attempts
        BY <1>4, <1>6 DEF RowSet
    <2>2. CASE outbox'[id].status \in {"done", "failed", "purged"}
        <3>1. ~Recoverable(id)'
            BY <2>2 DEF Recoverable
        <3>. QED BY <1>3, <2>1, <3>1, PaidQuietly
    <2>3. CASE ~Exhausted(w)
        BY <1>1, <1>4, <1>6, <2>1, <2>3, PaidRetry
    <2>. QED BY <1>4, <1>6, <2>2, <2>3 DEF RowSet
<1>. QED BY <1>5, <1>6

\* A step whose fault pays for whatever it leaves behind.
LEMMA PaidFault ==
    ASSUME OutboxInv, OutboxNext, Shrunk(worker, worker'), Fault,
           NEW id \in Rows, outbox'[id].attempts = outbox[id].attempts
    PROVE  Paid(id)'
BY PaidQuietly DEF Fault

LEMMA ClaimsPaidStep ==
    ASSUME OutboxInv, OutboxNext
    PROVE  ClaimsPaid'
<1>. SUFFICES ASSUME NEW id \in Rows
              PROVE  Paid(id)'
    BY DEF ClaimsPaid
<1>1. CASE Writes
    <2>1. Filled(outbox, outbox') /\ UNCHANGED worker
        BY <1>1, WritersFill
    <2>2. CASE outbox'[id] = outbox[id]
        BY <2>1, <2>2, SameHeld, PaidQuietly
    <2>3. CASE RowFilled(outbox[id], outbox'[id])
        BY <2>3, PaidNew DEF RowFilled
    <2>. QED BY <2>1, <2>2, <2>3 DEF Filled
<1>2. ASSUME NEW j \in Rows,
             PurgeOldOutboxEntries(j) \/ BecomeDue(j) \/ Lapse(j)
      PROVE  Paid(id)'
    <2>1. UNCHANGED worker
        BY <1>2 DEF PurgeOldOutboxEntries, BecomeDue, Lapse
    <2>2. /\ \/ /\ RowSet(outbox, outbox', j, "purged", outbox[j].stale)
               /\ PurgeOldOutboxEntries(j)
            \/ /\ RowSet(outbox, outbox', j, "pending", outbox[j].stale)
               /\ BecomeDue(j) /\ outbox[j].status = "pending"
            \/ /\ RowSet(outbox, outbox', j, "processing", TRUE)
               /\ Lapse(j) /\ outbox[j].status = "processing"
        BY <1>2, TimeRow DEF OutboxInv
    <2>3. CASE id # j
        <3>1. outbox'[id] = outbox[id]
            BY <2>2, <2>3 DEF RowSet
        <3>. QED BY <2>1, <3>1, SameHeld, PaidQuietly
    <2>4. CASE id = j
        <3>1. outbox'[id].attempts = outbox[id].attempts
            BY <2>2, <2>4 DEF RowSet
        <3>2. (Recoverable(id)' => Recoverable(id)) \/ faults' = faults + 1
            <4>1. CASE outbox'[j].status = "purged"
                BY <2>4, <4>1 DEF Recoverable
            <4>2. CASE outbox[j].status = "pending"
                BY <2>4, <4>2 DEF Recoverable
            <4>3. CASE Lapse(j) /\ outbox[j].status = "processing"
                BY <2>4, <4>3 DEF Lapse, Fault, Recoverable
            <4>. QED BY <2>2, <4>1, <4>2, <4>3 DEF RowSet
        <3>. QED BY <2>1, <3>1, <3>2, SameHeld, PaidQuietly
    <2>. QED BY <2>3, <2>4
<1>3. ASSUME NEW w \in Workers, Unlock(w)
      PROVE  Paid(id)'
    <2>1. UNCHANGED worker /\ UnlockStale
        BY <1>3 DEF Unlock
    <2>2. /\ outbox'[id].attempts = outbox[id].attempts
          /\ \/ outbox'[id] = outbox[id]
             \/ outbox[id].status = "processing" /\ outbox[id].stale
        BY <2>1, UnlockRows DEF OutboxInv
    <2>3. Recoverable(id)' => Recoverable(id)
        <3>1. CASE outbox'[id] = outbox[id]
            BY <2>1, <3>1, SameHeld
        <3>2. CASE outbox[id].status = "processing" /\ outbox[id].stale
            BY <3>2 DEF Recoverable
        <3>. QED BY <2>2, <3>1, <3>2
    <2>. QED BY <2>1, <2>2, <2>3, SameHeld, PaidQuietly
<1>4. ASSUME NEW w \in Workers, ClaimBatch(w)
      PROVE  Paid(id)'
    BY <1>4, PaidClaim
<1>5. ASSUME NEW w \in Workers, Dispatch(w)
      PROVE  Paid(id)'
    <2>1. PICK j \in DOMAIN worker[w].batch,
               result \in {"succeeded", "erred"} : Returned(w, j, result)
        BY <1>5, DispatchState
    <2>2. \A v \in Workers : worker'[v].batch = worker[v].batch
        BY <2>1, ReturnedState DEF OutboxInv
    <2>3. Shrunk(worker, worker') /\ (Held(id)' <=> Held(id))
        BY <2>2 DEF Shrunk, Held
    <2>4. outbox' = outbox
        BY <1>5 DEF Dispatch
    <2>5. Recoverable(id)' => Recoverable(id)
        BY <2>3, <2>4 DEF Recoverable
    <2>. QED BY <2>3, <2>4, <2>5, PaidQuietly
<1>6. ASSUME NEW w \in Workers, Finish(w)
      PROVE  Paid(id)'
    BY <1>6, PaidFinish
<1>7. ASSUME NEW w \in Workers, FinishFails(w)
      PROVE  Paid(id)'
    <2>1. Fault /\ Proceed(w) /\ outbox' = outbox
        BY <1>7 DEF FinishFails
    <2>2. Shrunk(worker, worker')
        BY <2>1, ProceedState DEF Shrunk, OutboxInv
    <2>. QED BY <2>1, <2>2, PaidFault
<1>8. ASSUME NEW w \in Workers, Crash(w)
      PROVE  Paid(id)'
    <2>1. Fault /\ outbox' = outbox
        BY <1>8 DEF Crash
    <2>2. Shrunk(worker, worker')
        BY <1>8, CrashState DEF Shrunk, OutboxInv
    <2>. QED BY <2>1, <2>2, PaidFault
<1>9. CASE UNCHANGED <<outbox, worker>>
    BY <1>9, SameHeld, PaidQuietly
<1>10. ASSUME NEW w \in Replayers,
              (\E d \in Dead : ClaimDead(w, d)) \/ ReplayFails(w)
              \/ MarkResolved(w)
       PROVE  Paid(id)'
    BY <1>9, <1>10 DEF ClaimDead, ReplayFails, MarkResolved
<1>11. ASSUME NEW d \in Dead, Resolve(d)
       PROVE  Paid(id)'
    BY <1>9, <1>11 DEF Resolve
<1>. QED BY <1>1, <1>2, <1>3, <1>4, <1>5, <1>6, <1>7, <1>8, <1>10, <1>11
         DEF OutboxNext, Writes

-----------------------------------------------------------------------------
\* Delivery.

Reached(id) ==
    outbox[id].event.type \notin AdminTypes
    => \A u \in Recipients[outbox[id].event.type] : inbox[id][u] = 1

LEMMA ReachedStays ==
    ASSUME OutboxInv, Grown(outbox, outbox'), InboxGrown(inbox, inbox'),
           NEW id \in Rows, outbox[id].status # "free", Reached(id)
    PROVE  Reached(id)'
<1>1. outbox'[id].event = outbox[id].event
    BY DEF Grown, RowFilled, RowKept
<1>2. outbox[id].event.type \in Types
    BY DEF OutboxInv, RowsFilled
<1>3. CASE outbox[id].event.type \notin AdminTypes
    <2>1. Recipients[outbox[id].event.type] \subseteq Users
        BY <1>2, <1>3, OutboxAssumption
    <2>2. \A u \in Recipients[outbox[id].event.type] : inbox[id][u] = 1
        BY <1>3 DEF Reached
    <2>3. \A u \in Recipients[outbox[id].event.type] : inbox'[id][u] = 1
        BY <2>1, <2>2 DEF InboxGrown
    <2>. QED BY <1>1, <2>3 DEF Reached
<1>4. CASE outbox[id].event.type \in AdminTypes
    BY <1>1, <1>4 DEF Reached
<1>. QED BY <1>3, <1>4

LEMMA SuccessStep ==
    ASSUME OutboxInv, OutboxNext, Grown(outbox, outbox'),
           InboxGrown(inbox, inbox')
    PROVE  SuccessReachedAll'
<1>1. SUFFICES ASSUME NEW w \in Workers, worker'[w].pc = "succeeded"
               PROVE  outbox'[worker'[w].at].event.type \notin AdminTypes
                      => \A u \in Recipients[outbox'[worker'[w].at].event.type] :
                            inbox'[worker'[w].at][u] = 1
    BY DEF SuccessReachedAll
<1>2. SUFFICES ASSUME NEW id, id = worker'[w].at
               PROVE  Reached(id)'
    BY DEF Reached
<1>3. CASE worker'[w] = worker[w]
    <2>1. id \in DOMAIN worker[w].batch
        BY <1>1, <1>2, <1>3 DEF OutboxInv, BatchFits, Fits
    <2>2. id \in Rows /\ outbox[id].status # "free"
        BY <2>1, HeldIsRow DEF OutboxInv
    <2>3. Reached(id)
        BY <1>1, <1>2, <1>3 DEF OutboxInv, SuccessReachedAll, Reached
    <2>. QED BY <2>2, <2>3, ReachedStays
<1>4. ASSUME NEW v \in Workers, Dispatch(v)
      PROVE  Reached(id)'
    <2>1. PICK j \in DOMAIN worker[v].batch,
               result \in {"succeeded", "erred"} :
                /\ DispatchAdmin(v, j) \/ DispatchUser(v, j)
                /\ Returned(v, j, result)
        BY <1>4, DispatchState
    <2>2. /\ worker'[v].pc = result /\ worker'[v].at = j
          /\ \A x \in Workers \ {v} : worker'[x] = worker[x]
        BY <2>1, ReturnedState DEF OutboxInv
    <2>3. CASE w # v
        BY <1>3, <2>2, <2>3
    <2>4. CASE w = v
        <3>1. id = j /\ j \in Rows /\ outbox' = outbox
            BY <1>2, <1>4, <2>2, <2>4, DispatchedEvent DEF Dispatch
        <3>2. outbox[j].event.type \in Types
            BY DispatchedEvent
        <3>3. CASE DispatchAdmin(v, j)
            BY <3>1, <3>3 DEF DispatchAdmin, Reached
        <3>4. CASE DispatchUser(v, j)
            <4>. DEFINE all == Recipients[outbox[j].event.type]
            <4>1. PICK us \in SUBSET all :
                    /\ inbox' = [inbox EXCEPT ![j] = Shown(j, us)]
                    /\ Returned(v, j, IF AllReached(us, all)
                                      THEN "succeeded" ELSE "erred")
                BY <3>4 DEF DispatchUser
            <4>2. AllReached(us, all)
                <5>1. worker'[v].pc = IF AllReached(us, all)
                                      THEN "succeeded" ELSE "erred"
                    BY <4>1, ReturnedState DEF OutboxInv
                <5>. QED BY <1>1, <2>4, <5>1
            <4>3. all \subseteq Users
                BY <3>2, <3>4, OutboxAssumption DEF DispatchUser
            <4>4. us = all
                BY <4>2 DEF AllReached
            <4>5. \A u \in all : inbox'[j][u] = 1
                BY <3>1, <4>1, <4>3, <4>4, ShownOnce DEF OutboxInv
            <4>. QED BY <3>1, <4>5 DEF Reached
        <3>. QED BY <2>1, <3>3, <3>4
    <2>. QED BY <2>3, <2>4
<1>5. ASSUME NEW v \in Workers,
             ClaimBatch(v) \/ Finish(v) \/ FinishFails(v) \/ Crash(v)
      PROVE  Reached(id)'
    <2>1. /\ worker'[v].pc # "succeeded"
          /\ \A x \in Workers \ {v} : worker'[x] = worker[x]
        <3>1. CASE ClaimBatch(v)
            BY <3>1, ClaimState DEF OutboxInv
        <3>2. CASE Finish(v) \/ FinishFails(v)
            BY <3>2, ProceedState DEF OutboxInv, Finish, FinishFails
        <3>3. CASE Crash(v)
            BY <3>3, CrashState DEF OutboxInv
        <3>. QED BY <1>5, <3>1, <3>2, <3>3
    <2>2. w # v
        BY <1>1, <2>1
    <2>. QED BY <1>3, <2>1, <2>2
<1>. QED BY <1>3, <1>4, <1>5, WhoChangesWorkers

\* Only MarkDone makes an entry done.
LEMMA DoneByWorker ==
    ASSUME OutboxInv, OutboxNext, NEW id \in Rows,
           outbox'[id].status = "done", outbox[id].status # "done"
    PROVE  \E w \in Workers : /\ worker[w].pc = "succeeded"
                              /\ id = worker[w].at
<1>1. ASSUME NEW w \in Workers, Finish(w)
      PROVE  /\ worker[w].pc = "succeeded" /\ id = Current(w)
    <2>1. /\ Current(w) \in Rows
          /\ \/ worker[w].pc = "succeeded"
             \/ \E s \in {"failed", "purged", "pending"} :
                    RowSet(outbox, outbox', Current(w), s, FALSE)
             \/ outbox' = outbox
        BY <1>1, SettleRow DEF OutboxInv
    <2>2. worker[w].pc = "succeeded"
        BY <2>1 DEF RowSet
    <2>3. \E s \in {"done", "purged"} :
                RowSet(outbox, outbox', Current(w), s, FALSE)
        BY <1>1, <2>2, SettleRow DEF OutboxInv
    <2>. QED BY <2>2, <2>3 DEF RowSet
<1>2. ASSUME NEW j \in Rows,
             PurgeOldOutboxEntries(j) \/ BecomeDue(j) \/ Lapse(j)
      PROVE  FALSE
    <2>1. \E b : \E s \in {"purged", "pending", "processing"} :
                RowSet(outbox, outbox', j, s, b)
        BY <1>2, TimeRow DEF OutboxInv
    <2>. QED BY <2>1 DEF RowSet
<1>3. CASE Writes
    BY <1>3, WritersFill DEF Filled, RowFilled
<1>4. ASSUME NEW w \in Workers, Unlock(w)
      PROVE  FALSE
    BY <1>4, UnlockRows DEF OutboxInv, Unlock
<1>5. ASSUME NEW w \in Workers, ClaimBatch(w)
      PROVE  FALSE
    BY <1>5, ClaimRows DEF OutboxInv
<1>. QED BY <1>1, <1>2, <1>3, <1>4, <1>5, WhoChangesOutbox
         DEF Writes, Current

LEMMA DoneStep ==
    ASSUME OutboxInv, OutboxNext, Grown(outbox, outbox'),
           InboxGrown(inbox, inbox')
    PROVE  DoneReachedAll'
<1>1. \A id \in Rows, u \in Users : inbox'[id][u] <= 1
    BY DEF InboxGrown
<1>2. ASSUME NEW id \in Rows, outbox'[id].status = "done"
      PROVE  Reached(id)'
    <2>1. CASE outbox[id].status = "done"
        <3>1. Reached(id)
            BY <2>1 DEF OutboxInv, DoneReachedAll, Reached
        <3>. QED BY <2>1, <3>1, ReachedStays
    <2>2. CASE outbox[id].status # "done"
        <3>1. PICK w \in Workers : /\ worker[w].pc = "succeeded"
                                   /\ id = worker[w].at
            BY <1>2, <2>2, DoneByWorker
        <3>2. id \in DOMAIN worker[w].batch
            BY <3>1 DEF OutboxInv, BatchFits, Fits
        <3>3. outbox[id].status # "free"
            BY <3>2, HeldIsRow DEF OutboxInv
        <3>4. Reached(id)
            BY <3>1 DEF OutboxInv, SuccessReachedAll, Reached
        <3>. QED BY <3>3, <3>4, ReachedStays
    <2>. QED BY <2>1, <2>2
<1>. QED BY <1>1, <1>2 DEF DoneReachedAll, Reached

-----------------------------------------------------------------------------
\* Reminders.

LEMMA PurgedByPurge ==
    ASSUME OutboxInv, OutboxNext, NEW id \in Rows,
           outbox'[id].status = "purged", outbox[id].status # "purged"
    PROVE  PurgeOldOutboxEntries(id)
<1>1. ASSUME NEW w \in Workers, Finish(w)
      PROVE  FALSE
    <2>1. /\ Current(w) \in Rows
          /\ \/ \E s \in {"done", "failed", "purged"} :
                    /\ RowSet(outbox, outbox', Current(w), s, FALSE)
                    /\ s = "purged" <=> outbox[Current(w)].status = "purged"
             \/ RowSet(outbox, outbox', Current(w), "pending", FALSE)
             \/ outbox' = outbox
        BY <1>1, SettleRow DEF OutboxInv
    <2>. QED BY <2>1 DEF RowSet
<1>2. ASSUME NEW j \in Rows,
             PurgeOldOutboxEntries(j) \/ BecomeDue(j) \/ Lapse(j)
      PROVE  PurgeOldOutboxEntries(id)
    <2>1. CASE PurgeOldOutboxEntries(j)
        <3>1. \A i \in Rows \ {j} : outbox'[i] = outbox[i]
            BY <2>1, TimeRow DEF OutboxInv, RowSet
        <3>. QED BY <2>1, <3>1
    <2>2. CASE BecomeDue(j) \/ Lapse(j)
        <3>1. \E b : \E s \in {"pending", "processing"} :
                    RowSet(outbox, outbox', j, s, b)
            BY <2>2, TimeRow DEF OutboxInv
        <3>. QED BY <3>1 DEF RowSet
    <2>. QED BY <1>2, <2>1, <2>2
<1>3. CASE Writes
    BY <1>3, WritersFill DEF Filled, RowFilled
<1>4. ASSUME NEW w \in Workers, Unlock(w)
      PROVE  FALSE
    BY <1>4, UnlockRows DEF OutboxInv, Unlock
<1>5. ASSUME NEW w \in Workers, ClaimBatch(w)
      PROVE  FALSE
    BY <1>5, ClaimRows DEF OutboxInv
<1>. QED BY <1>1, <1>2, <1>3, <1>4, <1>5, WhoChangesOutbox DEF Writes

\* The entry of a reminder keeps its key.
LEMMA KeyStays ==
    ASSUME OutboxInv, Grown(outbox, outbox'), NEW id \in Rows,
           NEW k \in Keys, outbox[id].key = k
    PROVE  outbox'[id].key = k
<1>1. k # NoKey /\ Free.key = NoKey
    BY OutboxAssumption DEF Free
<1>2. outbox[id].status # "free"
    BY <1>1 DEF OutboxInv, RowsFilled
<1>. QED BY <1>2 DEF Grown, RowFilled, RowKept

LEMMA ReminderStep ==
    ASSUME OutboxInv, OutboxNext, Grown(outbox, outbox')
    PROVE  /\ window' \subseteq Keys /\ written' \in [Keys -> Nat]
           /\ ReminderKept'
<1>1. window \subseteq Keys /\ written \in [Keys -> Nat]
    BY DEF OutboxInv, OutboxTypeOK
<1>2. ASSUME NEW k \in Keys, written[k] = 1, k \in window, k \in window'
      PROVE  \E id \in Rows : outbox'[id].key = k /\ outbox'[id].status # "purged"
    <2>1. PICK id \in Rows : outbox[id].key = k /\ outbox[id].status # "purged"
        BY <1>2 DEF OutboxInv, ReminderKept
    <2>2. outbox'[id].key = k
        BY <2>1, KeyStays
    <2>3. outbox'[id].status # "purged"
        <3>1. SUFFICES ASSUME outbox'[id].status = "purged"
                       PROVE  FALSE
            OBVIOUS
        <3>2. PurgeOldOutboxEntries(id)
            BY <2>1, <3>1, PurgedByPurge
        <3>3. window' = window \ {k}
            BY <2>1, <3>2 DEF PurgeOldOutboxEntries
        <3>. QED BY <1>2, <3>3
    <2>. QED BY <2>2, <2>3
<1>3. \A k \in Keys : written[k] <= 1
    BY DEF OutboxInv, ReminderKept
<1>4. CASE UNCHANGED <<window, written>>
    BY <1>1, <1>2, <1>3, <1>4 DEF ReminderKept
<1>5. ASSUME NEW id \in Rows, PurgeOldOutboxEntries(id)
      PROVE  /\ window' \subseteq Keys /\ written' \in [Keys -> Nat]
             /\ ReminderKept'
    <2>1. window' \subseteq window /\ written' = written
        BY <1>5 DEF PurgeOldOutboxEntries
    <2>. QED BY <1>1, <1>2, <1>3, <2>1 DEF ReminderKept
<1>6. ASSUME NEW k \in Keys, RunReminderJob(k)
      PROVE  /\ window' \subseteq Keys /\ written' \in [Keys -> Nat]
             /\ ReminderKept'
    <2>1. /\ window' = window /\ k \in window /\ HasSpace(1)
          /\ outbox' = Inserted(outbox, KeyEvent[k], k)
          /\ written' = [written EXCEPT
                ![k] = @ + (IF Conflict(outbox, KeyEvent[k], k) THEN 0 ELSE 1)]
        BY <1>6 DEF RunReminderJob, WriteDedup
    <2>2. CASE Conflict(outbox, KeyEvent[k], k)
        <3>1. written' = written
            BY <1>1, <2>1, <2>2
        <3>. QED BY <1>1, <1>2, <1>3, <2>1, <3>1 DEF ReminderKept
    <2>3. CASE ~Conflict(outbox, KeyEvent[k], k)
        <3>1. \A id \in Rows : outbox[id].key = k => outbox[id].status = "purged"
            BY <2>3, OutboxAssumption DEF Conflict
        <3>2. written[k] = 0
            BY <1>1, <1>3, <2>1, <3>1 DEF OutboxInv, ReminderKept
        <3>3. /\ written' \in [Keys -> Nat] /\ written'[k] = 1
              /\ \A j \in Keys \ {k} : written'[j] = written[j]
            BY <1>1, <2>1, <2>3, <3>2
        <3>4. \E id \in Rows : outbox'[id].key = k /\ outbox'[id].status = "pending"
            <4>1. outbox \in [Rows -> Entry]
                BY DEF OutboxInv, OutboxTypeOK
            <4>. QED BY <2>1, <2>3, <4>1, SpaceIsRow, ServiceEvents, InsertFills
                     DEF OutboxInv
        <3>5. \A j \in Keys : written'[j] <= 1
            BY <1>3, <3>3
        <3>6. ASSUME NEW j \in Keys, written'[j] = 1, j \in window'
              PROVE  \E id \in Rows :
                        outbox'[id].key = j /\ outbox'[id].status # "purged"
            BY <1>2, <2>1, <3>3, <3>4, <3>6
        <3>. QED BY <1>1, <2>1, <3>3, <3>5, <3>6 DEF ReminderKept
    <2>. QED BY <2>2, <2>3
<1>. QED BY <1>4, <1>5, <1>6, WhoChangesReminders

-----------------------------------------------------------------------------
\* Dead letters.

\* What was replayed stays in the outbox.
LEMMA ReplayedStays ==
    ASSUME OutboxInv, Grown(outbox, outbox'), DeadGrown(dead, dead'),
           NEW d \in Dead, dead[d].state # "free", Replayed(d)
    PROVE  Replayed(d)'
<1>1. PICK id \in Rows : outbox[id].event = ReplayEvent(d)
    BY DEF Replayed
<1>2. dead'[d].event = dead[d].event
    BY DEF DeadGrown, LetterGrown
<1>3. outbox[id].status # "free"
    <2>1. outbox[id].event.about = d /\ d # 0
        BY <1>1, OutboxAssumption DEF ReplayEvent, Dead
    <2>2. Free.event.about = 0
        BY DEF Free
    <2>. QED BY <2>1, <2>2 DEF OutboxInv, RowsFilled
<1>4. outbox'[id].event = outbox[id].event
    BY <1>3 DEF Grown, RowFilled, RowKept
<1>5. outbox'[id].event = [type |-> dead'[d].event.type, about |-> d]
    BY <1>1, <1>2, <1>4 DEF ReplayEvent
<1>. QED BY <1>5 DEF Replayed, ReplayEvent

\* The entry that DLQWorker writes, or the pending one that is in its way.
LEMMA ReplayWritten ==
    ASSUME OutboxInv, NEW w \in Replayers, WriteReplay(w),
           NEW d \in Dead, d = replay[w].of
    PROVE  Replayed(d)'
<1>1. /\ outbox' = Inserted(outbox, ReplayEvent(d), NoKey)
      /\ dead' = dead /\ HasSpace(1)
    BY DEF WriteReplay, ReplayDead
<1>2. ReplayEvent(d) \in AnyEvent /\ ReplayEvent(d).type \in Types
    BY ReplayedEvent DEF OutboxInv, WriteReplay
<1>3. /\ outbox \in [Rows -> Entry] /\ NoKey \in Keys \cup {NoKey}
      /\ \E id \in Rows : outbox[id].status = "free"
    BY <1>1, SpaceIsRow DEF OutboxInv, OutboxTypeOK
<1>4. \E id \in Rows : outbox'[id].event = ReplayEvent(d)
    <2>1. CASE Conflict(outbox, ReplayEvent(d), NoKey)
        BY <1>1, <1>2, <1>3, <2>1, InsertFills DEF Conflict
    <2>2. CASE ~Conflict(outbox, ReplayEvent(d), NoKey)
        BY <1>1, <1>2, <1>3, <2>2, InsertFills
    <2>. QED BY <2>1, <2>2
<1>. QED BY <1>1, <1>4 DEF Replayed, ReplayEvent

LEMMA RealStays ==
    ASSUME OutboxInv, Grown(outbox, outbox'), DeadGrown(dead, dead'),
           NEW v \in Replayers, replay'[v] = replay[v]
    PROVE  RealReplay(v)'
<1>1. CASE replay[v].pc = "idle"
    BY <1>1 DEF RealReplay
<1>2. CASE replay[v].pc # "idle"
    <2>1. PICK d : d = replay[v].of
        OBVIOUS
    <2>2. /\ d \in Dead /\ dead[d].state # "free"
          /\ replay[v].pc = "resolve" => Replayed(d)
        BY <1>2, <2>1 DEF OutboxInv, ReplayReal, RealReplay
    <2>3. dead'[d].state # "free"
        BY <2>2 DEF DeadGrown, LetterGrown
    <2>4. replay[v].pc = "resolve" => Replayed(d)'
        BY <2>2, ReplayedStays
    <2>5. replay'[v].of = d
        BY <2>1
    <2>. QED BY <2>2, <2>3, <2>4, <2>5 DEF RealReplay, Replayed, ReplayEvent
<1>. QED BY <1>1, <1>2

LEMMA ReplayStep ==
    ASSUME OutboxInv, OutboxNext, Grown(outbox, outbox'),
           DeadGrown(dead, dead')
    PROVE  /\ replay' \in [Replayers -> [pc : {"idle", "write", "resolve"},
                                         of : Dead \cup {0}]]
           /\ ReplayReal'
<1>. DEFINE State == [pc : {"idle", "write", "resolve"}, of : Dead \cup {0}]
<1>1. replay \in [Replayers -> State]
    BY DEF OutboxInv, OutboxTypeOK
<1>2. NoReplay \in State /\ NoReplay.pc = "idle"
    BY DEF NoReplay
<1>3. SUFFICES /\ replay' \in [Replayers -> State]
               /\ \A v \in Replayers : RealReplay(v)'
    BY DEF ReplayReal, RealReplay
<1>4. CASE UNCHANGED replay
    BY <1>1, <1>4, RealStays
<1>5. ASSUME NEW w \in Workers, Crash(w)
      PROVE  /\ replay' \in [Replayers -> State]
             /\ \A v \in Replayers : RealReplay(v)'
    <2>1. replay' = [v \in Replayers |-> IF v = w THEN NoReplay ELSE replay[v]]
        BY <1>5 DEF Crash
    <2>2. replay' \in [Replayers -> State]
        BY <1>1, <1>2, <2>1
    <2>3. ASSUME NEW v \in Replayers
          PROVE  RealReplay(v)'
        <3>1. CASE v = w
            BY <1>2, <2>1, <3>1 DEF RealReplay
        <3>2. CASE v # w
            BY <2>1, <3>2, RealStays
        <3>. QED BY <3>1, <3>2
    <2>. QED BY <2>2, <2>3
<1>6. ASSUME NEW w \in Replayers, NEW r \in State,
             replay' = [replay EXCEPT ![w] = r],
             r.pc = "idle" \/ RealReplay(w)'
      PROVE  /\ replay' \in [Replayers -> State]
             /\ \A v \in Replayers : RealReplay(v)'
    <2>1. /\ replay' \in [Replayers -> State] /\ replay'[w] = r
          /\ \A v \in Replayers \ {w} : replay'[v] = replay[v]
        BY <1>1, <1>6
    <2>2. RealReplay(w)'
        BY <1>6, <2>1 DEF RealReplay
    <2>. QED BY <2>1, <2>2, RealStays
<1>. HIDE DEF State
<1>7. ASSUME NEW w \in Replayers, NEW d \in Dead, ClaimDead(w, d)
      PROVE  /\ replay' \in [Replayers -> State]
             /\ \A v \in Replayers : RealReplay(v)'
    <2>1. PICK r : r = [pc |-> "write", of |-> d]
        OBVIOUS
    <2>2. replay' = [replay EXCEPT ![w] = r] /\ dead' = dead
          /\ dead[d].state = "open"
        BY <1>7, <2>1 DEF ClaimDead
    <2>3. r \in State /\ r.pc = "write" /\ r.of = d
        BY <2>1 DEF State
    <2>4. replay'[w] = r
        BY <1>1, <2>2
    <2>5. RealReplay(w)'
        BY <2>2, <2>3, <2>4 DEF RealReplay
    <2>. QED BY <1>6, <2>2, <2>3, <2>5
<1>8. ASSUME NEW w \in Replayers, WriteReplay(w)
      PROVE  /\ replay' \in [Replayers -> State]
             /\ \A v \in Replayers : RealReplay(v)'
    <2>1. PICK d : d = replay[w].of
        OBVIOUS
    <2>2. d \in Dead /\ dead[d].state # "free" /\ dead' = dead
        BY <1>8, <2>1 DEF OutboxInv, ReplayReal, RealReplay, WriteReplay,
                           ReplayDead
    <2>3. replay' = [replay EXCEPT ![w].pc = "resolve"]
        BY <1>8 DEF WriteReplay, ReplayDead
    <2>4. PICK r : r = [replay[w] EXCEPT !.pc = "resolve"]
        OBVIOUS
    <2>5. r \in State /\ r.pc = "resolve" /\ r.of = d
        BY <1>1, <2>1, <2>4 DEF State
    <2>6. replay' = [replay EXCEPT ![w] = r] /\ replay'[w] = r
        BY <1>1, <2>3, <2>4
    <2>7. Replayed(d)'
        BY <1>8, <2>1, <2>2, ReplayWritten
    <2>8. RealReplay(w)'
        BY <2>2, <2>5, <2>6, <2>7 DEF RealReplay, Replayed, ReplayEvent
    <2>. QED BY <1>6, <2>5, <2>6, <2>8
<1>9. ASSUME NEW w \in Replayers, ReplayFails(w) \/ MarkResolved(w)
      PROVE  /\ replay' \in [Replayers -> State]
             /\ \A v \in Replayers : RealReplay(v)'
    BY <1>2, <1>6, <1>9 DEF ReplayFails, MarkResolved
<1>. QED BY <1>4, <1>5, <1>7, <1>8, <1>9, WhoChangesReplay

LEMMA ResolvedStep ==
    ASSUME OutboxInv, OutboxNext, Grown(outbox, outbox'),
           DeadGrown(dead, dead')
    PROVE  ResolvedWasReplayed'
<1>. SUFFICES ASSUME NEW d \in Dead,
                     dead'[d].state = "resolved", ~dead'[d].off
              PROVE  Replayed(d)'
    BY DEF ResolvedWasReplayed, Replayed
<1>1. dead \in [Dead -> Letter]
    BY DEF OutboxInv, OutboxTypeOK
<1>2. CASE dead[d].state = "resolved" /\ ~dead[d].off
    <2>1. Replayed(d)
        BY <1>2 DEF OutboxInv, ResolvedWasReplayed, Replayed
    <2>. QED BY <1>2, <2>1, ReplayedStays
<1>3. ASSUME NEW w \in Workers, Dispatch(w)
      PROVE  dead'[d] = dead[d]
    <2>1. PICK id \in DOMAIN worker[w].batch :
                DispatchAdmin(w, id) \/ DispatchUser(w, id)
        BY <1>3 DEF Dispatch
    <2>2. UNCHANGED dead \/ DeadLetter(outbox[id].event)
        BY <2>1 DEF DispatchAdmin, DispatchUser
    <2>3. outbox[id].event \in AnyEvent /\ outbox[id].event.type \in Types
        BY DispatchedEvent
    <2>. QED BY <2>2, <2>3, LetterWritten DEF OutboxInv
<1>4. ASSUME NEW w \in Replayers, ReplayFails(w)
      PROVE  dead[d].state = "resolved" /\ ~dead[d].off
    <2>1. dead' = [dead EXCEPT ![replay[w].of].attempts = @ + 1]
        BY <1>4 DEF ReplayFails
    <2>. QED BY <1>1, <2>1 DEF Letter
<1>5. ASSUME NEW w \in Replayers, MarkResolved(w)
      PROVE  Replayed(d)'
    <2>1. /\ dead' = [dead EXCEPT ![replay[w].of].state = "resolved",
                                  ![replay[w].of].off = FALSE]
          /\ replay[w].pc = "resolve"
        BY <1>5 DEF MarkResolved
    <2>2. CASE d = replay[w].of
        <3>1. dead[d].state # "free" /\ Replayed(d)
            BY <2>1, <2>2 DEF OutboxInv, ReplayReal, RealReplay
        <3>. QED BY <3>1, ReplayedStays
    <2>3. CASE d # replay[w].of
        <3>1. dead'[d] = dead[d]
            BY <1>1, <2>1, <2>3
        <3>. QED BY <1>2, <3>1
    <2>. QED BY <2>2, <2>3
<1>6. ASSUME NEW c \in Dead, Resolve(c)
      PROVE  dead'[d] = dead[d]
    <2>1. dead' = [dead EXCEPT ![c].state = "resolved", ![c].off = TRUE]
        BY <1>6 DEF Resolve
    <2>2. d # c
        <3>1. ASSUME d = c
              PROVE  dead'[d].off = TRUE
            BY <1>1, <2>1, <3>1 DEF Letter
        <3>. QED BY <3>1
    <2>. QED BY <1>1, <2>1, <2>2
<1>. QED BY <1>2, <1>3, <1>4, <1>5, <1>6, WhoChangesDead

-----------------------------------------------------------------------------

LEMMA InitOutboxInv == OutboxInit => OutboxInv
<1>. SUFFICES ASSUME OutboxInit
              PROVE  OutboxInv
    OBVIOUS
<1>1. Free \in Entry /\ Free.status = "free" /\ Free.attempts = 0
      /\ Free.event \in AnyEvent
    BY DEF Free, Entry, AnyEvent, Statuses, NoKey
<1>2. Waiting \in WorkerState /\ Waiting.pc = "idle"
      /\ DOMAIN Waiting.batch = {}
    <2>1. PICK b : b = [id \in {} |-> 0]
        OBVIOUS
    <2>2. b \in Batches /\ DOMAIN b = {}
        BY <2>1 DEF Batches
    <2>3. Waiting = [pc |-> "idle", batch |-> b, at |-> 0]
        BY <2>1 DEF Waiting
    <2>. QED BY <2>2, <2>3 DEF WorkerState
<1>3. [event |-> Free.event, state |-> "free", attempts |-> 0,
      off |-> FALSE] \in Letter
    BY <1>1 DEF Letter
<1>4. outbox \in [Rows -> Entry] /\ \A id \in Rows : outbox[id] = Free
    BY <1>1 DEF OutboxInit
<1>5. /\ worker \in [Workers -> WorkerState]
      /\ \A w \in Workers : worker[w] = Waiting
    BY <1>2 DEF OutboxInit
<1>6. /\ dead \in [Dead -> Letter]
      /\ \A d \in Dead : dead[d].state = "free"
    BY <1>3 DEF OutboxInit
<1>7. /\ replay \in [Replayers -> [pc : {"idle", "write", "resolve"},
                                   of : Dead \cup {0}]]
      /\ \A w \in Replayers : replay[w].pc = "idle"
    BY DEF OutboxInit, NoReplay
<1>8. /\ inbox \in [Rows -> [Users -> 0 .. 1]]
      /\ \A id \in Rows, u \in Users : inbox[id][u] = 0
    BY DEF OutboxInit
<1>9. /\ window \subseteq Keys /\ written \in [Keys -> Nat] /\ faults \in Nat
      /\ \A k \in Keys : written[k] = 0
    BY DEF OutboxInit
<1>10. OutboxTypeOK /\ RowsFilled /\ DeadFilled
    <2>1. OutboxTypeOK
        BY <1>4, <1>5, <1>6, <1>7, <1>8, <1>9 DEF OutboxTypeOK
    <2>2. RowsFilled /\ DeadFilled
        BY <1>1, <1>4, <1>6 DEF RowsFilled, DeadFilled
    <2>. QED BY <2>1, <2>2
<1>11. BatchFits /\ ClaimsPast /\ ClaimsDistinct /\ SuccessReachedAll
    BY <1>2, <1>5 DEF BatchFits, Fits, ClaimsPast, ClaimsDistinct,
                      SuccessReachedAll
<1>12. DoneReachedAll
    BY <1>1, <1>4, <1>8 DEF DoneReachedAll
<1>13. ReminderKept /\ ReplayReal /\ ResolvedWasReplayed
    BY <1>6, <1>7, <1>9 DEF ReminderKept, ReplayReal, RealReplay,
                             ResolvedWasReplayed
<1>14. ASSUME NEW id \in Rows
       PROVE  Paid(id)
    <2>1. ~Recoverable(id) /\ outbox[id].attempts = 0
        BY <1>1, <1>4 DEF Recoverable
    <2>2. Spent(id) \in SUBSET (1 .. MaxAttempts - 1)
        BY DEF Spent
    <2>3. Cardinality(Spent(id)) \in Nat
        BY <2>2, BelowLimit
    <2>. QED BY <1>9, <2>1, <2>3 DEF Paid
<1>. QED BY <1>10, <1>11, <1>12, <1>13, <1>14 DEF OutboxInv, ClaimsPaid

LEMMA StepOutboxInv == OutboxInv /\ [OutboxNext]_outboxVars => OutboxInv'
<1>1. ASSUME OutboxInv, OutboxNext
      PROVE  OutboxInv'
    <2>1. Grown(outbox, outbox')
        BY <1>1, OutboxGrows
    <2>2. DeadGrown(dead, dead')
        BY <1>1, DeadGrows
    <2>3. InboxGrown(inbox, inbox')
        BY <1>1, InboxGrows
    <2>4. /\ worker' \in [Workers -> WorkerState] /\ BatchFits'
          /\ Shrunk(worker, worker') \/ \E w \in Workers : ClaimBatch(w)
        BY <1>1, WorkersStep
    <2>5. faults' \in Nat
        BY <1>1, FaultsGrow DEF OutboxInv
    <2>6. /\ window' \subseteq Keys /\ written' \in [Keys -> Nat]
          /\ ReminderKept'
        BY <1>1, <2>1, ReminderStep
    <2>7. /\ replay' \in [Replayers -> [pc : {"idle", "write", "resolve"},
                                        of : Dead \cup {0}]]
          /\ ReplayReal'
        BY <1>1, <2>1, <2>2, ReplayStep
    <2>8. OutboxTypeOK'
        BY <2>1, <2>2, <2>3, <2>4, <2>5, <2>6, <2>7
           DEF OutboxTypeOK, Grown, DeadGrown, InboxGrown
    <2>9. RowsFilled' /\ DeadFilled'
        BY <1>1, <2>1, <2>2, RowsFilledStep, DeadFilledStep
    <2>10. ClaimsPast' /\ ClaimsDistinct' /\ ClaimsPaid'
        BY <1>1, <2>1, <2>4, ClaimsStep, ClaimsPaidStep
    <2>11. SuccessReachedAll' /\ DoneReachedAll'
        BY <1>1, <2>1, <2>3, SuccessStep, DoneStep
    <2>12. ResolvedWasReplayed'
        BY <1>1, <2>1, <2>2, ResolvedStep
    <2>. QED BY <2>4, <2>6, <2>7, <2>8, <2>9, <2>10, <2>11, <2>12 DEF OutboxInv
<1>2. ASSUME OutboxInv, UNCHANGED outboxVars
      PROVE  OutboxInv'
    BY <1>2 DEF OutboxInv, outboxVars, OutboxTypeOK, RowsFilled, DeadFilled,
           BatchFits, Fits, ClaimsPast, ClaimsDistinct, ClaimsPaid, Paid,
           Recoverable, Held, Spent, SuccessReachedAll, DoneReachedAll,
           ReminderKept, ReplayReal, RealReplay, Replayed, ReplayEvent,
           ResolvedWasReplayed
<1>. QED BY <1>1, <1>2

\* The inductive invariant of the outbox.
THEOREM OutboxInvariant == OutboxSpec => []OutboxInv
BY InitOutboxInv, StepOutboxInv, PTL DEF OutboxSpec

\* The tables and the workers keep their types.
THEOREM OutboxTypeCorrect == OutboxSpec => []OutboxTypeOK
<1>1. OutboxInv => OutboxTypeOK
    BY DEF OutboxInv
<1>. QED BY <1>1, OutboxInvariant, PTL

\* For every number of replicas and entries, an entry is claimed at most
\* MaxAttempts times and once more for every fault: process compares the count
\* that its own claim returned, and no two claims return the same.
THEOREM ClaimsAreBounded == OutboxSpec => []ClaimsBounded
<1>1. ASSUME OutboxInv
      PROVE  ClaimsBounded
    <2>1. SUFFICES ASSUME NEW id \in Rows
                   PROVE  outbox[id].attempts <= MaxAttempts + faults
        BY DEF ClaimsBounded
    <2>2. Spent(id) \in SUBSET (1 .. MaxAttempts - 1)
        BY DEF Spent
    <2>3. /\ Cardinality(Spent(id)) \in Nat
          /\ Cardinality(Spent(id)) <= MaxAttempts - 1
        BY <2>2, BelowLimit
    <2>4. outbox[id].attempts + (IF Recoverable(id) THEN 1 ELSE 0)
          <= 1 + Cardinality(Spent(id)) + faults
        BY <1>1 DEF OutboxInv, ClaimsPaid, Paid
    <2>5. /\ outbox[id].attempts \in Nat /\ faults \in Nat
          /\ MaxAttempts \in Nat
        BY <1>1, OutboxAssumption DEF OutboxInv, OutboxTypeOK, Entry
    <2>. QED BY <2>3, <2>4, <2>5
<1>. QED BY <1>1, OutboxInvariant, PTL

\* An entry that is done was shown to every recipient, and to none of them
\* twice, whatever crashed and whoever marked it.
THEOREM DoneEntriesReachedAll == OutboxSpec => []DoneReachedAll
<1>1. OutboxInv => DoneReachedAll
    BY DEF OutboxInv
<1>. QED BY <1>1, OutboxInvariant, PTL

\* A reminder is written once, although every replica runs every job.
THEOREM RemindersWrittenOnce == OutboxSpec => []RemindedOnce
<1>1. OutboxInv => RemindedOnce
    BY DEF OutboxInv, ReminderKept, RemindedOnce
<1>. QED BY <1>1, OutboxInvariant, PTL

\* A dead letter that a worker resolved is back in the outbox, although the two
\* statements are not one transaction, two replicas may replay it and an
\* administrator may write it off at any time.
THEOREM ResolvedLettersWereReplayed == OutboxSpec => []ResolvedWasReplayed
<1>1. OutboxInv => ResolvedWasReplayed
    BY DEF OutboxInv
<1>. QED BY <1>1, OutboxInvariant, PTL

=============================================================================
