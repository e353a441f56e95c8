----------------------------- MODULE Snapshots ------------------------------
(***************************************************************************)
(* What the standings of a group go through after a final whistle: the     *)
(* worker's handler of MatchFinished from the scoring to the leaderboard   *)
(* snapshot, and the cache that the API reads standings through.           *)
(*                                                                         *)
(*   cmd/worker/handlers.go, leaderboard_broadcaster.go, main.go           *)
(*   internal/service/leaderboard_snapshot_service.go,                     *)
(*       cached_ranking_service.go, post_scoring_cache_flush.go            *)
(*   internal/repository/leaderboard_snapshot_repository.go                *)
(*   internal/infrastructure/messaging/redis.go, redis_dlq_service.go      *)
(*                                                                         *)
(* The players of the group forecast every match, so that standings are    *)
(* the set of the matches whose points they include.  How points come      *)
(* about is the module Scoring, how players are ranked Leaderboard, and    *)
(* what the handler does with the bracket Knockout.                        *)
(***************************************************************************)
EXTENDS Integers, FiniteSets

CONSTANTS Matches,
          NoMatch,
          Threads,     \* goroutines of the consumer pools
          Readers,     \* API calls that read the standings
          MaxTries,    \* snapshot.max_attempts
          MaxFaults,   \* bound: crashes, and calls of Redis or the database
                       \* that fail
          MaxEdits     \* bound: administrators' steps

ASSUME SnapshotsAssumption ==
    /\ NoMatch \notin Matches
    /\ MaxTries \in Nat \ {0} /\ MaxFaults \in Nat /\ MaxEdits \in Nat

VARIABLES queue,       \* per match: its events that nobody has read
          dead,        \* per match: its events among the dead letters
          finished,    \* matches with a result
          scored,      \* matches whose points are committed
          cache,       \* the cached standings, a set of none or one
          latest,      \* the standings of the latest leaderboard snapshot
          snaps,       \* the snapshots that matches triggered
          locks,       \* matches whose snapshot is locked in Redis
          signalled,   \* matches whose leaderboard.updated was sent
          thread,      \* what each goroutine of the worker is doing
          reader,      \* what each API call has read and is to cache
          missed,      \* matches that the worker gave up on, or never heard
                       \* of; for the properties
          faults, edits

streamVars == <<queue, dead>>
boardVars == <<cache, latest, snaps, locks, signalled>>
snapshotVars == <<streamVars, finished, scored, boardVars, thread, reader,
                  missed, faults, edits>>

Asleep == [pc |-> "idle", match |-> NoMatch, standing |-> {}, tries |-> 1]
Begun(m) == [pc |-> "score", match |-> m, standing |-> {}, tries |-> 1]
Unasked == [pc |-> "idle", standing |-> {}, manual |-> FALSE]

\* Earlier matches are in every standing, and left out.
SnapshotsInit ==
    /\ queue = [m \in Matches |-> 0] /\ dead = [m \in Matches |-> 0]
    /\ finished = {} /\ scored = {}
    /\ cache = {} /\ latest = {} /\ snaps = {} /\ locks = {} /\ signalled = {}
    /\ thread = [t \in Threads |-> Asleep]
    /\ reader = [r \in Readers |-> Unasked]
    /\ missed = {}
    /\ faults = 0 /\ edits = 0

Fault == faults < MaxFaults /\ faults' = faults + 1
Edit == edits < MaxEdits /\ edits' = edits + 1
Miss(m) == missed' = missed \cup {m}

-----------------------------------------------------------------------------
\* The match service.

\* Publish appends the event to the stream.  When that fails the match is
\* scored on the spot, if it can be, and none of the worker's steps follows.
Publish(m) ==
    \/ /\ queue' = [queue EXCEPT ![m] = @ + 1]
       /\ UNCHANGED <<scored, missed, faults>>
    \/ /\ Fault /\ Miss(m)
       /\ scored' \in {scored, scored \cup {m}}
       /\ UNCHANGED queue

UpdateResult(m) ==
    /\ m \notin finished
    /\ finished' = finished \cup {m}
    /\ Publish(m)
    /\ UNCHANGED <<dead, boardVars, thread, reader, edits>>

CorrectResult(m) ==
    /\ m \in finished /\ Edit
    /\ Publish(m)
    /\ UNCHANGED <<dead, finished, boardVars, thread, reader>>

\* An administrator replays the dead letters.
Replay(m) ==
    /\ dead[m] > 0 /\ Edit
    /\ dead' = [dead EXCEPT ![m] = @ - 1]
    /\ queue' = [queue EXCEPT ![m] = @ + 1]
    /\ UNCHANGED <<finished, scored, boardVars, thread, reader, missed, faults>>

-----------------------------------------------------------------------------
\* newMatchFinishedHandler.

At(t, pc) == thread[t].pc = pc
Goto(t, pc) == thread' = [thread EXCEPT ![t].pc = pc]
Acked(t) == thread' = [thread EXCEPT ![t] = Asleep]

Receive(t, m) ==
    /\ At(t, "idle") /\ queue[m] > 0
    /\ queue' = [queue EXCEPT ![m] = @ - 1]
    /\ thread' = [thread EXCEPT ![t] = Begun(m)]
    /\ UNCHANGED <<dead, finished, scored, boardVars, reader, missed, faults,
                   edits>>

\* ScoreMatch, within the attempts of processMessage.
ScoreMatch(t) ==
    /\ At(t, "score")
    /\ scored' = scored \cup {thread[t].match}
    /\ Goto(t, "flush")
    /\ UNCHANGED <<streamVars, finished, boardVars, reader, missed, faults, edits>>

\* The attempts are used up: pushDLQ, and the event is acknowledged.
ScoreFails(t) ==
    /\ At(t, "score") /\ Fault /\ Miss(thread[t].match)
    /\ dead' = [dead EXCEPT ![thread[t].match] = @ + 1]
    /\ Acked(t)
    /\ UNCHANGED <<queue, finished, scored, boardVars, reader, edits>>

\* postScoringWork: InvalidateAfterScoring, whose failure is logged, and
\* BroadcastLeaderboardUpdated: the players are told to fetch the standings.
\* Nothing but such a fetch could tell the two apart.
FlushAndSignal(t) ==
    /\ At(t, "flush")
    /\ \/ cache' = {} /\ UNCHANGED faults
       \/ cache # {} /\ Fault /\ UNCHANGED cache
    /\ signalled' = signalled \cup {thread[t].match}
    /\ Goto(t, "lock")
    /\ UNCHANGED <<streamVars, finished, scored, latest, snaps, locks, reader,
                   missed, edits>>

\* The groups of the match cannot be listed: the three steps are left out.
ListFails(t) ==
    /\ At(t, "flush") /\ Fault /\ Miss(thread[t].match)
    /\ Acked(t)
    /\ UNCHANGED <<streamVars, finished, scored, boardVars, reader, edits>>

\* runSnapshot: a lock that is held means that a replica is at it, and
\* without Redis there is none.
TryLock(t) ==
    /\ At(t, "lock")
    /\ \/ /\ thread[t].match \in locks
          /\ Acked(t)
          /\ UNCHANGED <<locks, faults>>
       \/ /\ thread[t].match \notin locks
          /\ locks' = locks \cup {thread[t].match}
          /\ Goto(t, "rank")
          /\ UNCHANGED faults
       \/ /\ Fault
          /\ Goto(t, "rank")
          /\ UNCHANGED locks
    /\ UNCHANGED <<streamVars, finished, scored, cache, latest, snaps,
                   signalled, reader, missed, edits>>

\* Mutant: the worker ranks through the cache and the snapshots, as the API.
RankThroughCache == IF cache # {} THEN UNION cache ELSE latest

\* The worker's snapshotter ranks from the predictions.
RankLive == scored

Rank(t) ==
    /\ At(t, "rank")
    /\ thread' = [thread EXCEPT ![t].pc = "create", ![t].standing = RankLive]
    /\ UNCHANGED <<streamVars, finished, scored, boardVars, reader, missed,
                   faults, edits>>

\* Mutant: any snapshot of the group is in the way of another.
AnyStored(m) == snaps # {}

\* ON CONFLICT (quiniela_id, match_id) DO NOTHING.
Stored(m) == \E row \in snaps : row.trigger = m

\* SnapshotForMatch ends with Create, and runSnapshot with Unlock.
CreateSnapshot(t) ==
    LET m == thread[t].match
    IN  /\ At(t, "create")
        /\ IF Stored(m) THEN UNCHANGED <<latest, snaps>>
           ELSE /\ latest' = thread[t].standing
                /\ snaps' = snaps \cup {[trigger |-> m,
                                         standing |-> thread[t].standing]}
        /\ locks' = locks \ {m}
        /\ Acked(t)
        /\ UNCHANGED <<streamVars, finished, scored, cache, signalled, reader,
                       missed, faults, edits>>

\* retrySnapshot: another attempt, or none; the event is done in any case.
SnapshotFails(t) ==
    /\ At(t, "create") /\ Fault
    /\ \/ /\ thread[t].tries < MaxTries
          /\ thread' = [thread EXCEPT ![t].pc = "rank", ![t].tries = @ + 1]
          /\ UNCHANGED <<locks, missed>>
       \/ /\ thread[t].tries = MaxTries
          /\ Acked(t) /\ Miss(thread[t].match)
          /\ locks' = locks \ {thread[t].match}
    /\ UNCHANGED <<streamVars, finished, scored, cache, latest, snaps,
                   signalled, reader, edits>>

\* The replica dies.  A start under the same name reads the event again
\* (recoverPending), one under another name (the name has the pid) never does.
\* A lock of the dead replica stays until its time to live ends, and the
\* handler that finds it believes that someone else is at it.
Crash(t) ==
    LET m == thread[t].match
    IN  /\ ~At(t, "idle") /\ Fault
        /\ \/ /\ thread' = [thread EXCEPT ![t] = Begun(m)]
              /\ missed' = IF thread[t].pc \in {"rank", "create"}
                           THEN missed \cup {m} ELSE missed
           \/ Acked(t) /\ Miss(m)
        /\ UNCHANGED <<streamVars, finished, scored, boardVars, reader, edits>>

\* snapshotLockTTL, also while the holder is still at it.
ExpireLock(m) ==
    /\ m \in locks
    /\ locks' = locks \ {m}
    /\ UNCHANGED <<streamVars, finished, scored, cache, latest, snaps,
                   signalled, thread, reader, missed, faults, edits>>

-----------------------------------------------------------------------------
\* CachedRankingService, and the snapshot that an administrator asks for.

KeepWorker == UNCHANGED <<streamVars, finished, scored, snaps, locks, signalled,
                          thread, missed, faults>>

\* GetLeaderboard on a cold cache: the latest snapshot, or the predictions
\* when resultFromSnapshot fails.
Fetch(r, manual) ==
    \E standing \in {latest, RankLive} :
        reader' = [reader EXCEPT
            ![r] = [pc |-> "fill", standing |-> standing, manual |-> manual]]

GetLeaderboard(r) ==
    /\ reader[r].pc = "idle" /\ cache = {}
    /\ Fetch(r, FALSE)
    /\ KeepWorker /\ UNCHANGED <<cache, latest, edits>>

\* RecalculateLeaderboard ranks through the cache as well, and its snapshot is
\* always a row of its own.
RecalculateLeaderboard(r) ==
    /\ reader[r].pc = "idle" /\ Edit
    /\ IF cache = {} THEN Fetch(r, TRUE) /\ UNCHANGED latest
       ELSE latest' = UNION cache /\ UNCHANGED reader
    /\ KeepWorker /\ UNCHANGED cache

Fill(r) ==
    /\ reader[r].pc = "fill"
    /\ cache' = {reader[r].standing}
    /\ latest' = IF reader[r].manual THEN reader[r].standing ELSE latest
    /\ reader' = [reader EXCEPT ![r] = Unasked]
    /\ KeepWorker /\ UNCHANGED edits

ExpireCache ==
    /\ cache # {}
    /\ cache' = {}
    /\ KeepWorker /\ UNCHANGED <<latest, reader, edits>>

-----------------------------------------------------------------------------

ThreadStep(t) ==
    \/ \E m \in Matches : Receive(t, m)
    \/ ScoreMatch(t) \/ FlushAndSignal(t) \/ TryLock(t) \/ Rank(t)
    \/ CreateSnapshot(t)

SnapshotsNext ==
    \/ \E m \in Matches :
        UpdateResult(m) \/ CorrectResult(m) \/ Replay(m) \/ ExpireLock(m)
    \/ \E t \in Threads :
        \/ ThreadStep(t)
        \/ ScoreFails(t) \/ ListFails(t) \/ SnapshotFails(t) \/ Crash(t)
    \/ \E r \in Readers :
        GetLeaderboard(r) \/ RecalculateLeaderboard(r) \/ Fill(r)
    \/ ExpireCache

\* The consumers keep reading.  Nothing is asked of matches, readers and
\* administrators.
SnapshotsSpec ==
    /\ SnapshotsInit /\ [][SnapshotsNext]_snapshotVars
    /\ \A t \in Threads : WF_snapshotVars(ThreadStep(t))

-----------------------------------------------------------------------------

\* The snapshot that a match triggers includes the points of that match,
\* although redeliveries, retries, corrections and other matches run beside it
\* and the API fills caches from older snapshots (runSnapshot, and the ranker
\* of leaderboardSnapshotService).
SnapshotHasTrigger == \A row \in snaps : row.trigger \in row.standing

\* A match that is over gets its snapshot, although locks expire or are held
\* by the handler of another event of the match and attempts fail, unless the
\* worker never heard of the match, died over the snapshot, came back under
\* another name or used up the attempts.
SnapshotComes ==
    \A m \in Matches :
        m \in finished ~> \/ m \in missed
                         \/ \E row \in snaps : row.trigger = m

\* What is cached once leaderboard.updated was sent for a match includes its
\* points: the cache is flushed first, "so the cache is already cold when the
\* refetch request arrives at the API server", and "to ensure the next request
\* for any variant of the leaderboard reflects the new point totals".
FreshAfterSignal == \A standing \in cache : signalled \subseteq standing

=============================================================================
