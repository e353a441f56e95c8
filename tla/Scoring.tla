------------------------------ MODULE Scoring -------------------------------
(***************************************************************************)
(* Match results, forecasts and points.                                    *)
(*                                                                         *)
(*   internal/service/match_service.go, match_sync_service.go              *)
(*   internal/service/prediction_service.go, scoring_service.go            *)
(*   internal/repository/match_repository.go, prediction_repository.go     *)
(*   cmd/worker/handlers.go, internal/infrastructure/messaging/redis.go    *)
(*                                                                         *)
(* An administrator, or the job that polls the football provider, reads a  *)
(* match, checks it and writes the whole row back; a confirmed result is   *)
(* published and a worker scores the forecasts.  Nothing holds a lock from *)
(* one of these steps to the next: job[p] is what a process has read.      *)
(***************************************************************************)
EXTENDS Integers, FiniteSets

CONSTANTS Users, Matches,
          Admins,      \* calls of the match service: requests and sync jobs
          Workers,     \* consumers of MatchFinished
          Clients,     \* calls of the prediction service
          Results,     \* results of a match
          Forecasts,   \* predictions of a result
          Configs,     \* scoring rules that may be in force
          MaxEvents,   \* bound: published and dead-lettered events per match
          MaxCrashes   \* bound: how often a process dies

Methods == {"normal", "extra_time", "penalties", "none"}
Sides == {"home", "away", "none"}
Outcomes == [home : Nat, away : Nat, method : Methods, winner : Sides]
RuleSets == [exactScore : Nat, correctOutcome : Nat, goalDifference : Nat,
             extraTimeBonus : Nat, penaltiesBonus : Nat]

ASSUME ScoringAssumption ==
    /\ Admins \cap Workers = {}
    /\ Results \subseteq Outcomes /\ Forecasts \subseteq Outcomes
    /\ Configs \subseteq RuleSets
    /\ MaxEvents \in Nat \ {0} /\ MaxCrashes \in Nat

VARIABLES row,      \* row[m]: status and result of the match
          pred,     \* pred[u][m]: the row of the prediction, or NoPrediction
          rules,    \* the scoring rules now
          logged,   \* logged[m]: the rules in the earliest row of the log
          queue,    \* queue[m]: MatchFinished events that nobody has read
          dlq,      \* dlq[m]: dead letters
          job,      \* what each administrator and worker is doing
          call,     \* what each client is doing
          crashes,  \* how many processes have died
          lost,     \* matches with an event that nobody will read again; like
                    \* corrected for the properties
          corrected \* matches whose result somebody corrected

historyVars == <<crashes, lost, corrected>>
scoringVars == <<row, pred, rules, logged, queue, dlq, job, call, historyVars>>

NoResult == [home |-> 0, away |-> 0, method |-> "unset", winner |-> "none"]
NoPrediction == [forecast |-> NoResult, points |-> -1]
Unscored == -1                 \* points and scored_at are SQL NULL
NotLogged == [exactScore |-> -1]
Idle == [pc |-> "idle"]
Procs == Admins \cup Workers

ScoringInit ==
    /\ row = [m \in Matches |-> [status |-> "scheduled", result |-> NoResult]]
    /\ pred = [u \in Users |-> [m \in Matches |-> NoPrediction]]
    /\ rules \in Configs
    /\ logged = [m \in Matches |-> NotLogged]
    /\ queue = [m \in Matches |-> 0]
    /\ dlq = [m \in Matches |-> 0]
    /\ job = [p \in Procs |-> Idle]
    /\ call = [c \in Clients |-> Idle]
    /\ crashes = 0 /\ lost = {} /\ corrected = {}

-----------------------------------------------------------------------------
(* The points of a forecast.                                               *)

Sign(r) == IF r.home > r.away THEN 1 ELSE IF r.home < r.away THEN -1 ELSE 0
GoalDiff(r) == (r.home - r.away) * Sign(r)

BasePoints(f, r, cfg) ==
    LET margin == GoalDiff(f) = GoalDiff(r)
    IN  IF f.home = r.home /\ f.away = r.away THEN cfg.exactScore
        ELSE (IF Sign(f) = Sign(r) THEN cfg.correctOutcome ELSE 0)
           + (IF margin /\ (Sign(f) # Sign(r) \/ Sign(r) # 0)
              THEN cfg.goalDifference ELSE 0)

CalculatePoints(f, r, cfg) ==
    BasePoints(f, r, cfg)
  + (IF f.method = "extra_time" /\ r.method = "extra_time"
     THEN cfg.extraTimeBonus ELSE 0)
  + (IF /\ f.method = "penalties" /\ r.method = "penalties"
        /\ r.winner # "none" /\ f.winner = r.winner
     THEN cfg.penaltiesBonus ELSE 0)

-----------------------------------------------------------------------------
(* Matches.  Each operation reads the row and then writes all of it.       *)

\* What p will write, and whether MatchFinished is published after it.
Decide(p, m, status, result, publish) ==
    /\ job' = [job EXCEPT ![p] =
            [pc |-> "update", match |-> m,
             row |-> [status |-> status, result |-> result],
             publish |-> publish]]
    /\ UNCHANGED <<row, pred, rules, logged, queue, dlq, call, crashes, lost>>

StartMatch(p, m) ==
    /\ job[p] = Idle
    /\ row[m].status = "scheduled"
    /\ Decide(p, m, "live", row[m].result, FALSE) /\ UNCHANGED corrected

UpdateResult(p, m, r) ==
    /\ job[p] = Idle
    /\ row[m].status = "live"
    /\ queue[m] + dlq[m] < MaxEvents
    /\ Decide(p, m, "finished", r, TRUE) /\ UNCHANGED corrected

CorrectResult(p, m, r) ==
    /\ job[p] = Idle
    /\ row[m].status \in {"live", "finished"}
    /\ queue[m] + dlq[m] < MaxEvents
    /\ Decide(p, m, "finished", r, TRUE) /\ corrected' = corrected \cup {m}

CancelMatch(p, m) ==
    /\ job[p] = Idle
    /\ row[m].status \in {"scheduled", "live"}
    /\ Decide(p, m, "cancelled", row[m].result, FALSE) /\ UNCHANGED corrected

\* The sync job, while the fixture is live.
ApplyLiveScore(p, m, r) ==
    /\ job[p] = Idle
    /\ row[m].status = "live"
    /\ Decide(p, m, "live", r, FALSE) /\ UNCHANGED corrected

\* matchRepo.Update: WHERE id=$18 and nothing else.
UpdateRow(p) ==
    LET m == job[p].match
    IN  /\ job[p].pc = "update"
        /\ row' = [row EXCEPT ![m] = job[p].row]
        /\ job' = [job EXCEPT ![p] =
                IF job[p].publish THEN [pc |-> "publish", match |-> m]
                                  ELSE Idle]
        /\ UNCHANGED <<pred, rules, logged, queue, dlq, call, historyVars>>

\* pub.Publish, or the synchronous ScoreMatch when it fails.
Publish(p) ==
    LET m == job[p].match
    IN  /\ job[p].pc = "publish"
        /\ \/ /\ queue' = [queue EXCEPT ![m] = @ + 1]
              /\ job' = [job EXCEPT ![p] = Idle]
           \/ /\ job' = [job EXCEPT ![p] = [pc |-> "load", match |-> m]]
              /\ UNCHANGED queue
        /\ UNCHANGED <<row, pred, rules, logged, dlq, call, historyVars>>

-----------------------------------------------------------------------------
(* ScoreMatch, by a worker or by an administrator whose event was not      *)
(* published.                                                              *)

\* Deliver hands an event to a worker, who keeps it until it is acknowledged.
Deliver(w, m) ==
    /\ job[w] = Idle
    /\ queue[m] > 0
    /\ queue' = [queue EXCEPT ![m] = @ - 1]
    /\ job' = [job EXCEPT ![w] = [pc |-> "load", match |-> m]]
    /\ UNCHANGED <<row, pred, rules, logged, dlq, call, historyVars>>

\* loadFinishedMatch.
Finished(m) == row[m].status = "finished"

\* Mutant: a match that was never scored is taken for one that was.
LoggedConfig(m) == {rules, logged[m]}

\* resolveConfig: the rules that the match was first scored with, or the
\* present ones, also when the lookup fails.
ResolveConfig(m) == {rules} \cup ({logged[m]} \ {NotLogged})

\* ScoreMatch up to the batch.
LoadMatch(p) ==
    LET m == job[p].match
    IN  /\ job[p].pc = "load"
        /\ Finished(m)
        /\ \E cfg \in ResolveConfig(m) :
            job' = [job EXCEPT ![p] =
                [pc |-> "read", match |-> m, result |-> row[m].result,
                 cfg |-> cfg]]
        /\ UNCHANGED <<row, pred, rules, logged, queue, dlq, call, historyVars>>

\* ScoreMatchBatch: the SELECT, without a lock.
ReadPredictions(p) ==
    LET m == job[p].match
    IN  /\ job[p].pc = "read"
        /\ job' = [job EXCEPT ![p] =
                [pc |-> "score", match |-> m, result |-> job[p].result,
                 cfg |-> job[p].cfg,
                 read |-> [u \in Users |-> pred[u][m].forecast]]]
        /\ UNCHANGED <<row, pred, rules, logged, queue, dlq, call, historyVars>>

\* The row of u's prediction changes: updated_at no longer is what the edits
\* under way have read.
Touch(rows) ==
    call' = [c \in Clients |->
        IF call[c].pc = "edit" /\ <<call[c].user, call[c].match>> \in rows
        THEN [call[c] EXCEPT !.stale = TRUE] ELSE call[c]]

\* Mutant: the update forgets scored_at IS NULL.
Present(u, m) == pred[u][m] # NoPrediction

Scorable(u, m) == pred[u][m] # NoPrediction /\ pred[u][m].points = Unscored

\* The UPDATE of the same transaction, over the rows that were read.
ScoreMatchBatch(p) ==
    LET m == job[p].match
        rows == {u \in Users : job[p].read[u] # NoResult /\ Scorable(u, m)}
        Points(u) == CalculatePoints(job[p].read[u], job[p].result, job[p].cfg)
    IN  /\ job[p].pc = "score"
        /\ pred' = [u \in Users |->
                IF u \in rows THEN [pred[u] EXCEPT ![m].points = Points(u)]
                              ELSE pred[u]]
        /\ Touch(rows \X {m})
        /\ job' = [job EXCEPT ![p] =
                IF \A u \in Users : job[p].read[u] = NoResult THEN Idle
                ELSE [pc |-> "log", match |-> m, cfg |-> job[p].cfg]]
        /\ UNCHANGED <<row, rules, logged, queue, dlq, historyVars>>

\* writeScoringLog may fail; then the worker acknowledges the event.
WriteScoringLog(p) ==
    LET m == job[p].match
    IN  /\ job[p].pc = "log"
        /\ \/ logged' = [logged EXCEPT ![m] =
                    IF @ = NotLogged THEN job[p].cfg ELSE @]
           \/ UNCHANGED logged
        /\ job' = [job EXCEPT ![p] = Idle]
        /\ UNCHANGED <<row, pred, rules, queue, dlq, call, historyVars>>

\* The match is not finished, or the database fails until the retries are
\* used up: a worker dead-letters the event, an administrator ignores it.
ScoringFails(p) ==
    LET m == job[p].match
    IN  /\ job[p].pc \in {"load", "read", "score"}
        /\ dlq' = IF p \in Workers THEN [dlq EXCEPT ![m] = @ + 1] ELSE dlq
        /\ job' = [job EXCEPT ![p] = Idle]
        /\ UNCHANGED <<row, pred, rules, logged, queue, call, historyVars>>

ReplayDLQ(m) ==
    /\ dlq[m] > 0
    /\ dlq' = [dlq EXCEPT ![m] = @ - 1]
    /\ queue' = [queue EXCEPT ![m] = @ + 1]
    /\ UNCHANGED <<row, pred, rules, logged, job, call, historyVars>>

\* Mutant: the event was acknowledged as it was read.
CrashAcknowledged(p) ==
    /\ job[p] # Idle
    /\ crashes < MaxCrashes
    /\ crashes' = crashes + 1
    /\ job' = [job EXCEPT ![p] = Idle]
    /\ UNCHANGED <<row, pred, rules, logged, queue, dlq, call, lost, corrected>>

\* A process dies.  A request is gone.  The event that a worker has not
\* acknowledged stays in the pending list of its name, host and process id:
\* recoverPending finds it when the worker starts again with the same id, and
\* nobody does otherwise.
Crash(p) ==
    /\ job[p] # Idle
    /\ crashes < MaxCrashes
    /\ crashes' = crashes + 1
    /\ \/ /\ p \in Workers
          /\ job' = [job EXCEPT ![p] = [pc |-> "load", match |-> job[p].match]]
          /\ UNCHANGED lost
       \/ /\ job' = [job EXCEPT ![p] = Idle]
          /\ lost' = IF p \in Workers THEN lost \cup {job[p].match} ELSE lost
    /\ UNCHANGED <<row, pred, rules, logged, queue, dlq, call, corrected>>

UpdateRules(cfg) ==
    /\ cfg # rules
    /\ rules' = cfg
    /\ UNCHANGED <<row, pred, logged, queue, dlq, job, call, historyVars>>

-----------------------------------------------------------------------------
(* Predictions.  The match is read before the row is written.              *)

Submit(c, u, m, f) ==
    /\ call[c] = Idle
    /\ row[m].status = "scheduled"
    /\ call' = [call EXCEPT ![c] =
            [pc |-> "insert", user |-> u, match |-> m, forecast |-> f]]
    /\ UNCHANGED <<row, pred, rules, logged, queue, dlq, job, historyVars>>

\* A row that is there already is returned as it is.
Upsert(c) ==
    LET u == call[c].user
        m == call[c].match
    IN  /\ call[c].pc = "insert"
        /\ pred' = IF Present(u, m) THEN pred
                   ELSE [pred EXCEPT ![u][m] =
                            [forecast |-> call[c].forecast, points |-> Unscored]]
        /\ call' = [call EXCEPT ![c] = Idle]
        /\ UNCHANGED <<row, rules, logged, queue, dlq, job, historyVars>>

Update(c, u, m, f) ==
    /\ call[c] = Idle
    /\ Present(u, m) /\ pred[u][m].forecast # f
    /\ row[m].status = "scheduled"
    /\ call' = [call EXCEPT ![c] =
            [pc |-> "edit", user |-> u, match |-> m, forecast |-> f,
             points |-> pred[u][m].points, stale |-> FALSE]]
    /\ UNCHANGED <<row, pred, rules, logged, queue, dlq, job, historyVars>>

\* Mutant: the update does not compare updated_at.
AnyVersion(c) == call[c].pc = "edit"

Unchanged(c) == call[c].pc = "edit" /\ ~call[c].stale

\* UpdateIfUnchanged writes the points back that were read with the row.
UpdateIfUnchanged(c) ==
    LET u == call[c].user
        m == call[c].match
    IN  /\ Unchanged(c)
        /\ pred' = [pred EXCEPT ![u][m] =
                [forecast |-> call[c].forecast, points |-> call[c].points]]
        /\ call' = [d \in Clients |->
                IF d = c THEN Idle
                ELSE IF /\ call[d].pc = "edit"
                        /\ call[d].user = u /\ call[d].match = m
                     THEN [call[d] EXCEPT !.stale = TRUE] ELSE call[d]]
        /\ UNCHANGED <<row, rules, logged, queue, dlq, job, historyVars>>

EditConflict(c) ==
    /\ call[c].pc = "edit" /\ ~Unchanged(c)
    /\ call' = [call EXCEPT ![c] = Idle]
    /\ UNCHANGED <<row, pred, rules, logged, queue, dlq, job, historyVars>>

-----------------------------------------------------------------------------

MatchNext(p, m) ==
    \/ StartMatch(p, m) \/ CancelMatch(p, m)
    \/ \E r \in Results :
        UpdateResult(p, m, r) \/ CorrectResult(p, m, r) \/ ApplyLiveScore(p, m, r)

ScoreNext(p) ==
    \/ LoadMatch(p) \/ ReadPredictions(p) \/ ScoreMatchBatch(p)
    \/ WriteScoringLog(p) \/ ScoringFails(p)

ClientNext(c) ==
    \/ \E u \in Users, m \in Matches, f \in Forecasts :
        Submit(c, u, m, f) \/ Update(c, u, m, f)
    \/ Upsert(c) \/ UpdateIfUnchanged(c) \/ EditConflict(c)

ScoringNext ==
    \/ \E p \in Admins :
        \/ \E m \in Matches : MatchNext(p, m)
        \/ UpdateRow(p) \/ Publish(p)
    \/ \E w \in Workers, m \in Matches : Deliver(w, m)
    \/ \E p \in Procs : ScoreNext(p) \/ Crash(p)
    \/ \E c \in Clients : ClientNext(c)
    \/ \E m \in Matches : ReplayDLQ(m)
    \/ \E cfg \in Configs : UpdateRules(cfg)

\* Workers run and the administrators' requests end; nobody is obliged to
\* start a request, to replay a dead letter or to edit a prediction.
ScoringFairness ==
    /\ \A w \in Workers : WF_scoringVars(ScoreNext(w))
    /\ \A m \in Matches : WF_scoringVars(\E w \in Workers : Deliver(w, m))

ScoringSpec == ScoringInit /\ [][ScoringNext]_scoringVars /\ ScoringFairness

-----------------------------------------------------------------------------

Rows == [status : {"scheduled", "live", "finished", "cancelled"},
         result : Results \cup {NoResult}]
Loading == [pc : {"publish", "load"}, match : Matches]
Updating == [pc : {"update"}, match : Matches, row : Rows, publish : BOOLEAN]
Reading == [pc : {"read"}, match : Matches, result : Results, cfg : Configs]
Batching == [pc : {"score"}, match : Matches, result : Results, cfg : Configs,
             read : [Users -> Forecasts \cup {NoResult}]]
Logging == [pc : {"log"}, match : Matches, cfg : Configs]
Inserting == [pc : {"insert"}, user : Users, match : Matches,
              forecast : Forecasts]
Editing == [pc : {"edit"}, user : Users, match : Matches,
            forecast : Forecasts, points : Nat \cup {Unscored},
            stale : BOOLEAN]
Jobs == {Idle} \cup Loading \cup Updating \cup Reading \cup Batching
               \cup Logging
Calls == {Idle} \cup Inserting \cup Editing

HistoryOK ==
    crashes \in Nat /\ lost \subseteq Matches /\ corrected \subseteq Matches

ScoringTypeOK ==
    /\ row \in [Matches -> Rows]
    /\ pred \in [Users -> [Matches ->
            [forecast : Forecasts \cup {NoResult}, points : Nat \cup {Unscored}]]]
    /\ rules \in Configs
    /\ logged \in [Matches -> Configs \cup {NotLogged}]
    /\ queue \in [Matches -> Nat]
    /\ dlq \in [Matches -> Nat]
    /\ job \in [Procs -> Jobs]
    /\ call \in [Clients -> Calls]
    /\ HistoryOK

\* Points are given once: neither a redelivered event, a replayed dead
\* letter, two workers on one match nor an edit that was under way while the
\* match was scored changes or erases the points of a prediction.  Nothing is
\* said here of a match whose result was corrected: CorrectResult publishes
\* MatchFinished "so the scoring engine recomputes predictions".
PointsAreFinal ==
    [][\A u \in Users, m \in Matches :
            pred[u][m].points # Unscored /\ m \notin corrected' =>
                pred'[u][m].points = pred[u][m].points]_scoringVars

\* A result that was published is not forgotten: whoever crashes, and however
\* often an event is taken over, the predictions that were there when the
\* event was published are scored, or the event is a dead letter that can be
\* replayed, or the result was withdrawn before it was read; unless a worker
\* died with the event and came back under another name.
PublishedIsScored ==
    \A u \in Users, m \in Matches :
        queue[m] > 0 /\ Present(u, m) ~>
            \/ pred[u][m].points # Unscored
            \/ dlq[m] > 0
            \/ row[m].status # "finished"
            \/ m \in lost
=============================================================================
