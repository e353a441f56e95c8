---------------------------- MODULE ScoringProofs ---------------------------
(***************************************************************************)
(* Points are given once, for every set of users, matches, processes and   *)
(* clients and every scoring rule.  PointsAreFinal is not a consequence of *)
(* the types: an edit writes back the points that it read, so the argument *)
(* needs that an edit whose row has not changed still holds its points     *)
(* (EditsHoldPoints); and the types of the points need that a match that   *)
(* is finished has a result (FinishedHasResult).                           *)
(***************************************************************************)
EXTENDS Scoring, TLAPS

\* A copy of a prediction that the optimistic lock will accept is current.
EditsHoldPoints ==
    \A c \in Clients :
        call[c].pc = "edit" /\ ~call[c].stale =>
            pred[call[c].user][call[c].match].points = call[c].points

\* Only UpdateResult and CorrectResult finish a match, and both give it a
\* result; so does every row that is about to be written.
FinishedHasResult ==
    /\ \A m \in Matches : row[m].status = "finished" => row[m].result \in Results
    /\ \A p \in Procs :
        job[p].pc = "update" /\ job[p].row.status = "finished" =>
            job[p].row.result \in Results

ScoringInv == ScoringTypeOK /\ EditsHoldPoints /\ FinishedHasResult

-----------------------------------------------------------------------------

LEMMA SignType ==
    ASSUME NEW r \in Outcomes PROVE Sign(r) \in {-1, 0, 1}
BY DEF Sign, Outcomes

\* What a forecast earns is a natural number under every rule set.
LEMMA PointsType ==
    ASSUME NEW f \in Outcomes, NEW r \in Outcomes, NEW cfg \in RuleSets
    PROVE  CalculatePoints(f, r, cfg) \in Nat
<1>1. BasePoints(f, r, cfg) \in Nat
  BY SignType DEF BasePoints, RuleSets, GoalDiff, Outcomes
<1>2. cfg.extraTimeBonus \in Nat /\ cfg.penaltiesBonus \in Nat
  BY DEF RuleSets
<1> QED BY <1>1, <1>2 DEF CalculatePoints

\* The pc of a job says which record it is.
LEMMA JobKinds ==
    ASSUME NEW j \in Jobs
    PROVE  /\ j.pc = "update" => j \in Updating
           /\ j.pc \in {"publish", "load"} => j \in Loading
           /\ j.pc = "read" => j \in Reading
           /\ j.pc = "score" => j \in Batching
           /\ j.pc = "log" => j \in Logging
           /\ j # Idle => j.match \in Matches
BY DEF Jobs, Idle, Updating, Loading, Reading, Batching, Logging

LEMMA CallKinds ==
    ASSUME NEW k \in Calls
    PROVE  /\ k.pc = "insert" => k \in Inserting
           /\ k.pc = "edit" => k \in Editing
           /\ k.pc \in {"idle", "insert", "edit"}
BY DEF Calls, Idle, Inserting, Editing

LEMMA HistoryStays ==
    ASSUME ScoringInv, UNCHANGED historyVars PROVE HistoryOK'
BY DEF ScoringInv, ScoringTypeOK, HistoryOK, historyVars

LEMMA ScoringInitially == ScoringInit => ScoringInv
<1> SUFFICES ASSUME ScoringInit PROVE ScoringInv
  OBVIOUS
<1>1. ScoringTypeOK
  BY ScoringAssumption DEF ScoringInit, ScoringTypeOK, Rows, Jobs, Calls,
     NoPrediction, Unscored, HistoryOK
<1>2. EditsHoldPoints /\ FinishedHasResult
  BY DEF ScoringInit, EditsHoldPoints, FinishedHasResult, Idle
<1> QED BY <1>1, <1>2 DEF ScoringInv

-----------------------------------------------------------------------------
(* Steps that change what one process is doing, and leave the match, the   *)
(* predictions and the clients alone.                                      *)

LEMMA JobStep ==
    ASSUME ScoringInv, NEW p \in Procs, NEW j \in Jobs,
           j.pc = "update" /\ j.row.status = "finished" =>
                j.row.result \in Results,
           job' = [job EXCEPT ![p] = j],
           UNCHANGED <<row, pred, rules, call>>,
           logged' \in [Matches -> Configs \cup {NotLogged}],
           queue' \in [Matches -> Nat], dlq' \in [Matches -> Nat],
           HistoryOK'
    PROVE  ScoringInv'
<1>1. ScoringTypeOK'
  BY DEF ScoringInv, ScoringTypeOK
<1>2. EditsHoldPoints'
  BY DEF ScoringInv, EditsHoldPoints
<1>3. FinishedHasResult'
  BY DEF ScoringInv, ScoringTypeOK, FinishedHasResult
<1> QED BY <1>1, <1>2, <1>3 DEF ScoringInv

LEMMA DecideStep ==
    ASSUME ScoringInv, NEW p \in Admins, NEW m \in Matches,
           NEW s \in {"scheduled", "live", "finished", "cancelled"},
           NEW r \in Results \cup {NoResult}, NEW b \in BOOLEAN,
           s = "finished" => r \in Results,
           Decide(p, m, s, r, b), corrected' \subseteq Matches
    PROVE  ScoringInv'
<1> DEFINE j == [pc |-> "update", match |-> m,
                 row |-> [status |-> s, result |-> r], publish |-> b]
<1>1. j \in Jobs
  BY DEF Jobs, Updating, Rows
<1>2. j.row.status = "finished" => j.row.result \in Results
  OBVIOUS
<1>3. /\ job' = [job EXCEPT ![p] = j]
      /\ UNCHANGED <<row, pred, rules, call, logged, queue, dlq, crashes, lost>>
  BY DEF Decide
<1>4. /\ logged \in [Matches -> Configs \cup {NotLogged}]
      /\ queue \in [Matches -> Nat] /\ dlq \in [Matches -> Nat]
      /\ HistoryOK'
  BY <1>3 DEF ScoringInv, ScoringTypeOK, HistoryOK
<1>5. p \in Procs
  BY DEF Procs
<1> HIDE DEF j
<1> QED BY <1>1, <1>2, <1>3, <1>4, <1>5, JobStep

LEMMA MatchStep ==
    ASSUME ScoringInv, NEW p \in Admins, NEW m \in Matches, MatchNext(p, m)
    PROVE  ScoringInv' /\ UNCHANGED pred
<1>1. row[m].result \in Results \cup {NoResult} /\ corrected \subseteq Matches
  BY DEF ScoringInv, ScoringTypeOK, HistoryOK, Rows
<1>2. CASE StartMatch(p, m)
  BY <1>1, <1>2, DecideStep DEF StartMatch, Decide
<1>3. CASE CancelMatch(p, m)
  BY <1>1, <1>3, DecideStep DEF CancelMatch, Decide
<1>4. ASSUME NEW r \in Results, UpdateResult(p, m, r) PROVE ScoringInv' /\ UNCHANGED pred
  BY <1>1, <1>4, DecideStep DEF UpdateResult, Decide
<1>5. ASSUME NEW r \in Results, CorrectResult(p, m, r) PROVE ScoringInv' /\ UNCHANGED pred
  BY <1>1, <1>5, DecideStep DEF CorrectResult, Decide
<1>6. ASSUME NEW r \in Results, ApplyLiveScore(p, m, r) PROVE ScoringInv' /\ UNCHANGED pred
  BY <1>1, <1>6, DecideStep DEF ApplyLiveScore, Decide
<1> QED BY <1>2, <1>3, <1>4, <1>5, <1>6 DEF MatchNext

LEMMA PublishStep ==
    ASSUME ScoringInv, NEW p \in Admins, Publish(p)
    PROVE  ScoringInv' /\ UNCHANGED pred
<1> DEFINE m == job[p].match
<1>1. p \in Procs /\ job[p] \in Jobs
  BY DEF ScoringInv, ScoringTypeOK, Procs
<1>2. m \in Matches
  BY <1>1, JobKinds DEF Publish, Loading
<1>3. [pc |-> "load", match |-> m] \in Jobs /\ Idle \in Jobs
  BY <1>2 DEF Jobs, Loading
<1>4. UNCHANGED <<row, pred, rules, call, logged, dlq, historyVars>>
  BY DEF Publish
<1>5. /\ logged' \in [Matches -> Configs \cup {NotLogged}]
      /\ queue \in [Matches -> Nat] /\ dlq' \in [Matches -> Nat]
      /\ HistoryOK'
  BY <1>4, HistoryStays DEF ScoringInv, ScoringTypeOK
<1>6. queue' \in [Matches -> Nat]
  BY <1>2, <1>5 DEF Publish
<1>7. PICK j \in {Idle, [pc |-> "load", match |-> m]} :
            job' = [job EXCEPT ![p] = j]
  BY DEF Publish
<1>8. j \in Jobs /\ j.pc # "update"
  BY <1>3, <1>7 DEF Idle
<1> HIDE DEF m
<1> QED BY <1>1, <1>4, <1>5, <1>6, <1>7, <1>8, JobStep

LEMMA DeliverStep ==
    ASSUME ScoringInv, NEW w \in Workers, NEW m \in Matches, Deliver(w, m)
    PROVE  ScoringInv' /\ UNCHANGED pred
<1> DEFINE j == [pc |-> "load", match |-> m]
<1>1. j \in Jobs /\ j.pc # "update"
  BY DEF Jobs, Loading
<1>2. /\ job' = [job EXCEPT ![w] = j]
      /\ UNCHANGED <<row, pred, rules, call, logged, dlq, historyVars>>
  BY DEF Deliver
<1>3. /\ logged' \in [Matches -> Configs \cup {NotLogged}]
      /\ queue \in [Matches -> Nat] /\ dlq' \in [Matches -> Nat]
      /\ HistoryOK'
  BY <1>2, HistoryStays DEF ScoringInv, ScoringTypeOK
<1>4. queue' \in [Matches -> Nat]
  BY <1>3 DEF Deliver
<1>5. w \in Procs
  BY DEF Procs
<1> HIDE DEF j
<1> QED BY <1>1, <1>2, <1>3, <1>4, <1>5, JobStep

\* A scoring process that only reads: its next job is well formed.
LEMMA LoadStep ==
    ASSUME ScoringInv, NEW p \in Procs, LoadMatch(p)
    PROVE  ScoringInv' /\ UNCHANGED pred
<1>1. job[p] \in Jobs
  BY DEF ScoringInv, ScoringTypeOK
<1>2. PICK m \in Matches : m = job[p].match
  BY <1>1, JobKinds DEF LoadMatch, Loading
<1>3. row[m].result \in Results
  BY <1>2 DEF LoadMatch, Finished, ScoringInv, FinishedHasResult
<1>4. PICK cfg \in ResolveConfig(m) :
        job' = [job EXCEPT ![p] =
            [pc |-> "read", match |-> m, result |-> row[m].result,
             cfg |-> cfg]]
  BY <1>2 DEF LoadMatch
<1>5. cfg \in Configs
  BY <1>2, <1>4 DEF ScoringInv, ScoringTypeOK, ResolveConfig
<1>6. PICK j \in Reading : job' = [job EXCEPT ![p] = j]
  BY <1>2, <1>3, <1>4, <1>5 DEF Reading
<1>7. j \in Jobs /\ j.pc # "update"
  BY <1>6 DEF Jobs, Reading
<1>8. UNCHANGED <<row, pred, rules, call, logged, queue, dlq, historyVars>>
  BY DEF LoadMatch
<1>9. /\ logged' \in [Matches -> Configs \cup {NotLogged}]
      /\ queue' \in [Matches -> Nat] /\ dlq' \in [Matches -> Nat]
      /\ HistoryOK'
  BY <1>8, HistoryStays DEF ScoringInv, ScoringTypeOK
<1> QED BY <1>6, <1>7, <1>8, <1>9, JobStep

LEMMA ReadStep ==
    ASSUME ScoringInv, NEW p \in Procs, ReadPredictions(p)
    PROVE  ScoringInv' /\ UNCHANGED pred
<1>1. job[p] \in Reading
  BY JobKinds DEF ScoringInv, ScoringTypeOK, ReadPredictions
<1>2. PICK m \in Matches : m = job[p].match
  BY <1>1 DEF Reading
<1>3. [u \in Users |-> pred[u][m].forecast] \in [Users -> Forecasts \cup {NoResult}]
  BY <1>2 DEF ScoringInv, ScoringTypeOK
<1>4. PICK read \in [Users -> Forecasts \cup {NoResult}] :
        job' = [job EXCEPT ![p] =
                [pc |-> "score", match |-> m, result |-> job[p].result,
                 cfg |-> job[p].cfg, read |-> read]]
  BY <1>2, <1>3 DEF ReadPredictions
<1>5. PICK j \in Batching : job' = [job EXCEPT ![p] = j]
  BY <1>1, <1>2, <1>4 DEF Batching, Reading
<1>6. j \in Jobs /\ j.pc # "update"
  BY <1>5 DEF Jobs, Batching
<1>7. UNCHANGED <<row, pred, rules, call, logged, queue, dlq, historyVars>>
  BY DEF ReadPredictions
<1>8. /\ logged' \in [Matches -> Configs \cup {NotLogged}]
      /\ queue' \in [Matches -> Nat] /\ dlq' \in [Matches -> Nat]
      /\ HistoryOK'
  BY <1>7, HistoryStays DEF ScoringInv, ScoringTypeOK
<1> QED BY <1>5, <1>6, <1>7, <1>8, JobStep

LEMMA LogStep ==
    ASSUME ScoringInv, NEW p \in Procs, WriteScoringLog(p)
    PROVE  ScoringInv' /\ UNCHANGED pred
<1>1. job[p] \in Logging
  BY JobKinds DEF ScoringInv, ScoringTypeOK, WriteScoringLog
<1>2. Idle \in Jobs /\ Idle.pc # "update"
  BY DEF Jobs, Idle
<1>3. /\ job' = [job EXCEPT ![p] = Idle]
      /\ UNCHANGED <<row, pred, rules, call, queue, dlq, historyVars>>
  BY DEF WriteScoringLog
<1>4. logged' \in [Matches -> Configs \cup {NotLogged}]
  BY <1>1 DEF WriteScoringLog, Logging, ScoringInv, ScoringTypeOK
<1>5. /\ queue' \in [Matches -> Nat] /\ dlq' \in [Matches -> Nat]
      /\ HistoryOK'
  BY <1>3, HistoryStays DEF ScoringInv, ScoringTypeOK
<1> QED BY <1>2, <1>3, <1>4, <1>5, JobStep

LEMMA FailStep ==
    ASSUME ScoringInv, NEW p \in Procs, ScoringFails(p)
    PROVE  ScoringInv' /\ UNCHANGED pred
<1>1. job[p] \in Jobs /\ job[p] # Idle
  BY DEF ScoringInv, ScoringTypeOK, ScoringFails, Idle
<1>2. job[p].match \in Matches
  BY <1>1, JobKinds
<1>3. Idle \in Jobs /\ Idle.pc # "update"
  BY DEF Jobs, Idle
<1>4. /\ job' = [job EXCEPT ![p] = Idle]
      /\ UNCHANGED <<row, pred, rules, call, logged, queue, historyVars>>
  BY DEF ScoringFails
<1>5. dlq' \in [Matches -> Nat]
  BY <1>2 DEF ScoringFails, ScoringInv, ScoringTypeOK
<1>6. /\ queue' \in [Matches -> Nat] /\ HistoryOK'
      /\ logged' \in [Matches -> Configs \cup {NotLogged}]
  BY <1>4, HistoryStays DEF ScoringInv, ScoringTypeOK
<1> QED BY <1>3, <1>4, <1>5, <1>6, JobStep

LEMMA CrashStep ==
    ASSUME ScoringInv, NEW p \in Procs, Crash(p)
    PROVE  ScoringInv' /\ UNCHANGED pred
<1>1. job[p] \in Jobs /\ job[p] # Idle
  BY DEF ScoringInv, ScoringTypeOK, Crash
<1>2. job[p].match \in Matches
  BY <1>1, JobKinds
<1>3. PICK j \in {Idle, [pc |-> "load", match |-> job[p].match]} :
            job' = [job EXCEPT ![p] = j]
  BY DEF Crash
<1>4. j \in Jobs /\ j.pc # "update"
  BY <1>2, <1>3 DEF Jobs, Loading, Idle
<1>5. UNCHANGED <<row, pred, rules, call, logged, queue, dlq>>
  BY DEF Crash
<1>6. /\ queue' \in [Matches -> Nat] /\ dlq' \in [Matches -> Nat]
      /\ logged' \in [Matches -> Configs \cup {NotLogged}]
  BY <1>5 DEF ScoringInv, ScoringTypeOK
<1>7. HistoryOK'
  BY <1>2 DEF Crash, ScoringInv, ScoringTypeOK, HistoryOK
<1> QED BY <1>3, <1>4, <1>5, <1>6, <1>7, JobStep

\* Dead letters and the rules: no process is involved.
LEMMA QuietStep ==
    ASSUME ScoringInv,
           (\E m \in Matches : ReplayDLQ(m)) \/ (\E c \in Configs : UpdateRules(c))
    PROVE  ScoringInv' /\ UNCHANGED pred
<1>1. UNCHANGED <<row, pred, logged, job, call, historyVars>>
  BY DEF ReplayDLQ, UpdateRules
<1>2. /\ queue' \in [Matches -> Nat] /\ dlq' \in [Matches -> Nat]
      /\ rules' \in Configs /\ HistoryOK'
  BY <1>1, HistoryStays DEF ScoringInv, ScoringTypeOK, ReplayDLQ, UpdateRules
<1> QED BY <1>1, <1>2 DEF ScoringInv, ScoringTypeOK, EditsHoldPoints,
        FinishedHasResult

LEMMA UpdateRowStep ==
    ASSUME ScoringInv, NEW p \in Admins, UpdateRow(p)
    PROVE  ScoringInv' /\ UNCHANGED pred
<1>1. p \in Procs /\ job[p] \in Updating
  BY JobKinds DEF ScoringInv, ScoringTypeOK, UpdateRow, Procs
<1>2. PICK m \in Matches : m = job[p].match
  BY <1>1 DEF Updating
<1>3. job[p].row \in Rows
  BY <1>1 DEF Updating
<1>4. /\ row' = [row EXCEPT ![m] = job[p].row]
      /\ UNCHANGED <<pred, rules, logged, queue, dlq, call, historyVars>>
  BY <1>2 DEF UpdateRow
<1>5. PICK j \in {Idle, [pc |-> "publish", match |-> m]} :
            job' = [job EXCEPT ![p] = j]
  BY <1>2 DEF UpdateRow
<1>6. j \in Jobs /\ j.pc # "update"
  BY <1>5 DEF Jobs, Loading, Idle
<1>7. ScoringTypeOK'
  BY <1>1, <1>3, <1>4, <1>5, <1>6, HistoryStays DEF ScoringInv, ScoringTypeOK
<1>8. FinishedHasResult'
  BY <1>1, <1>4, <1>5, <1>6 DEF ScoringInv, ScoringTypeOK, FinishedHasResult,
     UpdateRow
<1>9. EditsHoldPoints'
  BY <1>4 DEF ScoringInv, EditsHoldPoints
<1> QED BY <1>4, <1>7, <1>8, <1>9 DEF ScoringInv

-----------------------------------------------------------------------------
(* Steps that write predictions.                                           *)

PredictionRows == [forecast : Forecasts \cup {NoResult}, points : Nat \cup {Unscored}]

\* What PointsAreFinal says of one step, corrected matches included.
PointsKept ==
    \A u \in Users, m \in Matches :
        pred[u][m].points # Unscored => pred'[u][m].points = pred[u][m].points

\* Marking the edits of the rows that changed: every call stays the call that
\* it was, and the edits that still are current are edits of other rows.
LEMMA TouchStep ==
    ASSUME ScoringInv, NEW rows, Touch(rows)
    PROVE  /\ call' \in [Clients -> Calls]
           /\ \A c \in Clients :
                call'[c].pc = "edit" /\ ~call'[c].stale =>
                    /\ call'[c] = call[c]
                    /\ <<call[c].user, call[c].match>> \notin rows
<1>1. ASSUME NEW c \in Clients PROVE call'[c] \in Calls
  <2>1. call[c] \in Calls
    BY DEF ScoringInv, ScoringTypeOK
  <2>2. CASE call[c].pc = "edit" /\ <<call[c].user, call[c].match>> \in rows
    <3>1. call[c] \in Editing
      BY <2>1, <2>2, CallKinds
    <3>2. call'[c] = [call[c] EXCEPT !.stale = TRUE]
      BY <2>2 DEF Touch
    <3> QED BY <3>1, <3>2 DEF Editing, Calls
  <2>3. CASE ~(call[c].pc = "edit" /\ <<call[c].user, call[c].match>> \in rows)
    BY <2>1, <2>3 DEF Touch
  <2> QED BY <2>2, <2>3
<1>2. ASSUME NEW c \in Clients, call'[c].pc = "edit", ~call'[c].stale
      PROVE  /\ call'[c] = call[c]
             /\ <<call[c].user, call[c].match>> \notin rows
  <2>1. CASE call[c].pc = "edit" /\ <<call[c].user, call[c].match>> \in rows
    <3>1. call[c] \in Editing
      BY <2>1, CallKinds DEF ScoringInv, ScoringTypeOK
    <3>2. call'[c] = [call[c] EXCEPT !.stale = TRUE]
      BY <2>1 DEF Touch
    <3> QED BY <3>1, <3>2, <1>2 DEF Editing
  <2>2. CASE ~(call[c].pc = "edit" /\ <<call[c].user, call[c].match>> \in rows)
    <3>1. call'[c] = call[c]
      BY <2>2 DEF Touch
    <3> QED BY <3>1, <2>2, <1>2
  <2> QED BY <2>1, <2>2
<1>3. call' \in [Clients -> Calls]
  BY <1>1 DEF Touch
<1> QED BY <1>2, <1>3

LEMMA BatchStep ==
    ASSUME ScoringInv, NEW p \in Procs, ScoreMatchBatch(p)
    PROVE  ScoringInv' /\ PointsKept
<1>1. job[p] \in Batching
  BY JobKinds DEF ScoringInv, ScoringTypeOK, ScoreMatchBatch
<1>2. PICK m \in Matches : m = job[p].match
  BY <1>1 DEF Batching
<1>3. PICK rows : rows = {u \in Users : job[p].read[u] # NoResult /\ Scorable(u, m)}
  OBVIOUS
<1>4. PICK pts : pts = [u \in Users |->
            CalculatePoints(job[p].read[u], job[p].result, job[p].cfg)]
  OBVIOUS
<1>5. /\ pred' = [u \in Users |->
            IF u \in rows THEN [pred[u] EXCEPT ![m].points = pts[u]] ELSE pred[u]]
      /\ Touch(rows \X {m})
      /\ UNCHANGED <<row, rules, logged, queue, dlq, historyVars>>
  BY <1>2, <1>3, <1>4 DEF ScoreMatchBatch
<1>6. \A u \in rows : u \in Users /\ pts[u] \in Nat /\ pred[u][m].points = Unscored
  <2> TAKE u \in rows
  <2>1. u \in Users /\ pred[u][m].points = Unscored /\ job[p].read[u] # NoResult
    BY <1>3 DEF Scorable
  <2>2. /\ job[p].read[u] \in Forecasts
        /\ job[p].result \in Results
        /\ job[p].cfg \in Configs
    BY <1>1, <2>1 DEF Batching
  <2>3. CalculatePoints(job[p].read[u], job[p].result, job[p].cfg) \in Nat
    BY <2>2, PointsType, ScoringAssumption
  <2> QED BY <2>1, <2>3, <1>4
<1>7. \A u \in Users, n \in Matches :
        /\ pred'[u][n].forecast = pred[u][n].forecast
        /\ pred'[u][n].points = IF u \in rows /\ n = m THEN pts[u]
                                ELSE pred[u][n].points
  BY <1>5 DEF ScoringInv, ScoringTypeOK
<1>8. pred' \in [Users -> [Matches -> PredictionRows]]
  <2>1. \A u \in Users : pred[u] \in [Matches -> PredictionRows]
    BY DEF ScoringInv, ScoringTypeOK, PredictionRows
  <2>2. ASSUME NEW u \in rows PROVE [pred[u] EXCEPT ![m].points = pts[u]]
                                        \in [Matches -> PredictionRows]
    BY <1>6, <2>1, <2>2 DEF PredictionRows
  <2> QED BY <1>5, <2>1, <2>2
<1>9. PICK j \in {Idle, [pc |-> "log", match |-> m, cfg |-> job[p].cfg]} :
        job' = [job EXCEPT ![p] = j]
  BY <1>2 DEF ScoreMatchBatch
<1>10. j \in Jobs /\ j.pc # "update"
  BY <1>1, <1>9 DEF Jobs, Logging, Batching, Idle
<1>11. ScoringTypeOK'
  BY <1>5, <1>8, <1>9, <1>10, TouchStep, HistoryStays
     DEF ScoringInv, ScoringTypeOK, PredictionRows
<1>12. FinishedHasResult'
  BY <1>5, <1>9, <1>10 DEF ScoringInv, ScoringTypeOK, FinishedHasResult
<1>13. EditsHoldPoints'
  <2> SUFFICES ASSUME NEW c \in Clients, call'[c].pc = "edit", ~call'[c].stale
               PROVE  pred'[call'[c].user][call'[c].match].points = call'[c].points
    BY DEF EditsHoldPoints
  <2>1. /\ call'[c] = call[c]
        /\ <<call[c].user, call[c].match>> \notin rows \X {m}
    BY <1>5, TouchStep
  <2>2. call[c] \in Editing
    BY <2>1, CallKinds DEF ScoringInv, ScoringTypeOK
  <2>3. call[c].user \in Users /\ call[c].match \in Matches
    BY <2>2 DEF Editing
  <2>4. pred[call[c].user][call[c].match].points = call[c].points
    BY <2>1 DEF ScoringInv, EditsHoldPoints
  <2>5. ~(call[c].user \in rows /\ call[c].match = m)
    BY <2>1
  <2> QED BY <1>7, <2>1, <2>3, <2>4, <2>5
<1>14. PointsKept
  BY <1>6, <1>7 DEF PointsKept
<1> QED BY <1>11, <1>12, <1>13, <1>14 DEF ScoringInv

-----------------------------------------------------------------------------
(* Steps of a client.                                                      *)

\* A call that starts or ends leaves the predictions alone; an edit starts
\* with the points that the row has.
LEMMA CallStep ==
    ASSUME ScoringInv, NEW c \in Clients, NEW k \in Calls,
           k.pc = "edit" => pred[k.user][k.match].points = k.points,
           call' = [call EXCEPT ![c] = k],
           UNCHANGED <<row, pred, rules, logged, queue, dlq, job, historyVars>>
    PROVE  ScoringInv'
<1>1. ScoringTypeOK'
  BY HistoryStays DEF ScoringInv, ScoringTypeOK
<1>2. EditsHoldPoints'
  BY DEF ScoringInv, ScoringTypeOK, EditsHoldPoints
<1>3. FinishedHasResult'
  BY DEF ScoringInv, FinishedHasResult
<1> QED BY <1>1, <1>2, <1>3 DEF ScoringInv

LEMMA SubmitStep ==
    ASSUME ScoringInv, NEW c \in Clients, NEW u \in Users, NEW m \in Matches,
           NEW f \in Forecasts, Submit(c, u, m, f)
    PROVE  ScoringInv' /\ UNCHANGED pred
<1>1. PICK k \in Inserting : call' = [call EXCEPT ![c] = k]
  BY DEF Submit, Inserting
<1>2. k \in Calls /\ k.pc # "edit"
  BY <1>1 DEF Calls, Inserting
<1>3. UNCHANGED <<row, pred, rules, logged, queue, dlq, job, historyVars>>
  BY DEF Submit
<1> QED BY <1>1, <1>2, <1>3, CallStep

LEMMA UpdateStep ==
    ASSUME ScoringInv, NEW c \in Clients, NEW u \in Users, NEW m \in Matches,
           NEW f \in Forecasts, Update(c, u, m, f)
    PROVE  ScoringInv' /\ UNCHANGED pred
<1>1. pred[u][m].points \in Nat \cup {Unscored}
  BY DEF ScoringInv, ScoringTypeOK
<1>2. PICK k : k = [pc |-> "edit", user |-> u, match |-> m, forecast |-> f,
                    points |-> pred[u][m].points, stale |-> FALSE]
  OBVIOUS
<1>3. k \in Calls /\ pred[k.user][k.match].points = k.points
  BY <1>1, <1>2 DEF Calls, Editing
<1>4. /\ call' = [call EXCEPT ![c] = k]
      /\ UNCHANGED <<row, pred, rules, logged, queue, dlq, job, historyVars>>
  BY <1>2 DEF Update
<1> QED BY <1>3, <1>4, CallStep

LEMMA ConflictStep ==
    ASSUME ScoringInv, NEW c \in Clients, EditConflict(c)
    PROVE  ScoringInv' /\ UNCHANGED pred
<1>1. Idle \in Calls /\ Idle.pc # "edit"
  BY DEF Calls, Idle
<1> QED BY <1>1, CallStep DEF EditConflict

\* The row that is inserted was not there: it had no points, and no edit can
\* have read it with other points than the ones it gets.
LEMMA UpsertStep ==
    ASSUME ScoringInv, NEW c \in Clients, Upsert(c)
    PROVE  ScoringInv' /\ PointsKept
<1>1. call[c] \in Inserting
  BY CallKinds DEF ScoringInv, ScoringTypeOK, Upsert
<1>2. PICK u \in Users, m \in Matches, f \in Forecasts :
        u = call[c].user /\ m = call[c].match /\ f = call[c].forecast
  BY <1>1 DEF Inserting
<1>3. /\ call' = [call EXCEPT ![c] = Idle]
      /\ UNCHANGED <<row, rules, logged, queue, dlq, job, historyVars>>
  BY DEF Upsert
<1>4. pred' = IF Present(u, m) THEN pred
              ELSE [pred EXCEPT ![u][m] = [forecast |-> f, points |-> Unscored]]
  BY <1>2 DEF Upsert
<1>5. pred' \in [Users -> [Matches -> PredictionRows]]
  BY <1>4 DEF ScoringInv, ScoringTypeOK, PredictionRows
<1>6. \A v \in Users, n \in Matches : pred'[v][n].points = pred[v][n].points
  BY <1>4 DEF Present, NoPrediction, Unscored, ScoringInv, ScoringTypeOK
<1>7. ScoringTypeOK'
  BY <1>3, <1>5, HistoryStays
     DEF ScoringInv, ScoringTypeOK, PredictionRows, Calls
<1>8. EditsHoldPoints'
  <2> SUFFICES ASSUME NEW d \in Clients, call'[d].pc = "edit", ~call'[d].stale
               PROVE  pred'[call'[d].user][call'[d].match].points = call'[d].points
    BY DEF EditsHoldPoints
  <2>1. call'[d] = call[d]
    BY <1>3 DEF Idle, ScoringInv, ScoringTypeOK
  <2>2. call[d] \in Editing
    BY <2>1, CallKinds DEF ScoringInv, ScoringTypeOK
  <2>3. call[d].user \in Users /\ call[d].match \in Matches
    BY <2>2 DEF Editing
  <2>4. pred[call[d].user][call[d].match].points = call[d].points
    BY <2>1 DEF ScoringInv, EditsHoldPoints
  <2> QED BY <1>6, <2>1, <2>3, <2>4
<1>9. FinishedHasResult'
  BY <1>3 DEF ScoringInv, FinishedHasResult
<1>10. PointsKept
  BY <1>6 DEF PointsKept
<1> QED BY <1>7, <1>8, <1>9, <1>10 DEF ScoringInv

\* The optimistic lock: the points that are written back are the row's own.
LEMMA EditStep ==
    ASSUME ScoringInv, NEW c \in Clients, UpdateIfUnchanged(c)
    PROVE  ScoringInv' /\ PointsKept
<1>1. call[c] \in Editing /\ call[c].pc = "edit" /\ ~call[c].stale
  BY CallKinds DEF ScoringInv, ScoringTypeOK, UpdateIfUnchanged, Unchanged
<1>2. PICK u \in Users, m \in Matches, f \in Forecasts :
        u = call[c].user /\ m = call[c].match /\ f = call[c].forecast
  BY <1>1 DEF Editing
<1>3. PICK x : x = call[c].points
  OBVIOUS
<1>4. x \in Nat \cup {Unscored} /\ pred[u][m].points = x
  BY <1>1, <1>2, <1>3 DEF Editing, ScoringInv, EditsHoldPoints
<1>5. pred' = [pred EXCEPT ![u][m] = [forecast |-> f, points |-> x]]
  BY <1>2, <1>3 DEF UpdateIfUnchanged
<1>6. UNCHANGED <<row, rules, logged, queue, dlq, job, historyVars>>
  BY DEF UpdateIfUnchanged
<1>7. pred' \in [Users -> [Matches -> PredictionRows]]
  BY <1>4, <1>5 DEF ScoringInv, ScoringTypeOK, PredictionRows
<1>8. \A v \in Users, n \in Matches : pred'[v][n].points = pred[v][n].points
  BY <1>4, <1>5 DEF ScoringInv, ScoringTypeOK
<1>9. ASSUME NEW d \in Clients
      PROVE  /\ call'[d] \in Calls
             /\ call'[d].pc = "edit" /\ ~call'[d].stale => call'[d] = call[d]
  <2>1. call[d] \in Calls
    BY DEF ScoringInv, ScoringTypeOK
  <2>2. CASE d = c
    <3>1. call'[d] = Idle
      BY <2>2 DEF UpdateIfUnchanged
    <3> QED BY <3>1 DEF Idle, Calls
  <2>3. CASE d # c /\ call[d].pc = "edit" /\ call[d].user = u /\ call[d].match = m
    <3>1. call[d] \in Editing
      BY <2>1, <2>3, CallKinds
    <3>2. call'[d] = [call[d] EXCEPT !.stale = TRUE]
      BY <1>2, <2>3 DEF UpdateIfUnchanged
    <3> QED BY <3>1, <3>2 DEF Editing, Calls
  <2>4. CASE d # c /\ ~(call[d].pc = "edit" /\ call[d].user = u /\ call[d].match = m)
    <3>1. call'[d] = call[d]
      BY <1>2, <2>4 DEF UpdateIfUnchanged
    <3> QED BY <2>1, <3>1
  <2> QED BY <2>2, <2>3, <2>4
<1>10. call' \in [Clients -> Calls]
  BY <1>9 DEF UpdateIfUnchanged
<1>11. ScoringTypeOK'
  BY <1>6, <1>7, <1>10, HistoryStays
     DEF ScoringInv, ScoringTypeOK, PredictionRows
<1>12. EditsHoldPoints'
  <2> SUFFICES ASSUME NEW d \in Clients, call'[d].pc = "edit", ~call'[d].stale
               PROVE  pred'[call'[d].user][call'[d].match].points = call'[d].points
    BY DEF EditsHoldPoints
  <2>1. call'[d] = call[d]
    BY <1>9
  <2>2. call[d] \in Editing
    BY <2>1, CallKinds DEF ScoringInv, ScoringTypeOK
  <2>3. call[d].user \in Users /\ call[d].match \in Matches
    BY <2>2 DEF Editing
  <2>4. pred[call[d].user][call[d].match].points = call[d].points
    BY <2>1 DEF ScoringInv, EditsHoldPoints
  <2> QED BY <1>8, <2>1, <2>3, <2>4
<1>13. FinishedHasResult'
  BY <1>6 DEF ScoringInv, FinishedHasResult
<1>14. PointsKept
  BY <1>8 DEF PointsKept
<1> QED BY <1>11, <1>12, <1>13, <1>14 DEF ScoringInv

-----------------------------------------------------------------------------

\* One step of the system: the invariant holds again, and no points that were
\* given have changed.
LEMMA ScoringStep ==
    ASSUME ScoringInv, [ScoringNext]_scoringVars
    PROVE  ScoringInv' /\ PointsKept
<1>1. UNCHANGED pred => PointsKept
  BY DEF PointsKept
<1>2. CASE UNCHANGED scoringVars
  BY <1>1, <1>2, HistoryStays
     DEF scoringVars, ScoringInv, ScoringTypeOK, EditsHoldPoints,
     FinishedHasResult
<1>3. ASSUME NEW p \in Admins, NEW m \in Matches, MatchNext(p, m)
      PROVE  ScoringInv' /\ PointsKept
  BY <1>1, <1>3, MatchStep
<1>4. ASSUME NEW p \in Admins, UpdateRow(p) \/ Publish(p)
      PROVE  ScoringInv' /\ PointsKept
  BY <1>1, <1>4, UpdateRowStep, PublishStep
<1>5. ASSUME NEW w \in Workers, NEW m \in Matches, Deliver(w, m)
      PROVE  ScoringInv' /\ PointsKept
  BY <1>1, <1>5, DeliverStep
<1>6. ASSUME NEW p \in Procs, ScoreNext(p)
      PROVE  ScoringInv' /\ PointsKept
  <2>1. \/ LoadMatch(p) \/ ReadPredictions(p) \/ ScoreMatchBatch(p)
        \/ WriteScoringLog(p) \/ ScoringFails(p)
    BY <1>6 DEF ScoreNext
  <2> QED BY <1>1, <2>1, LoadStep, ReadStep, BatchStep, LogStep, FailStep
<1>7. ASSUME NEW p \in Procs, Crash(p)
      PROVE  ScoringInv' /\ PointsKept
  BY <1>1, <1>7, CrashStep
<1>8. ASSUME NEW c \in Clients, ClientNext(c)
      PROVE  ScoringInv' /\ PointsKept
  <2>1. CASE \E u \in Users, m \in Matches, f \in Forecasts :
                Submit(c, u, m, f) \/ Update(c, u, m, f)
    BY <1>1, <2>1, SubmitStep, UpdateStep
  <2>2. CASE Upsert(c) \/ UpdateIfUnchanged(c) \/ EditConflict(c)
    BY <1>1, <2>2, UpsertStep, EditStep, ConflictStep
  <2> QED BY <1>8, <2>1, <2>2 DEF ClientNext
<1>9. CASE (\E m \in Matches : ReplayDLQ(m)) \/ (\E cfg \in Configs : UpdateRules(cfg))
  BY <1>1, <1>9, QuietStep
<1> QED BY <1>2, <1>3, <1>4, <1>5, <1>6, <1>7, <1>8, <1>9 DEF ScoringNext

\* The inductive invariant holds in every reachable state: whatever is
\* redelivered, replayed or lost in a crash, an edit that the optimistic lock
\* of UpdateIfUnchanged accepts holds the points of its row.
THEOREM ScoringInvariant == ScoringSpec => []ScoringInv
<1>1. ScoringInit => ScoringInv
  BY ScoringInitially
<1>2. ScoringInv /\ [ScoringNext]_scoringVars => ScoringInv'
  BY ScoringStep
<1> QED BY <1>1, <1>2, PTL DEF ScoringSpec

\* Every variable keeps its type; in particular ScoreMatchBatch never writes
\* points that are not a natural number, under any rules.
THEOREM ScoringTypeCorrect == ScoringSpec => []ScoringTypeOK
<1>1. ScoringInv => ScoringTypeOK
  BY DEF ScoringInv
<1> QED BY <1>1, ScoringInvariant, PTL

\* Points are given once: no redelivery, replay, second worker or concurrent
\* edit changes or erases the points that ScoreMatchBatch gave a prediction.
THEOREM PointsGivenOnce == ScoringSpec => PointsAreFinal
<1> DEFINE Kept == \A u \in Users, m \in Matches :
                        pred[u][m].points # Unscored /\ m \notin corrected' =>
                            pred'[u][m].points = pred[u][m].points
<1>1. ScoringInv /\ [ScoringNext]_scoringVars => [Kept]_scoringVars
  BY ScoringStep DEF PointsKept
<1> HIDE DEF Kept
<1>2. ScoringSpec => [][Kept]_scoringVars
  BY <1>1, ScoringInvariant, PTL DEF ScoringSpec
<1> QED BY <1>2 DEF PointsAreFinal, Kept

\* The same of corrected matches, which is not what match_service.go wants:
\* UPDATE ... WHERE scored_at IS NULL skips every prediction that has points,
\* so the MatchFinished that CorrectResult publishes recomputes none of them.
THEOREM CorrectionsKeepPoints == ScoringSpec => [][PointsKept]_scoringVars
<1>1. ScoringInv /\ [ScoringNext]_scoringVars => [PointsKept]_scoringVars
  BY ScoringStep
<1> HIDE DEF PointsKept
<1> QED BY <1>1, ScoringInvariant, PTL DEF ScoringSpec
=============================================================================
