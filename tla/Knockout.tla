------------------------------ MODULE Knockout ------------------------------
(***************************************************************************)
(* Who fills the bracket, and when: the match service, the worker's        *)
(* handler of MatchFinished, its backfill at the start, and administrators.*)
(*                                                                         *)
(*   cmd/worker/handlers.go, main.go                                       *)
(*   internal/service/tournament_service.go, match_service.go              *)
(*   internal/infrastructure/messaging/redis.go, redis_dlq_service.go      *)
(*                                                                         *)
(* What the handler does about points and standings is Snapshots.          *)
(***************************************************************************)
EXTENDS Bracket

CONSTANTS Calls,       \* calls of the match service by requests and sync jobs:
                       \* the operation, its match and the result it was given
          Threads,     \* goroutines of the consumer pools, one per replica
          Fixtures,    \* the matches as they are at the start
          Typed,       \* per slot, what an administrator may type into it
          MaxFaults,   \* bound: crashes, and calls of Redis or the database
                       \* that fail
          MaxEdits     \* bound: administrators' steps, and live scores

\* The name of a team, or a text that stands for one in a knockout match.
Teams == Nat \ {NoTeam}
Scores == Nat \X Nat
Results == [score : Scores, penalties : {"none", "home", "away"}]
MatchRows == [home : Teams, away : Teams,
              status : {"scheduled", "live", "finished", "cancelled"},
              score : Scores \cup {NoScore},
              penalties : {"none", "home", "away"}]

\* A team plays in one group (migration 000168).
ASSUME KnockoutAssumption ==
    /\ Fixtures \in [Matches -> MatchRows]
    /\ \A m, n \in Matches :
        /\ NoGroup \notin {GroupOf[m], GroupOf[n]} /\ GroupOf[m] # GroupOf[n]
        => {Fixtures[m].home, Fixtures[m].away}
           \cap {Fixtures[n].home, Fixtures[n].away} = {}
    /\ \A c \in Calls : c.match \in Matches /\ c.result \in Results
    /\ Typed \in [Slots -> SUBSET Teams]
    /\ MaxFaults \in Nat /\ MaxEdits \in Nat

VARIABLES queue,       \* the stream: events that nobody has read, the oldest
                       \* first
          dead,        \* the dead letters
          thread,      \* what each goroutine of the worker is doing
          office,      \* the administrator's run of the best thirds
          call,        \* what each call of the match service has decided
          overwritten, \* matches that were over and were changed after that
          missed,      \* matches whose slots nobody will fill; like overwritten
                       \* for the properties
          faults, edits

bracketVars == <<match, slot>>
streamVars == <<queue, dead>>
knockoutVars == <<bracketVars, streamVars, call, thread, office, overwritten,
                  missed, faults, edits>>

NoEvent == [match |-> "no match"]
NoCall == [pc |-> "idle", row |-> "no row"]
Asleep == [pc |-> "idle", event |-> NoEvent, todo |-> << >>, rest |-> {},
           listed |-> {}]
NoOffice == [todo |-> {}, plan |-> << >>, teams |-> << >>, fits |-> TRUE]

KnockoutInit ==
    /\ match = Fixtures
    /\ slot = [s \in Slots |-> [team |-> NoTeam, by |-> "nobody"]]
    /\ queue = << >> /\ dead = {}
    /\ thread = [t \in Threads |-> Asleep]
    /\ office = NoOffice
    /\ call = [c \in Calls |-> NoCall]
    /\ overwritten = {} /\ missed = {}
    /\ faults = 0 /\ edits = 0

Fault == faults < MaxFaults /\ faults' = faults + 1
Edit == edits < MaxEdits /\ edits' = edits + 1

-----------------------------------------------------------------------------
\* The match service.  Every operation reads the row, checks it, and writes all
\* of it back: call[c] holds what the request or sync job is going to write.

Decide(c, op, row) ==
    /\ c.op = op /\ call[c] = NoCall
    /\ call' = [call EXCEPT ![c] = [pc |-> "update", row |-> row]]
    /\ UNCHANGED <<bracketVars, streamVars, thread, office, overwritten, missed,
                   faults>>

StartMatch(c) ==
    /\ match[c.match].status = "scheduled"
    /\ Decide(c, "start", [match[c.match] EXCEPT !.status = "live"])
    /\ UNCHANGED edits

\* The first half of applyScoreAndPublish.
Scored(row, result) ==
    [row EXCEPT !.status = "finished", !.score = result.score,
                !.penalties = result.penalties]

UpdateResult(c) ==
    /\ match[c.match].status = "live"
    /\ Decide(c, "result", Scored(match[c.match], c.result))
    /\ UNCHANGED edits

CorrectResult(c) ==
    /\ match[c.match].status \in {"live", "finished"}
    /\ Edit
    /\ Decide(c, "correct", Scored(match[c.match], c.result))

CancelMatch(c) ==
    /\ match[c.match].status \notin {"finished", "cancelled"}
    /\ Edit
    /\ Decide(c, "cancel", [match[c.match] EXCEPT !.status = "cancelled"])

\* The sync job found the fixture under way; it read the row before it asked
\* the provider.
ApplyLiveScore(c) ==
    /\ match[c.match].status = "live"
    /\ Edit
    /\ Decide(c, "live", [match[c.match] EXCEPT !.score = c.result.score])

\* matchRepo.Update: WHERE id=$18 and nothing else.  Only results are published.
UpdateRow(c) ==
    LET m == c.match
        row == call[c].row
        over == match[m].status \in {"finished", "cancelled"}
    IN  /\ call[c].pc = "update"
        /\ match' = [match EXCEPT ![m] = row]
        /\ call' = [call EXCEPT ![c] =
                IF row.status = "finished" THEN [@ EXCEPT !.pc = "publish"]
                ELSE NoCall]
        /\ overwritten' = overwritten \cup {k \in {m} : over /\ row # match[m]}
        /\ missed' = missed \cup {k \in {m} : row.status = "cancelled"}
        /\ UNCHANGED <<slot, streamVars, thread, office, faults, edits>>

Publish(c) ==
    /\ call[c].pc = "publish"
    /\ queue' = Append(queue, [match |-> c.match, result |-> call[c].row])
    /\ call' = [call EXCEPT ![c] = NoCall]
    /\ UNCHANGED <<bracketVars, dead, thread, office, overwritten, missed,
                   faults, edits>>

\* The statement fails or the process dies; or the publication fails, and then
\* the points are given on the spot and nobody looks at the slots.
CallFails(c) ==
    /\ call[c] # NoCall /\ Fault
    /\ missed' = missed \cup {k \in {c.match} : call[c].pc = "publish"}
    /\ call' = [call EXCEPT ![c] = NoCall]
    /\ UNCHANGED <<bracketVars, streamVars, thread, office, overwritten, edits>>

-----------------------------------------------------------------------------
\* newMatchFinishedHandler, as far as it concerns the bracket.

At(t, pc) == thread[t].pc = pc
Goto(t, pc) == thread' = [thread EXCEPT ![t].pc = pc]
NextChoice(t) ==
    thread' = [thread EXCEPT ![t].pc = "find", ![t].todo = Tail(@)]

Receive(t) ==
    /\ At(t, "idle") /\ queue # << >>
    /\ queue' = Tail(queue)
    /\ thread' = [thread EXCEPT ![t] = [Asleep EXCEPT !.pc = "slots",
                                                      !.event = Head(queue)]]
    /\ UNCHANGED <<bracketVars, dead, call, office, overwritten, missed, faults,
                   edits>>

\* ScoreMatch, which comes first, used up its attempts: pushDLQ, and the event
\* is acknowledged.
ScoreFails(t) ==
    LET event == thread[t].event
    IN  /\ At(t, "slots") /\ Fault
        /\ dead' = dead \cup {event}
        /\ missed' = missed \cup {event.match}
        /\ thread' = [thread EXCEPT ![t] = Asleep]
        /\ UNCHANGED <<bracketVars, queue, call, office, overwritten, edits>>

\* An administrator replays the dead letters.
Replay(event) ==
    /\ event \in dead /\ Edit
    /\ dead' = dead \ {event}
    /\ queue' = Append(queue, event)
    /\ UNCHANGED <<bracketVars, call, thread, office, overwritten, missed,
                   faults>>

\* runSlotAutoConfirm: the group of the match, or its result.
ReadSlots(t) ==
    LET event == thread[t].event
        g == GroupOf[event.match]
    IN  /\ At(t, "slots")
        /\ thread' = [thread EXCEPT
                ![t].pc = "find",
                ![t].todo = IF g # NoGroup THEN GroupChoices(g)
                            ELSE ResultChoices(event.match, event.result)]
        /\ UNCHANGED <<bracketVars, streamVars, call, office, overwritten,
                       missed, faults, edits>>

FindSlot(t) ==
    /\ At(t, "find") /\ thread[t].todo # << >>
    /\ IF Wanted(Head(thread[t].todo)) THEN Goto(t, "confirm")
       ELSE NextChoice(t)
    /\ UNCHANGED <<bracketVars, streamVars, call, office, overwritten, missed,
                   faults, edits>>

ConfirmFound(t) ==
    /\ At(t, "confirm")
    /\ AutoConfirmSlot(Head(thread[t].todo))
    /\ NextChoice(t)
    /\ UNCHANGED <<streamVars, call, office, overwritten, missed, faults, edits>>

\* The look-up or the update fails: it is logged, and the next slot tried.
ConfirmFails(t) ==
    /\ At(t, "confirm") /\ Fault
    /\ NextChoice(t)
    /\ missed' = missed \cup SourceMatches(Head(thread[t].todo).source)
    /\ UNCHANGED <<bracketVars, streamVars, call, office, overwritten, edits>>

\* BackfillSlots: the next group is read when the one before it is confirmed,
\* then the finished matches of one knockout phase after the other.
Backfilling(t) == At(t, "find") /\ thread[t].todo = << >>

ReadGroup(t, g) ==
    /\ Backfilling(t) /\ g \in thread[t].rest
    /\ thread' = [thread EXCEPT ![t].todo = GroupChoices(g),
                                ![t].rest = @ \ {g}]
    /\ UNCHANGED <<bracketVars, streamVars, call, office, overwritten, missed,
                   faults, edits>>

ListByPhase(t, phase) ==
    /\ Backfilling(t) /\ thread[t].listed = {}
    /\ thread[t].rest \cap Groups = {}
    /\ thread' = [thread EXCEPT
            ![t].rest = @ \ phase,
            ![t].listed = {[match |-> m, result |-> match[m]] :
                            m \in {k \in phase : match[k].status = "finished"}}]
    /\ UNCHANGED <<bracketVars, streamVars, call, office, overwritten, missed,
                   faults, edits>>

ReadListed(t, event) ==
    /\ Backfilling(t)
    /\ thread' = [thread EXCEPT
            ![t].todo = ResultChoices(event.match, event.result),
            ![t].listed = @ \ {event}]
    /\ UNCHANGED <<bracketVars, streamVars, call, office, overwritten, missed,
                   faults, edits>>

BackfillStep(t) ==
    \/ \E g \in Groups : ReadGroup(t, g)
    \/ \E phase \in SUBSET thread[t].rest \ {{}} : ListByPhase(t, phase)
    \/ \E event \in thread[t].listed : ReadListed(t, event)

\* A group or a phase cannot be listed: it is logged, and skipped.
Unread(t) ==
    IF At(t, "slots") THEN {{GroupOf[thread[t].event.match]}}
    ELSE {part \in SUBSET thread[t].rest :
            /\ Backfilling(t)
            /\ \/ \E g \in Groups : part = {g}
               \/ thread[t].rest \cap Groups = {} /\ thread[t].listed = {}}

ListFails(t) ==
    /\ Fault
    /\ \E part \in Unread(t) \ {{}, {NoGroup}} :
        /\ thread' = [thread EXCEPT ![t].pc = "find", ![t].rest = @ \ part]
        /\ missed' = missed \cup {m \in Matches : {m, GroupOf[m]} \cap part # {}}
    /\ UNCHANGED <<bracketVars, streamVars, call, office, overwritten, edits>>

\* The rest of the handler, and the acknowledgement.
Acknowledge(t) ==
    /\ At(t, "find") /\ thread[t].todo = << >>
    /\ thread[t].rest = {} /\ thread[t].listed = {}
    /\ thread' = [thread EXCEPT ![t] = Asleep]
    /\ UNCHANGED <<bracketVars, streamVars, call, office, overwritten, missed,
                   faults, edits>>

\* The replica dies, and starts again under another name (the name has the
\* pid): the event that it had not acknowledged stays with the old one, and
\* BackfillSlots makes up for it.  Under the same name it would be read again
\* as well, as after a Replay.
Crash(t) ==
    /\ ~At(t, "idle") /\ Fault
    /\ thread' = [thread EXCEPT ![t] = [Asleep EXCEPT !.pc = "find",
                                                      !.rest = BackfillSlots]]
    /\ UNCHANGED <<bracketVars, streamVars, call, office, overwritten, missed,
                   edits>>

-----------------------------------------------------------------------------
\* The administrator at the bracket.

ConfirmSlot(s, team) ==
    /\ Edit
    /\ Confirm(s, team, "admin")
    /\ UNCHANGED <<streamVars, call, thread, office, overwritten, missed, faults>>

\* AutoConfirmBestThirdSlots: what to confirm, then one slot after another.
DecideThirds ==
    /\ office.todo = {} /\ Edit
    /\ \A g \in Groups : GroupComplete(g)
    /\ LET found == MatchThirds(ThirdSlots, BestThirds)
           plan == IF found.ok THEN Assignment(ThirdSlots, BestThirds)
                   ELSE << >>
       IN office' = [todo |-> DOMAIN plan, plan |-> plan,
                     teams |-> BestThirds, fits |-> found.ok]
    /\ UNCHANGED <<bracketVars, streamVars, call, thread, overwritten, missed,
                   faults>>

\* A slot that cannot be confirmed is logged and left.
ConfirmThird ==
    \E s \in office.todo :
        /\ \A r \in office.todo : s <= r
        /\ \/ Confirm(s, office.plan[s], "admin") /\ UNCHANGED faults
           \/ Fault /\ UNCHANGED bracketVars
        /\ office' = [office EXCEPT !.todo = @ \ {s}]
        /\ UNCHANGED <<streamVars, call, thread, overwritten, missed, edits>>

-----------------------------------------------------------------------------

ThreadStep(t) ==
    \/ Receive(t) \/ ReadSlots(t) \/ FindSlot(t) \/ ConfirmFound(t)
    \/ BackfillStep(t) \/ Acknowledge(t)

CallNext(c) ==
    \/ StartMatch(c) \/ UpdateResult(c) \/ CorrectResult(c) \/ CancelMatch(c)
    \/ ApplyLiveScore(c) \/ UpdateRow(c) \/ Publish(c) \/ CallFails(c)

KnockoutNext ==
    \/ \E c \in Calls : CallNext(c)
    \/ \E t \in Threads :
        \/ ThreadStep(t)
        \/ ScoreFails(t) \/ ListFails(t) \/ ConfirmFails(t) \/ Crash(t)
    \/ \E event \in dead : Replay(event)
    \/ \E s \in Slots : \E team \in Typed[s] : ConfirmSlot(s, team)
    \/ DecideThirds \/ ConfirmThird

\* The consumers keep reading, and a call that has begun goes on.  Nothing is
\* asked of matches and administrators.
KnockoutSpec ==
    /\ KnockoutInit /\ [][KnockoutNext]_knockoutVars
    /\ \A t \in Threads : WF_knockoutVars(ThreadStep(t))
    /\ \A c \in Calls : WF_knockoutVars(UpdateRow(c) \/ Publish(c))

-----------------------------------------------------------------------------

\* The system never takes back what an administrator put into a slot, however
\* its look-up and its update fall around the administrator's (AutoConfirmSlot
\* updates WHERE team IS NULL).
AdminChoiceStands ==
    [][\A s \in Slots : slot[s].by = "admin" => slot'[s].by = "admin"]_knockoutVars

\* The teams that rank above the team in its group.
Above(g, team) ==
    {other \in TeamsOf(g) :
        LessStanding(GroupStanding(g, other), GroupStanding(g, team))}

\* The team is the one of its group that the source asks for.
Right(source, team) ==
    GroupMatches(source.of) \cap overwritten = {} =>
        /\ GroupComplete(source.of)
        /\ team \in TeamsOf(source.of)
        /\ Cardinality(Above(source.of, team))
           = (IF source.kind = "first" THEN 0 ELSE 1)

\* What the system put into the first or second slot of a group is the team
\* with none, or one, above it in the final table of the group.  Groups with
\* an overwritten match are left out: matchRepo.Update has no condition, so a
\* correction, or a write that was under way, may change a match that is over,
\* and AutoConfirmGroupSlots skips filled slots.
AutoIsRight ==
    \A s \in Slots :
        slot[s].by = "system" /\ Source[s].kind \in {"first", "second"}
        => Right(Source[s], slot[s].team)

\* AutoConfirmBestThirdSlots, when there are thirds, gives up only when no
\* assignment fits, and else fills every slot for thirds; each gets a team of
\* its own, from a group it admits.
ThirdsMatched ==
    /\ office.teams # << >> =>
        /\ office.fits <=> ThirdsFit(ThirdSlots, office.teams)
        /\ office.fits =>
            DOMAIN office.plan = {s \in Slots : Source[s].kind = "third"}
    /\ \A r, s \in DOMAIN office.plan : office.plan[r] = office.plan[s] => r = s
    /\ \A s \in DOMAIN office.plan : \E j \in DOMAIN office.teams :
        /\ office.teams[j].team = office.plan[s]
        /\ office.teams[j].group \in Source[s].of

\* A group that is over and stays so gets its first and second into the
\* bracket, although its last matches are handled at the same time and workers
\* die and lose their events, unless an event never reached the stream or is
\* dead, an update failed, or a match was called off.  A live score that was
\* under way may put a match back to live: the group is then not over.
SlotsFilled ==
    []<>(\A s \in Slots :
            Source[s].kind \in {"first", "second"} =>
                \/ slot[s].team # NoTeam
                \/ ~GroupComplete(Source[s].of)
                \/ GroupMatches(Source[s].of) \cap missed # {})

=============================================================================
