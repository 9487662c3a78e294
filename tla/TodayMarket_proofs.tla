-------------------------- MODULE TodayMarket_proofs --------------------------
(* Proofs about RefreshCoordinator, about TodayMarketPage, which extends it, *)
(* and about MarketReading, which shares no state with them.               *)
EXTENDS TodayMarketPage, MarketReading, FiniteSetTheorems, SequenceTheorems, WellFoundedInduction, TLAPS

(* A command asks for the scope whose status it carries.                   *)
Posts ==
    \A r \in Requests : trigger[r] \in Triggers => expected[r].scope = target[r]

(* An acquiring handler is in the generation its own claim made.           *)
Claims ==
    \A r \in Requests : pc[r] = "acquire" =>
        r \in started /\ revision[target[r]] = expected[r].revision + 1

(* What started an attempt in this process used its generation up.         *)
Used ==
    \A r \in started :
        /\ pc[r] \in {"acquire", "answered"} /\ trigger[r] \in Triggers
        /\ ranIn[r] = epoch
        /\ revision[target[r]] > expected[r].revision
        /\ trigger[r] = "first_today_market_entry" => automatic[target[r]]

DoneWasStarted ==
    \A r \in Requests :
        pc[r] = "answered" /\ reply[r] = "done" /\ ranIn[r] = epoch => r \in started

(* last_command_key names a command concluded at least two generations ago. *)
LastIsPast ==
    \A s \in Scope : lastCommand[s][2] \in Triggers =>
        /\ lastCommand[s][1].scope = s
        /\ revision[s] >= lastCommand[s][1].revision + 2

ReplayIsPast ==
    \A r \in Requests :
        pc[r] = "answered" /\ reply[r] = "replay" /\ ranIn[r] = epoch =>
            trigger[r] \in Triggers /\ revision[target[r]] >= expected[r].revision + 2

(* While a terminal phase stands, it is the answer the last command got.   *)
LastAnswer ==
    \A r \in Requests :
        /\ pc[r] = "answered" /\ reply[r] = "done" /\ ranIn[r] = epoch
        /\ lastCommand[target[r]] = CommandKey(r)
        /\ phase[target[r]] \in Terminal
        => shows[r] = StatusOf(target[r])

RanBefore == \A r \in Requests : ranIn[r] <= epoch

(* In the first process, the statuses clients hold were served by it.      *)
Genuine(st) ==
    /\ st.revision <= revision[st.scope]
    /\ st.revision = revision[st.scope] => st = StatusOf(st.scope)

GenuineServed ==
    epoch = 0 =>
        \A r \in Requests :
            /\ HasStatus(r) => Genuine(shows[r])
            /\ trigger[r] \in Triggers => Genuine(expected[r])

ConflictIsPast ==
    \A r \in Requests : epoch = 0 /\ pc[r] = "conflict" =>
        /\ trigger[r] \in Triggers
        /\ \/ revision[target[r]] > expected[r].revision
           \/ trigger[r] = "first_today_market_entry" /\ expected[r].automatic
           \/ expected[r].phase = "refresh_in_progress"

IInv ==
    /\ CoordTypeOK
    /\ Posts /\ Claims /\ Used /\ DoneWasStarted /\ LastIsPast /\ ReplayIsPast
    /\ LastAnswer /\ RanBefore /\ GenuineServed /\ ConflictIsPast
    /\ SingleFlight /\ ProgressHasOwner /\ OneAttemptPerGeneration
    /\ AutomaticOnce /\ AnswerIsOwnAttempt /\ ReplayRepeatsAnswer
    /\ ConflictIsNews

-----------------------------------------------------------------------------
(* Facts about statuses                                                    *)

(* The components of what requests and scopes hold have their types.       *)
LEMMA Components ==
    ASSUME CoordTypeOK
    PROVE  /\ \A r \in Requests :
                 /\ target[r] \in Scope
                 /\ expected[r].scope \in Scope /\ expected[r].revision \in Nat
                 /\ shows[r].scope \in Scope /\ shows[r].revision \in Nat
                 /\ CommandKey(r) \in Command
                 /\ CommandKey(r)[1] = expected[r] /\ CommandKey(r)[2] = trigger[r]
           /\ \A s \in Scope :
                 /\ revision[s] \in Nat
                 /\ StatusOf(s) \in Status
                 /\ lastCommand[s] \in Command
                 /\ lastCommand[s][1].revision \in Nat
    BY DEF CoordTypeOK, Status, Command, CommandKey, StatusOf

LEMMA Constants ==
    /\ AnyScope \in Scope /\ NoStatus \in Status /\ NoCommand \in Command
    /\ NoTrigger \notin Triggers /\ NoCommand[2] \notin Triggers
<1>1. (CHOOSE x \in Selections : TRUE) \in Selections
    BY SelectionAssumption
<1>2. AnyScope \in Scope
    BY <1>1, MoveAssumption DEF AnyScope, Scope
<1>3. NoStatus \in Status
    BY <1>2 DEF NoStatus, Status, Phases
<1>4. NoTrigger \notin Triggers
    BY DEF NoTrigger, Triggers
<1>5. NoCommand \in Command /\ NoCommand[2] = NoTrigger
    BY <1>3 DEF NoCommand, Command
<1>6. QED
    BY <1>2, <1>3, <1>4, <1>5

LEMMA SendStep ==
    ASSUME IInv, NEW r \in Requests, NEW x \in Scope, NEW st \in Status, NEW t \in Triggers \cup {NoTrigger},
           Send(r, x, st, t), t \in Triggers => st.scope = x /\ (epoch = 0 => Genuine(st))
    PROVE  IInv'
<1> USE DEF IInv
<1>0. CoordTypeOK
    OBVIOUS
<1>1. CoordTypeOK'
    BY <1>0, Components, Constants DEF Send, Goto, stateVars, CoordTypeOK, Status, PC, Replies
<1>2. Posts'
    BY <1>0, Components, Constants DEF Send, Goto, stateVars, CoordTypeOK, Posts
<1>3. Claims'
    BY <1>0, Components, Constants DEF Send, Goto, stateVars, CoordTypeOK, Claims, SingleFlight
<1>4. Used'
    BY <1>0, Components, Constants DEF Send, Goto, stateVars, CoordTypeOK, Used, Claims, Posts,
        RanBefore
<1>5. DoneWasStarted'
    BY <1>0, Components, Constants DEF Send, Goto, stateVars, CoordTypeOK, DoneWasStarted, Claims
<1>6. LastIsPast'
    BY <1>0, Components, Constants DEF Send, Goto, stateVars, CoordTypeOK, LastIsPast, Claims,
        Posts, CommandKey
<1>7. ReplayIsPast'
    BY <1>0, Components, Constants DEF Send, Goto, stateVars, CoordTypeOK, ReplayIsPast,
        LastIsPast, Posts, CommandKey
<1>8. LastAnswer'
    BY <1>0, Components, Constants DEF Send, Goto, stateVars, CoordTypeOK, LastAnswer,
        DoneWasStarted, OneAttemptPerGeneration, Claims, StatusOf, CommandKey
<1>9. RanBefore'
    BY <1>0, Components, Constants DEF Send, Goto, stateVars, CoordTypeOK, RanBefore
<1>10. GenuineServed'
    BY <1>0, Components, Constants DEF Send, Goto, stateVars, CoordTypeOK, GenuineServed, Posts,
        Genuine, HasStatus, StatusOf
<1>11. ConflictIsPast'
    BY <1>0, Components, Constants DEF Send, Goto, stateVars, CoordTypeOK, ConflictIsPast,
        Posts, GenuineServed, ProgressHasOwner, StatusOf, Genuine
<1>12. SingleFlight'
    BY <1>0, Components, Constants DEF Send, Goto, stateVars, CoordTypeOK, SingleFlight,
        ProgressHasOwner
<1>13. ProgressHasOwner'
    BY <1>0, Components, Constants DEF Send, Goto, stateVars, CoordTypeOK, ProgressHasOwner,
        SingleFlight
<1>14. OneAttemptPerGeneration'
    BY <1>0, Components, Constants DEF Send, Goto, stateVars, CoordTypeOK,
        OneAttemptPerGeneration, Used, Posts
<1>15. AutomaticOnce'
    BY <1>0, Components, Constants DEF Send, Goto, stateVars, CoordTypeOK, AutomaticOnce, Used
<1>16. AnswerIsOwnAttempt'
    BY <1>0, Components, Constants DEF Send, Goto, stateVars, CoordTypeOK, AnswerIsOwnAttempt,
        Claims, Posts, Used, StatusOf
<1>17. ReplayRepeatsAnswer'
    BY <1>0, Components, Constants DEF Send, Goto, stateVars, CoordTypeOK, ReplayRepeatsAnswer,
        LastAnswer, ReplayIsPast, Claims, Posts, Used, RanBefore, StatusOf, CommandKey
<1>18. ConflictIsNews'
    BY <1>0, Components, Constants DEF Send, Goto, stateVars, CoordTypeOK, ConflictIsNews,
        ConflictIsPast, GenuineServed, Posts, StatusOf, Genuine
<1>19. QED
    BY <1>1, <1>2, <1>3, <1>4, <1>5, <1>6, <1>7, <1>8, <1>9, <1>10, <1>11, <1>12, <1>13, <1>14,
        <1>15, <1>16, <1>17, <1>18

LEMMA ResolveStep ==
    ASSUME IInv, NEW r \in Requests, Resolve(r)
    PROVE  IInv'
<1> USE DEF IInv
<1>0. CoordTypeOK
    OBVIOUS
<1>a. \A q \in Requests \ {r} : pc'[q] = pc[q] /\ target'[q] = target[q] /\ reply'[q] = reply[q]
                                      /\ shows'[q] = shows[q]
    BY <1>0, Components DEF Resolve, Answer, Goto, CoordTypeOK
<1>b. /\ pc[r] = "resolve" /\ pc'[r] \in {"execute", "answered"} /\ target'[r] \in Scope
      /\ trigger[r] \in Triggers => target'[r] = target[r]
      /\ pc'[r] = "answered" => reply'[r] \in {"stale_scope", "unavailable"}
    BY <1>0, Components, Constants DEF Resolve, Answer, Goto, CoordTypeOK, Authoritative, Scope
<1>c. UNCHANGED <<enabled, moved, stateVars, epoch, expected, trigger, ranIn, started>>
    BY DEF Resolve
<1>1. CoordTypeOK'
  <2>1. target' \in [Requests -> Scope]
    <3>1. \E v : target' = [target EXCEPT ![r] = v]
      BY <1>0 DEF Resolve, CoordTypeOK
    <3>2. QED
      BY <1>b, <3>1, <1>0 DEF CoordTypeOK
  <2>2. pc' \in [Requests -> PC] /\ reply' \in [Requests -> Replies] /\ shows' \in [Requests -> Status]
    BY <1>0, Constants DEF Resolve, Answer, Goto, CoordTypeOK, PC, Replies
  <2>3. QED
    BY <1>c, <2>1, <2>2, <1>0 DEF CoordTypeOK, stateVars
<1>2. Posts'
    BY <1>0, Components, Constants DEF Resolve, Answer, Goto, Authoritative, stateVars,
        CoordTypeOK, Posts
<1>3. Claims'
    BY <1>0, Components, Constants DEF Resolve, Answer, Goto, Authoritative, stateVars,
        CoordTypeOK, Claims, SingleFlight
<1>4. Used'
    BY <1>0, Components, Constants DEF Resolve, Answer, Goto, Authoritative, stateVars,
        CoordTypeOK, Used, Claims, Posts, RanBefore
<1>5. DoneWasStarted'
    BY <1>0, Components, Constants DEF Resolve, Answer, Goto, Authoritative, stateVars,
        CoordTypeOK, DoneWasStarted, Claims
<1>6. LastIsPast'
    BY <1>0, Components, Constants DEF Resolve, Answer, Goto, Authoritative, stateVars,
        CoordTypeOK, LastIsPast, Claims, Posts, CommandKey
<1>7. ReplayIsPast'
    BY <1>a, <1>b, <1>c, <1>0 DEF stateVars, CoordTypeOK, ReplayIsPast
<1>8. LastAnswer'
    BY <1>0, Components, Constants DEF Resolve, Answer, Goto, Authoritative, stateVars,
        CoordTypeOK, LastAnswer, DoneWasStarted, OneAttemptPerGeneration, Claims, StatusOf,
        CommandKey
<1>9. RanBefore'
    BY <1>0, Components, Constants DEF Resolve, Answer, Goto, Authoritative, stateVars,
        CoordTypeOK, RanBefore
<1>10. GenuineServed'
    BY <1>0, Components, Constants DEF Resolve, Answer, Goto, Authoritative, stateVars,
        CoordTypeOK, GenuineServed, Posts, Genuine, HasStatus, StatusOf
<1>11. ConflictIsPast'
    BY <1>0, Components, Constants DEF Resolve, Answer, Goto, Authoritative, stateVars,
        CoordTypeOK, ConflictIsPast, Posts, GenuineServed, ProgressHasOwner, StatusOf, Genuine
<1>12. SingleFlight'
    BY <1>a, <1>b, <1>c, <1>0 DEF stateVars, CoordTypeOK, SingleFlight
<1>13. ProgressHasOwner'
    BY <1>a, <1>b, <1>c, <1>0 DEF stateVars, CoordTypeOK, ProgressHasOwner
<1>14. OneAttemptPerGeneration'
    BY <1>0, Components, Constants DEF Resolve, Answer, Goto, Authoritative, stateVars,
        CoordTypeOK, OneAttemptPerGeneration, Used, Posts
<1>15. AutomaticOnce'
    BY <1>a, <1>b, <1>c, <1>0, Constants DEF stateVars, CoordTypeOK, AutomaticOnce, Used
<1>16. AnswerIsOwnAttempt'
    BY <1>0, Components, Constants DEF Resolve, Answer, Goto, Authoritative, stateVars,
        CoordTypeOK, AnswerIsOwnAttempt, Claims, Posts, Used, StatusOf
<1>17. ReplayRepeatsAnswer'
    BY <1>0, Components, Constants DEF Resolve, Answer, Goto, Authoritative, stateVars,
        CoordTypeOK, ReplayRepeatsAnswer, LastAnswer, ReplayIsPast, Claims, Posts, Used,
        RanBefore, StatusOf, CommandKey
<1>18. ConflictIsNews'
    BY <1>0, Components, Constants DEF Resolve, Answer, Goto, Authoritative, stateVars,
        CoordTypeOK, ConflictIsNews, ConflictIsPast, GenuineServed, Posts, StatusOf, Genuine
<1>19. QED
    BY <1>1, <1>2, <1>3, <1>4, <1>5, <1>6, <1>7, <1>8, <1>9, <1>10, <1>11, <1>12, <1>13, <1>14,
        <1>15, <1>16, <1>17, <1>18

LEMMA GetStatusStep ==
    ASSUME IInv, NEW r \in Requests, GetStatus(r)
    PROVE  IInv'
<1> USE DEF IInv
<1>0. CoordTypeOK
    OBVIOUS
<1>1. CoordTypeOK'
    BY <1>0, Components, Constants DEF GetStatus, Answer, Goto, stateVars, CoordTypeOK, Status,
        PC, Replies
<1>2. Posts'
    BY <1>0, Components, Constants DEF GetStatus, Answer, Goto, stateVars, CoordTypeOK, Posts
<1>3. Claims'
    BY <1>0, Components, Constants DEF GetStatus, Answer, Goto, stateVars, CoordTypeOK, Claims,
        SingleFlight
<1>4. Used'
    BY <1>0, Components, Constants DEF GetStatus, Answer, Goto, stateVars, CoordTypeOK, Used,
        Claims, Posts, RanBefore
<1>5. DoneWasStarted'
    BY <1>0, Components, Constants DEF GetStatus, Answer, Goto, stateVars, CoordTypeOK,
        DoneWasStarted, Claims
<1>6. LastIsPast'
    BY <1>0, Components, Constants DEF GetStatus, Answer, Goto, stateVars, CoordTypeOK,
        LastIsPast, Claims, Posts, CommandKey
<1>7. ReplayIsPast'
    BY <1>0, Components, Constants DEF GetStatus, Answer, Goto, stateVars, CoordTypeOK,
        ReplayIsPast, LastIsPast, Posts, CommandKey
<1>8. LastAnswer'
    BY <1>0, Components, Constants DEF GetStatus, Answer, Goto, stateVars, CoordTypeOK,
        LastAnswer, DoneWasStarted, OneAttemptPerGeneration, Claims, StatusOf, CommandKey
<1>9. RanBefore'
    BY <1>0, Components, Constants DEF GetStatus, Answer, Goto, stateVars, CoordTypeOK, RanBefore
<1>10. GenuineServed'
    BY <1>0, Components, Constants DEF GetStatus, Answer, Goto, stateVars, CoordTypeOK, GenuineServed,
        Posts, Genuine, HasStatus, StatusOf
<1>11. ConflictIsPast'
    BY <1>0, Components, Constants DEF GetStatus, Answer, Goto, stateVars, CoordTypeOK,
        ConflictIsPast, Posts, GenuineServed, ProgressHasOwner, StatusOf, Genuine
<1>12. SingleFlight'
    BY <1>0, Components, Constants DEF GetStatus, Answer, Goto, stateVars, CoordTypeOK,
        SingleFlight, ProgressHasOwner
<1>13. ProgressHasOwner'
    BY <1>0, Components, Constants DEF GetStatus, Answer, Goto, stateVars, CoordTypeOK,
        ProgressHasOwner, SingleFlight
<1>14. OneAttemptPerGeneration'
    BY <1>0, Components, Constants DEF GetStatus, Answer, Goto, stateVars, CoordTypeOK,
        OneAttemptPerGeneration, Used, Posts
<1>15. AutomaticOnce'
    BY <1>0, Components, Constants DEF GetStatus, Answer, Goto, stateVars, CoordTypeOK,
        AutomaticOnce, Used
<1>16. AnswerIsOwnAttempt'
    BY <1>0, Components, Constants DEF GetStatus, Answer, Goto, stateVars, CoordTypeOK,
        AnswerIsOwnAttempt, Claims, Posts, Used, StatusOf
<1>17. ReplayRepeatsAnswer'
    BY <1>0, Components, Constants DEF GetStatus, Answer, Goto, stateVars, CoordTypeOK,
        ReplayRepeatsAnswer, LastAnswer, ReplayIsPast, Claims, Posts, Used, RanBefore, StatusOf,
        CommandKey
<1>18. ConflictIsNews'
    BY <1>0, Components, Constants DEF GetStatus, Answer, Goto, stateVars, CoordTypeOK,
        ConflictIsNews, ConflictIsPast, GenuineServed, Posts, StatusOf, Genuine
<1>19. QED
    BY <1>1, <1>2, <1>3, <1>4, <1>5, <1>6, <1>7, <1>8, <1>9, <1>10, <1>11, <1>12, <1>13, <1>14,
        <1>15, <1>16, <1>17, <1>18

LEMMA ReplayStep ==
    ASSUME IInv, NEW r \in Requests, Execute(r), AnswerReplay(r)
    PROVE  IInv'
<1> USE DEF IInv
<1>0. CoordTypeOK
    OBVIOUS
<1>1. CoordTypeOK'
    BY <1>0, Components, Constants DEF Execute, AnswerReplay, Replays, Answer, Goto, stateVars,
        CoordTypeOK, Status, PC, Replies
<1>2. Posts'
    BY <1>0, Components, Constants DEF Execute, AnswerReplay, Replays, Answer, Goto, stateVars,
        CoordTypeOK, Posts
<1>3. Claims'
    BY <1>0, Components, Constants DEF Execute, AnswerReplay, Replays, Answer, Goto, stateVars,
        CoordTypeOK, Claims, SingleFlight
<1>4. Used'
    BY <1>0, Components, Constants DEF Execute, AnswerReplay, Replays, Answer, Goto, stateVars,
        CoordTypeOK, Used, Claims, Posts, RanBefore
<1>5. DoneWasStarted'
    BY <1>0, Components, Constants DEF Execute, AnswerReplay, Replays, Answer, Goto, stateVars,
        CoordTypeOK, DoneWasStarted, Claims
<1>6. LastIsPast'
    BY <1>0, Components, Constants DEF Execute, AnswerReplay, Replays, Answer, Goto, stateVars,
        CoordTypeOK, LastIsPast, Claims, Posts, CommandKey
<1>7. ReplayIsPast'
    BY <1>0, Components, Constants DEF Execute, AnswerReplay, Replays, Answer, Goto, stateVars,
        CoordTypeOK, ReplayIsPast, LastIsPast, Posts, CommandKey
<1>8. LastAnswer'
    BY <1>0, Components, Constants DEF Execute, AnswerReplay, Replays, Answer, Goto, stateVars,
        CoordTypeOK, LastAnswer, DoneWasStarted, OneAttemptPerGeneration, Claims, StatusOf,
        CommandKey
<1>9. RanBefore'
    BY <1>0, Components, Constants DEF Execute, AnswerReplay, Replays, Answer, Goto, stateVars,
        CoordTypeOK, RanBefore
<1>10. GenuineServed'
    BY <1>0, Components, Constants DEF Execute, AnswerReplay, Replays, Answer, Goto, stateVars,
        CoordTypeOK, GenuineServed, Posts, Genuine, HasStatus, StatusOf
<1>11. ConflictIsPast'
    BY <1>0, Components, Constants DEF Execute, AnswerReplay, Replays, Answer, Goto, stateVars,
        CoordTypeOK, ConflictIsPast, Posts, GenuineServed, ProgressHasOwner, StatusOf, Genuine
<1>12. SingleFlight'
    BY <1>0, Components, Constants DEF Execute, AnswerReplay, Replays, Answer, Goto, stateVars,
        CoordTypeOK, SingleFlight, ProgressHasOwner
<1>13. ProgressHasOwner'
    BY <1>0, Components, Constants DEF Execute, AnswerReplay, Replays, Answer, Goto, stateVars,
        CoordTypeOK, ProgressHasOwner, SingleFlight
<1>14. OneAttemptPerGeneration'
    BY <1>0, Components, Constants DEF Execute, AnswerReplay, Replays, Answer, Goto, stateVars,
        CoordTypeOK, OneAttemptPerGeneration, Used, Posts
<1>15. AutomaticOnce'
    BY <1>0, Components, Constants DEF Execute, AnswerReplay, Replays, Answer, Goto, stateVars,
        CoordTypeOK, AutomaticOnce, Used
<1>16. AnswerIsOwnAttempt'
    BY <1>0, Components, Constants DEF Execute, AnswerReplay, Replays, Answer, Goto, stateVars,
        CoordTypeOK, AnswerIsOwnAttempt, Claims, Posts, Used, StatusOf
<1>17. ReplayRepeatsAnswer'
    BY <1>0, Components, Constants DEF Execute, AnswerReplay, Replays, Answer, Goto, stateVars,
        CoordTypeOK, ReplayRepeatsAnswer, LastAnswer, ReplayIsPast, Claims, Posts, Used,
        RanBefore, StatusOf, CommandKey
<1>18. ConflictIsNews'
    BY <1>0, Components, Constants DEF Execute, AnswerReplay, Replays, Answer, Goto, stateVars,
        CoordTypeOK, ConflictIsNews, ConflictIsPast, GenuineServed, Posts, StatusOf, Genuine
<1>19. QED
    BY <1>1, <1>2, <1>3, <1>4, <1>5, <1>6, <1>7, <1>8, <1>9, <1>10, <1>11, <1>12, <1>13, <1>14,
        <1>15, <1>16, <1>17, <1>18

LEMMA RejectStep ==
    ASSUME IInv, NEW r \in Requests, Execute(r), RejectCommand(r)
    PROVE  IInv'
<1> USE DEF IInv
<1>0. CoordTypeOK
    OBVIOUS
<1>a. \A q \in Requests \ {r} : pc'[q] = pc[q] /\ reply'[q] = reply[q] /\ shows'[q] = shows[q]
    BY <1>0 DEF Execute, RejectCommand, Answer, Goto, CoordTypeOK
<1>b. /\ pc[r] = "execute" /\ trigger[r] \in Triggers
      /\ \/ pc'[r] = "conflict" /\ (Conflicts(r) \/ Spent(r))
         \/ pc'[r] = "answered" /\ reply'[r] \in {"disabled", "refused"}
    BY <1>0, Constants DEF Execute, RejectCommand, Answer, Goto, CoordTypeOK
<1>c. UNCHANGED <<enabled, moved, stateVars, epoch, target, expected, trigger, started>>
    BY DEF Execute, RejectCommand
<1>1. CoordTypeOK'
    BY <1>0, <1>c, Constants DEF Execute, RejectCommand, Answer, Goto, stateVars, CoordTypeOK,
        PC, Replies
<1>2. Posts'
    BY <1>0, Components, Constants DEF Execute, RejectCommand, Conflicts, Spent, Answer, Goto,
        stateVars, CoordTypeOK, Posts
<1>3. Claims'
    BY <1>0, Components, Constants DEF Execute, RejectCommand, Conflicts, Spent, Answer, Goto,
        stateVars, CoordTypeOK, Claims, SingleFlight
<1>4. Used'
    BY <1>0, Components, Constants DEF Execute, RejectCommand, Conflicts, Spent, Answer, Goto,
        stateVars, CoordTypeOK, Used, Claims, Posts, RanBefore
<1>5. DoneWasStarted'
    BY <1>0, Components, Constants DEF Execute, RejectCommand, Conflicts, Spent, Answer, Goto,
        stateVars, CoordTypeOK, DoneWasStarted, Claims
<1>6. LastIsPast'
    BY <1>0, Components, Constants DEF Execute, RejectCommand, Conflicts, Spent, Answer, Goto,
        stateVars, CoordTypeOK, LastIsPast, Claims, Posts, CommandKey
<1>7. ReplayIsPast'
    BY <1>0, Components, Constants DEF Execute, RejectCommand, Conflicts, Spent, Answer, Goto,
        stateVars, CoordTypeOK, ReplayIsPast, LastIsPast, Posts, CommandKey
<1>8. LastAnswer'
    BY <1>0, Components, Constants DEF Execute, RejectCommand, Conflicts, Spent, Answer, Goto,
        stateVars, CoordTypeOK, LastAnswer, DoneWasStarted, OneAttemptPerGeneration, Claims,
        StatusOf, CommandKey
<1>9. RanBefore'
    BY <1>0, Components, Constants DEF Execute, RejectCommand, Conflicts, Spent, Answer, Goto,
        stateVars, CoordTypeOK, RanBefore
<1>10. GenuineServed'
    BY <1>0, Components, Constants DEF Execute, RejectCommand, Conflicts, Spent, Answer, Goto,
        stateVars, CoordTypeOK, GenuineServed, Posts, Genuine, HasStatus, StatusOf
<1>11. ConflictIsPast'
  <2>1. SUFFICES ASSUME epoch = 0, Conflicts(r) \/ Spent(r)
                PROVE  \/ revision[target[r]] > expected[r].revision
                       \/ trigger[r] = "first_today_market_entry" /\ expected[r].automatic
                       \/ expected[r].phase = "refresh_in_progress"
    BY <1>a, <1>b, <1>c, <1>0 DEF ConflictIsPast, stateVars
  <2>2. Genuine(expected[r]) /\ expected[r].scope = target[r]
    BY <1>b, <2>1 DEF GenuineServed, Posts
  <2>3. CASE expected[r] # StatusOf(target[r])
    BY <2>2, <2>3, Components, <1>0 DEF Genuine
  <2>4. CASE expected[r] = StatusOf(target[r])
    <3>1. expected[r].phase = phase[target[r]] /\ expected[r].automatic = automatic[target[r]]
      BY <2>4 DEF StatusOf
    <3>2. target[r] \in activeScopes => phase[target[r]] = "refresh_in_progress"
      BY <1>0, Components DEF ProgressHasOwner
    <3>3. QED
      BY <2>1, <2>4, <3>1, <3>2 DEF Conflicts, Spent
  <2>5. QED
    BY <2>3, <2>4
<1>12. SingleFlight'
    BY <1>a, <1>b, <1>c, <1>0 DEF SingleFlight
<1>13. ProgressHasOwner'
    BY <1>0, Components, Constants DEF Execute, RejectCommand, Conflicts, Spent, Answer, Goto,
        stateVars, CoordTypeOK, ProgressHasOwner, SingleFlight
<1>14. OneAttemptPerGeneration'
    BY <1>0, Components, Constants DEF Execute, RejectCommand, Conflicts, Spent, Answer, Goto,
        stateVars, CoordTypeOK, OneAttemptPerGeneration, Used, Posts
<1>15. AutomaticOnce'
    BY <1>0, Components, Constants DEF Execute, RejectCommand, Conflicts, Spent, Answer, Goto,
        stateVars, CoordTypeOK, AutomaticOnce, Used
<1>16. AnswerIsOwnAttempt'
    BY <1>0, Components, Constants DEF Execute, RejectCommand, Conflicts, Spent, Answer, Goto,
        stateVars, CoordTypeOK, AnswerIsOwnAttempt, Claims, Posts, Used, StatusOf
<1>17. ReplayRepeatsAnswer'
    BY <1>0, Components, Constants DEF Execute, RejectCommand, Conflicts, Spent, Answer, Goto,
        stateVars, CoordTypeOK, ReplayRepeatsAnswer, LastAnswer, ReplayIsPast, Claims, Posts,
        Used, RanBefore, StatusOf, CommandKey
<1>18. ConflictIsNews'
    BY <1>0, Components, Constants DEF Execute, RejectCommand, Conflicts, Spent, Answer, Goto,
        stateVars, CoordTypeOK, ConflictIsNews, ConflictIsPast, GenuineServed, Posts, StatusOf, Genuine
<1>19. QED
    BY <1>1, <1>2, <1>3, <1>4, <1>5, <1>6, <1>7, <1>8, <1>9, <1>10, <1>11, <1>12, <1>13, <1>14,
        <1>15, <1>16, <1>17, <1>18

LEMMA StartStep ==
    ASSUME IInv, NEW r \in Requests, Execute(r), StartAttempt(r)
    PROVE  IInv'
<1> USE DEF IInv
<1>0. CoordTypeOK
    OBVIOUS
<1>a. /\ pc[r] = "execute" /\ trigger[r] \in Triggers /\ r \notin started
      /\ expected[r] = StatusOf(target[r]) /\ target[r] \notin activeScopes
      /\ pc' = [pc EXCEPT ![r] = "acquire"] /\ started' = started \cup {r}
      /\ revision' = [revision EXCEPT ![target[r]] = @ + 1]
      /\ ranIn' = [ranIn EXCEPT ![r] = epoch]
      /\ UNCHANGED <<epoch, target, expected, trigger, reply, shows, lastCommand>>
    BY <1>0, Constants DEF Execute, StartAttempt, ClaimScope, Accepts, Conflicts, Goto,
        CoordTypeOK, Used
<1>b. /\ target[r] \in Scope /\ revision[target[r]] \in Nat
      /\ expected[r].revision = revision[target[r]] /\ expected[r].scope = target[r]
      /\ revision'[target[r]] = revision[target[r]] + 1
      /\ \A s \in Scope \ {target[r]} : revision'[s] = revision[s]
    BY <1>a, <1>0, Components DEF CoordTypeOK, StatusOf
<1>c. /\ phase' = [phase EXCEPT ![target[r]] = "refresh_in_progress"]
      /\ automatic' = [automatic EXCEPT ![target[r]] = @ \/ trigger[r] = "first_today_market_entry"]
    BY DEF Execute, StartAttempt, ClaimScope, Accepts
<1>d. /\ \A s \in Scope : automatic[s] => automatic'[s]
      /\ trigger[r] = "first_today_market_entry" => automatic'[target[r]]
    BY <1>b, <1>c, <1>0 DEF CoordTypeOK
<1>1. CoordTypeOK'
  <2>1. revision' \in [Scope -> Nat] /\ phase' \in [Scope -> Phases]
    BY <1>a, <1>b, <1>c, <1>0 DEF CoordTypeOK, Phases
  <2>2. automatic' \in [Scope -> BOOLEAN]
    BY <1>b, <1>c, <1>0 DEF CoordTypeOK
  <2>3. /\ activeScopes' \subseteq Scope /\ enabled' = enabled /\ moved' = moved
    BY <1>b, <1>0 DEF CoordTypeOK, Execute, StartAttempt, ClaimScope
  <2>4. QED
    BY <1>a, <1>0, <2>1, <2>2, <2>3 DEF CoordTypeOK, PC
<1>2. Posts'
    BY <1>0, Components, Constants DEF Execute, StartAttempt, ClaimScope, Accepts, Conflicts,
        Spent, Goto, stateVars, CoordTypeOK, Posts
<1>3. Claims'
  <2>1. \A q \in Requests \ {r} : pc[q] = "acquire" => target[q] # target[r]
    BY <1>a, <1>0, Components DEF ProgressHasOwner
  <2>2. QED
    BY <1>a, <1>b, <2>1, <1>0, Components DEF Claims, CoordTypeOK
<1>4. Used'
  <2>1. \A q \in started : /\ target[q] \in Scope /\ expected[q].revision \in Nat
                               /\ q \in Requests /\ q # r
    BY <1>a, <1>0, Components DEF CoordTypeOK
  <2>2. \A q \in started : revision'[target[q]] >= revision[target[q]]
    BY <1>b, <2>1, <1>0 DEF CoordTypeOK
  <2>3. ASSUME NEW q \in started
        PROVE  /\ pc'[q] \in {"acquire", "answered"} /\ trigger[q] \in Triggers
               /\ ranIn'[q] = epoch /\ revision'[target[q]] > expected[q].revision
               /\ trigger[q] = "first_today_market_entry" => automatic'[target[q]]
    <3>1. revision[target[q]] \in Nat /\ revision'[target[q]] \in Nat
      BY <2>1, <1>b, <1>0 DEF CoordTypeOK
    <3>2. QED
      BY <1>a, <1>d, <2>1, <2>2, <3>1 DEF Used, CoordTypeOK
  <2>4. QED
    BY <1>a, <1>b, <1>d, <2>3, <1>0 DEF Used, CoordTypeOK
<1>5. DoneWasStarted'
    BY <1>0, Components, Constants DEF Execute, StartAttempt, ClaimScope, Accepts, Conflicts,
        Spent, Goto, stateVars, CoordTypeOK, DoneWasStarted, Claims
<1>6. LastIsPast'
    BY <1>0, Components, Constants DEF Execute, StartAttempt, ClaimScope, Accepts, Conflicts,
        Spent, Goto, stateVars, CoordTypeOK, LastIsPast, Claims, Posts, CommandKey
<1>7. ReplayIsPast'
  <2>1. \A q \in Requests : /\ revision'[target[q]] >= revision[target[q]]
                               /\ revision[target[q]] \in Nat /\ revision'[target[q]] \in Nat
    BY <1>b, <1>0, Components
  <2>2. \A q \in Requests \ {r} : pc'[q] = pc[q] /\ ranIn'[q] = ranIn[q]
    BY <1>a, <1>0 DEF CoordTypeOK
  <2>3. pc'[r] = "acquire"
    BY <1>a, <1>0 DEF CoordTypeOK
  <2>4. QED
    BY <1>a, <2>1, <2>2, <2>3, <1>0, Components DEF ReplayIsPast
<1>8. LastAnswer'
  <2>1. \A q \in Requests \ {r} : pc'[q] = pc[q] /\ ranIn'[q] = ranIn[q]
    BY <1>a, <1>0 DEF CoordTypeOK
  <2>2. pc'[r] = "acquire" /\ phase'[target[r]] \notin Terminal
    BY <1>a, <1>b, <1>c, <1>0 DEF CoordTypeOK, Terminal, Outcomes
  <2>3. \A s \in Scope \ {target[r]} : phase'[s] = phase[s] /\ StatusOf(s)' = StatusOf(s)
    BY <1>b, <1>c, <1>0 DEF CoordTypeOK, StatusOf
  <2>4. QED
    BY <1>a, <2>1, <2>2, <2>3, <1>0, Components DEF LastAnswer, CommandKey
<1>9. RanBefore'
    BY <1>0, Components, Constants DEF Execute, StartAttempt, ClaimScope, Accepts, Conflicts,
        Spent, Goto, stateVars, CoordTypeOK, RanBefore
<1>10. GenuineServed'
    BY <1>0, Components, Constants DEF Execute, StartAttempt, ClaimScope, Accepts, Conflicts,
        Spent, Goto, stateVars, CoordTypeOK, GenuineServed, Posts, Genuine, HasStatus, StatusOf
<1>11. ConflictIsPast'
    BY <1>0, Components, Constants DEF Execute, StartAttempt, ClaimScope, Accepts, Conflicts,
        Spent, Goto, stateVars, CoordTypeOK, ConflictIsPast, Posts, GenuineServed, ProgressHasOwner,
        StatusOf, Genuine
<1>12. SingleFlight'
    BY <1>0, Components, Constants DEF Execute, StartAttempt, ClaimScope, Accepts, Conflicts,
        Spent, Goto, stateVars, CoordTypeOK, SingleFlight, ProgressHasOwner
<1>13. ProgressHasOwner'
    BY <1>0, Components, Constants DEF Execute, StartAttempt, ClaimScope, Accepts, Conflicts,
        Spent, Goto, stateVars, CoordTypeOK, ProgressHasOwner, SingleFlight
<1>14. OneAttemptPerGeneration'
  <2>1. \A q \in started : expected[q] # expected[r]
    <3>1. SUFFICES ASSUME NEW q \in started, expected[q] = expected[r] PROVE FALSE
      OBVIOUS
    <3>2. target[q] = target[r] /\ q \in Requests
      BY <1>a, <1>0, <3>1 DEF Used, Posts, CoordTypeOK
    <3>3. QED
      BY <1>b, <3>1, <3>2 DEF Used
  <2>2. QED
    BY <1>a, <2>1 DEF OneAttemptPerGeneration
<1>15. AutomaticOnce'
    BY <1>0, Components, Constants DEF Execute, StartAttempt, ClaimScope, Accepts, Conflicts,
        Spent, Goto, stateVars, CoordTypeOK, AutomaticOnce, Used
<1>16. AnswerIsOwnAttempt'
    BY <1>0, Components, Constants DEF Execute, StartAttempt, ClaimScope, Accepts, Conflicts,
        Spent, Goto, stateVars, CoordTypeOK, AnswerIsOwnAttempt, Claims, Posts, Used, StatusOf
<1>17. ReplayRepeatsAnswer'
    BY <1>0, Components, Constants DEF Execute, StartAttempt, ClaimScope, Accepts, Conflicts,
        Spent, Goto, stateVars, CoordTypeOK, ReplayRepeatsAnswer, LastAnswer, ReplayIsPast,
        Claims, Posts, Used, RanBefore, StatusOf, CommandKey
<1>18. ConflictIsNews'
    BY <1>0, Components, Constants DEF Execute, StartAttempt, ClaimScope, Accepts, Conflicts,
        Spent, Goto, stateVars, CoordTypeOK, ConflictIsNews, ConflictIsPast, GenuineServed, Posts,
        StatusOf, Genuine
<1>19. QED
    BY <1>1, <1>2, <1>3, <1>4, <1>5, <1>6, <1>7, <1>8, <1>9, <1>10, <1>11, <1>12, <1>13, <1>14,
        <1>15, <1>16, <1>17, <1>18

LEMMA AbandonStep ==
    ASSUME IInv, NEW r \in Requests, Execute(r), AbandonClaim(r)
    PROVE  IInv'
<1> USE DEF IInv
<1>0. CoordTypeOK
    OBVIOUS
<1>a. /\ pc[r] = "execute" /\ trigger[r] \in Triggers /\ r \notin started
      /\ expected[r] = StatusOf(target[r]) /\ target[r] \notin activeScopes
      /\ pc' = [pc EXCEPT ![r] = "answered"] /\ started' = started
      /\ reply' = [reply EXCEPT ![r] = "error"] /\ shows' = [shows EXCEPT ![r] = NoStatus]
      /\ revision' = [revision EXCEPT ![target[r]] = @ + 1]
      /\ ranIn' = [ranIn EXCEPT ![r] = epoch]
      /\ UNCHANGED <<epoch, target, expected, trigger, lastCommand>>
    BY <1>0, Constants DEF Execute, AbandonClaim, ClaimScope, Accepts, Conflicts, Answer, Goto,
        CoordTypeOK, Used
<1>b. /\ target[r] \in Scope /\ revision[target[r]] \in Nat
      /\ expected[r].revision = revision[target[r]] /\ expected[r].scope = target[r]
      /\ revision'[target[r]] = revision[target[r]] + 1
      /\ \A s \in Scope \ {target[r]} : revision'[s] = revision[s]
    BY <1>a, <1>0, Components DEF CoordTypeOK, StatusOf
<1>c. /\ phase' = [phase EXCEPT ![target[r]] = "refresh_in_progress"]
      /\ automatic' = [automatic EXCEPT ![target[r]] = @ \/ trigger[r] = "first_today_market_entry"]
    BY DEF Execute, AbandonClaim, ClaimScope, Accepts
<1>d. /\ \A s \in Scope : automatic[s] => automatic'[s]
      /\ trigger[r] = "first_today_market_entry" => automatic'[target[r]]
    BY <1>b, <1>c, <1>0 DEF CoordTypeOK
<1>1. CoordTypeOK'
  <2>1. revision' \in [Scope -> Nat] /\ phase' \in [Scope -> Phases]
    BY <1>a, <1>b, <1>c, <1>0 DEF CoordTypeOK, Phases
  <2>2. automatic' \in [Scope -> BOOLEAN]
    BY <1>b, <1>c, <1>0 DEF CoordTypeOK
  <2>3. /\ activeScopes' \subseteq Scope /\ enabled' = enabled /\ moved' = moved
    BY <1>b, <1>0 DEF CoordTypeOK, Execute, AbandonClaim, ClaimScope
  <2>4. QED
    BY <1>a, <1>0, <2>1, <2>2, <2>3, Constants DEF CoordTypeOK, PC, Replies
<1>2. Posts'
    BY <1>0, Components, Constants DEF Execute, AbandonClaim, ClaimScope, Accepts, Conflicts,
        Spent, Answer, Goto, stateVars, CoordTypeOK, Posts
<1>3. Claims'
  <2>1. \A q \in Requests \ {r} : pc[q] = "acquire" => target[q] # target[r]
    BY <1>a, <1>0, Components DEF ProgressHasOwner
  <2>2. QED
    BY <1>a, <1>b, <2>1, <1>0, Components DEF Claims, CoordTypeOK
<1>4. Used'
  <2>1. \A q \in started : /\ target[q] \in Scope /\ expected[q].revision \in Nat
                               /\ q \in Requests /\ q # r
    BY <1>a, <1>0, Components DEF CoordTypeOK
  <2>2. \A q \in started : revision'[target[q]] >= revision[target[q]]
    BY <1>b, <2>1, <1>0 DEF CoordTypeOK
  <2>3. ASSUME NEW q \in started
        PROVE  /\ pc'[q] \in {"acquire", "answered"} /\ trigger[q] \in Triggers
               /\ ranIn'[q] = epoch /\ revision'[target[q]] > expected[q].revision
               /\ trigger[q] = "first_today_market_entry" => automatic'[target[q]]
    <3>1. revision[target[q]] \in Nat /\ revision'[target[q]] \in Nat
      BY <2>1, <1>b, <1>0 DEF CoordTypeOK
    <3>2. QED
      BY <1>a, <1>d, <2>1, <2>2, <3>1 DEF Used, CoordTypeOK
  <2>4. QED
    BY <1>a, <1>b, <1>d, <2>3, <1>0 DEF Used, CoordTypeOK
<1>5. DoneWasStarted'
    BY <1>0, Components, Constants DEF Execute, AbandonClaim, ClaimScope, Accepts, Conflicts,
        Spent, Answer, Goto, stateVars, CoordTypeOK, DoneWasStarted, Claims
<1>6. LastIsPast'
    BY <1>0, Components, Constants DEF Execute, AbandonClaim, ClaimScope, Accepts, Conflicts,
        Spent, Answer, Goto, stateVars, CoordTypeOK, LastIsPast, Claims, Posts, CommandKey
<1>7. ReplayIsPast'
  <2>1. \A q \in Requests : /\ revision'[target[q]] >= revision[target[q]]
                               /\ revision[target[q]] \in Nat /\ revision'[target[q]] \in Nat
    BY <1>b, <1>0, Components
  <2>2. \A q \in Requests \ {r} : /\ pc'[q] = pc[q] /\ ranIn'[q] = ranIn[q]
                                 /\ reply'[q] = reply[q] /\ shows'[q] = shows[q]
    BY <1>a, <1>0 DEF CoordTypeOK
  <2>3. reply'[r] = "error"
    BY <1>a, <1>0 DEF CoordTypeOK
  <2>4. QED
    BY <1>a, <2>1, <2>2, <2>3, <1>0, Components DEF ReplayIsPast
<1>8. LastAnswer'
  <2>1. \A q \in Requests \ {r} : /\ pc'[q] = pc[q] /\ ranIn'[q] = ranIn[q]
                                 /\ reply'[q] = reply[q] /\ shows'[q] = shows[q]
    BY <1>a, <1>0 DEF CoordTypeOK
  <2>2. reply'[r] = "error" /\ phase'[target[r]] \notin Terminal
    BY <1>a, <1>b, <1>c, <1>0 DEF CoordTypeOK, Terminal, Outcomes
  <2>3. \A s \in Scope \ {target[r]} : phase'[s] = phase[s] /\ StatusOf(s)' = StatusOf(s)
    BY <1>b, <1>c, <1>0 DEF CoordTypeOK, StatusOf
  <2>4. SUFFICES ASSUME NEW q \in Requests, pc'[q] = "answered", reply'[q] = "done",
                        ranIn'[q] = epoch, lastCommand[target[q]] = CommandKey(q),
                        phase'[target[q]] \in Terminal
                 PROVE  shows'[q] = StatusOf(target[q])'
    BY <1>a DEF LastAnswer, CommandKey
  <2>5. q # r /\ target[q] \in Scope \ {target[r]}
    BY <2>2, <2>4, <1>0, Components
  <2>6. shows[q] = StatusOf(target[q])
    BY <2>1, <2>3, <2>4, <2>5 DEF LastAnswer
  <2>7. StatusOf(target[q])' = StatusOf(target[q])
    BY <1>a, <2>3, <2>5 DEF StatusOf
  <2>8. QED
    BY <2>1, <2>5, <2>6, <2>7
<1>9. RanBefore'
    BY <1>0, Components, Constants DEF Execute, AbandonClaim, ClaimScope, Accepts, Conflicts,
        Spent, Answer, Goto, stateVars, CoordTypeOK, RanBefore
<1>10. GenuineServed'
    BY <1>0, Components, Constants DEF Execute, AbandonClaim, ClaimScope, Accepts, Conflicts,
        Spent, Answer, Goto, stateVars, CoordTypeOK, GenuineServed, Posts, Genuine, HasStatus, StatusOf
<1>11. ConflictIsPast'
    BY <1>0, Components, Constants DEF Execute, AbandonClaim, ClaimScope, Accepts, Conflicts,
        Spent, Answer, Goto, stateVars, CoordTypeOK, ConflictIsPast, Posts, GenuineServed,
        ProgressHasOwner, StatusOf, Genuine
<1>12. SingleFlight'
    BY <1>0, Components, Constants DEF Execute, AbandonClaim, ClaimScope, Accepts, Conflicts,
        Spent, Answer, Goto, stateVars, CoordTypeOK, SingleFlight, ProgressHasOwner
<1>13. ProgressHasOwner'
    BY <1>0, Components, Constants DEF Execute, AbandonClaim, ClaimScope, Accepts, Conflicts,
        Spent, Answer, Goto, stateVars, CoordTypeOK, ProgressHasOwner, SingleFlight
<1>14. OneAttemptPerGeneration'
  <2>1. \A q \in started : expected[q] # expected[r]
    <3>1. SUFFICES ASSUME NEW q \in started, expected[q] = expected[r] PROVE FALSE
      OBVIOUS
    <3>2. target[q] = target[r] /\ q \in Requests
      BY <1>a, <1>0, <3>1 DEF Used, Posts, CoordTypeOK
    <3>3. QED
      BY <1>b, <3>1, <3>2 DEF Used
  <2>2. QED
    BY <1>a, <2>1 DEF OneAttemptPerGeneration
<1>15. AutomaticOnce'
    BY <1>0, Components, Constants DEF Execute, AbandonClaim, ClaimScope, Accepts, Conflicts,
        Spent, Answer, Goto, stateVars, CoordTypeOK, AutomaticOnce, Used
<1>16. AnswerIsOwnAttempt'
    BY <1>0, Components, Constants DEF Execute, AbandonClaim, ClaimScope, Accepts, Conflicts,
        Spent, Answer, Goto, stateVars, CoordTypeOK, AnswerIsOwnAttempt, Claims, Posts, Used,
        StatusOf
<1>17. ReplayRepeatsAnswer'
    BY <1>0, Components, Constants DEF Execute, AbandonClaim, ClaimScope, Accepts, Conflicts,
        Spent, Answer, Goto, stateVars, CoordTypeOK, ReplayRepeatsAnswer, LastAnswer,
        ReplayIsPast, Claims, Posts, Used, RanBefore, StatusOf, CommandKey
<1>18. ConflictIsNews'
    BY <1>0, Components, Constants DEF Execute, AbandonClaim, ClaimScope, Accepts, Conflicts,
        Spent, Answer, Goto, stateVars, CoordTypeOK, ConflictIsNews, ConflictIsPast, GenuineServed,
        Posts, StatusOf, Genuine
<1>19. QED
    BY <1>1, <1>2, <1>3, <1>4, <1>5, <1>6, <1>7, <1>8, <1>9, <1>10, <1>11, <1>12, <1>13, <1>14,
        <1>15, <1>16, <1>17, <1>18

LEMMA ConcludeStep ==
    ASSUME IInv, NEW r \in Requests, NEW outcome \in Outcomes, NEW k \in {"done", "error"}, Conclude(r, outcome, k)
    PROVE  IInv'
<1> USE DEF IInv
<1>0. CoordTypeOK
    OBVIOUS
<1>a. /\ pc[r] = "acquire" /\ r \in started /\ trigger[r] \in Triggers /\ target[r] \in Scope
      /\ revision[target[r]] \in Nat /\ expected[r].revision \in Nat
      /\ expected[r].scope = target[r] /\ revision[target[r]] = expected[r].revision + 1
      /\ ranIn[r] = epoch
    BY <1>0, Components DEF Conclude, Claims, Used, Posts
<1>b. /\ pc' = [pc EXCEPT ![r] = "answered"] /\ reply' = [reply EXCEPT ![r] = k]
      /\ phase' = [phase EXCEPT ![target[r]] = outcome]
      /\ revision' = [revision EXCEPT ![target[r]] = @ + 1]
      /\ lastCommand' = [lastCommand EXCEPT ![target[r]] = CommandKey(r)]
      /\ activeScopes' = activeScopes \ {target[r]}
      /\ UNCHANGED <<enabled, moved, automatic, epoch, target, expected, trigger, ranIn, started>>
    BY DEF Conclude, Answer, Goto
<1>c. /\ revision'[target[r]] = expected[r].revision + 2
      /\ \A s \in Scope \ {target[r]} : /\ revision'[s] = revision[s] /\ phase'[s] = phase[s]
                                         /\ lastCommand'[s] = lastCommand[s]
      /\ \A s \in Scope : revision'[s] >= revision[s]
      /\ phase'[target[r]] = outcome /\ lastCommand'[target[r]] = CommandKey(r)
    BY <1>a, <1>b, <1>0, Components DEF CoordTypeOK
<1>d. /\ \A q \in Requests \ {r} : pc'[q] = pc[q] /\ reply'[q] = reply[q] /\ shows'[q] = shows[q]
      /\ pc'[r] = "answered" /\ reply'[r] = k
      /\ k = "done" => shows'[r] = [scope |-> target[r], revision |-> revision'[target[r]],
                                    phase |-> phase'[target[r]], automatic |-> automatic[target[r]]]
      /\ k # "done" => shows'[r] = NoStatus
    BY <1>a, <1>b, <1>c, <1>0 DEF CoordTypeOK, Conclude, Answer, StatusOf
<1>e. outcome \in Phases /\ outcome # "refresh_in_progress" /\ outcome \in Terminal
    BY DEF Outcomes, Phases, Terminal
<1>f. k = "done" => shows'[r] \in Status
    BY <1>a, <1>b, <1>c, <1>d, <1>e, <1>0 DEF CoordTypeOK, Status
<1>1. CoordTypeOK'
  <2>1. revision' \in [Scope -> Nat] /\ phase' \in [Scope -> Phases]
    BY <1>a, <1>b, <1>e, <1>0 DEF CoordTypeOK
  <2>2. lastCommand' \in [Scope -> Command]
    BY <1>a, <1>b, <1>0, Components DEF CoordTypeOK
  <2>3. shows' \in [Requests -> Status]
    <3>1. shows'[r] \in Status
      BY <1>a, <1>d, <1>f, Constants
    <3>2. \E v : shows' = [shows EXCEPT ![r] = v]
      BY DEF Conclude, Answer
    <3>3. QED
      BY <3>1, <3>2, <1>0 DEF CoordTypeOK
  <2>4. QED
    BY <1>b, <2>1, <2>2, <2>3, <1>0 DEF CoordTypeOK, PC, Replies
<1>2. Posts'
    BY <1>0, Components, Constants DEF Conclude, Answer, Goto, stateVars, CoordTypeOK, Posts
<1>3. Claims'
    BY <1>0, Components, Constants DEF Conclude, Answer, Goto, stateVars, CoordTypeOK, Claims,
        SingleFlight
<1>4. Used'
    BY <1>0, Components, Constants DEF Conclude, Answer, Goto, stateVars, CoordTypeOK, Used,
        Claims, Posts, RanBefore
<1>5. DoneWasStarted'
    BY <1>0, Components, Constants DEF Conclude, Answer, Goto, stateVars, CoordTypeOK,
        DoneWasStarted, Claims
<1>6. LastIsPast'
    BY <1>a, <1>b, <1>c, <1>0, Components DEF LastIsPast
<1>7. ReplayIsPast'
  <2>1. \A q \in Requests : /\ revision'[target[q]] >= revision[target[q]]
                               /\ revision[target[q]] \in Nat /\ revision'[target[q]] \in Nat
    BY <1>a, <1>c, <1>0, Components
  <2>2. QED
    BY <1>b, <1>d, <2>1, <1>0, Components DEF ReplayIsPast
<1>8. LastAnswer'
  <2>1. SUFFICES ASSUME NEW q \in Requests, pc'[q] = "answered", reply'[q] = "done", ranIn[q] = epoch,
                       lastCommand'[target[q]] = CommandKey(q), phase'[target[q]] \in Terminal
                PROVE  shows'[q] = StatusOf(target[q])'
    BY <1>b DEF LastAnswer, CommandKey
  <2>2. CASE q = r
    BY <1>d, <2>1, <2>2, <1>b DEF StatusOf
  <2>3. CASE q # r /\ target[q] = target[r]
    <3>1. q \in started
      BY <1>d, <2>1, <2>3 DEF DoneWasStarted
    <3>2. expected[q] = expected[r]
      BY <1>c, <2>1, <2>3 DEF CommandKey
    <3>3. QED
      BY <3>1, <3>2, <1>a, <2>3 DEF OneAttemptPerGeneration
  <2>4. CASE target[q] # target[r]
    <3>1. target[q] \in Scope /\ automatic' = automatic
      BY <1>0, <1>b, Components
    <3>2. StatusOf(target[q])' = StatusOf(target[q])
      BY <1>b, <1>c, <2>4, <3>1 DEF StatusOf
    <3>3. QED
      BY <1>c, <1>d, <2>1, <2>4, <3>1, <3>2 DEF LastAnswer
  <2>5. QED
    BY <2>2, <2>3, <2>4
<1>9. RanBefore'
    BY <1>0, Components, Constants DEF Conclude, Answer, Goto, stateVars, CoordTypeOK, RanBefore
<1>10. GenuineServed'
  <2>1. SUFFICES ASSUME epoch = 0 PROVE \A q \in Requests :
                    (HasStatus(q)' => Genuine(shows[q])') /\ (trigger[q] \in Triggers => Genuine(expected[q])')
    BY <1>b DEF GenuineServed
  <2>2. ASSUME NEW st, st.scope \in Scope, st.revision \in Nat, Genuine(st)
        PROVE  Genuine(st)'
    <3>1. CASE st.scope = target[r]
      BY <1>a, <1>c, <2>2, <3>1 DEF Genuine
    <3>2. CASE st.scope # target[r]
      BY <1>b, <1>c, <2>2, <3>2 DEF Genuine, StatusOf
    <3>3. QED
      BY <3>1, <3>2
  <2>3. ASSUME NEW st, st = StatusOf(target[r])' PROVE Genuine(st)'
    <3>1. st.scope = target[r] /\ st.revision = revision'[target[r]]
      BY <1>b, <2>3 DEF StatusOf
    <3>2. revision'[target[r]] \in Nat
      BY <1>a, <1>c
    <3>3. StatusOf(st.scope)' = st
      BY <1>b, <2>3, <3>1 DEF StatusOf
    <3>4. QED
      BY <3>1, <3>2, <3>3 DEF Genuine
  <2>4. ASSUME NEW q \in Requests, HasStatus(q)' PROVE Genuine(shows[q])'
    <3>1. CASE q = r
      <4>1. shows'[r] = StatusOf(target[r])'
        BY <1>b, <1>d, <2>4, <3>1 DEF HasStatus, StatusOf
      <4>2. QED
        BY <4>1, <2>3, <3>1 DEF Genuine
    <3>2. CASE q # r
      BY <1>d, <2>1, <2>2, <2>4, <3>2, <1>0, Components DEF HasStatus, GenuineServed
    <3>3. QED
      BY <3>1, <3>2
  <2>5. ASSUME NEW q \in Requests, trigger[q] \in Triggers PROVE Genuine(expected[q])'
    BY <1>b, <2>1, <2>2, <2>5, <1>0, Components DEF GenuineServed, Genuine
  <2>6. QED
    BY <2>4, <2>5
<1>11. ConflictIsPast'
    BY <1>0, Components, Constants DEF Conclude, Answer, Goto, stateVars, CoordTypeOK,
        ConflictIsPast, Posts, GenuineServed, ProgressHasOwner, StatusOf, Genuine
<1>12. SingleFlight'
    BY <1>0, Components, Constants DEF Conclude, Answer, Goto, stateVars, CoordTypeOK,
        SingleFlight, ProgressHasOwner
<1>13. ProgressHasOwner'
  <2>1. \A q \in Requests : pc'[q] = "acquire" <=> pc[q] = "acquire" /\ target[q] # target[r]
    BY <1>a, <1>d DEF SingleFlight
  <2>2. QED
    BY <1>a, <1>b, <1>c, <1>e, <2>1, <1>0 DEF ProgressHasOwner
<1>14. OneAttemptPerGeneration'
    BY <1>0, Components, Constants DEF Conclude, Answer, Goto, stateVars, CoordTypeOK,
        OneAttemptPerGeneration, Used, Posts
<1>15. AutomaticOnce'
    BY <1>0, Components, Constants DEF Conclude, Answer, Goto, stateVars, CoordTypeOK,
        AutomaticOnce, Used
<1>16. AnswerIsOwnAttempt'
    BY <1>0, Components, Constants DEF Conclude, Answer, Goto, stateVars, CoordTypeOK,
        AnswerIsOwnAttempt, Claims, Posts, Used, StatusOf
<1>17. ReplayRepeatsAnswer'
  <2>1. SUFFICES ASSUME NEW q \in Requests, NEW u \in Requests,
                       pc'[q] = "answered", reply'[q] = "done", pc'[u] = "answered", reply'[u] = "replay",
                       CommandKey(q) = CommandKey(u), ranIn[q] = ranIn[u]
                PROVE  shows'[q] = shows'[u]
    BY <1>b DEF ReplayRepeatsAnswer, CommandKey
  <2>2. u # r
    BY <1>d, <2>1
  <2>3. CASE q = r
    <3>1. revision[target[u]] >= expected[u].revision + 2
      BY <1>a, <1>d, <2>1, <2>2, <2>3 DEF ReplayIsPast
    <3>2. expected[u] = expected[r] /\ trigger[u] = trigger[r]
      BY <2>1, <2>3 DEF CommandKey
    <3>3. target[u] = target[r]
      BY <3>2, <1>a DEF Posts
    <3>4. QED
      BY <3>1, <3>2, <3>3, <1>a, <1>0, Components
  <2>4. CASE q # r
    BY <1>d, <2>1, <2>2, <2>4 DEF ReplayRepeatsAnswer
  <2>5. QED
    BY <2>3, <2>4
<1>18. ConflictIsNews'
    BY <1>0, Components, Constants DEF Conclude, Answer, Goto, stateVars, CoordTypeOK,
        ConflictIsNews, ConflictIsPast, GenuineServed, Posts, StatusOf, Genuine
<1>19. QED
    BY <1>1, <1>2, <1>3, <1>4, <1>5, <1>6, <1>7, <1>8, <1>9, <1>10, <1>11, <1>12, <1>13, <1>14,
        <1>15, <1>16, <1>17, <1>18

LEMMA ConflictStatusStep ==
    ASSUME IInv, NEW r \in Requests, ConflictStatus(r)
    PROVE  IInv'
<1> USE DEF IInv
<1>0. CoordTypeOK
    OBVIOUS
<1>1. CoordTypeOK'
    BY <1>0, Components, Constants DEF ConflictStatus, Answer, Goto, stateVars, CoordTypeOK,
        Status, PC, Replies
<1>2. Posts'
    BY <1>0, Components, Constants DEF ConflictStatus, Answer, Goto, stateVars, CoordTypeOK, Posts
<1>3. Claims'
    BY <1>0, Components, Constants DEF ConflictStatus, Answer, Goto, stateVars, CoordTypeOK,
        Claims, SingleFlight
<1>4. Used'
    BY <1>0, Components, Constants DEF ConflictStatus, Answer, Goto, stateVars, CoordTypeOK,
        Used, Claims, Posts, RanBefore
<1>5. DoneWasStarted'
    BY <1>0, Components, Constants DEF ConflictStatus, Answer, Goto, stateVars, CoordTypeOK,
        DoneWasStarted, Claims
<1>6. LastIsPast'
    BY <1>0, Components, Constants DEF ConflictStatus, Answer, Goto, stateVars, CoordTypeOK,
        LastIsPast, Claims, Posts, CommandKey
<1>7. ReplayIsPast'
    BY <1>0, Components, Constants DEF ConflictStatus, Answer, Goto, stateVars, CoordTypeOK,
        ReplayIsPast, LastIsPast, Posts, CommandKey
<1>8. LastAnswer'
    BY <1>0, Components, Constants DEF ConflictStatus, Answer, Goto, stateVars, CoordTypeOK,
        LastAnswer, DoneWasStarted, OneAttemptPerGeneration, Claims, StatusOf, CommandKey
<1>9. RanBefore'
    BY <1>0, Components, Constants DEF ConflictStatus, Answer, Goto, stateVars, CoordTypeOK,
        RanBefore
<1>10. GenuineServed'
    BY <1>0, Components, Constants DEF ConflictStatus, Answer, Goto, stateVars, CoordTypeOK,
        GenuineServed, Posts, Genuine, HasStatus, StatusOf
<1>11. ConflictIsPast'
    BY <1>0, Components, Constants DEF ConflictStatus, Answer, Goto, stateVars, CoordTypeOK,
        ConflictIsPast, Posts, GenuineServed, ProgressHasOwner, StatusOf, Genuine
<1>12. SingleFlight'
    BY <1>0, Components, Constants DEF ConflictStatus, Answer, Goto, stateVars, CoordTypeOK,
        SingleFlight, ProgressHasOwner
<1>13. ProgressHasOwner'
    BY <1>0, Components, Constants DEF ConflictStatus, Answer, Goto, stateVars, CoordTypeOK,
        ProgressHasOwner, SingleFlight
<1>14. OneAttemptPerGeneration'
    BY <1>0, Components, Constants DEF ConflictStatus, Answer, Goto, stateVars, CoordTypeOK,
        OneAttemptPerGeneration, Used, Posts
<1>15. AutomaticOnce'
    BY <1>0, Components, Constants DEF ConflictStatus, Answer, Goto, stateVars, CoordTypeOK,
        AutomaticOnce, Used
<1>16. AnswerIsOwnAttempt'
    BY <1>0, Components, Constants DEF ConflictStatus, Answer, Goto, stateVars, CoordTypeOK,
        AnswerIsOwnAttempt, Claims, Posts, Used, StatusOf
<1>17. ReplayRepeatsAnswer'
    BY <1>0, Components, Constants DEF ConflictStatus, Answer, Goto, stateVars, CoordTypeOK,
        ReplayRepeatsAnswer, LastAnswer, ReplayIsPast, Claims, Posts, Used, RanBefore, StatusOf,
        CommandKey
<1>18. ConflictIsNews'
  <2>1. SUFFICES ASSUME NEW q \in Requests, epoch = 0, pc'[q] = "answered", reply'[q] = "conflict"
                PROVE  \/ shows'[q].revision > expected[q].revision
                       \/ /\ shows'[q] = expected[q]
                          /\ \/ trigger[q] = "first_today_market_entry" /\ expected[q].automatic
                             \/ expected[q].phase = "refresh_in_progress"
    BY DEF ConflictStatus, ConflictIsNews
  <2>2. CASE q # r
    BY <2>1, <2>2, <1>0 DEF ConflictStatus, Answer, Goto, CoordTypeOK, ConflictIsNews
  <2>3. CASE q = r
    <3>1. pc[r] = "conflict" /\ shows'[r] = StatusOf(target[r])
      BY <1>0 DEF ConflictStatus, Answer, CoordTypeOK
    <3>2. /\ shows'[r].revision = revision[target[r]]
          /\ expected[r].scope = target[r] /\ Genuine(expected[r])
      BY <2>1, <3>1 DEF StatusOf, ConflictIsPast, Posts, GenuineServed
    <3>3. revision[target[r]] > expected[r].revision \/ expected[r] = StatusOf(target[r])
      BY <3>2, <1>0, Components DEF Genuine
    <3>4. QED
      BY <2>1, <2>3, <3>1, <3>2, <3>3 DEF ConflictIsPast
  <2>4. QED
    BY <2>2, <2>3
<1>19. QED
    BY <1>1, <1>2, <1>3, <1>4, <1>5, <1>6, <1>7, <1>8, <1>9, <1>10, <1>11, <1>12, <1>13, <1>14,
        <1>15, <1>16, <1>17, <1>18

LEMMA MoveStep ==
    ASSUME IInv, NEW x \in Selections, MoveSnapshot(x)
    PROVE  IInv'
<1> USE DEF IInv
<1>1. UNCHANGED <<enabled, stateVars, epoch, requestVars, started>>
    BY DEF MoveSnapshot
<1>2. CoordTypeOK'
    BY <1>1, MoveAssumption DEF MoveSnapshot, CoordTypeOK, stateVars, requestVars
<1>3. UNCHANGED <<phase, revision, automatic, lastCommand, activeScopes, epoch, started>>
    BY <1>1 DEF stateVars
<1>4. UNCHANGED <<pc, target, expected, trigger, reply, shows, ranIn>>
    BY <1>1 DEF requestVars
<1>5. Posts' /\ Claims' /\ Used' /\ DoneWasStarted' /\ LastIsPast' /\ ReplayIsPast'
    BY <1>3, <1>4 DEF Posts, Claims, Used, DoneWasStarted, LastIsPast, ReplayIsPast
<1>6. LastAnswer' /\ RanBefore' /\ GenuineServed' /\ ConflictIsPast'
    BY <1>3, <1>4 DEF LastAnswer, RanBefore, GenuineServed, Genuine, HasStatus, StatusOf, CommandKey,
        ConflictIsPast
<1>7. SingleFlight' /\ ProgressHasOwner' /\ OneAttemptPerGeneration' /\ AutomaticOnce'
    BY <1>3, <1>4 DEF SingleFlight, ProgressHasOwner, OneAttemptPerGeneration, AutomaticOnce
<1>8. AnswerIsOwnAttempt' /\ ReplayRepeatsAnswer' /\ ConflictIsNews'
    BY <1>3, <1>4 DEF AnswerIsOwnAttempt, ReplayRepeatsAnswer, ConflictIsNews, CommandKey
<1>9. QED
    BY <1>2, <1>5, <1>6, <1>7, <1>8

LEMMA RestartStep ==
    ASSUME IInv, Restart
    PROVE  IInv'
<1> USE DEF IInv
<1>0. CoordTypeOK
    OBVIOUS
<1>1. /\ epoch \in Nat /\ epoch' = epoch + 1 /\ epoch' # 0
      /\ \A r \in Requests : ranIn[r] \in Nat /\ ranIn[r] # epoch'
    BY <1>0, MoveAssumption DEF Restart, CoordTypeOK, RanBefore
<1>2. /\ \A r \in Requests : pc'[r] \in {"unsent", "answered"}
      /\ \A r \in Requests : reply'[r] # "lost" => reply'[r] = reply[r] /\ pc'[r] = pc[r]
      /\ started' = {} /\ activeScopes' = {}
      /\ UNCHANGED <<enabled, moved, target, expected, trigger, shows, ranIn>>
    BY <1>0 DEF Restart, CoordTypeOK
<1>3. /\ FirstPhase \in Phases /\ FirstPhase # "refresh_in_progress" /\ FirstPhase \notin Terminal
    BY DEF FirstPhase, Phases, Terminal, Outcomes
<1>4. CoordTypeOK'
  <2>1. epoch' \in 0..MaxRestarts
    BY <1>0, MoveAssumption DEF Restart, CoordTypeOK
  <2>2. /\ phase' \in [Scope -> Phases] /\ revision' \in [Scope -> Nat]
        /\ automatic' \in [Scope -> BOOLEAN] /\ lastCommand' \in [Scope -> Command]
    BY <1>3, Constants DEF Restart
  <2>3. pc' \in [Requests -> PC] /\ reply' \in [Requests -> Replies]
    BY <1>0 DEF Restart, CoordTypeOK, PC, Replies
  <2>4. QED
    BY <1>0, <1>2, <2>1, <2>2, <2>3 DEF CoordTypeOK
<1>5. RanBefore'
    BY <1>0, <1>1, <1>2, MoveAssumption DEF RanBefore, CoordTypeOK
<1>6. Posts' /\ Claims' /\ Used' /\ DoneWasStarted' /\ ReplayIsPast' /\ LastAnswer' /\ GenuineServed' /\ ConflictIsPast'
    BY <1>1, <1>2 DEF Posts, Claims, Used, DoneWasStarted, ReplayIsPast, LastAnswer, GenuineServed,
        ConflictIsPast
<1>7. LastIsPast'
    BY Constants DEF Restart, LastIsPast
<1>8. SingleFlight' /\ OneAttemptPerGeneration' /\ AutomaticOnce' /\ ConflictIsNews'
    BY <1>1, <1>2 DEF SingleFlight, OneAttemptPerGeneration, AutomaticOnce, ConflictIsNews
<1>9. ProgressHasOwner'
    BY <1>2, <1>3 DEF Restart, ProgressHasOwner
<1>10. AnswerIsOwnAttempt' /\ ReplayRepeatsAnswer'
    BY <1>2 DEF AnswerIsOwnAttempt, ReplayRepeatsAnswer, CommandKey
<1>11. QED
    BY <1>4, <1>5, <1>6, <1>7, <1>8, <1>9, <1>10

-----------------------------------------------------------------------------
(* The invariant                                                           *)

LEMMA Initially == CoordInit => IInv
<1> SUFFICES ASSUME CoordInit PROVE IInv
    OBVIOUS
<1>1. FirstPhase \in Phases /\ FirstPhase # "refresh_in_progress" /\ FirstPhase \notin Terminal
    BY DEF FirstPhase, Phases, Terminal, Outcomes
<1>2. CoordTypeOK
    BY <1>1, Constants, MoveAssumption DEF CoordInit, CoordTypeOK, PC, Replies
<1>3. Posts /\ Claims /\ Used /\ DoneWasStarted /\ ReplayIsPast /\ LastAnswer /\ GenuineServed /\ ConflictIsPast
    BY Constants DEF CoordInit, Posts, Claims, Used, DoneWasStarted, ReplayIsPast, LastAnswer,
        GenuineServed,
        HasStatus, ConflictIsPast
<1>4. LastIsPast /\ RanBefore /\ SingleFlight /\ OneAttemptPerGeneration /\ AutomaticOnce
    BY Constants DEF CoordInit, LastIsPast, RanBefore, SingleFlight, OneAttemptPerGeneration,
        AutomaticOnce
<1>5. ProgressHasOwner
    BY <1>1 DEF CoordInit, ProgressHasOwner
<1>6. AnswerIsOwnAttempt /\ ReplayRepeatsAnswer /\ ConflictIsNews
    BY DEF CoordInit, AnswerIsOwnAttempt, ReplayRepeatsAnswer, ConflictIsNews
<1>7. QED
    BY <1>2, <1>3, <1>4, <1>5, <1>6 DEF IInv

LEMMA ClientStep ==
    ASSUME IInv, NEW r \in Requests, ClientSends(r)
    PROVE  IInv'
<1>0. CoordTypeOK /\ GenuineServed
    BY DEF IInv
<1>1. CASE \E x \in Selections : SendGet(r, x)
  <2>1. PICK x \in Selections : Send(r, <<x, 0>>, NoStatus, NoTrigger)
    BY <1>1 DEF SendGet
  <2>2. <<x, 0>> \in Scope
    BY MoveAssumption DEF Scope
  <2>3. QED
    BY <2>1, <2>2, Constants, SendStep
<1>2. CASE \E q \in Requests, t \in Triggers : HasStatus(q) /\ SendPost(r, shows[q], t)
  <2>1. PICK q \in Requests, t \in Triggers : HasStatus(q) /\ SendPost(r, shows[q], t)
    BY <1>2
  <2>2. Send(r, shows[q].scope, shows[q], t)
    BY <2>1 DEF SendPost
  <2>3. shows[q] \in Status /\ shows[q].scope \in Scope
    BY <1>0, Components DEF CoordTypeOK
  <2>4. epoch = 0 => Genuine(shows[q])
    BY <1>0, <2>1 DEF GenuineServed
  <2>5. QED
    BY <2>2, <2>3, <2>4, SendStep
<1>3. QED
    BY <1>1, <1>2 DEF ClientSends

LEMMA ServeStep ==
    ASSUME IInv, NEW r \in Requests, Serve(r)
    PROVE  IInv'
<1>1. CASE Execute(r)
    BY <1>1, ReplayStep, RejectStep, StartStep, AbandonStep DEF Execute
<1>2. CASE Finish(r)
    BY <1>2, ConcludeStep DEF Finish
<1>3. CASE Raise(r)
  <2>1. "failed_retained_prior" \in Outcomes
    BY DEF Outcomes
  <2>2. QED
    BY <1>3, <2>1, ConcludeStep DEF Raise
<1>4. QED
    BY <1>1, <1>2, <1>3, ResolveStep, GetStatusStep, ConflictStatusStep DEF Serve

LEMMA StutterStep ==
    ASSUME IInv, UNCHANGED coordVars
    PROVE  IInv'
<1>1. UNCHANGED <<enabled, moved, epoch, started>>
    BY DEF coordVars
<1>2. UNCHANGED <<phase, revision, automatic, lastCommand, activeScopes>>
    BY DEF coordVars, stateVars
<1>3. UNCHANGED <<pc, target, expected, trigger, reply, shows, ranIn>>
    BY DEF coordVars, requestVars
<1>4. QED
    BY <1>1, <1>2, <1>3 DEF IInv, CoordTypeOK, Posts, Claims, Used, DoneWasStarted, LastIsPast,
        ReplayIsPast,
        LastAnswer, RanBefore, GenuineServed, Genuine, HasStatus, StatusOf, CommandKey, ConflictIsPast, SingleFlight,
        ProgressHasOwner, OneAttemptPerGeneration, AutomaticOnce, AnswerIsOwnAttempt,
        ReplayRepeatsAnswer, ConflictIsNews

LEMMA CoordStep ==
    ASSUME IInv, [CoordNext]_coordVars
    PROVE  IInv'
<1>1. CASE CoordNext
    BY <1>1, ClientStep, ServeStep, MoveStep, RestartStep, StutterStep DEF CoordNext, Drained
<1>2. CASE UNCHANGED coordVars
    BY <1>2, StutterStep
<1>3. QED
    BY <1>1, <1>2

(* The invariant of the coordinator and its handlers is inductive.         *)
THEOREM CoordInvariance == CoordSpec => []IInv
<1>1. IInv /\ [CoordNext]_coordVars => IInv'
    BY CoordStep
<1>2. QED
    BY Initially, <1>1, PTL DEF CoordSpec

(* Every variable of the coordinator keeps its type.                       *)
THEOREM CoordTypeCorrect == CoordSpec => []CoordTypeOK
<1>1. IInv => CoordTypeOK
    BY DEF IInv
<1>2. QED
    BY CoordInvariance, <1>1, PTL

(* One acquisition at a time per scope (runtime.py, execute).              *)
THEOREM MutualExclusion == CoordSpec => []SingleFlight
<1>1. IInv => SingleFlight
    BY DEF IInv
<1>2. QED
    BY CoordInvariance, <1>1, PTL

(* A scope in progress is claimed and being acquired for, and conversely.  *)
THEOREM ClaimsAreOwned == CoordSpec => []ProgressHasOwner
<1>1. IInv => ProgressHasOwner
    BY DEF IInv
<1>2. QED
    BY CoordInvariance, <1>1, PTL

(* No generation starts two attempts.                                      *)
THEOREM AttemptsAreFresh == CoordSpec => []OneAttemptPerGeneration
<1>1. IInv => OneAttemptPerGeneration
    BY DEF IInv
<1>2. QED
    BY CoordInvariance, <1>1, PTL

(* The automatic attempt of a scope is made at most once by a process.     *)
THEOREM AutomaticAttemptOnce == CoordSpec => []AutomaticOnce
<1>1. IInv => AutomaticOnce
    BY DEF IInv
<1>2. QED
    BY CoordInvariance, <1>1, PTL

(* A completed command answers with the outcome of its own attempt.        *)
THEOREM AnswersAreOwn == CoordSpec => []AnswerIsOwnAttempt
<1>1. IInv => AnswerIsOwnAttempt
    BY DEF IInv
<1>2. QED
    BY CoordInvariance, <1>1, PTL

(* A replayed command gets the answer it got when it completed.            *)
THEOREM ReplaysRepeat == CoordSpec => []ReplayRepeatsAnswer
<1>1. IInv => ReplayRepeatsAnswer
    BY DEF IInv
<1>2. QED
    BY CoordInvariance, <1>1, PTL

(* A conflict tells its client something it did not know.                  *)
THEOREM ConflictsInform == CoordSpec => []ConflictIsNews
<1>1. IInv => ConflictIsNews
    BY DEF IInv
<1>2. QED
    BY CoordInvariance, <1>1, PTL

-----------------------------------------------------------------------------
(* Generations                                                             *)

Advances ==
    epoch' = epoch =>
        \A s \in Scope : StatusOf(s)' = StatusOf(s) \/ revision'[s] > revision[s]

LEMMA QuietAdvances ==
    ASSUME UNCHANGED stateVars
    PROVE  Advances
    BY DEF stateVars, Advances, StatusOf

LEMMA ClaimAdvances ==
    ASSUME IInv, NEW r \in Requests, Execute(r)
    PROVE  Advances
<1>0. CoordTypeOK
    BY DEF IInv
<1>1. CASE AnswerReplay(r) \/ RejectCommand(r)
    BY <1>1, QuietAdvances DEF AnswerReplay, RejectCommand
<1>2. CASE StartAttempt(r) \/ AbandonClaim(r)
  <2>1. /\ target[r] \in Scope /\ revision[target[r]] \in Nat
        /\ revision' = [revision EXCEPT ![target[r]] = @ + 1]
        /\ phase' = [phase EXCEPT ![target[r]] = "refresh_in_progress"]
        /\ \E v : automatic' = [automatic EXCEPT ![target[r]] = v]
    BY <1>2, <1>0, Components DEF StartAttempt, AbandonClaim, ClaimScope
  <2>2. revision'[target[r]] > revision[target[r]]
    BY <2>1, <1>0 DEF CoordTypeOK
  <2>3. \A s \in Scope \ {target[r]} : StatusOf(s)' = StatusOf(s)
    BY <2>1, <1>0 DEF CoordTypeOK, StatusOf
  <2>4. QED
    BY <2>2, <2>3 DEF Advances
<1>3. QED
    BY <1>1, <1>2 DEF Execute

LEMMA ConcludeAdvances ==
    ASSUME IInv, NEW r \in Requests, NEW outcome, NEW k, Conclude(r, outcome, k)
    PROVE  Advances
<1>0. CoordTypeOK
    BY DEF IInv
<1>1. /\ target[r] \in Scope /\ revision[target[r]] \in Nat
      /\ revision' = [revision EXCEPT ![target[r]] = @ + 1]
      /\ phase' = [phase EXCEPT ![target[r]] = outcome]
      /\ automatic' = automatic
    BY <1>0, Components DEF Conclude
<1>2. revision'[target[r]] > revision[target[r]]
    BY <1>1, <1>0 DEF CoordTypeOK
<1>3. \A s \in Scope \ {target[r]} : StatusOf(s)' = StatusOf(s)
    BY <1>1, <1>0 DEF CoordTypeOK, StatusOf
<1>4. QED
    BY <1>2, <1>3 DEF Advances

(* Within a process a status changes only to a later generation.           *)
THEOREM GenerationsOnlyAdvance == CoordSpec => GenerationsAdvance
<1>1. IInv /\ [CoordNext]_coordVars => [Advances]_coordVars
  <2> SUFFICES ASSUME IInv, CoordNext PROVE Advances
    OBVIOUS
  <2>1. CASE \E r \in Requests : ClientSends(r)
    BY <2>1, QuietAdvances DEF ClientSends, SendGet, SendPost, Send
  <2>2. ASSUME NEW r \in Requests, Serve(r) PROVE Advances
    <3>1. CASE Resolve(r) \/ GetStatus(r) \/ ConflictStatus(r)
      BY <3>1, QuietAdvances DEF Resolve, GetStatus, ConflictStatus
    <3>2. CASE Execute(r)
      BY <3>2, ClaimAdvances
    <3>3. CASE Finish(r) \/ Raise(r)
      BY <3>3, ConcludeAdvances DEF Finish, Raise
    <3>4. QED
      BY <2>2, <3>1, <3>2, <3>3 DEF Serve
  <2>3. CASE \E x \in Selections : MoveSnapshot(x)
    BY <2>3, QuietAdvances DEF MoveSnapshot
  <2>4. CASE Restart
    BY <2>4, MoveAssumption DEF Restart, Advances, IInv, CoordTypeOK
  <2>5. CASE Drained
    BY <2>5, QuietAdvances DEF Drained, coordVars
  <2>6. QED
    BY <2>1, <2>2, <2>3, <2>4, <2>5 DEF CoordNext
<1>2. QED
    BY CoordInvariance, <1>1, PTL DEF CoordSpec, GenerationsAdvance, Advances

-----------------------------------------------------------------------------
(* The page                                                                *)

(* A status that some answer gave: what a client may build a command from. *)
Given(st) == \E q \in Requests : HasStatus(q) /\ shows[q] = st

Sent(r) == pc[r] # "unsent"

PageFields ==
    /\ version \in [Pages -> Nat] /\ current \in [Pages -> Status]
    /\ visible \in [Pages -> BOOLEAN] /\ selected \in [Pages -> Selections]
    /\ issued \in [Requests -> Nat] /\ page = [r \in Requests |-> page[r]]

(* Every fetch has a version of its own, so that of the fetches of a page  *)
(* at most one is awaited.                                                 *)
IssuedOnce ==
    /\ \A r \in Requests : Sent(r) => page[r] \in Pages /\ issued[r] <= version[page[r]]
    /\ \A q, r \in Requests :
           Sent(q) /\ Sent(r) /\ page[q] = page[r] /\ issued[q] = issued[r] => q = r

(* What pages show and commands carry was given.                           *)
ShownWasGiven ==
    /\ \A p \in Pages : current[p] = NoStatus \/ Given(current[p])
    /\ \A r \in Requests : trigger[r] \in Triggers => Given(expected[r])

(* What a page waits for is no older than what it shows; a command it waits *)
(* for carries what it shows.                                              *)
AwaitedIsNewer ==
    epoch = 0 =>
        \A r \in Requests : Sent(r) /\ Awaited(r) =>
            LET st == current[page[r]]
            IN  /\ HasStatus(r) /\ shows[r].scope = st.scope => shows[r].revision >= st.revision
                /\ trigger[r] \in Triggers => expected[r] = st

PageInv == PageFields /\ IssuedOnce /\ ShownWasGiven /\ AwaitedIsNewer

(* What a step may do to what the pages show.                              *)
Forward ==
    epoch' = 0 =>
        \A p \in Pages :
            /\ NoStatus \notin {current[p], current'[p]}
            /\ current'[p].scope = current[p].scope
            => current'[p].revision >= current[p].revision

(* In the first process a status that was given is not from the future.    *)
LEMMA GivenIsPast ==
    ASSUME IInv, NEW st, Given(st), epoch = 0
    PROVE  st.scope \in Scope /\ st.revision \in Nat /\ st.revision <= revision[st.scope]
<1>1. PICK q \in Requests : HasStatus(q) /\ shows[q] = st
    BY DEF Given
<1>2. CoordTypeOK /\ GenuineServed
    BY DEF IInv
<1>3. QED
    BY <1>1, <1>2, Components DEF GenuineServed, Genuine

(* The server answers a request once, with a status that is current then.  *)
LEMMA AnswersStay ==
    ASSUME IInv, NEW r \in Requests,
           \/ \E q \in Requests : Serve(q)
           \/ \E x \in Selections : MoveSnapshot(x)
           \/ Restart
    PROVE  /\ Sent(r)' <=> Sent(r)
           /\ HasStatus(r) => HasStatus(r)' /\ shows'[r] = shows[r]
           /\ expected' = expected /\ trigger' = trigger
           /\ epoch' = 0 =>
                /\ epoch = 0
                /\ HasStatus(r)' /\ ~HasStatus(r) => shows'[r].revision >= revision[shows'[r].scope]
<1>0. CoordTypeOK
    BY DEF IInv
<1>1. ASSUME NEW q \in Requests, Serve(q)
      PROVE  /\ pc[q] \notin {"unsent", "answered"} /\ pc'[q] # "unsent"
             /\ expected' = expected /\ trigger' = trigger /\ epoch' = epoch
             /\ \A i \in Requests \ {q} : pc'[i] = pc[i] /\ reply'[i] = reply[i] /\ shows'[i] = shows[i]
             /\ HasStatus(q)' => shows'[q].revision >= revision[shows'[q].scope]
  <2>1. CASE Resolve(q)
    BY <2>1, <1>0 DEF Resolve, Answer, Goto, HasStatus, CoordTypeOK
  <2>2. CASE GetStatus(q)
    BY <2>2, <1>0, Components DEF GetStatus, Answer, Goto, HasStatus, CoordTypeOK, StatusOf
  <2>3. CASE Execute(q) /\ AnswerReplay(q)
    BY <2>3, <1>0, Components DEF Execute, AnswerReplay, Answer, Goto, HasStatus, CoordTypeOK, StatusOf
  <2>4. CASE Execute(q) /\ RejectCommand(q)
    BY <2>4, <1>0 DEF Execute, RejectCommand, Answer, Goto, HasStatus, CoordTypeOK
  <2>5. CASE Execute(q) /\ StartAttempt(q)
    BY <2>5, <1>0 DEF Execute, StartAttempt, Goto, HasStatus, CoordTypeOK
  <2>6. CASE Execute(q) /\ AbandonClaim(q)
    BY <2>6, <1>0 DEF Execute, AbandonClaim, Answer, Goto, HasStatus, CoordTypeOK
  <2>7. ASSUME NEW outcome \in Outcomes, NEW k \in {"done", "error"}, Conclude(q, outcome, k)
        PROVE  /\ pc[q] \notin {"unsent", "answered"} /\ pc'[q] # "unsent"
               /\ expected' = expected /\ trigger' = trigger /\ epoch' = epoch
               /\ \A i \in Requests \ {q} : pc'[i] = pc[i] /\ reply'[i] = reply[i] /\ shows'[i] = shows[i]
               /\ HasStatus(q)' => shows'[q].revision >= revision[shows'[q].scope]
    BY <2>7, <1>0, Components DEF Conclude, Answer, Goto, HasStatus, CoordTypeOK, StatusOf
  <2>8. CASE Finish(q)
    BY <2>8, <2>7 DEF Finish
  <2>9. CASE Raise(q)
    BY <2>9, <2>7 DEF Raise, Outcomes
  <2>10. CASE ConflictStatus(q)
    BY <2>10, <1>0, Components DEF ConflictStatus, Answer, Goto, HasStatus, CoordTypeOK, StatusOf
  <2>11. QED
    BY <1>1, <2>1, <2>2, <2>3, <2>4, <2>5, <2>6, <2>8, <2>9, <2>10 DEF Serve, Execute
<1>2. CASE \E q \in Requests : Serve(q)
    BY <1>1, <1>2 DEF Sent, HasStatus
<1>3. CASE \E x \in Selections : MoveSnapshot(x)
    BY <1>3 DEF MoveSnapshot, requestVars, Sent, HasStatus
<1>4. CASE Restart
    BY <1>4, <1>0 DEF Restart, Sent, HasStatus, CoordTypeOK
<1>5. QED
    BY <1>2, <1>3, <1>4

(* What was answered stays; a step that only adds answers keeps them given. *)
LEMMA GivenStays ==
    ASSUME \A q \in Requests : HasStatus(q) => HasStatus(q)' /\ shows'[q] = shows[q],
           NEW st, Given(st)
    PROVE  Given(st)'
    BY DEF Given

LEMMA ShownStays ==
    ASSUME \A q \in Requests : HasStatus(q) => HasStatus(q)' /\ shows'[q] = shows[q],
           \A p \in Pages : current'[p] = current[p] \/ current'[p] = NoStatus
                                \/ \E st : Given(st) /\ current'[p] = st,
           \A r \in Requests : trigger'[r] \in Triggers =>
               \/ trigger[r] \in Triggers /\ expected'[r] = expected[r]
               \/ \E st : Given(st) /\ expected'[r] = st,
           ShownWasGiven
    PROVE  ShownWasGiven'
<1>1. \A p \in Pages : current'[p] = NoStatus \/ \E q \in Requests : HasStatus(q) /\ shows[q] = current'[p]
    BY DEF ShownWasGiven, Given
<1>2. \A r \in Requests : trigger'[r] \in Triggers =>
          \E q \in Requests : HasStatus(q) /\ shows[q] = expected'[r]
    BY DEF ShownWasGiven, Given
<1>3. QED
    BY <1>1, <1>2 DEF ShownWasGiven, Given

(* Asking again, with a request that no one used.                          *)
LEMMA IssueStep ==
    ASSUME IInv, PageInv, NEW p \in Pages, NEW r \in Requests, NEW x \in Scope, NEW st \in Status,
           NEW t \in Triggers \cup {NoTrigger}, Send(r, x, st, t), NextVersion(p), Issue(p, r),
           \/ t = NoTrigger /\ current' = current
           \/ Given(st) /\ current' = [current EXCEPT ![p] = st],
           settled \subseteq settled', visible' \in [Pages -> BOOLEAN], selected' = selected,
           \A o \in Pages \ {p} : visible'[o] = visible[o]
    PROVE  PageInv'
<1>0. CoordTypeOK /\ PageFields /\ IssuedOnce /\ ShownWasGiven /\ AwaitedIsNewer
    BY DEF IInv, PageInv
<1>1. /\ pc[r] = "unsent" /\ Sent(r)' /\ ~HasStatus(r)' /\ trigger'[r] = t /\ expected'[r] = st
      /\ epoch' = epoch /\ shows' = shows
      /\ \A q \in Requests \ {r} : /\ Sent(q)' <=> Sent(q)
                                   /\ HasStatus(q)' <=> HasStatus(q)
                                   /\ trigger'[q] = trigger[q] /\ expected'[q] = expected[q]
    BY <1>0 DEF Send, Goto, CoordTypeOK, Sent, HasStatus
<1>2. /\ page'[r] = p /\ issued'[r] = version[p] + 1 /\ version'[p] = version[p] + 1
      /\ \A q \in Requests \ {r} : page'[q] = page[q] /\ issued'[q] = issued[q]
      /\ \A o \in Pages \ {p} : version'[o] = version[o] /\ current'[o] = current[o]
      /\ version[p] \in Nat
    BY <1>0 DEF NextVersion, Issue, PageFields
<1>3. PageFields'
    BY <1>0 DEF NextVersion, Issue, PageFields
<1>4. \A q \in Requests \ {r} : Sent(q) => /\ page[q] \in Pages /\ issued[q] \in Nat
                                          /\ issued[q] <= version[page[q]]
    BY <1>0 DEF IssuedOnce, PageFields
<1>5. IssuedOnce'
  <2>1. \A q \in Requests : Sent(q)' => page'[q] \in Pages /\ issued'[q] <= version'[page'[q]]
    BY <1>1, <1>2, <1>4
  <2>2. \A q \in Requests \ {r} : Sent(q)' /\ page'[q] = p => issued'[q] # issued'[r]
    BY <1>1, <1>2, <1>4
  <2>3. \A q, i \in Requests \ {r} :
            Sent(q)' /\ Sent(i)' /\ page'[q] = page'[i] /\ issued'[q] = issued'[i] => q = i
    BY <1>0, <1>1, <1>2 DEF IssuedOnce
  <2>4. QED
    BY <1>2, <2>1, <2>2, <2>3 DEF IssuedOnce
<1>6. ShownWasGiven'
  <2>1. \A q \in Requests : HasStatus(q) => HasStatus(q)' /\ shows'[q] = shows[q]
    BY <1>1 DEF HasStatus
  <2>2. current'[p] = current[p] \/ (Given(st) /\ current'[p] = st)
    BY <1>0 DEF PageFields
  <2>3. \A q \in Requests : trigger'[q] \in Triggers =>
            (trigger[q] \in Triggers /\ expected'[q] = expected[q]) \/ (Given(st) /\ expected'[q] = st)
    BY <1>1, Constants
  <2>4. QED
    BY <1>0, <1>2, <2>1, <2>2, <2>3, ShownStays
<1>7. AwaitedIsNewer'
  <2> SUFFICES ASSUME epoch = 0, NEW q \in Requests, Sent(q)', Awaited(q)'
               PROVE  /\ HasStatus(q)' /\ shows'[q].scope = current'[page'[q]].scope =>
                             shows'[q].revision >= current'[page'[q]].revision
                      /\ trigger'[q] \in Triggers => expected'[q] = current'[page'[q]]
    BY <1>1 DEF AwaitedIsNewer
  <2>1. CASE q = r
    BY <2>1, <1>0, <1>1, <1>2, Constants DEF PageFields
  <2>2. CASE q # r
    <3>1. Sent(q) /\ page'[q] = page[q] /\ page[q] \in Pages /\ issued'[q] = version'[page[q]]
      BY <2>2, <1>1, <1>2, <1>4 DEF Awaited
    <3>2. page[q] # p
      BY <2>2, <3>1, <1>2, <1>4
    <3>3. Awaited(q)
      BY <2>2, <3>1, <3>2, <1>2 DEF Awaited
    <3>4. QED
      BY <2>2, <3>1, <3>2, <3>3, <1>0, <1>1, <1>2 DEF AwaitedIsNewer
  <2>3. QED
    BY <2>1, <2>2
<1>8. QED
    BY <1>3, <1>5, <1>6, <1>7 DEF PageInv

(* Rendering what was awaited: nothing else of the page is awaited then.   *)
LEMMA RenderStep ==
    ASSUME IInv, PageInv, NEW r \in Requests, NEW st \in Status, Sent(r), Awaited(r),
           UNCHANGED <<coordVars, selected, visible, version, page, issued>>, settled' = settled \cup {r},
           current' = current \/ (Given(st) /\ current' = [current EXCEPT ![page[r]] = st])
    PROVE  PageInv'
<1>0. PageFields /\ IssuedOnce /\ ShownWasGiven /\ AwaitedIsNewer
    BY DEF PageInv
<1>1. UNCHANGED <<pc, reply, shows, trigger, expected, epoch>>
    BY DEF coordVars, requestVars
<1>2. page[r] \in Pages
    BY <1>0 DEF IssuedOnce
<1>3. PageFields' /\ IssuedOnce'
    BY <1>0, <1>1 DEF PageFields, IssuedOnce, Sent
<1>4. ShownWasGiven'
  <2>1. \A q \in Requests : HasStatus(q) => HasStatus(q)' /\ shows'[q] = shows[q]
    BY <1>1 DEF HasStatus
  <2>2. \A o \in Pages : current'[o] = current[o] \/ (Given(st) /\ current'[o] = st)
    BY <1>0 DEF PageFields
  <2>3. QED
    BY <1>0, <1>1, <2>1, <2>2, ShownStays
<1>5. AwaitedIsNewer'
  <2> SUFFICES ASSUME epoch = 0, NEW q \in Requests, Sent(q), Awaited(q)'
               PROVE  /\ HasStatus(q) /\ shows[q].scope = current'[page[q]].scope =>
                             shows[q].revision >= current'[page[q]].revision
                      /\ trigger[q] \in Triggers => expected[q] = current'[page[q]]
    BY <1>1 DEF AwaitedIsNewer, Sent, HasStatus
  <2>1. Awaited(q) /\ q # r /\ page[q] \in Pages
    BY <1>0 DEF Awaited, IssuedOnce
  <2>2. page[q] # page[r]
    BY <1>0, <2>1 DEF Awaited, IssuedOnce
  <2>3. current'[page[q]] = current[page[q]]
    BY <1>0, <2>1, <2>2 DEF PageFields
  <2>4. QED
    BY <1>0, <2>1, <2>3 DEF AwaitedIsNewer
<1>6. QED
    BY <1>3, <1>4, <1>5 DEF PageInv

(* Starting over, or forgetting an answer: the page awaits less.           *)
LEMMA QuietStep ==
    ASSUME IInv, PageInv, UNCHANGED <<coordVars, page, issued>>, settled \subseteq settled',
           version' \in [Pages -> Nat], visible' \in [Pages -> BOOLEAN], current' \in [Pages -> Status],
           selected' \in [Pages -> Selections],
           \A p \in Pages : \/ version'[p] = version[p] + 1 /\ current'[p] \in {current[p], NoStatus}
                            \/ UNCHANGED <<version[p], visible[p], current[p]>>
    PROVE  PageInv'
<1>0. PageFields /\ IssuedOnce /\ ShownWasGiven /\ AwaitedIsNewer
    BY DEF PageInv
<1>1. UNCHANGED <<pc, reply, shows, trigger, expected, epoch>>
    BY DEF coordVars, requestVars
<1>2. PageFields' /\ IssuedOnce'
    BY <1>0, <1>1 DEF PageFields, IssuedOnce, Sent
<1>3. ShownWasGiven'
  <2>1. \A q \in Requests : HasStatus(q) => HasStatus(q)' /\ shows'[q] = shows[q]
    BY <1>1 DEF HasStatus
  <2>2. QED
    BY <1>0, <1>1, <2>1, ShownStays
<1>4. AwaitedIsNewer'
  <2> SUFFICES ASSUME epoch = 0, NEW q \in Requests, Sent(q), Awaited(q)'
               PROVE  /\ HasStatus(q) /\ shows[q].scope = current'[page[q]].scope =>
                             shows[q].revision >= current'[page[q]].revision
                      /\ trigger[q] \in Triggers => expected[q] = current'[page[q]]
    BY <1>1 DEF AwaitedIsNewer, Sent, HasStatus
  <2>1. page[q] \in Pages /\ issued[q] \in Nat /\ issued[q] <= version[page[q]] /\ version[page[q]] \in Nat
    BY <1>0 DEF IssuedOnce, PageFields
  <2>2. issued[q] = version'[page[q]]
    BY DEF Awaited
  <2>3. version'[page[q]] # version[page[q]] + 1
    BY <2>1, <2>2
  <2>4. /\ version'[page[q]] = version[page[q]] /\ visible'[page[q]] = visible[page[q]]
        /\ current'[page[q]] = current[page[q]]
    BY <2>1, <2>3
  <2>5. Awaited(q)
    BY <2>4 DEF Awaited
  <2>6. QED
    BY <1>0, <2>4, <2>5 DEF AwaitedIsNewer
<1>5. QED
    BY <1>2, <1>3, <1>4 DEF PageInv

-----------------------------------------------------------------------------
(* The events                                                              *)

LEMMA ShowStep ==
    ASSUME IInv, PageInv, NEW p \in Pages, NEW r \in Requests, ShowSnapshot(p, r)
    PROVE  PageInv' /\ Forward /\ CoordNext
<1>0. PageFields
    BY DEF PageInv
<1>1. selected[p] \in Selections /\ <<selected[p], 0>> \in Scope
    BY <1>0, MoveAssumption DEF PageFields, Scope
<1>2. Send(r, <<selected[p], 0>>, NoStatus, NoTrigger) /\ SendGet(r, selected[p])
    BY DEF ShowSnapshot, SendGet
<1>3. /\ NextVersion(p) /\ Issue(p, r) /\ current' = current /\ settled' = settled /\ selected' = selected
      /\ visible' \in [Pages -> BOOLEAN] /\ \A o \in Pages \ {p} : visible'[o] = visible[o]
    BY <1>0 DEF ShowSnapshot, panelVars, PageFields
<1>4. PageInv'
    BY <1>1, <1>2, <1>3, Constants, IssueStep
<1>5. Forward
    BY <1>0, <1>3, Components DEF Forward, PageFields, Status
<1>6. QED
    BY <1>1, <1>2, <1>4, <1>5 DEF CoordNext, ClientSends

(* Both ways of sending a command: it carries a status that was given.     *)
LEMMA CommandStep ==
    ASSUME IInv, PageInv, NEW p \in Pages, NEW r \in Requests, NEW st \in Status, Given(st),
           NEW t \in Triggers, ExecuteRuntime(p, r, st, t), UNCHANGED <<selected, visible>>, settled \subseteq settled'
    PROVE  PageInv' /\ CoordNext
<1>0. PageFields
    BY DEF PageInv
<1>1. SendPost(r, st, t) /\ Send(r, st.scope, st, t) /\ NextVersion(p) /\ Issue(p, r)
    BY DEF ExecuteRuntime, SendPost
<1>2. current' = [current EXCEPT ![p] = st] /\ visible' \in [Pages -> BOOLEAN]
    BY <1>0 DEF ExecuteRuntime, Render, PageFields
<1>3. st.scope \in Scope
    BY DEF Status
<1>4. PageInv'
    BY <1>1, <1>2, <1>3, IssueStep
<1>5. PICK q \in Requests : HasStatus(q) /\ shows[q] = st
    BY DEF Given
<1>6. QED
    BY <1>1, <1>4, <1>5 DEF CoordNext, ClientSends

LEMMA RetryStep ==
    ASSUME IInv, PageInv, NEW p \in Pages, NEW r \in Requests, ClickRetry(p, r)
    PROVE  PageInv' /\ Forward /\ CoordNext
<1>0. PageFields /\ ShownWasGiven
    BY DEF PageInv
<1>1. PICK st : st = current[p]
    OBVIOUS
<1>2. st \in Status /\ Given(st)
    BY <1>0, <1>1 DEF PageFields, ShownWasGiven, ClickRetry
<1>3. ExecuteRuntime(p, r, st, "explicit_user_retry") /\ UNCHANGED <<selected, visible, settled>>
    BY <1>1 DEF ClickRetry
<1>4. PageInv' /\ CoordNext
    BY <1>2, <1>3, CommandStep DEF Triggers
<1>5. current' = current
    BY <1>0, <1>1, <1>3 DEF ExecuteRuntime, Render, PageFields
<1>6. Forward
    BY <1>0, <1>5 DEF Forward, PageFields, Status
<1>7. QED
    BY <1>4, <1>6

LEMMA ResetStep ==
    ASSUME IInv, PageInv, NEW p \in Pages,
           \/ RereadSnapshot(p) \/ ReloadPage(p) \/ LoadReadModel(p)
           \/ \E x \in Selections : ChangeSelection(p, x)
    PROVE  PageInv' /\ Forward /\ UNCHANGED coordVars
<1>0. PageFields
    BY DEF PageInv
<1>1. UNCHANGED <<coordVars, page, issued, settled>>
    BY DEF RereadSnapshot, ReloadPage, LoadReadModel, ChangeSelection
<1>2. /\ version' \in [Pages -> Nat] /\ visible' \in [Pages -> BOOLEAN] /\ current' \in [Pages -> Status]
      /\ selected' \in [Pages -> Selections]
      /\ \A o \in Pages : \/ version'[o] = version[o] + 1 /\ current'[o] \in {current[o], NoStatus}
                          \/ UNCHANGED <<version[o], visible[o], current[o]>>
  <2>1. CASE RereadSnapshot(p)
    BY <2>1, <1>0 DEF RereadSnapshot, NextVersion, panelVars, PageFields
  <2>2. CASE ReloadPage(p)
    <3>1. /\ version' = [version EXCEPT ![p] = @ + 1] /\ visible' = [visible EXCEPT ![p] = FALSE]
          /\ current' = [current EXCEPT ![p] = NoStatus] /\ selected' = selected
      BY <2>2 DEF ReloadPage, NextVersion
    <3>2. \A o \in Pages \ {p} : UNCHANGED <<version[o], visible[o], current[o]>>
      BY <1>0, <3>1 DEF PageFields
    <3>3. version'[p] = version[p] + 1 /\ current'[p] = NoStatus
      BY <1>0, <3>1 DEF PageFields
    <3>4. /\ version' \in [Pages -> Nat] /\ visible' \in [Pages -> BOOLEAN]
          /\ current' \in [Pages -> Status] /\ selected' \in [Pages -> Selections]
      BY <1>0, <3>1, Constants DEF PageFields
    <3>5. QED
      BY <3>2, <3>3, <3>4
  <2>3. CASE LoadReadModel(p)
    BY <2>3, <1>0 DEF LoadReadModel, panelVars, PageFields
  <2>4. CASE \E x \in Selections : ChangeSelection(p, x)
    <3>1. PICK x \in Selections : ChangeSelection(p, x)
      BY <2>4
    <3>2. /\ version' = [version EXCEPT ![p] = @ + 1] /\ visible' = [visible EXCEPT ![p] = FALSE]
          /\ current' = current /\ selected' = [selected EXCEPT ![p] = x]
      BY <3>1 DEF ChangeSelection, NextVersion, panelVars
    <3>3. \A o \in Pages \ {p} : UNCHANGED <<version[o], visible[o], current[o]>>
      BY <1>0, <3>2 DEF PageFields
    <3>4. version'[p] = version[p] + 1 /\ current'[p] = current[p]
      BY <1>0, <3>2 DEF PageFields
    <3>5. /\ version' \in [Pages -> Nat] /\ visible' \in [Pages -> BOOLEAN]
          /\ current' \in [Pages -> Status] /\ selected' \in [Pages -> Selections]
      BY <1>0, <3>2 DEF PageFields
    <3>6. QED
      BY <3>3, <3>4, <3>5
  <2>5. QED
    BY <2>1, <2>2, <2>3, <2>4
<1>3. PageInv'
    BY <1>1, <1>2, QuietStep
<1>4. \A o \in Pages : current'[o] = current[o] \/ current'[o] = NoStatus
    BY <1>2
<1>5. Forward
    BY <1>0, <1>4 DEF Forward, PageFields, Status
<1>6. QED
    BY <1>1, <1>3, <1>5

LEMMA DropStep ==
    ASSUME IInv, PageInv, NEW r \in Requests, DropResponse(r)
    PROVE  PageInv' /\ Forward /\ UNCHANGED coordVars
<1>0. PageFields
    BY DEF PageInv
<1>1. UNCHANGED <<coordVars, selected, version, visible, current, page, issued>> /\ settled \subseteq settled'
    BY DEF DropResponse, panelVars
<1>2. /\ version' \in [Pages -> Nat] /\ visible' \in [Pages -> BOOLEAN] /\ current' \in [Pages -> Status]
      /\ selected' \in [Pages -> Selections]
      /\ \A o \in Pages : UNCHANGED <<version[o], visible[o], current[o]>>
    BY <1>0, <1>1 DEF PageFields
<1>3. PageInv'
    BY <1>1, <1>2, QuietStep
<1>4. QED
    BY <1>0, <1>1, <1>3 DEF Forward, PageFields, Status

(* What a response may replace on the page it is rendered on.              *)
LEMMA NewerReplaces ==
    ASSUME IInv, PageInv, NEW r \in Requests, Sent(r), Awaited(r), NEW st \in Status,
           HasStatus(r) /\ st = shows[r], current' = [current EXCEPT ![page[r]] = st], epoch' = epoch
    PROVE  Forward
<1>0. PageFields /\ AwaitedIsNewer
    BY DEF PageInv
<1>1. SUFFICES ASSUME epoch = 0, NEW p \in Pages, current'[p].scope = current[p].scope
               PROVE  current'[p].revision >= current[p].revision
    BY DEF Forward
<1>2. current[p].revision \in Nat
    BY <1>0 DEF PageFields, Status
<1>3. CASE p = page[r]
    BY <1>0, <1>1, <1>3 DEF PageFields, AwaitedIsNewer
<1>4. CASE p # page[r]
    BY <1>0, <1>2, <1>4 DEF PageFields
<1>5. QED
    BY <1>3, <1>4

LEMMA StatusStep ==
    ASSUME IInv, PageInv, NEW r \in Requests, StatusArrives(r)
    PROVE  PageInv' /\ Forward /\ [CoordNext]_coordVars
<1>0. CoordTypeOK /\ PageFields /\ IssuedOnce
    BY DEF IInv, PageInv
<1>1. PICK st : st = shows[r]
    OBVIOUS
<1>2. /\ st \in Status /\ Given(st) /\ HasStatus(r) /\ Sent(r) /\ Awaited(r)
      /\ settled' = settled \cup {r} /\ UNCHANGED <<selected, visible>>
    BY <1>0, <1>1 DEF StatusArrives, HasStatus, Given, Sent, CoordTypeOK
<1>3. CASE /\ Render(page[r], shows[r], shows[r].phase)
           /\ UNCHANGED <<coordVars, version, autoScopes, page, issued>>
  <2>1. current' = [current EXCEPT ![page[r]] = st] /\ epoch' = epoch
    BY <1>1, <1>3 DEF Render, coordVars
  <2>2. PageInv'
    BY <1>2, <1>3, <2>1, RenderStep
  <2>3. QED
    BY <1>1, <1>2, <1>3, <2>1, <2>2, NewerReplaces
<1>4. CASE \E q \in Requests : ExecuteRuntime(page[r], q, shows[r], "first_today_market_entry")
  <2>1. PICK q \in Requests : ExecuteRuntime(page[r], q, st, "first_today_market_entry")
    BY <1>1, <1>4
  <2>2. PICK p : p = page[r]
    OBVIOUS
  <2>3. p \in Pages /\ ExecuteRuntime(p, q, st, "first_today_market_entry")
    BY <1>0, <1>2, <2>1, <2>2 DEF IssuedOnce
  <2>4. PageInv' /\ CoordNext
    BY <1>2, <2>3, CommandStep DEF Triggers
  <2>5. current' = [current EXCEPT ![page[r]] = st] /\ epoch' = epoch
    BY <2>1 DEF ExecuteRuntime, Render, SendPost, Send
  <2>6. Forward
    BY <1>1, <1>2, <2>5, NewerReplaces
  <2>7. QED
    BY <2>4, <2>6
<1>5. QED
    BY <1>3, <1>4 DEF StatusArrives

LEMMA OutcomeStep ==
    ASSUME IInv, PageInv, NEW r \in Requests, OutcomeArrives(r)
    PROVE  PageInv' /\ Forward /\ UNCHANGED coordVars
<1>0. CoordTypeOK
    BY DEF IInv
<1>1. PICK st : st = shows[r]
    OBVIOUS
<1>2. /\ st \in Status /\ Given(st) /\ HasStatus(r) /\ Sent(r) /\ Awaited(r)
      /\ current' = [current EXCEPT ![page[r]] = st] /\ settled' = settled \cup {r}
      /\ UNCHANGED <<coordVars, selected, visible, version, page, issued>>
    BY <1>0, <1>1 DEF OutcomeArrives, Render, HasStatus, Given, Sent, CoordTypeOK
<1>3. epoch' = epoch
    BY <1>2 DEF coordVars
<1>4. PageInv'
    BY <1>2, RenderStep
<1>5. QED
    BY <1>1, <1>2, <1>3, <1>4, NewerReplaces

(* A command that got no answer shows what it carried, which the page      *)
(* showed all along; in later processes it was given, which suffices.      *)
LEMMA FailStep ==
    ASSUME IInv, PageInv, NEW r \in Requests, FetchFails(r)
    PROVE  PageInv' /\ Forward /\ UNCHANGED coordVars
<1>0. CoordTypeOK /\ PageFields /\ IssuedOnce /\ ShownWasGiven /\ AwaitedIsNewer
    BY DEF IInv, PageInv
<1>1. PICK st : st = expected[r]
    OBVIOUS
<1>2. /\ st \in Status /\ Sent(r) /\ Awaited(r) /\ settled' = settled \cup {r}
      /\ UNCHANGED <<coordVars, selected, visible, version, page, issued>>
      /\ page[r] \in Pages
    BY <1>0, <1>1 DEF FetchFails, Sent, CoordTypeOK, IssuedOnce
<1>3. \/ current' = current
      \/ trigger[r] \in Triggers /\ Given(st) /\ current' = [current EXCEPT ![page[r]] = st]
    BY <1>0, <1>1 DEF FetchFails, Render, CoordTypeOK, ShownWasGiven
<1>4. PageInv'
    BY <1>1, <1>2, <1>3, RenderStep
<1>5. epoch' = epoch
    BY <1>2 DEF coordVars
<1>6. epoch = 0 => current' = current
    BY <1>0, <1>1, <1>2, <1>3 DEF PageFields, AwaitedIsNewer
<1>7. Forward
    BY <1>0, <1>5, <1>6 DEF Forward, PageFields, Status
<1>8. QED
    BY <1>2, <1>4, <1>7

LEMMA ServedPageStep ==
    ASSUME IInv, PageInv, ServerStep
    PROVE  PageInv' /\ Forward /\ CoordNext
<1>0. PageFields /\ IssuedOnce /\ ShownWasGiven /\ AwaitedIsNewer /\ CoordTypeOK
    BY DEF PageInv, IInv
<1>1. UNCHANGED <<selected, visible, version, current, page, issued, settled>>
    BY DEF ServerStep, pageVars, panelVars
<1>2. /\ \A r \in Requests :
             /\ Sent(r)' <=> Sent(r)
             /\ HasStatus(r) => HasStatus(r)' /\ shows'[r] = shows[r]
             /\ epoch' = 0 =>
                  /\ epoch = 0
                  /\ HasStatus(r)' /\ ~HasStatus(r) => shows'[r].revision >= revision[shows'[r].scope]
      /\ \A r \in Requests : expected' = expected /\ trigger' = trigger
    BY AnswersStay DEF ServerStep
<1>3. CoordNext
    BY DEF ServerStep, CoordNext
<1>4. PageFields'
    BY <1>0, <1>1 DEF PageFields
<1>5. IssuedOnce'
    BY <1>0, <1>1, <1>2 DEF IssuedOnce
<1>6. ShownWasGiven'
    BY <1>0, <1>1, <1>2, ShownStays
<1>7. AwaitedIsNewer'
  <2> SUFFICES ASSUME epoch' = 0, NEW r \in Requests, Sent(r), Awaited(r)
               PROVE  /\ HasStatus(r)' /\ shows'[r].scope = current[page[r]].scope =>
                             shows'[r].revision >= current[page[r]].revision
                      /\ trigger[r] \in Triggers => expected[r] = current[page[r]]
    BY <1>1, <1>2 DEF AwaitedIsNewer, Awaited
  <2>1. epoch = 0 /\ page[r] \in Pages
    BY <1>0, <1>2 DEF IssuedOnce
  <2>2. trigger[r] \in Triggers => expected[r] = current[page[r]]
    BY <1>0, <2>1 DEF AwaitedIsNewer
  <2>3. CASE HasStatus(r)
    BY <1>0, <1>2, <2>1, <2>2, <2>3 DEF AwaitedIsNewer
  <2>4. ASSUME HasStatus(r)', ~HasStatus(r), shows'[r].scope = current[page[r]].scope
        PROVE  shows'[r].revision >= current[page[r]].revision
    <3>1. PICK st : st = current[page[r]]
      OBVIOUS
    <3>2. PICK sh : sh = shows'[r]
      OBVIOUS
    <3>3. sh.revision >= revision[st.scope]
      BY <1>2, <2>4, <3>1, <3>2
    <3>4. CASE st = NoStatus
      <4>1. revision[st.scope] \in Nat /\ st.revision = 0
        BY <1>0, <3>4, Constants, Components DEF NoStatus
      <4>2. CoordTypeOK'
        BY <1>0, <1>3, CoordStep DEF IInv
      <4>3. sh.revision \in Nat
        BY <3>2, <4>2 DEF CoordTypeOK, Status
      <4>4. QED
        BY <3>1, <3>2, <4>1, <4>3
    <3>5. CASE st # NoStatus
      <4>1. Given(st)
        BY <1>0, <2>1, <3>1, <3>5 DEF ShownWasGiven
      <4>2. st.revision \in Nat /\ st.revision <= revision[st.scope] /\ revision[st.scope] \in Nat
        BY <1>0, <2>1, <4>1, GivenIsPast DEF CoordTypeOK
      <4>3. CoordTypeOK'
        BY <1>3, CoordStep DEF IInv
      <4>4. sh.revision \in Nat
        BY <3>2, <4>3 DEF CoordTypeOK, Status
      <4>5. QED
        BY <3>1, <3>2, <3>3, <4>2, <4>4
    <3>6. QED
      BY <3>4, <3>5
  <2>5. QED
    BY <2>2, <2>3, <2>4
<1>8. Forward
    BY <1>0, <1>1 DEF Forward, PageFields, Status
<1>9. QED
    BY <1>3, <1>4, <1>5, <1>6, <1>7, <1>8 DEF PageInv

LEMMA PageStarts == Init => PageInv
<1> SUFFICES ASSUME Init PROVE PageInv
    OBVIOUS
<1>1. /\ \A r \in Requests : ~Sent(r) /\ trigger[r] \notin Triggers
      /\ PageFields
    BY Constants DEF Init, CoordInit, Sent, PageFields
<1>2. ShownWasGiven
    BY <1>1 DEF Init, ShownWasGiven
<1>3. QED
    BY <1>1, <1>2 DEF PageInv, IssuedOnce, AwaitedIsNewer

LEMMA PageSteps ==
    ASSUME IInv, PageInv, [Next]_vars
    PROVE  PageInv' /\ Forward /\ [CoordNext]_coordVars
<1>0. PageFields
    BY DEF PageInv
<1>1. CASE UNCHANGED vars
  <2>1. UNCHANGED <<coordVars, selected, version, visible, current, page, issued, settled>>
    BY <1>1 DEF vars, pageVars, panelVars
  <2>2. /\ version' \in [Pages -> Nat] /\ visible' \in [Pages -> BOOLEAN] /\ current' \in [Pages -> Status]
        /\ selected' \in [Pages -> Selections] /\ settled \subseteq settled'
        /\ \A o \in Pages : UNCHANGED <<version[o], visible[o], current[o]>>
    BY <1>0, <2>1 DEF PageFields
  <2>3. PageInv'
    BY <2>1, <2>2, QuietStep
  <2>4. QED
    BY <1>0, <2>1, <2>3 DEF Forward, PageFields, Status
<1>2. CASE \E p \in Pages, r \in Requests : ShowSnapshot(p, r) \/ ClickRetry(p, r)
    BY <1>2, ShowStep, RetryStep
<1>3. CASE \/ \E p \in Pages : RereadSnapshot(p) \/ ReloadPage(p) \/ LoadReadModel(p)
           \/ \E p \in Pages, x \in Selections : ChangeSelection(p, x)
    BY <1>3, ResetStep
<1>4. CASE \E r \in Requests : \/ DropResponse(r) \/ StatusArrives(r)
                               \/ OutcomeArrives(r) \/ FetchFails(r)
    BY <1>4, DropStep, StatusStep, OutcomeStep, FailStep
<1>5. CASE ServerStep
    BY <1>5, ServedPageStep
<1>6. QED
    BY <1>1, <1>2, <1>3, <1>4, <1>5 DEF Next

LEMMA PageInvariance == Spec => [](IInv /\ PageInv)
<1>1. Init => IInv /\ PageInv
    BY Initially, PageStarts DEF Init
<1>2. IInv /\ PageInv /\ [Next]_vars => (IInv /\ PageInv)'
    BY PageSteps, CoordStep
<1>3. QED
    BY <1>1, <1>2, PTL DEF Spec

(* The panel is a client like any other: it asks, and posts commands that  *)
(* carry a status some answer gave (today_market.js, executeRuntime), so   *)
(* that all of the above holds with pages as clients.                      *)
THEOREM PagesAreClients == Spec => CoordSpec
<1>1. Init => CoordInit
    BY DEF Init
<1>2. IInv /\ PageInv /\ [Next]_vars => [CoordNext]_coordVars
    BY PageSteps
<1>3. QED
    BY <1>1, <1>2, PageInvariance, PTL DEF Spec, CoordSpec

(* Within the first process no page goes back to an earlier generation of  *)
(* the scope it shows (today_market.js, runtimeRequestVersion).            *)
THEOREM PagesGoForward == Spec => ShownNeverOlder
<1>1. IInv /\ PageInv /\ [Next]_vars => [Forward]_vars
    BY PageSteps
<1>2. Spec => [][Forward]_vars
    BY <1>1, PageInvariance, PTL DEF Spec
<1>3. QED
    BY <1>2 DEF ShownNeverOlder, Forward

-----------------------------------------------------------------------------
(* Reading while imports go on: what a query selects                       *)

Eligible(f) == {r \in Readable(f) : Recorded(r)}

DatabaseStep ==
    \/ Tick
    \/ \E b \in Bundles : Begin(b)
    \/ \E r \in RunIds : Stamp(r) \/ MarkFailed(r)
    \/ \E r \in RunIds, acknowledged \in BOOLEAN : Commit(r, acknowledged)

(* What an import leaves as it was: what the runs brought, and the runs    *)
(* that ended.                                                             *)
Imported ==
    /\ ask' = ask
    /\ Len(runs) <= Len(runs')
    /\ \A r \in RunIds : runs'[r].bundle = runs[r].bundle /\ runs'[r].imported = runs[r].imported
    /\ \A r \in RunIds' \ RunIds : runs'[r].imported = now
    /\ \A r \in RunIds : runs[r].status # "pending" /\ ~runs[r].doubtful => runs'[r] = runs[r]
    /\ now <= now'

DbTypes ==
    /\ now \in 1..MaxTime /\ runs \in Seq(RunRecord) /\ Len(runs) <= MaxRuns
    /\ \A r \in RunIds : Normalizes(runs[r].bundle) /\ runs[r].imported \in 1..now
    /\ ask \in Asks

LEMMA RunFields ==
    ASSUME DbTypes
    PROVE  /\ Len(runs) \in Nat /\ now \in Nat /\ runs \in [RunIds -> RunRecord]
           /\ ask.cutoff \in Nat /\ ask.recorded \in Nat
           /\ "equity" \in ask.keys /\ ask.keys \subseteq Family
           /\ \A r \in RunIds :
                 /\ r \in Nat /\ runs[r] \in RunRecord /\ runs[r].bundle \in Bundles
                 /\ runs[r].bundle.cutoff \in Nat /\ runs[r].bundle.open \subseteq Nat
                 /\ runs[r].imported \in Nat /\ runs[r].completed \in Nat
<1>1. Len(runs) \in Nat /\ now \in Nat /\ runs \in [RunIds -> RunRecord]
    BY ReadingBoundAssumption DEF DbTypes, RunIds
<1>2. /\ ask.cutoff \in Nat /\ ask.recorded \in Nat /\ "equity" \in ask.keys /\ ask.keys \subseteq Family
    BY AskAssumption DEF DbTypes
<1>3. ASSUME NEW r \in RunIds
      PROVE  /\ r \in Nat /\ runs[r] \in RunRecord /\ runs[r].bundle \in Bundles
             /\ runs[r].imported \in Nat /\ runs[r].completed \in Nat
    BY <1>1 DEF RunRecord, RunIds
<1>4. QED
    BY <1>1, <1>2, <1>3, BundleAssumption

(* Replacing one run that has not ended, keeping what it brought.          *)
LEMMA RunChanged ==
    ASSUME DbTypes, NEW r \in RunIds, NEW v \in RunRecord, runs' = [runs EXCEPT ![r] = v],
           v.bundle = runs[r].bundle, v.imported = runs[r].imported,
           runs[r].status = "pending" \/ runs[r].doubtful, now' = now, ask' = ask
    PROVE  DbTypes' /\ Imported
<1>1. runs' \in Seq(RunRecord) /\ Len(runs') = Len(runs)
    BY ExceptSeq, RunFields DEF DbTypes, RunIds
<1>2. runs'[r] = v /\ \A q \in RunIds \ {r} : runs'[q] = runs[q]
    BY RunFields
<1>3. RunIds' = RunIds
    BY <1>1 DEF RunIds
<1>4. DbTypes'
    BY <1>1, <1>2, <1>3 DEF DbTypes
<1>5. Imported
    BY <1>1, <1>2, <1>3, RunFields DEF Imported
<1>6. QED
    BY <1>4, <1>5

LEMMA DatabaseSteps ==
    ASSUME DbTypes, DatabaseStep
    PROVE  DbTypes' /\ Imported /\ UNCHANGED readerVars
<1>1. CASE Tick
    BY <1>1, RunFields, ReadingBoundAssumption DEF Tick, DbTypes, Imported, RunIds, readerVars
<1>2. CASE \E b \in Bundles : Begin(b)
  <2>1. PICK b \in Bundles : Begin(b)
    BY <1>2
  <2>2. PICK v : v = [Run(b, now, "pending") EXCEPT !.stamp = 0, !.completed = 0]
    OBVIOUS
  <2>3. v \in RunRecord /\ v.bundle = b /\ v.imported = now
    BY <2>2, RunFields DEF Run, RunRecord, RunStatus
  <2>4. runs' = Append(runs, v) /\ now' = now /\ UNCHANGED readerVars /\ Normalizes(b)
        /\ Len(runs) < MaxRuns
    BY <2>1, <2>2 DEF Begin
  <2>5. /\ runs' \in Seq(RunRecord) /\ Len(runs') = Len(runs) + 1 /\ runs'[Len(runs) + 1] = v
        /\ \A r \in RunIds : runs'[r] = runs[r]
    BY <2>3, <2>4, AppendProperties DEF DbTypes, RunIds
  <2>6. RunIds' = RunIds \cup {Len(runs) + 1} /\ Len(runs) + 1 \notin RunIds /\ ask' = ask
    BY <2>4, <2>5, RunFields DEF RunIds, readerVars
  <2>7. DbTypes'
    BY <2>3, <2>4, <2>5, <2>6, RunFields, ReadingBoundAssumption DEF DbTypes
  <2>8. Imported
    BY <2>3, <2>4, <2>5, <2>6, RunFields DEF Imported
  <2>9. QED
    BY <2>4, <2>7, <2>8
<1>3. ASSUME NEW r \in RunIds, Stamp(r) \/ MarkFailed(r) \/ \E a \in BOOLEAN : Commit(r, a)
      PROVE  DbTypes' /\ Imported /\ UNCHANGED readerVars
  <2>1. UNCHANGED readerVars /\ now' = now /\ ask' = ask
        /\ (runs[r].status = "pending" \/ runs[r].doubtful)
    BY <1>3 DEF Stamp, MarkFailed, Commit, readerVars
  <2>2. runs[r] \in RunRecord /\ now \in Nat
    BY RunFields
  <2>3. \E v \in RunRecord : /\ runs' = [runs EXCEPT ![r] = v]
                             /\ v.bundle = runs[r].bundle /\ v.imported = runs[r].imported
    <3>1. CASE Stamp(r)
      <4>1. PICK v : v = [runs[r] EXCEPT !.stamp = now]
        OBVIOUS
      <4>2. v \in RunRecord /\ v.bundle = runs[r].bundle /\ v.imported = runs[r].imported
        BY <2>2, <4>1 DEF RunRecord
      <4>3. runs' = [runs EXCEPT ![r] = v]
        BY <3>1, <4>1, Zenon DEF Stamp
      <4>4. QED
        BY <4>2, <4>3
    <3>2. CASE MarkFailed(r)
      <4>1. PICK v : v = [runs[r] EXCEPT !.status = "failed", !.completed = now, !.doubtful = FALSE]
        OBVIOUS
      <4>2. v \in RunRecord /\ v.bundle = runs[r].bundle /\ v.imported = runs[r].imported
        BY <2>2, <4>1 DEF RunRecord, RunStatus
      <4>3. runs' = [runs EXCEPT ![r] = v]
        BY <3>2, <4>1, RunFields DEF MarkFailed
      <4>4. QED
        BY <4>2, <4>3
    <3>3. CASE \E a \in BOOLEAN : Commit(r, a)
      <4>0. PICK a \in BOOLEAN : Commit(r, a)
        BY <3>3
      <4>1. PICK v : v = [runs[r] EXCEPT !.status = "succeeded", !.completed = runs[r].stamp,
                                         !.doubtful = ~a]
        OBVIOUS
      <4>2. v \in RunRecord /\ v.bundle = runs[r].bundle /\ v.imported = runs[r].imported
        BY <2>2, <4>1 DEF RunRecord, RunStatus
      <4>3. runs' = [runs EXCEPT ![r] = v]
        BY <4>0, <4>1, RunFields DEF Commit
      <4>4. QED
        BY <4>2, <4>3
    <3>4. QED
      BY <1>3, <3>1, <3>2, <3>3
  <2>4. QED
    BY <2>1, <2>3, RunChanged
<1>4. QED
    BY <1>1, <1>2, <1>3 DEF DatabaseStep

(* Bounded numbers have a greatest one.                                    *)
LEMMA GreatestBelow ==
    ASSUME NEW T, T \subseteq Nat, T # {}, NEW n \in Nat, \A x \in T : x <= n
    PROVE  \E x \in T : \A y \in T : y <= x
<1> DEFINE U == {n - x : x \in T}
<1>0. \A x \in T : x \in Nat /\ n - x \in Nat
    OBVIOUS
<1>1. U \subseteq Nat /\ U # {}
    BY <1>0
<1>2. PICK R : R = OpToRel(<, Nat) /\ IsWellFoundedOn(R, Nat)
    BY NatLessThanWellFounded
<1>3. \E u \in U : \A w \in U : ~(<<w, u>> \in R)
    BY <1>1, <1>2, WFMin
<1>4. PICK x \in T : \A w \in U : ~(<<w, n - x>> \in R)
    BY <1>3
<1>5. ASSUME NEW y \in T
      PROVE  y <= x
  <2>1. n - y \in U /\ n - y \in Nat /\ n - x \in Nat
    OBVIOUS
  <2>2. ~(n - y < n - x)
    BY <1>2, <1>4, <2>1 DEF OpToRel
  <2>3. QED
    BY <2>2
<1>6. QED
    BY <1>5

(* The newest of some eligible runs is one of them.                        *)
LEMMA NewestExists ==
    ASSUME DbTypes, NEW f, NEW S, S \subseteq Eligible(f)
    PROVE  /\ S = {} => Newest(S) = NoRun
           /\ S # {} => Newest(S) \in S
<1>1. SUFFICES ASSUME S # {} PROVE Newest(S) \in S
    BY DEF Newest
<1>2. \A r \in S : /\ r \in RunIds /\ r \in Nat /\ r <= Len(runs)
                   /\ runs[r].bundle.cutoff \in Nat /\ runs[r].bundle.cutoff <= ask.cutoff
                   /\ runs[r].completed \in Nat /\ runs[r].completed <= ask.recorded
    BY RunFields DEF Eligible, Readable, Recorded, RunIds
<1>3. PICK c \in {runs[r].bundle.cutoff : r \in S} : \A d \in {runs[r].bundle.cutoff : r \in S} : d <= c
  <2>1. PICK N : N = {runs[r].bundle.cutoff : r \in S}
    OBVIOUS
  <2>2. N \subseteq Nat /\ N # {} /\ ask.cutoff \in Nat /\ \A d \in N : d <= ask.cutoff
    BY <1>1, <1>2, <2>1, RunFields
  <2>3. \E c \in N : \A d \in N : d <= c
    BY <2>2, GreatestBelow
  <2>4. QED
    BY <2>1, <2>3
<1> DEFINE C == {r \in S : runs[r].bundle.cutoff = c}
<1>3a. C # {} /\ C \subseteq S /\ \A r \in S \ C : runs[r].bundle.cutoff < c
  <2>1. \A r \in S : runs[r].bundle.cutoff <= c
    BY <1>3
  <2>2. \E r \in S : runs[r].bundle.cutoff = c
    BY <1>3
  <2>3. QED
    BY <1>2, <2>1, <2>2
<1>4. PICK t \in {runs[r].completed : r \in C} : \A u \in {runs[r].completed : r \in C} : u <= t
  <2>1. PICK N : N = {runs[r].completed : r \in C}
    OBVIOUS
  <2>2. N \subseteq Nat /\ N # {} /\ ask.recorded \in Nat /\ \A d \in N : d <= ask.recorded
    BY <1>2, <1>3a, <2>1, RunFields
  <2>3. \E c1 \in N : \A d \in N : d <= c1
    BY <2>2, GreatestBelow
  <2>4. QED
    BY <2>1, <2>3
<1> DEFINE T == {r \in C : runs[r].completed = t}
<1>4a. T # {} /\ T \subseteq C /\ \A r \in C \ T : runs[r].completed < t
  <2>1. \A r \in C : runs[r].completed <= t
    BY <1>4
  <2>2. \E r \in C : runs[r].completed = t
    BY <1>4
  <2>3. \A r \in C : runs[r].completed \in Nat
    BY <1>2, <1>3a
  <2>4. QED
    BY <2>1, <2>2, <2>3
<1>5. PICK m \in T : \A r \in T : r <= m
  <2>1. T \subseteq Nat /\ Len(runs) \in Nat /\ \A r \in T : r <= Len(runs)
    BY <1>2, <1>3a, <1>4a, RunFields
  <2>2. QED
    BY <1>4a, <2>1, GreatestBelow
<1>6. ASSUME NEW q \in S \ {m}
      PROVE  Newer(m, q)
  <2>1. m \in S /\ runs[m].bundle.cutoff = c /\ runs[m].completed = t
    BY <1>3a, <1>4a, <1>5
  <2>2. CASE q \notin C
    BY <1>2, <1>3a, <2>1, <2>2 DEF Newer
  <2>3. CASE q \in C \ T
    BY <1>2, <1>4a, <2>1, <2>3 DEF Newer
  <2>4. CASE q \in T
    BY <1>2, <1>5, <2>1, <2>4 DEF Newer
  <2>5. QED
    BY <2>2, <2>3, <2>4
<1>7. QED
    BY <1>3a, <1>4a, <1>5, <1>6 DEF Newest

LEMMA LoadedTypes ==
    ASSUME DbTypes
    PROVE  \A f : /\ Loaded(f) \in RunIds \cup {NoRun}
                  /\ Loaded(f) = NoRun \/ runs[Loaded(f)].bundle.family = f
<1>1. ASSUME NEW f
      PROVE  Loaded(f) = NoRun \/ Loaded(f) \in Eligible(f)
  <2>1. Loaded(f) = Newest(Eligible(f))
    BY DEF Loaded, Eligible
  <2>2. QED
    BY <2>1, NewestExists
<1>2. QED
    BY <1>1 DEF Eligible, Readable

(* At a settled boundary every query selects the same run ever after.      *)
LEMMA SettledSelection ==
    ASSUME DbTypes, DbTypes', Imported, Settled
    PROVE  Settled' /\ \A f : Loaded(f)' = Loaded(f)
<1>1. \A r \in RunIds : runs[r].imported <= ask.recorded => runs'[r] = runs[r]
    BY DEF Settled, Imported
<1>2. \A r \in RunIds' : runs'[r].imported <= ask.recorded => r \in RunIds
    BY RunFields DEF Imported, Settled
<1>3. RunIds \subseteq RunIds' /\ ask' = ask
    BY RunFields DEF Imported, RunIds
<1>4. Settled'
  <2>1. ask'.recorded < now'
    BY <1>3, RunFields, ReadingBoundAssumption DEF Settled, Imported, DbTypes
  <2>2. \A r \in RunIds' : runs'[r].imported <= ask.recorded => r \in RunIds /\ runs'[r] = runs[r]
    BY <1>1, <1>2 DEF Imported
  <2>3. \A r \in RunIds : runs[r].imported <= ask.recorded => runs[r].status # "pending" /\ ~runs[r].doubtful
    BY DEF Settled
  <2>4. \A r \in RunIds' : runs'[r].imported <= ask.recorded => runs'[r].status # "pending" /\ ~runs'[r].doubtful
    BY <2>2, <2>3
  <2>5. QED
    BY <1>3, <2>1, <2>4 DEF Settled
<1>5. ASSUME NEW f
      PROVE  Loaded(f)' = Loaded(f)
  <2>1. \A r \in Eligible(f) : runs'[r] = runs[r]
    BY <1>1 DEF Eligible, Readable, Recorded
  <2>2. \A r \in RunIds' : runs'[r].imported <= ask.recorded => r \in RunIds /\ runs'[r] = runs[r]
    BY <1>1, <1>2 DEF Imported
  <2>3. Eligible(f)' = Eligible(f)
    <3>1. \A r \in Eligible(f)' : r \in Eligible(f)
      BY <1>3, <2>2 DEF Eligible, Readable, Recorded
    <3>2. \A r \in Eligible(f) : r \in Eligible(f)'
      BY <1>3, <2>1 DEF Eligible, Readable, Recorded
    <3>3. QED
      BY <3>1, <3>2
  <2>4. \A r, q \in Eligible(f) : Newer(r, q)' <=> Newer(r, q)
    BY <2>1 DEF Newer
  <2>5. PICK S : S = Eligible(f)
    OBVIOUS
  <2>6. CASE S = {}
    BY <2>3, <2>5, <2>6 DEF Loaded, Newest, Eligible
  <2>7. CASE S # {}
    <3>1. Loaded(f) = CHOOSE r \in S : \A q \in S \ {r} : Newer(r, q)
      BY <2>5, <2>7 DEF Loaded, Newest, Eligible
    <3>2. Loaded(f)' = CHOOSE r \in S : \A q \in S \ {r} : Newer(r, q)'
      BY <2>3, <2>5, <2>7 DEF Loaded, Newest, Eligible
    <3>3. \A r, q \in S : Newer(r, q)' <=> Newer(r, q)
      BY <2>4, <2>5
    <3>4. QED
      BY <3>1, <3>2, <3>3
  <2>8. QED
    BY <2>6, <2>7
<1>6. QED
    BY <1>4, <1>5

-----------------------------------------------------------------------------
(* What a reply shows depends on the runs it was made from only            *)

(* The selection of one reading, and where building its snapshot ends.     *)
Whole == [f \in Family |-> IF f \in ask.keys THEN Loaded(f) ELSE NoRun]

Refused(s) ==
    {i \in 1..3 : /\ Families3[i] \in ask.keys
                  /\ \A j \in 1..(i - 1) : Families3[j] \in ask.keys => Refusal(Families3[j], s) = "none"
                  /\ Refusal(Families3[i], s) # "none"}

LEMMA AtOnceIs ==
    ASSUME NEW o
    PROVE  AtOnce(o) = IF Refused(Whole) # {} THEN Reply(o, Refusal(Families3[Min(Refused(Whole))], Whole))
                       ELSE IF o \in Identified /\ ~Bound(Whole, Whole) THEN Reply(o, "identity_conflict")
                       ELSE Shown(o, Whole, Whole, Whole.equity)
    BY DEF AtOnce, Refused, Whole

LEMMA MinOfFew ==
    ASSUME NEW T, T \subseteq 1..3, NEW m \in T, \A x \in T : m <= x
    PROVE  Min(T) = m
<1>1. \A x \in T : (\A y \in T : x <= y) => x = m
    OBVIOUS
<1>2. QED
    BY <1>1 DEF Min

LEMMA FamilyOrder ==
    /\ Families3[1] = "equity" /\ Families3[2] = "benchmark" /\ Families3[3] = "sector"
    /\ \A i \in 1..3 : Families3[i] \in Family
    /\ \A f \in Family : \E i \in 1..3 : Families3[i] = f
    /\ \A i, j \in 1..3 : Families3[i] = Families3[j] => i = j
    BY DEF Families3, Family

LEMMA RefusalSame ==
    ASSUME NEW f \in Family, NEW s, NEW u, s[f] = u[f], s.equity = u.equity
    PROVE  Refusal(f, s) = Refusal(f, u)
    BY DEF Refusal

LEMMA RefusalStays ==
    ASSUME DbTypes, Imported, NEW f \in Family, NEW s, s.equity \in RunIds, s[f] \in RunIds \cup {NoRun}
    PROVE  Refusal(f, s)' = Refusal(f, s)
<1>1. ask' = ask /\ runs'[s.equity].bundle = runs[s.equity].bundle
    BY DEF Imported
<1>2. s[f] # NoRun => runs'[s[f]].bundle = runs[s[f]].bundle
    BY DEF Imported
<1>3. QED
    BY <1>1, <1>2 DEF Refusal, BundleOf

LEMMA ContentStays ==
    ASSUME DbTypes, Imported, NEW s, s.equity \in RunIds, \A f \in ask.keys : s[f] \in RunIds
    PROVE  Content(s)' = Content(s) /\ Through(s)' = Through(s)
<1>1. ask' = ask /\ BundleOf(s.equity)' = BundleOf(s.equity)
    BY DEF Imported, BundleOf
<1>2. \A f \in ask.keys \cap Contexts : BundleOf(s[f])' = BundleOf(s[f])
    BY DEF Imported, BundleOf
<1>3. [f \in ask.keys \cap Contexts |-> ContextContent(BundleOf(s[f]), BundleOf(s.equity), ask.cutoff)]'
        = [f \in ask.keys \cap Contexts |-> ContextContent(BundleOf(s[f]), BundleOf(s.equity), ask.cutoff)]
    BY <1>1, <1>2
<1>4. QED
    BY <1>1, <1>3 DEF Content, Through

LEMMA BoundStays ==
    ASSUME DbTypes, Imported, NEW s, NEW n, s.equity \in RunIds, \A f \in ask.keys : s[f] \in RunIds
    PROVE  Bound(s, n)' <=> Bound(s, n)
<1>1. ask' = ask /\ BundleOf(s.equity)' = BundleOf(s.equity)
    BY DEF Imported, BundleOf
<1>2. \A f \in ask.keys : BundleOf(s[f])' = BundleOf(s[f])
    BY DEF Imported, BundleOf
<1>3. QED
    BY <1>1, <1>2 DEF Bound, SameRun

(* What one reading of a settled boundary is answered stays the answer.    *)
LEMMA AtOnceStays ==
    ASSUME DbTypes, DbTypes', Imported, Settled, NEW o
    PROVE  AtOnce(o)' = AtOnce(o)
<1>1. PICK s : s = Whole
    OBVIOUS
<1>2. Whole' = s /\ ask' = ask
    BY <1>1, SettledSelection DEF Whole, Imported
<1>3. "equity" \in ask.keys /\ ask.keys \subseteq Family /\ s.equity = Loaded("equity")
      /\ \A f \in ask.keys : s[f] = Loaded(f) /\ s[f] \in RunIds \cup {NoRun}
    BY <1>1, RunFields, LoadedTypes DEF Whole, Family
<1>4. AtOnce(o) = IF Refused(s) # {} THEN Reply(o, Refusal(Families3[Min(Refused(s))], s))
                  ELSE IF o \in Identified /\ ~Bound(s, s) THEN Reply(o, "identity_conflict")
                  ELSE Shown(o, s, s, s.equity)
    BY <1>1, AtOnceIs
<1>4a. \A m \in 1..3 : Refused(s)' # {} /\ Min(Refused(s)') = m =>
           AtOnce(o)' = Reply(o, Refusal(Families3[m], s)')
    BY <1>2 DEF AtOnce, Refused, Whole, Reply
<1>4b. Refused(s)' = {} =>
           AtOnce(o)' = IF o \in Identified /\ ~Bound(s, s)' THEN Reply(o, "identity_conflict")
                        ELSE Shown(o, s, s, s.equity)'
    BY <1>2 DEF AtOnce, Refused, Whole, Reply
<1>5. CASE s.equity = NoRun
  <2>1. Refusal("equity", s) = "not_visible" /\ Refusal("equity", s)' = "not_visible"
    BY <1>5 DEF Refusal
  <2>2. 1 \in Refused(s) /\ 1 \in Refused(s)'
    BY <1>2, <1>3, <2>1, FamilyOrder DEF Refused
  <2>3. Refused(s) \subseteq 1..3 /\ Refused(s)' \subseteq 1..3
    BY DEF Refused
  <2>4. Min(Refused(s)) = 1 /\ Min(Refused(s)') = 1
    BY <2>2, <2>3, MinOfFew
  <2>5. QED
    BY <1>4, <1>4a, <2>1, <2>2, <2>4, FamilyOrder
<1>6. CASE s.equity # NoRun
  <2>1. s.equity \in RunIds
    BY <1>3, <1>6
  <2>2. \A f \in ask.keys : Refusal(f, s)' = Refusal(f, s)
    BY <1>3, <2>1, RefusalStays
  <2>3. Refused(s)' = Refused(s)
    BY <1>2, <2>2 DEF Refused
  <2>4. CASE Refused(s) # {}
    <3>1. Refused(s) \subseteq 1..3 /\ \A i \in Refused(s) : Families3[i] \in ask.keys
      BY DEF Refused
    <3>2. PICK m \in Refused(s) : \A x \in Refused(s) : m <= x
      BY <2>4, <3>1
    <3>3. Min(Refused(s)) = m
      BY <3>1, <3>2, MinOfFew
    <3>4. QED
      BY <1>4, <1>4a, <2>2, <2>3, <2>4, <3>1, <3>2, <3>3
  <2>5. CASE Refused(s) = {}
    <3>1. \A f \in ask.keys : s[f] \in RunIds
      <4>1. \A i \in 1..3 : Families3[i] \in ask.keys => Refusal(Families3[i], s) = "none"
        BY <2>5 DEF Refused
      <4>2. \A f \in ask.keys : Refusal(f, s) = "none"
        BY <1>3, <4>1, FamilyOrder
      <4>3. QED
        BY <1>3, <4>2 DEF Refusal
    <3>2. Content(s)' = Content(s) /\ Through(s)' = Through(s) /\ (Bound(s, s)' <=> Bound(s, s))
      BY <2>1, <3>1, ContentStays, BoundStays
    <3>3. BundleOf(s.equity)' = BundleOf(s.equity)
      BY <2>1 DEF Imported, BundleOf
    <3>4. Shown(o, s, s, s.equity)' = Shown(o, s, s, s.equity)
      BY <3>2, <3>3 DEF Shown, Reply
    <3>5. QED
      BY <1>4, <1>4b, <2>3, <2>5, <3>2, <3>4
  <2>6. QED
    BY <2>4, <2>5
<1>7. QED
    BY <1>5, <1>6

-----------------------------------------------------------------------------
(* The work a request has to do                                            *)

AllSteps == ({"show", "name"} \X Family) \cup ({"bind", "rule"} \X {"equity"})

StepsOf(o) ==
    ({"show"} \X ask.keys)
    \cup (IF o \in Identified THEN ({"name"} \X ask.keys) \cup {<<"bind", "equity">>} ELSE {})
    \cup (IF o = "read_model" THEN {<<"rule", "equity">>} ELSE {})

Place(x) ==
    CASE x[1] = "show" -> 0 + (IF x[2] = "equity" THEN 1 ELSE IF x[2] = "benchmark" THEN 2 ELSE 3)
      [] x[1] = "name" -> 3 + (IF x[2] = "equity" THEN 1 ELSE IF x[2] = "benchmark" THEN 2 ELSE 3)
      [] x[1] = "bind" -> 7
      [] x[1] = "rule" -> 8

Members(w) == {w[i] : i \in 1..Len(w)}
Sorted(w)  == w \in Seq(AllSteps) /\ \A i, j \in 1..Len(w) : i < j => Place(w[i]) < Place(w[j])

LEMMA Places ==
    /\ \A x \in AllSteps : Place(x) \in 1..8
    /\ \A x, y \in AllSteps : Place(x) = Place(y) => x = y
    /\ \A f \in Family : Place(<<"show", f>>) \in 1..3 /\ Place(<<"name", f>>) \in 4..6
    /\ Place(<<"bind", "equity">>) = 7 /\ Place(<<"rule", "equity">>) = 8
    /\ Place(<<"show", "equity">>) = 1 /\ Place(<<"name", "equity">>) = 4
<1>1. \A x \in AllSteps :
          \/ x \in {<<"show", "equity">>, <<"show", "benchmark">>, <<"show", "sector">>}
          \/ x \in {<<"name", "equity">>, <<"name", "benchmark">>, <<"name", "sector">>}
          \/ x \in {<<"bind", "equity">>, <<"rule", "equity">>}
    BY DEF AllSteps, Family
<1>2. /\ Place(<<"show", "equity">>) = 1 /\ Place(<<"show", "benchmark">>) = 2
      /\ Place(<<"show", "sector">>) = 3 /\ Place(<<"name", "equity">>) = 4
      /\ Place(<<"name", "benchmark">>) = 5 /\ Place(<<"name", "sector">>) = 6
      /\ Place(<<"bind", "equity">>) = 7 /\ Place(<<"rule", "equity">>) = 8
    BY DEF Place
<1>3. QED
    BY <1>1, <1>2 DEF Family

(* Every query of the snapshot comes before every other step.              *)
LEMMA ShowsFirst ==
    /\ \A f \in Family, g \in Family : Place(<<"show", f>>) < Place(<<"name", g>>)
    /\ \A f \in Family : /\ Place(<<"show", f>>) < Place(<<"bind", "equity">>)
                          /\ Place(<<"name", f>>) < Place(<<"bind", "equity">>)
                          /\ Place(<<"show", f>>) < Place(<<"rule", "equity">>)
    /\ Place(<<"bind", "equity">>) < Place(<<"rule", "equity">>)
<1>1. ASSUME NEW f \in Family
      PROVE  Place(<<"show", f>>) \in 1..3 /\ Place(<<"name", f>>) \in 4..6
    BY Places
<1>2. Place(<<"bind", "equity">>) = 7 /\ Place(<<"rule", "equity">>) = 8
    BY Places
<1>3. ASSUME NEW f \in Family
      PROVE  /\ Place(<<"show", f>>) < 7 /\ Place(<<"name", f>>) < 7 /\ Place(<<"show", f>>) < 8
    BY <1>1
<1>4. ASSUME NEW f \in Family, NEW g \in Family
      PROVE  Place(<<"show", f>>) < Place(<<"name", g>>)
  <2>1. Place(<<"show", f>>) \in 1..3 /\ Place(<<"name", g>>) \in 4..6
    BY <1>1
  <2>2. QED
    BY <2>1
<1>5. QED
    BY <1>2, <1>3, <1>4

LEMMA SortedJoin ==
    ASSUME NEW u, NEW w, Sorted(u), Sorted(w), \A x \in Members(u), y \in Members(w) : Place(x) < Place(y)
    PROVE  Sorted(u \o w) /\ Members(u \o w) = Members(u) \cup Members(w)
<1>1. u \in Seq(AllSteps) /\ w \in Seq(AllSteps)
    BY DEF Sorted
<1>2. /\ u \o w \in Seq(AllSteps) /\ Len(u \o w) = Len(u) + Len(w) /\ Len(u) \in Nat /\ Len(w) \in Nat
      /\ \A i \in 1..(Len(u) + Len(w)) : (u \o w)[i] = IF i <= Len(u) THEN u[i] ELSE w[i - Len(u)]
    BY <1>1, ConcatProperties
<1>3. ASSUME NEW i \in 1..(Len(u) + Len(w))
      PROVE  \/ i \in 1..Len(u) /\ (u \o w)[i] = u[i] /\ u[i] \in Members(u)
             \/ i - Len(u) \in 1..Len(w) /\ i > Len(u) /\ (u \o w)[i] = w[i - Len(u)]
                /\ w[i - Len(u)] \in Members(w)
    BY <1>2 DEF Members
<1>4. ASSUME NEW i \in 1..(Len(u) + Len(w)), NEW j \in 1..(Len(u) + Len(w)), i < j
      PROVE  Place((u \o w)[i]) < Place((u \o w)[j])
  <2>1. CASE j <= Len(u)
    BY <1>2, <1>4, <2>1 DEF Sorted
  <2>2. CASE i <= Len(u) /\ j > Len(u)
    BY <1>2, <1>3, <1>4, <2>2
  <2>3. CASE i > Len(u)
    <3>1. i - Len(u) \in 1..Len(w) /\ j - Len(u) \in 1..Len(w) /\ i - Len(u) < j - Len(u)
      BY <1>2, <1>4, <2>3
    <3>2. (u \o w)[i] = w[i - Len(u)] /\ (u \o w)[j] = w[j - Len(u)]
      BY <1>2, <1>4, <2>3
    <3>3. QED
      BY <3>1, <3>2 DEF Sorted
  <2>4. QED
    BY <1>2, <1>4, <2>1, <2>2, <2>3
<1>5. Sorted(u \o w)
    BY <1>2, <1>4 DEF Sorted
<1>6. \A x \in Members(u \o w) : x \in Members(u) \cup Members(w)
    BY <1>2, <1>3 DEF Members
<1>7. \A i \in 1..Len(u) : u[i] \in Members(u \o w)
  <2> SUFFICES ASSUME NEW i \in 1..Len(u) PROVE u[i] \in Members(u \o w)
    OBVIOUS
  <2>1. i \in 1..(Len(u) + Len(w)) /\ (u \o w)[i] = u[i]
    BY <1>2
  <2>2. QED
    BY <1>2, <2>1 DEF Members
<1>8. \A i \in 1..Len(w) : w[i] \in Members(u \o w)
  <2> SUFFICES ASSUME NEW i \in 1..Len(w) PROVE w[i] \in Members(u \o w)
    OBVIOUS
  <2>1. i + Len(u) \in 1..(Len(u) + Len(w)) /\ (u \o w)[i + Len(u)] = w[i]
    BY <1>2
  <2>2. QED
    BY <1>2, <2>1 DEF Members
<1>9. QED
    BY <1>5, <1>6, <1>7, <1>8 DEF Members

LEMMA SortedFew ==
    /\ Sorted(<<>>) /\ Members(<<>>) = {}
    /\ \A x \in AllSteps : Sorted(<<x>>) /\ Members(<<x>>) = {x}
    BY DEF Sorted, Members

(* A request starts with all its steps, in order.                          *)
LEMMA WorkSorted ==
    ASSUME "equity" \in ask.keys, ask.keys \subseteq Family, NEW o
    PROVE  Sorted(Work(o)) /\ Members(Work(o)) = StepsOf(o)
<1>1. ASSUME NEW kind \in {"show", "name"}
      PROVE  Sorted(Selects(kind)) /\ Members(Selects(kind)) = {kind} \X ask.keys
  <2>1. /\ <<kind, "equity">> \in AllSteps /\ <<kind, "benchmark">> \in AllSteps
        /\ <<kind, "sector">> \in AllSteps
        /\ Place(<<kind, "equity">>) < Place(<<kind, "benchmark">>)
        /\ Place(<<kind, "equity">>) < Place(<<kind, "sector">>)
        /\ Place(<<kind, "benchmark">>) < Place(<<kind, "sector">>)
    BY DEF AllSteps, Family, Place
  <2>2. PICK b : b = IF "benchmark" \in ask.keys THEN <<<<kind, "benchmark">>>> ELSE <<>>
    OBVIOUS
  <2>3. PICK s : s = IF "sector" \in ask.keys THEN <<<<kind, "sector">>>> ELSE <<>>
    OBVIOUS
  <2>4. PICK e : e = <<<<kind, "equity">>>>
    OBVIOUS
  <2>5. /\ Sorted(e) /\ Sorted(b) /\ Sorted(s) /\ Members(e) = {<<kind, "equity">>}
        /\ Members(b) = IF "benchmark" \in ask.keys THEN {<<kind, "benchmark">>} ELSE {}
        /\ Members(s) = IF "sector" \in ask.keys THEN {<<kind, "sector">>} ELSE {}
    BY <2>1, <2>2, <2>3, <2>4, SortedFew
  <2>6. Sorted(e \o b) /\ Members(e \o b) = Members(e) \cup Members(b)
    BY <2>1, <2>5, SortedJoin
  <2>7. Sorted((e \o b) \o s) /\ Members((e \o b) \o s) = Members(e) \cup Members(b) \cup Members(s)
    BY <2>1, <2>5, <2>6, SortedJoin
  <2>8. Selects(kind) = (e \o b) \o s
    BY <2>2, <2>3, <2>4 DEF Selects
  <2>9. {kind} \X ask.keys = Members(e) \cup Members(b) \cup Members(s)
    BY <2>5 DEF Family
  <2>10. QED
    BY <2>7, <2>8, <2>9
<1>2. PICK n : n = Selects("name")
    OBVIOUS
<1>3. PICK u : u = IF o \in Identified THEN n \o <<<<"bind", "equity">>>> ELSE <<>>
    OBVIOUS
<1>4. PICK v : v = IF o = "read_model" THEN <<<<"rule", "equity">>>> ELSE <<>>
    OBVIOUS
<1>5. PICK s : s = Selects("show")
    OBVIOUS
<1>6. <<"bind", "equity">> \in AllSteps /\ <<"rule", "equity">> \in AllSteps
    BY DEF AllSteps
<1>7. Sorted(n) /\ Members(n) = {"name"} \X ask.keys /\ Sorted(s) /\ Members(s) = {"show"} \X ask.keys
    BY <1>1, <1>2, <1>5
<1>8. /\ \A x \in {"name"} \X ask.keys : Place(x) \in 4..6
      /\ \A x \in {"show"} \X ask.keys : Place(x) \in 1..3
  <2>1. /\ \A x \in {"name"} \X ask.keys : \E f \in Family : x = <<"name", f>>
        /\ \A x \in {"show"} \X ask.keys : \E f \in Family : x = <<"show", f>>
    OBVIOUS
  <2>2. QED
    BY <2>1, Places
<1>9. /\ Sorted(u)
      /\ Members(u) = IF o \in Identified THEN ({"name"} \X ask.keys) \cup {<<"bind", "equity">>} ELSE {}
  <2>1. Sorted(n \o <<<<"bind", "equity">>>>)
        /\ Members(n \o <<<<"bind", "equity">>>>) = ({"name"} \X ask.keys) \cup {<<"bind", "equity">>}
    <3>1. PICK b : b = <<<<"bind", "equity">>>> /\ Sorted(b) /\ Members(b) = {<<"bind", "equity">>}
      BY <1>6, SortedFew
    <3>2. \A x \in Members(n), y \in Members(b) : Place(x) < Place(y)
      BY <1>7, <1>8, <3>1, Places
    <3>3. Sorted(n \o b) /\ Members(n \o b) = Members(n) \cup Members(b)
      BY <1>7, <3>1, <3>2, SortedJoin
    <3>4. QED
      BY <1>7, <3>1, <3>3
  <2>2. QED
    BY <1>3, <2>1, SortedFew
<1>10. Sorted(v) /\ Members(v) = IF o = "read_model" THEN {<<"rule", "equity">>} ELSE {}
    BY <1>4, <1>6, SortedFew
<1>11. Sorted(s \o u) /\ Members(s \o u) = Members(s) \cup Members(u)
  <2>1. \A x \in Members(s), y \in Members(u) : Place(x) < Place(y)
    BY <1>7, <1>8, <1>9, Places
  <2>2. QED
    BY <1>7, <1>9, <2>1, SortedJoin
<1>12. Sorted((s \o u) \o v) /\ Members((s \o u) \o v) = Members(s) \cup Members(u) \cup Members(v)
  <2>1. \A x \in Members(s \o u), y \in Members(v) : Place(x) < Place(y)
    BY <1>7, <1>8, <1>9, <1>10, <1>11, Places
  <2>2. QED
    BY <1>10, <1>11, <2>1, SortedJoin
<1>13. Work(o) = (s \o u) \o v
    BY <1>2, <1>3, <1>4, <1>5 DEF Work
<1>14. QED
    BY <1>7, <1>9, <1>10, <1>12, <1>13 DEF StepsOf

(* The steps still to do are the last ones of the request, in order.       *)
WorkOK ==
    /\ Sorted(todo) /\ Members(todo) \subseteq StepsOf(op) /\ (op = "idle" => todo = <<>>)
    /\ \A x, y \in StepsOf(op) : x \in Members(todo) /\ Place(x) < Place(y) => y \in Members(todo)

Made(kind, f) == <<kind, f>> \in StepsOf(op) /\ <<kind, f>> \notin Members(todo)

(* What a request has found so far.                                        *)
FoundOK ==
    op # "idle" =>
        /\ answer = NoReply
        /\ \A f \in Family : IF Made("show", f) THEN seen[f] \in RunIds /\ Refusal(f, seen) = "none"
                             ELSE seen[f] = NoRun
        /\ \A f \in Family : IF Made("name", f) THEN named[f] \in RunIds ELSE named[f] = NoRun
        /\ Made("bind", "equity") => Bound(seen, named)

(* At a settled boundary it is what any query finds there.                 *)
CalmOK ==
    /\ calm =>
        /\ Settled
        /\ op # "idle" =>
              /\ \A f \in Family : Made("show", f) => seen[f] = Loaded(f)
              /\ \A f \in Family : Made("name", f) => named[f] = Loaded(f)
              /\ Made("rule", "equity") => ruled = Loaded("equity")
    /\ listed.calm => Settled /\ \A f \in Family : listed.runs[f] = Loaded(f)

Names(a) ==
    a.runs # NoRuns =>
        /\ a.runs \in [Family -> RunIds \cup {NoRun}] /\ \A f \in ask.keys : a.runs[f] \in RunIds
        /\ a.content = Content(a.runs)

AnswerOK ==
    /\ Names(answer) /\ Names(confirmed)
    /\ calm =>
        /\ answer.op \in {"snapshot", "status", "read_model"} => answer = AtOnce(answer.op)
        /\ answer.outcome = "shown" => \A f \in ask.keys : seen[f] = Loaded(f)
        /\ answer.outcome = "not_visible" /\ ask.keys = {"equity"} => Loaded("equity") = NoRun

ReadingInv == ReadingTypeOK /\ WorkOK /\ FoundOK /\ CalmOK /\ AnswerOK

LEMMA TypesAndDb == ReadingTypeOK => DbTypes
    BY DEF ReadingTypeOK, DbTypes

(* Making the first step leaves the others, and came after those before.   *)
LEMMA FirstStep ==
    ASSUME WorkOK, NEW x, todo # <<>>, Head(todo) = x
    PROVE  /\ x \in StepsOf(op) /\ x \in Members(todo)
           /\ Sorted(Tail(todo)) /\ Members(Tail(todo)) = Members(todo) \ {x}
           /\ \A y \in StepsOf(op) : Place(y) < Place(x) => y \notin Members(todo)
           /\ \A y, z \in StepsOf(op) :
                 y \in Members(Tail(todo)) /\ Place(y) < Place(z) => z \in Members(Tail(todo))
<1>1. todo \in Seq(AllSteps) /\ Len(todo) \in Nat /\ Len(todo) > 0 /\ todo[1] = x
    BY HeadTailProperties, EmptySeq DEF WorkOK, Sorted
<1>2. /\ Tail(todo) \in Seq(AllSteps) /\ Len(Tail(todo)) = Len(todo) - 1
      /\ \A i \in 1..(Len(todo) - 1) : Tail(todo)[i] = todo[i + 1]
    BY <1>1, HeadTailProperties
<1>3. /\ \A i \in 1..Len(todo) : todo[i] \in AllSteps /\ Place(todo[i]) \in Nat
      /\ \A i, j \in 1..Len(todo) : i < j => Place(todo[i]) < Place(todo[j])
    BY <1>1, Places DEF WorkOK, Sorted
<1>4. x \in Members(todo) /\ x \in StepsOf(op) /\ \A y \in Members(todo) : y # x => Place(x) < Place(y)
  <2>1. x \in Members(todo)
    BY <1>1 DEF Members
  <2>2. ASSUME NEW i \in 1..Len(todo), todo[i] # x
        PROVE  Place(x) < Place(todo[i])
    BY <1>1, <1>3, <2>2
  <2>3. QED
    BY <2>1, <2>2 DEF Members, WorkOK
<1>5. Sorted(Tail(todo))
  <2>1. ASSUME NEW i \in 1..(Len(todo) - 1), NEW j \in 1..(Len(todo) - 1), i < j
        PROVE  Place(Tail(todo)[i]) < Place(Tail(todo)[j])
    BY <1>1, <1>2, <1>3, <2>1
  <2>2. QED
    BY <1>2, <2>1 DEF Sorted
<1>6. Members(Tail(todo)) = Members(todo) \ {x}
  <2>1. ASSUME NEW i \in 1..(Len(todo) - 1)
        PROVE  Tail(todo)[i] \in Members(todo) \ {x}
    <3>1. i + 1 \in 1..Len(todo) /\ Tail(todo)[i] = todo[i + 1]
      BY <1>1, <1>2
    <3>2. Place(todo[1]) < Place(todo[i + 1]) /\ Place(todo[1]) \in Nat /\ Place(todo[i + 1]) \in Nat
      BY <1>1, <1>3, <3>1
    <3>3. todo[i + 1] \in Members(todo) /\ todo[i + 1] # x
      BY <1>1, <3>1, <3>2 DEF Members
    <3>4. QED
      BY <3>1, <3>3
  <2>2. ASSUME NEW i \in 1..Len(todo), todo[i] # x
        PROVE  todo[i] \in Members(Tail(todo))
    <3>1. i - 1 \in 1..(Len(todo) - 1) /\ Tail(todo)[i - 1] = todo[i]
      BY <1>1, <1>2, <2>2
    <3>2. QED
      BY <1>2, <3>1 DEF Members
  <2>3. \A y \in Members(Tail(todo)) : y \in Members(todo) \ {x}
    BY <1>2, <2>1 DEF Members
  <2>4. \A y \in Members(todo) \ {x} : y \in Members(Tail(todo))
    BY <2>2 DEF Members
  <2>5. QED
    BY <2>3, <2>4
<1>7. \A y \in StepsOf(op) : Place(y) < Place(x) => y \notin Members(todo)
  <2> SUFFICES ASSUME NEW y \in StepsOf(op), Place(y) < Place(x), y \in Members(todo) PROVE FALSE
    OBVIOUS
  <2>1. Place(x) \in Nat /\ Place(y) \in Nat
    BY <1>3, <1>4 DEF Members
  <2>2. QED
    BY <1>4, <2>1
<1>8. ASSUME NEW y \in StepsOf(op), NEW z \in StepsOf(op), y \in Members(Tail(todo)), Place(y) < Place(z)
      PROVE  z \in Members(Tail(todo))
  <2>1. y \in Members(todo) /\ y # x /\ Place(x) < Place(y)
    BY <1>4, <1>6, <1>8
  <2>2. z \in Members(todo)
    BY <1>8, <2>1 DEF WorkOK
  <2>3. z # x
    <3>1. Place(x) \in Nat /\ Place(y) \in Nat
      BY <1>3, <1>4, <2>1 DEF Members
    <3>2. QED
      BY <1>8, <2>1, <3>1
  <2>4. QED
    BY <1>6, <2>2, <2>3
<1>9. QED
    BY <1>4, <1>5, <1>6, <1>7, <1>8

(* What going on means for the work.                                       *)
LEMMA GoOn ==
    ASSUME WorkOK, op # "idle", NEW kind, NEW f, Doing(kind, f), Go, ask' = ask
    PROVE  /\ WorkOK' /\ <<kind, f>> \in StepsOf(op) /\ ~Made(kind, f)
           /\ \A k, g : Made(k, g)' <=> (Made(k, g) \/ <<k, g>> = <<kind, f>>)
           /\ \A y \in StepsOf(op) : Place(y) < Place(<<kind, f>>) => y \notin Members(todo)
<1>1. PICK x : x = <<kind, f>>
    OBVIOUS
<1>2. /\ x \in StepsOf(op) /\ x \in Members(todo)
      /\ Sorted(Tail(todo)) /\ Members(Tail(todo)) = Members(todo) \ {x}
      /\ \A y \in StepsOf(op) : Place(y) < Place(x) => y \notin Members(todo)
      /\ \A y, z \in StepsOf(op) :
            y \in Members(Tail(todo)) /\ Place(y) < Place(z) => z \in Members(Tail(todo))
    BY <1>1, FirstStep DEF Doing
<1>3. todo' = Tail(todo) /\ op' = op /\ StepsOf(op)' = StepsOf(op) /\ Members(todo)' = Members(Tail(todo))
    BY DEF Go, StepsOf, Members
<1>4. WorkOK'
  <2>1. Sorted(todo)'
    BY <1>2, <1>3 DEF Sorted
  <2>2. Members(todo)' \subseteq StepsOf(op)' /\ op' # "idle"
    BY <1>2, <1>3 DEF WorkOK
  <2>3. \A y, z \in StepsOf(op)' : y \in Members(todo)' /\ Place(y) < Place(z) => z \in Members(todo)'
    BY <1>2, <1>3
  <2>4. QED
    BY <2>1, <2>2, <2>3 DEF WorkOK
<1>5. \A k, g : Made(k, g)' <=> (Made(k, g) \/ <<k, g>> = x)
    BY <1>2, <1>3 DEF Made
<1>6. ~Made(kind, f)
    BY <1>1, <1>2 DEF Made
<1>7. QED
    BY <1>1, <1>2, <1>4, <1>5, <1>6

(* A request that ends has no work.                                        *)
LEMMA NoWork ==
    ASSUME todo' = <<>>, op' = "idle", ask' = ask
    PROVE  WorkOK'
<1>1. Sorted(<<>>) /\ Members(<<>>) = {}
    BY SortedFew
<1>2. Sorted(todo)' /\ Members(todo)' = {}
    BY <1>1 DEF Sorted, Members
<1>3. QED
    BY <1>2 DEF WorkOK

LEMMA NamesStays ==
    ASSUME DbTypes, Imported, NEW a, Names(a)
    PROVE  Names(a)'
<1>1. SUFFICES ASSUME a.runs # NoRuns PROVE Names(a)'
    BY DEF Names
<1>2. RunIds \subseteq RunIds' /\ ask' = ask
    BY RunFields DEF Imported, RunIds
<1>3. PICK s : s = a.runs
    OBVIOUS
<1>4. /\ s \in [Family -> RunIds \cup {NoRun}] /\ \A f \in ask.keys : s[f] \in RunIds
      /\ a.content = Content(s)
    BY <1>1, <1>3 DEF Names
<1>5. s.equity \in RunIds
    BY <1>4, RunFields
<1>6. Content(s)' = Content(s)
    BY <1>4, <1>5, ContentStays
<1>7. a.content = Content(s)'
    BY <1>4, <1>6
<1>8. s \in [Family -> RunIds' \cup {NoRun}] /\ \A f \in ask'.keys : s[f] \in RunIds'
    BY <1>2, <1>4
<1>9. QED
    BY <1>3, <1>7, <1>8 DEF Names

-----------------------------------------------------------------------------
(* The steps: the imports                                                  *)

(* An import changes nothing of what requests hold.                        *)
LEMMA ImportStep ==
    ASSUME ReadingInv, DbTypes', Imported, UNCHANGED readerVars
    PROVE  ReadingInv'
<1>0. /\ ReadingTypeOK /\ WorkOK /\ FoundOK /\ CalmOK /\ AnswerOK /\ DbTypes
      /\ UNCHANGED <<ask, op, todo, seen, named, ruled, calm, listed, confirmed, answer>>
    BY TypesAndDb DEF ReadingInv, readerVars
<1>1. RunIds \subseteq RunIds'
    BY <1>0, RunFields DEF Imported, RunIds
<1>2. ReadingTypeOK'
    BY <1>0, <1>1 DEF ReadingTypeOK, DbTypes
<1>3. StepsOf(op)' = StepsOf(op) /\ Members(todo)' = Members(todo) /\ (Sorted(todo)' <=> Sorted(todo))
    BY <1>0 DEF StepsOf, Members, Sorted
<1>4. WorkOK'
    BY <1>0, <1>3 DEF WorkOK
<1>5. \A k, f : Made(k, f)' <=> Made(k, f)
    BY <1>3 DEF Made
<1>6. FoundOK'
  <2> SUFFICES ASSUME op # "idle" PROVE FoundOK'
    BY <1>0 DEF FoundOK
  <2>1. PICK s, n : s = seen /\ n = named
    OBVIOUS
  <2>2. \A f \in Family : Made("show", f) => s.equity \in RunIds
    <3>1. ASSUME NEW f \in Family, Made("show", f)
          PROVE  Made("show", "equity")
      <4>1. <<"show", "equity">> \in StepsOf(op) /\ <<"show", f>> \in StepsOf(op)
        BY <1>0, <3>1, RunFields DEF StepsOf, Made
      <4>2. f # "equity" => Place(<<"show", "equity">>) < Place(<<"show", f>>)
        <5>1. f # "equity" => f \in {"benchmark", "sector"}
          BY DEF Family
        <5>2. QED
          BY <5>1 DEF Place
      <4>3. QED
        BY <1>0, <3>1, <4>1, <4>2 DEF WorkOK, Made
    <3>2. QED
      BY <1>0, <2>1, <3>1 DEF FoundOK, Family
  <2>3. \A f \in Family : Made("show", f) => Refusal(f, s)' = "none"
    <3>1. \A f \in Family : Made("show", f) => s[f] \in RunIds /\ Refusal(f, s) = "none"
      BY <1>0, <2>1 DEF FoundOK
    <3>2. QED
      BY <1>0, <2>2, <3>1, RefusalStays
  <2>4. \A f \in Family : IF Made("show", f) THEN s[f] \in RunIds' ELSE s[f] = NoRun
    BY <1>0, <1>1, <2>1 DEF FoundOK
  <2>5. \A f \in Family : IF Made("name", f) THEN n[f] \in RunIds' ELSE n[f] = NoRun
    BY <1>0, <1>1, <2>1 DEF FoundOK
  <2>6. Made("bind", "equity") => Bound(s, n)'
    <3>1. SUFFICES ASSUME Made("bind", "equity") PROVE Bound(s, n)'
      OBVIOUS
    <3>2. \A f \in ask.keys : Made("show", f)
      <4>1. \A f \in ask.keys : /\ <<"show", f>> \in StepsOf(op)
                                /\ Place(<<"show", f>>) < Place(<<"bind", "equity">>)
        <5>1. \A f \in ask.keys : f \in Family /\ <<"show", f>> \in StepsOf(op)
          BY <1>0, RunFields DEF StepsOf
        <5>2. \A f \in Family : Place(<<"show", f>>) < Place(<<"bind", "equity">>)
          BY ShowsFirst
        <5>3. QED
          BY <5>1, <5>2
      <4>2. QED
        BY <1>0, <3>1, <4>1 DEF WorkOK, Made
    <3>3. s.equity \in RunIds /\ \A f \in ask.keys : s[f] \in RunIds
      BY <1>0, <2>1, <3>2, RunFields DEF FoundOK
    <3>4. Bound(s, n)
      BY <1>0, <2>1, <3>1 DEF FoundOK
    <3>5. QED
      BY <1>0, <3>3, <3>4, BoundStays
  <2>7. s = seen' /\ n = named' /\ answer' = NoReply
    BY <1>0, <2>1 DEF FoundOK
  <2>8. QED
    BY <1>5, <2>3, <2>4, <2>5, <2>6, <2>7 DEF FoundOK, Refusal, Bound
<1>7. CalmOK'
  <2>1. Settled => Settled' /\ \A f : Loaded(f)' = Loaded(f)
    BY <1>0, SettledSelection
  <2>2. QED
    BY <1>0, <1>5, <2>1 DEF CalmOK
<1>8. AnswerOK'
  <2>1. PICK a, c : a = answer /\ c = confirmed
    OBVIOUS
  <2>2. Names(a)' /\ Names(c)'
    BY <1>0, <2>1, NamesStays DEF AnswerOK
  <2>3. Names(answer)' /\ Names(confirmed)'
    BY <1>0, <2>1, <2>2 DEF Names
  <2>4. calm => /\ AtOnce(a.op)' = AtOnce(a.op)
                /\ \A f : Loaded(f)' = Loaded(f)
    BY <1>0, AtOnceStays, SettledSelection DEF CalmOK
  <2>5. AtOnce(answer.op)' = AtOnce(a.op)'
    BY <1>0, <2>1
  <2>6. QED
    BY <1>0, <2>1, <2>3, <2>4, <2>5 DEF AnswerOK
<1>9. QED
    BY <1>2, <1>4, <1>6, <1>7, <1>8 DEF ReadingInv

-----------------------------------------------------------------------------
(* The steps: the requests                                                 *)

(* A step of the reader leaves the database, and what is computed from it. *)
LEMMA SameDatabase ==
    ASSUME UNCHANGED <<dbVars, ask>>
    PROVE  /\ RunIds' = RunIds /\ (Settled' <=> Settled)
           /\ \A f : Loaded(f)' = Loaded(f) /\ AuthoritativeRun(f)' = AuthoritativeRun(f)
           /\ \A f, s : Refusal(f, s)' = Refusal(f, s)
           /\ \A s : Content(s)' = Content(s)
           /\ \A s, n : Bound(s, n)' <=> Bound(s, n)
           /\ \A a : Names(a)' <=> Names(a)
           /\ \A o : AtOnce(o)' = AtOnce(o)
<1>1. now' = now /\ runs' = runs /\ ask' = ask
    BY DEF dbVars
<1>2. RunIds' = RunIds /\ (Settled' <=> Settled)
    BY <1>1 DEF RunIds, Settled
<1>3. ASSUME NEW f
      PROVE  Loaded(f)' = Loaded(f) /\ AuthoritativeRun(f)' = AuthoritativeRun(f)
    BY <1>1 DEF Loaded, AuthoritativeRun, Newest, Readable, Recorded, Newer, RunIds
<1>4. ASSUME NEW f, NEW s
      PROVE  Refusal(f, s)' = Refusal(f, s)
    BY <1>1 DEF Refusal, BundleOf
<1>5. ASSUME NEW s
      PROVE  Content(s)' = Content(s)
    BY <1>1 DEF Content, BundleOf
<1>6. ASSUME NEW s, NEW n
      PROVE  Bound(s, n)' <=> Bound(s, n)
    BY <1>1 DEF Bound, SameRun, BundleOf
<1>7. ASSUME NEW a
      PROVE  Names(a)' <=> Names(a)
    BY <1>1, <1>2 DEF Names, Content, BundleOf
<1>8. ASSUME NEW o
      PROVE  AtOnce(o)' = AtOnce(o)
    BY <1>1 DEF AtOnce, Refusal, Bound, SameRun, Shown, Reply, Content, Through, BundleOf,
                Loaded, Newest, Readable, Recorded, Newer, RunIds
<1>9. QED
    BY <1>2, <1>3, <1>4, <1>5, <1>6, <1>7, <1>8

(* Once every family selected was shown, the snapshot is whole.            *)
LEMMA AllShown ==
    ASSUME ReadingInv, op # "idle", \A f \in ask.keys : <<"show", f>> \notin Members(todo)
    PROVE  /\ \A f \in ask.keys : seen[f] \in RunIds /\ Refusal(f, seen) = "none"
           /\ seen.equity \in RunIds
           /\ calm => seen = Whole /\ Refused(Whole) = {}
<1>0. ReadingTypeOK /\ FoundOK /\ CalmOK /\ "equity" \in ask.keys /\ ask.keys \subseteq Family
    BY TypesAndDb, RunFields DEF ReadingInv
<1>1. /\ \A f \in ask.keys : Made("show", f)
      /\ \A f \in Family \ ask.keys : ~Made("show", f)
  <2>1. \A f \in ask.keys : <<"show", f>> \in StepsOf(op)
    BY DEF StepsOf
  <2>2. \A f \in Family \ ask.keys : <<"show", f>> \notin StepsOf(op)
    BY DEF StepsOf
  <2>3. QED
    BY <2>1, <2>2 DEF Made
<1>2. /\ \A f \in ask.keys : seen[f] \in RunIds /\ Refusal(f, seen) = "none"
      /\ \A f \in Family \ ask.keys : seen[f] = NoRun
    BY <1>0, <1>1 DEF FoundOK
<1>3. calm => seen = Whole /\ Refused(Whole) = {}
  <2> SUFFICES ASSUME calm PROVE seen = Whole /\ Refused(Whole) = {}
    OBVIOUS
  <2>1. \A f \in ask.keys : seen[f] = Loaded(f)
    BY <1>0, <1>1 DEF CalmOK
  <2>2. seen \in [Family -> RunIds \cup {NoRun}]
    BY <1>0 DEF ReadingTypeOK
  <2>3. seen = Whole
    BY <1>2, <2>1, <2>2 DEF Whole
  <2>4. Refused(seen) = {}
    BY <1>2 DEF Refused
  <2>5. QED
    BY <2>3, <2>4
<1>4. QED
    BY <1>0, <1>2, <1>3

LEMMA AllNamed ==
    ASSUME ReadingInv, op \in Identified, \A f \in ask.keys : <<"name", f>> \notin Members(todo)
    PROVE  /\ named \in [Family -> RunIds \cup {NoRun}] /\ \A f \in ask.keys : named[f] \in RunIds
           /\ calm => named = Whole
<1>0. /\ ReadingTypeOK /\ FoundOK /\ CalmOK /\ "equity" \in ask.keys /\ ask.keys \subseteq Family
      /\ op # "idle"
    BY TypesAndDb, RunFields DEF ReadingInv, Identified
<1>1. /\ \A f \in ask.keys : Made("name", f)
      /\ \A f \in Family \ ask.keys : ~Made("name", f)
  <2>1. \A f \in ask.keys : <<"name", f>> \in StepsOf(op)
    BY DEF StepsOf
  <2>2. \A f \in Family \ ask.keys : <<"name", f>> \notin StepsOf(op)
    BY DEF StepsOf
  <2>3. QED
    BY <2>1, <2>2 DEF Made
<1>2. /\ \A f \in ask.keys : named[f] \in RunIds
      /\ \A f \in Family \ ask.keys : named[f] = NoRun
    BY <1>0, <1>1 DEF FoundOK
<1>3. named \in [Family -> RunIds \cup {NoRun}]
    BY <1>0 DEF ReadingTypeOK
<1>4. calm => \A f \in ask.keys : named[f] = Loaded(f)
    BY <1>0, <1>1 DEF CalmOK
<1>5. QED
    BY <1>2, <1>3, <1>4 DEF Whole

(* A refused request ends with nothing shown.                              *)
LEMMA Refusing ==
    ASSUME ReadingInv, op # "idle", NEW why, Fail(why), UNCHANGED <<dbVars, ask, calm, listed, confirmed>>,
           seen' \in [Family -> RunIds \cup {NoRun}], named' \in [Family -> RunIds \cup {NoRun}],
           ruled' \in RunIds \cup {NoRun},
           calm => /\ op \in {"snapshot", "status", "read_model"} => Reply(op, why) = AtOnce(op)
                   /\ why # "shown"
                   /\ why = "not_visible" /\ ask.keys = {"equity"} => Loaded("equity") = NoRun
    PROVE  ReadingInv'
<1>0. ReadingTypeOK /\ WorkOK /\ FoundOK /\ CalmOK /\ AnswerOK
    BY DEF ReadingInv
<1>1. /\ now' = now /\ runs' = runs /\ ask' = ask /\ calm' = calm /\ listed' = listed
      /\ confirmed' = confirmed /\ todo' = <<>> /\ op' = "idle" /\ answer' = Reply(op, why)
    BY DEF Fail, dbVars
<1>2. /\ RunIds' = RunIds /\ (Settled' <=> Settled) /\ \A f : Loaded(f)' = Loaded(f)
      /\ \A a : Names(a)' <=> Names(a)
    BY SameDatabase
<1>3. ReadingTypeOK'
    BY <1>0, <1>1, <1>2 DEF ReadingTypeOK
<1>4. WorkOK'
    BY <1>1, NoWork
<1>5. FoundOK'
    BY <1>1 DEF FoundOK
<1>6. CalmOK'
    BY <1>0, <1>1, <1>2 DEF CalmOK
<1>7. AnswerOK'
  <2>1. PICK a, c, o : a = Reply(op, why) /\ c = confirmed /\ o = op
    OBVIOUS
  <2>2. a.runs = NoRuns /\ a.op = o /\ a.outcome = why
    BY <2>1 DEF Reply, NoReply
  <2>3. Names(a)' /\ Names(c)'
    BY <1>0, <1>2, <2>1, <2>2 DEF Names, AnswerOK
  <2>4. answer' = a /\ confirmed' = c
    BY <1>1, <2>1
  <2>5. Names(answer)' /\ Names(confirmed)'
    BY <2>3, <2>4 DEF Names
  <2>6. AtOnce(answer.op)' = AtOnce(o)
    <3>1. AtOnce(o)' = AtOnce(o)
      BY SameDatabase
    <3>2. AtOnce(answer.op)' = AtOnce(o)'
      BY <2>2, <2>4
    <3>3. QED
      BY <3>1, <3>2
  <2>7. calm /\ o \in {"snapshot", "status", "read_model"} => answer' = AtOnce(answer.op)'
    BY <2>1, <2>4, <2>6
  <2>8. calm => a.outcome # "shown"
    BY <2>2
  <2>9. QED
    BY <1>1, <1>2, <2>1, <2>2, <2>4, <2>5, <2>7, <2>8 DEF AnswerOK
<1>8. QED
    BY <1>3, <1>4, <1>5, <1>6, <1>7 DEF ReadingInv

LEMMA ListStep ==
    ASSUME ReadingInv, List
    PROVE  ReadingInv'
<1>0. ReadingTypeOK /\ WorkOK /\ FoundOK /\ CalmOK /\ AnswerOK
    BY DEF ReadingInv
<1>1. /\ UNCHANGED <<dbVars, ask>> /\ now' = now /\ runs' = runs /\ ask' = ask /\ op' = op /\ todo' = todo
      /\ seen' = seen /\ named' = named /\ ruled' = ruled /\ calm' = calm /\ confirmed' = confirmed
      /\ answer' = answer /\ op = "idle" /\ Settled
      /\ listed' = [runs |-> [f \in Family |-> Listed(f)], calm |-> TRUE]
    BY DEF List, dbVars
<1>2. /\ RunIds' = RunIds /\ (Settled' <=> Settled) /\ \A f : Loaded(f)' = Loaded(f)
      /\ \A a : Names(a)' <=> Names(a)
    BY <1>1, SameDatabase
<1>3. ReadingTypeOK' /\ FoundOK'
    BY <1>0, <1>1, <1>2 DEF ReadingTypeOK, FoundOK
<1>4. WorkOK'
    BY <1>0, <1>1 DEF WorkOK, Sorted, Members, StepsOf
<1>5. CalmOK'
  <2>1. \A f \in Family : listed'.runs[f] = Loaded(f)
    BY <1>1 DEF Listed, Loaded
  <2>2. QED
    BY <1>0, <1>1, <1>2, <2>1 DEF CalmOK
<1>6. AnswerOK'
  <2>1. PICK a, c : a = answer /\ c = confirmed
    OBVIOUS
  <2>2. Names(a)' /\ Names(c)'
    BY <1>0, <1>2, <2>1 DEF AnswerOK
  <2>3. Names(answer)' /\ Names(confirmed)'
    BY <1>1, <2>1, <2>2 DEF Names
  <2>4. AtOnce(answer.op)' = AtOnce(answer.op)
    BY <1>1 DEF AtOnce, Refusal, Bound, SameRun, Shown, Reply, Content, Through, BundleOf,
                      Loaded, Newest, Readable, Recorded, Newer, RunIds
  <2>5. QED
    BY <1>0, <1>1, <1>2, <2>3, <2>4 DEF AnswerOK
<1>7. QED
    BY <1>3, <1>4, <1>5, <1>6 DEF ReadingInv

LEMMA RequestStep ==
    ASSUME ReadingInv, NEW o \in Ops, Request(o)
    PROVE  ReadingInv'
<1>0. ReadingTypeOK /\ WorkOK /\ FoundOK /\ CalmOK /\ AnswerOK
      /\ "equity" \in ask.keys /\ ask.keys \subseteq Family
    BY TypesAndDb, RunFields DEF ReadingInv
<1>1. /\ UNCHANGED <<dbVars, ask>> /\ now' = now /\ runs' = runs /\ ask' = ask /\ op' = o /\ todo' = Work(o)
      /\ seen' = NoRuns /\ named' = NoRuns /\ ruled' = NoRun /\ calm' = Settled /\ listed' = listed
      /\ (confirmed' = confirmed \/ confirmed' = answer) /\ answer' = NoReply
    BY DEF Request, dbVars
<1>2. /\ RunIds' = RunIds /\ (Settled' <=> Settled) /\ \A f : Loaded(f)' = Loaded(f)
      /\ \A a : Names(a)' <=> Names(a)
    BY <1>1, SameDatabase
<1>3. ReadingTypeOK'
    BY <1>0, <1>1, <1>2 DEF ReadingTypeOK, NoRuns
<1>4. Sorted(Work(o)) /\ Members(Work(o)) = StepsOf(o)
    BY <1>0, WorkSorted
<1>5. Sorted(todo)' /\ Members(todo)' = StepsOf(o) /\ StepsOf(op)' = StepsOf(o) /\ op' # "idle"
    BY <1>1, <1>4 DEF Sorted, Members, StepsOf, Ops
<1>6. WorkOK'
    BY <1>5 DEF WorkOK
<1>7. \A k, f : ~Made(k, f)'
    BY <1>5 DEF Made
<1>8. FoundOK'
    BY <1>1, <1>7 DEF FoundOK, NoRuns
<1>9. CalmOK'
    BY <1>0, <1>1, <1>2, <1>7 DEF CalmOK
<1>10. AnswerOK'
  <2>1. PICK a, c : a = NoReply /\ c = confirmed'
    OBVIOUS
  <2>2. Names(a)' /\ Names(c)'
    BY <1>0, <1>1, <1>2, <2>1 DEF AnswerOK, Names, NoReply
  <2>3. Names(answer)' /\ Names(confirmed)'
    BY <1>1, <2>1, <2>2 DEF Names
  <2>4. answer'.op = "idle" /\ answer'.outcome = "none"
    BY <1>1 DEF NoReply
  <2>5. QED
    BY <2>3, <2>4 DEF AnswerOK
<1>11. QED
    BY <1>3, <1>6, <1>8, <1>9, <1>10 DEF ReadingInv

(* A request goes on with what the step found.                             *)
LEMMA Going ==
    ASSUME ReadingInv, NEW kind, NEW f, Doing(kind, f), Go,
           UNCHANGED <<dbVars, ask, calm, listed, confirmed>>,
           seen' \in [Family -> RunIds \cup {NoRun}], named' \in [Family -> RunIds \cup {NoRun}],
           ruled' \in RunIds \cup {NoRun}, FoundOK',
           calm => /\ \A g \in Family : Made("show", g) \/ <<kind, f>> = <<"show", g>> => seen'[g] = Loaded(g)
                   /\ \A g \in Family : Made("name", g) \/ <<kind, f>> = <<"name", g>> => named'[g] = Loaded(g)
                   /\ Made("rule", "equity") \/ <<kind, f>> = <<"rule", "equity">> =>
                          ruled' = Loaded("equity")
    PROVE  ReadingInv'
<1>0. ReadingTypeOK /\ WorkOK /\ FoundOK /\ CalmOK /\ AnswerOK
    BY DEF ReadingInv
<1>1. /\ now' = now /\ runs' = runs /\ ask' = ask /\ calm' = calm /\ listed' = listed
      /\ confirmed' = confirmed /\ op' = op /\ answer' = answer
    BY DEF Go, dbVars
<1>2. /\ RunIds' = RunIds /\ (Settled' <=> Settled) /\ \A g : Loaded(g)' = Loaded(g)
      /\ \A a : Names(a)' <=> Names(a)
    BY SameDatabase
<1>3. op # "idle" /\ answer = NoReply
    BY <1>0 DEF WorkOK, Doing, FoundOK
<1>4. WorkOK' /\ \A k, g : Made(k, g)' <=> (Made(k, g) \/ <<k, g>> = <<kind, f>>)
    BY <1>0, <1>1, <1>3, GoOn
<1>5. ReadingTypeOK'
    BY <1>0, <1>1, <1>2 DEF ReadingTypeOK
<1>6. CalmOK'
    BY <1>0, <1>1, <1>2, <1>4 DEF CalmOK
<1>7. AnswerOK'
  <2>1. PICK a, c : a = NoReply /\ c = confirmed
    OBVIOUS
  <2>2. Names(a)' /\ Names(c)'
    BY <1>0, <1>2, <1>3, <2>1 DEF AnswerOK
  <2>3. Names(answer)' /\ Names(confirmed)'
    BY <1>1, <1>3, <2>1, <2>2 DEF Names
  <2>4. answer'.op = "idle" /\ answer'.outcome = "none"
    BY <1>1, <1>3 DEF NoReply
  <2>5. QED
    BY <2>3, <2>4 DEF AnswerOK
<1>8. QED
    BY <1>4, <1>5, <1>6, <1>7 DEF ReadingInv

(* While a query of the snapshot is made, the ones before it were made, the *)
(* ones after it were not, and nothing was bound yet.                       *)
LEMMA Showing ==
    ASSUME ReadingInv, NEW f \in Family, Doing("show", f)
    PROVE  /\ op # "idle" /\ f \in ask.keys /\ ~Made("show", f) /\ ~Made("bind", "equity")
           /\ \A g \in ask.keys : Place(<<"show", g>>) < Place(<<"show", f>>) => Made("show", g)
           /\ \A g \in Family : Place(<<"show", f>>) < Place(<<"show", g>>) => ~Made("show", g)
<1>0. WorkOK /\ "equity" \in ask.keys /\ ask.keys \subseteq Family
    BY TypesAndDb, RunFields DEF ReadingInv
<1>1. PICK x : x = <<"show", f>>
    OBVIOUS
<1>2. /\ x \in StepsOf(op) /\ x \in Members(todo) /\ op # "idle"
      /\ \A y \in StepsOf(op) : Place(y) < Place(x) => y \notin Members(todo)
    BY <1>0, <1>1, FirstStep DEF Doing, WorkOK
<1>3. f \in ask.keys
    BY <1>1, <1>2 DEF StepsOf
<1>4. \A g \in ask.keys : <<"show", g>> \in StepsOf(op)
    BY DEF StepsOf
<1>5. \A y \in StepsOf(op) : Place(x) < Place(y) => y \in Members(todo)
    BY <1>0, <1>2 DEF WorkOK
<1>6. Place(x) < Place(<<"bind", "equity">>)
    BY <1>1, ShowsFirst
<1>7. QED
    BY <1>1, <1>2, <1>3, <1>4, <1>5, <1>6 DEF Made

LEMMA PlaceOrder ==
    /\ \A i, j \in 1..3 : i < j => Place(<<"show", Families3[i]>>) < Place(<<"show", Families3[j]>>)
    /\ \A f \in Family : f # "equity" => Place(<<"show", "equity">>) < Place(<<"show", f>>)
<1>1. /\ Place(<<"show", "equity">>) = 1 /\ Place(<<"show", "benchmark">>) = 2
      /\ Place(<<"show", "sector">>) = 3
    BY DEF Place
<1>2. QED
    BY <1>1, FamilyOrder DEF Family

LEMMA RefusalKinds ==
    ASSUME NEW f, NEW s
    PROVE  /\ Refusal(f, s) \in {"not_visible", "incompatible", "none"}
           /\ Refusal("equity", s) = "not_visible" => s.equity = NoRun
           /\ Refusal(f, s) = "none" => s[f] # NoRun
    BY DEF Refusal, ContextRefusal

LEMMA QueryStep ==
    ASSUME ReadingInv, NEW f \in Family, Show(f)
    PROVE  ReadingInv'
<1>0. /\ ReadingTypeOK /\ WorkOK /\ FoundOK /\ CalmOK /\ AnswerOK /\ DbTypes
      /\ "equity" \in ask.keys /\ ask.keys \subseteq Family
    BY TypesAndDb, RunFields DEF ReadingInv
<1>1. PICK s : s = [seen EXCEPT ![f] = Loaded(f)]
    OBVIOUS
<1>2. /\ Doing("show", f) /\ seen' = s /\ named' = named /\ ruled' = ruled
      /\ UNCHANGED <<dbVars, ask, calm, listed, confirmed>>
      /\ IF Refusal(f, s) = "none" THEN Go ELSE Fail(Refusal(f, s))
    BY <1>1 DEF Show
<1>3. /\ op # "idle" /\ f \in ask.keys /\ ~Made("show", f) /\ ~Made("bind", "equity")
      /\ \A g \in ask.keys : Place(<<"show", g>>) < Place(<<"show", f>>) => Made("show", g)
      /\ \A g \in Family : Place(<<"show", f>>) < Place(<<"show", g>>) => ~Made("show", g)
    BY <1>2, Showing
<1>4. /\ seen \in [Family -> RunIds \cup {NoRun}] /\ named \in [Family -> RunIds \cup {NoRun}]
      /\ ruled \in RunIds \cup {NoRun} /\ Loaded(f) \in RunIds \cup {NoRun}
    BY <1>0, LoadedTypes DEF ReadingTypeOK
<1>5. /\ s \in [Family -> RunIds \cup {NoRun}] /\ s[f] = Loaded(f)
      /\ \A g \in Family : g # f => s[g] = seen[g]
    BY <1>1, <1>4
<1>6. \A g \in Family : Made("show", g) => g # f /\ Refusal(g, s) = "none" /\ s[g] \in RunIds
  <2> SUFFICES ASSUME NEW g \in Family, Made("show", g)
               PROVE  g # f /\ Refusal(g, s) = "none" /\ s[g] \in RunIds
    OBVIOUS
  <2>1. g # f /\ f # "equity"
    BY <1>3, PlaceOrder
  <2>2. s[g] = seen[g] /\ s.equity = seen.equity
    BY <1>5, <2>1 DEF Family
  <2>3. seen[g] \in RunIds /\ Refusal(g, seen) = "none"
    BY <1>0, <1>3 DEF FoundOK
  <2>4. QED
    BY <2>1, <2>2, <2>3, RefusalSame
<1>7. RunIds' = RunIds /\ \A g : Refusal(g, s)' = Refusal(g, s)
    BY <1>2, SameDatabase
<1>8. CASE Refusal(f, s) = "none"
  <2>1. Go
    BY <1>2, <1>8
  <2>2. s[f] \in RunIds
    BY <1>5, <1>8, RefusalKinds
  <2>3. \A k, g : Made(k, g)' <=> (Made(k, g) \/ <<k, g>> = <<"show", f>>)
    BY <1>0, <1>2, <1>3, <2>1, GoOn
  <2>4. FoundOK'
    <3>1. answer' = NoReply /\ op' = op
      BY <1>0, <1>3, <2>1 DEF Go, FoundOK
    <3>2. \A g \in Family : IF Made("show", g)' THEN s[g] \in RunIds /\ Refusal(g, s) = "none"
                            ELSE s[g] = NoRun
      <4>1. \A g \in Family : Made("show", g)' <=> (Made("show", g) \/ g = f)
        BY <2>3
      <4>2. \A g \in Family : ~Made("show", g) => seen[g] = NoRun
        BY <1>0, <1>3 DEF FoundOK
      <4>3. QED
        BY <1>5, <1>6, <1>8, <2>2, <4>1, <4>2
    <3>3. \A g \in Family : Made("show", g)' => Refusal(g, s)' = "none"
      BY <1>7, <3>2
    <3>4. \A g \in Family : IF Made("name", g)' THEN named'[g] \in RunIds ELSE named'[g] = NoRun
      <4>1. \A g \in Family : Made("name", g)' <=> Made("name", g)
        BY <2>3
      <4>2. QED
        BY <1>0, <1>2, <1>3, <4>1 DEF FoundOK
    <3>5. ~Made("bind", "equity")'
      BY <1>3, <2>3
    <3>6. \A g \in Family : Made("show", g)' => Refusal(g, seen)' = "none"
      BY <1>2, <3>3 DEF Refusal
    <3>7. QED
      BY <1>2, <1>7, <3>1, <3>2, <3>4, <3>5, <3>6 DEF FoundOK
  <2>5. calm => /\ \A g \in Family : Made("show", g) \/ g = f => s[g] = Loaded(g)
                /\ \A g \in Family : Made("name", g) => named[g] = Loaded(g)
                /\ Made("rule", "equity") => ruled = Loaded("equity")
    BY <1>0, <1>3, <1>5 DEF CalmOK
  <2>6. QED
    BY <1>2, <1>4, <1>5, <2>1, <2>4, <2>5, Going
<1>9. CASE Refusal(f, s) # "none"
  <2>1. Fail(Refusal(f, s))
    BY <1>2, <1>9
  <2>2. ASSUME calm
        PROVE  /\ Reply(op, Refusal(f, s)) = AtOnce(op)
               /\ Refusal(f, s) = "not_visible" /\ ask.keys = {"equity"} => Loaded("equity") = NoRun
    <3>1. Whole.equity = Loaded("equity") /\ \A g \in ask.keys : Whole[g] = Loaded(g)
      BY <1>0 DEF Whole, Family
    <3>2. s.equity = Whole.equity /\ s[f] = Whole[f]
      <4>1. f # "equity" => Made("show", "equity")
        BY <1>0, <1>3, PlaceOrder
      <4>2. Made("show", "equity") => seen.equity = Loaded("equity")
        BY <1>0, <1>3, <2>2 DEF CalmOK, Family
      <4>3. s.equity = Loaded("equity")
        BY <1>5, <4>1, <4>2 DEF Family
      <4>4. QED
        BY <1>3, <1>5, <3>1, <4>3
    <3>3. Refusal(f, Whole) = Refusal(f, s)
      BY <3>2, RefusalSame
    <3>4. PICK i \in 1..3 : Families3[i] = f
      BY FamilyOrder
    <3>5. \A j \in 1..3 : j < i /\ Families3[j] \in ask.keys => Refusal(Families3[j], Whole) = "none"
      <4> SUFFICES ASSUME NEW j \in 1..3, j < i, NEW g \in ask.keys, g = Families3[j]
                   PROVE  Refusal(g, Whole) = "none"
        OBVIOUS
      <4>1. Made("show", g)
        BY <1>3, <3>4, PlaceOrder
      <4>2. g \in Family /\ Refusal(g, s) = "none" /\ g # f /\ s[g] = seen[g] /\ seen[g] = Loaded(g)
        BY <1>0, <1>3, <1>5, <1>6, <2>2, <4>1 DEF CalmOK
      <4>3. Refusal(g, Whole) = Refusal(g, s)
        BY <3>1, <3>2, <4>2, RefusalSame
      <4>4. QED
        BY <4>2, <4>3
    <3>6. i \in Refused(Whole) /\ Refused(Whole) \subseteq 1..3
      BY <1>3, <1>9, <3>3, <3>4, <3>5 DEF Refused
    <3>7. \A j \in Refused(Whole) : i <= j
      BY <3>5 DEF Refused
    <3>8. Min(Refused(Whole)) = i
      BY <3>6, <3>7, MinOfFew
    <3>9. AtOnce(op) = Reply(op, Refusal(f, Whole))
      BY <3>4, <3>6, <3>8, AtOnceIs
    <3>10. ask.keys = {"equity"} => f = "equity"
      BY <1>3
    <3>11. QED
      BY <3>1, <3>2, <3>3, <3>9, <3>10, RefusalKinds
  <2>3. Refusal(f, s) # "shown"
    BY RefusalKinds
  <2>4. QED
    BY <1>2, <1>3, <1>4, <1>5, <2>1, <2>2, <2>3, Refusing
<1>10. QED
    BY <1>8, <1>9

(* When a step after the snapshot is made, every family was shown.         *)
LEMMA ShownBefore ==
    ASSUME ReadingInv, NEW kind \in {"name", "bind", "rule"}, NEW f \in Family, Doing(kind, f)
    PROVE  /\ op # "idle" /\ <<kind, f>> \in StepsOf(op) /\ ~Made(kind, f)
           /\ \A g \in ask.keys : <<"show", g>> \notin Members(todo)
           /\ kind = "name" => op \in Identified /\ f \in ask.keys /\ ~Made("bind", "equity")
           /\ kind = "bind" => op \in Identified /\ \A g \in ask.keys : <<"name", g>> \notin Members(todo)
<1>0. WorkOK /\ "equity" \in ask.keys /\ ask.keys \subseteq Family
    BY TypesAndDb, RunFields DEF ReadingInv
<1>1. PICK x : x = <<kind, f>>
    OBVIOUS
<1>2. /\ x \in StepsOf(op) /\ x \in Members(todo) /\ op # "idle"
      /\ \A y \in StepsOf(op) : Place(y) < Place(x) => y \notin Members(todo)
    BY <1>0, <1>1, FirstStep DEF Doing, WorkOK
<1>3. /\ kind = "name" => op \in Identified /\ f \in ask.keys
      /\ kind = "bind" => op \in Identified /\ f = "equity"
      /\ kind = "rule" => f = "equity"
    BY <1>1, <1>2 DEF StepsOf
<1>4. \A g \in ask.keys : <<"show", g>> \in StepsOf(op) /\ (op \in Identified => <<"name", g>> \in StepsOf(op))
    BY DEF StepsOf
<1>5. \A g \in ask.keys : Place(<<"show", g>>) < Place(x)
    BY <1>0, <1>1, <1>3, ShowsFirst
<1>6. kind = "bind" => \A g \in ask.keys : Place(<<"name", g>>) < Place(x)
    BY <1>0, <1>1, <1>3, ShowsFirst
<1>7. kind = "name" => ~Made("bind", "equity")
  <2>1. Place(<<"name", f>>) < Place(<<"bind", "equity">>)
    BY ShowsFirst
  <2>2. QED
    BY <1>0, <1>1, <1>2, <2>1 DEF WorkOK, Made
<1>8. QED
    BY <1>1, <1>2, <1>3, <1>4, <1>5, <1>6, <1>7 DEF Made

(* What going on keeps of what was found.                                  *)
LEMMA FoundSame ==
    ASSUME ReadingInv, UNCHANGED <<dbVars, ask>>, seen' = seen, op # "idle", answer' = answer,
           \A g : Made("show", g)' <=> Made("show", g)
    PROVE  /\ answer' = NoReply
           /\ \A g \in Family : IF Made("show", g)' THEN seen'[g] \in RunIds' /\ Refusal(g, seen)' = "none"
                                ELSE seen'[g] = NoRun
<1>1. PICK s : s = seen
    OBVIOUS
<1>2. \A g \in Family : IF Made("show", g) THEN s[g] \in RunIds /\ Refusal(g, s) = "none"
                        ELSE s[g] = NoRun
    BY <1>1 DEF ReadingInv, FoundOK
<1>3. RunIds' = RunIds /\ \A g : Refusal(g, s)' = Refusal(g, s)
    BY SameDatabase
<1>4. \A g \in Family : Refusal(g, seen)' = Refusal(g, s)'
    BY <1>1 DEF Refusal
<1>5. answer = NoReply
    BY DEF ReadingInv, FoundOK
<1>6. QED
    BY <1>1, <1>2, <1>3, <1>4, <1>5

LEMMA BoundSame ==
    ASSUME UNCHANGED <<dbVars, ask>>, seen' = seen, named' = named
    PROVE  Bound(seen, named)' <=> Bound(seen, named)
<1>1. PICK s, n : s = seen /\ n = named
    OBVIOUS
<1>2. Bound(s, n)' <=> Bound(s, n)
    BY SameDatabase
<1>3. Bound(seen, named)' <=> Bound(s, n)'
    BY <1>1 DEF Bound, SameRun
<1>4. QED
    BY <1>1, <1>2, <1>3

LEMMA NameStep ==
    ASSUME ReadingInv, NEW f \in Family, Name(f)
    PROVE  ReadingInv'
<1>0. ReadingTypeOK /\ WorkOK /\ FoundOK /\ CalmOK /\ DbTypes
    BY TypesAndDb DEF ReadingInv
<1>1. /\ Doing("name", f) /\ named' = [named EXCEPT ![f] = Loaded(f)] /\ seen' = seen /\ ruled' = ruled
      /\ UNCHANGED <<dbVars, ask, calm, listed, confirmed>>
      /\ IF Loaded(f) # NoRun THEN Go ELSE Fail("identity_conflict")
    BY DEF Name, AuthoritativeRun, Loaded
<1>2. /\ op # "idle" /\ op \in Identified /\ f \in ask.keys /\ ~Made("bind", "equity") /\ ~Made("name", f)
      /\ \A g \in ask.keys : <<"show", g>> \notin Members(todo)
    BY <1>1, ShownBefore
<1>3. /\ seen \in [Family -> RunIds \cup {NoRun}] /\ named \in [Family -> RunIds \cup {NoRun}]
      /\ ruled \in RunIds \cup {NoRun} /\ Loaded(f) \in RunIds \cup {NoRun}
    BY <1>0, LoadedTypes DEF ReadingTypeOK
<1>4. /\ named' \in [Family -> RunIds \cup {NoRun}] /\ named'[f] = Loaded(f)
      /\ \A g \in Family : g # f => named'[g] = named[g]
    BY <1>1, <1>3
<1>5. CASE Loaded(f) # NoRun
  <2>1. Go
    BY <1>1, <1>5
  <2>2. \A k, g : Made(k, g)' <=> (Made(k, g) \/ <<k, g>> = <<"name", f>>)
    BY <1>0, <1>1, <1>2, <2>1, GoOn
  <2>3. FoundOK'
    <3>1. \A g : Made("show", g)' <=> Made("show", g)
      BY <2>2
    <3>2. answer' = answer
      BY <2>1 DEF Go
    <3>3. /\ answer' = NoReply
          /\ \A g \in Family : IF Made("show", g)' THEN seen'[g] \in RunIds' /\ Refusal(g, seen)' = "none"
                               ELSE seen'[g] = NoRun
      BY <1>1, <1>2, <3>1, <3>2, FoundSame
    <3>4. \A g \in Family : IF Made("name", g)' THEN named'[g] \in RunIds ELSE named'[g] = NoRun
      <4>1. \A g \in Family : Made("name", g)' <=> (Made("name", g) \/ g = f)
        BY <2>2
      <4>2. \A g \in Family : IF Made("name", g) THEN named[g] \in RunIds ELSE named[g] = NoRun
        BY <1>0, <1>2 DEF FoundOK
      <4>3. QED
        BY <1>3, <1>4, <1>5, <4>1, <4>2
    <3>5. ~Made("bind", "equity")' /\ RunIds' = RunIds
      BY <1>1, <1>2, <2>2, SameDatabase
    <3>6. QED
      BY <3>3, <3>4, <3>5 DEF FoundOK
  <2>4. calm => /\ \A g \in Family : Made("show", g) => seen[g] = Loaded(g)
                /\ \A g \in Family : Made("name", g) \/ g = f => named'[g] = Loaded(g)
                /\ Made("rule", "equity") => ruled = Loaded("equity")
    BY <1>0, <1>2, <1>4 DEF CalmOK
  <2>5. QED
    BY <1>1, <1>3, <1>4, <2>1, <2>3, <2>4, Going
<1>6. CASE Loaded(f) = NoRun
  <2>1. Fail("identity_conflict")
    BY <1>1, <1>6
  <2>2. ~calm
    <3>1. seen[f] \in RunIds /\ (calm => seen = Whole)
      BY <1>2, AllShown
    <3>2. calm => seen[f] = Loaded(f)
      BY <1>2, <3>1, <1>0, RunFields DEF Whole
    <3>3. NoRun \notin RunIds
      BY DEF NoRun, RunIds
    <3>4. QED
      BY <1>6, <3>1, <3>2, <3>3
  <2>3. QED
    BY <1>1, <1>2, <1>3, <1>4, <2>1, <2>2, Refusing
<1>7. QED
    BY <1>5, <1>6

LEMMA BindStep ==
    ASSUME ReadingInv, Bind
    PROVE  ReadingInv'
<1>0. ReadingTypeOK /\ WorkOK /\ FoundOK /\ CalmOK
    BY DEF ReadingInv
<1>1. /\ Doing("bind", "equity") /\ named' = named /\ seen' = seen /\ ruled' = ruled
      /\ UNCHANGED <<dbVars, ask, calm, listed, confirmed>>
      /\ IF Bound(seen, named) THEN Go ELSE Fail("identity_conflict")
    BY DEF Bind
<1>2. /\ op # "idle" /\ op \in Identified
      /\ \A g \in ask.keys : <<"show", g>> \notin Members(todo)
      /\ \A g \in ask.keys : <<"name", g>> \notin Members(todo)
    BY <1>1, ShownBefore DEF Family
<1>3. /\ seen \in [Family -> RunIds \cup {NoRun}] /\ named \in [Family -> RunIds \cup {NoRun}]
      /\ ruled \in RunIds \cup {NoRun}
    BY <1>0 DEF ReadingTypeOK
<1>4. CASE Bound(seen, named)
  <2>1. Go
    BY <1>1, <1>4
  <2>2. \A k, g : Made(k, g)' <=> (Made(k, g) \/ <<k, g>> = <<"bind", "equity">>)
    BY <1>0, <1>1, <1>2, <2>1, GoOn
  <2>3. FoundOK'
    <3>1. /\ \A g : Made("show", g)' <=> Made("show", g)
          /\ \A g : Made("name", g)' <=> Made("name", g)
      BY <2>2
    <3>2. answer' = answer
      BY <2>1 DEF Go
    <3>3. /\ answer' = NoReply
          /\ \A g \in Family : IF Made("show", g)' THEN seen'[g] \in RunIds' /\ Refusal(g, seen)' = "none"
                               ELSE seen'[g] = NoRun
      BY <1>1, <1>2, <3>1, <3>2, FoundSame
    <3>4. \A g \in Family : IF Made("name", g)' THEN named'[g] \in RunIds ELSE named'[g] = NoRun
      BY <1>0, <1>1, <1>2, <3>1 DEF FoundOK
    <3>5. Bound(seen, named)' /\ RunIds' = RunIds
      BY <1>1, <1>4, BoundSame, SameDatabase
    <3>6. QED
      BY <3>3, <3>4, <3>5 DEF FoundOK
  <2>4. calm => /\ \A g \in Family : Made("show", g) => seen[g] = Loaded(g)
                /\ \A g \in Family : Made("name", g) => named[g] = Loaded(g)
                /\ Made("rule", "equity") => ruled = Loaded("equity")
    BY <1>0, <1>2 DEF CalmOK
  <2>5. QED
    BY <1>1, <1>3, <2>1, <2>3, <2>4, Going
<1>5. CASE ~Bound(seen, named)
  <2>1. Fail("identity_conflict")
    BY <1>1, <1>5
  <2>2. calm => Reply(op, "identity_conflict") = AtOnce(op)
    <3>1. calm => seen = Whole /\ Refused(Whole) = {} /\ named = Whole
      BY <1>2, AllShown, AllNamed
    <3>2. QED
      BY <1>2, <1>5, <3>1, AtOnceIs
  <2>3. QED
    BY <1>1, <1>2, <1>3, <2>1, <2>2, Refusing
<1>6. QED
    BY <1>4, <1>5

LEMMA RuleStep ==
    ASSUME ReadingInv, Rule
    PROVE  ReadingInv'
<1>0. ReadingTypeOK /\ WorkOK /\ FoundOK /\ CalmOK /\ DbTypes
    BY TypesAndDb DEF ReadingInv
<1>1. /\ Doing("rule", "equity") /\ named' = named /\ seen' = seen /\ ruled' = Loaded("equity")
      /\ UNCHANGED <<dbVars, ask, calm, listed, confirmed>>
      /\ IF Loaded("equity") # NoRun THEN Go ELSE Fail("error")
    BY DEF Rule, RuleSource, Loaded
<1>2. op # "idle" /\ \A g \in ask.keys : <<"show", g>> \notin Members(todo)
    BY <1>1, ShownBefore DEF Family
<1>3. /\ seen \in [Family -> RunIds \cup {NoRun}] /\ named \in [Family -> RunIds \cup {NoRun}]
      /\ Loaded("equity") \in RunIds \cup {NoRun}
    BY <1>0, LoadedTypes DEF ReadingTypeOK
<1>4. CASE Loaded("equity") # NoRun
  <2>1. Go
    BY <1>1, <1>4
  <2>2. \A k, g : Made(k, g)' <=> (Made(k, g) \/ <<k, g>> = <<"rule", "equity">>)
    BY <1>0, <1>1, <1>2, <2>1, GoOn
  <2>3. FoundOK'
    <3>1. /\ \A g : Made("show", g)' <=> Made("show", g)
          /\ \A g : Made("name", g)' <=> Made("name", g)
          /\ Made("bind", "equity")' <=> Made("bind", "equity")
      BY <2>2
    <3>2. answer' = answer
      BY <2>1 DEF Go
    <3>3. /\ answer' = NoReply
          /\ \A g \in Family : IF Made("show", g)' THEN seen'[g] \in RunIds' /\ Refusal(g, seen)' = "none"
                               ELSE seen'[g] = NoRun
      BY <1>1, <1>2, <3>1, <3>2, FoundSame
    <3>4. \A g \in Family : IF Made("name", g)' THEN named'[g] \in RunIds ELSE named'[g] = NoRun
      BY <1>0, <1>1, <1>2, <3>1 DEF FoundOK
    <3>5. (Made("bind", "equity") => Bound(seen, named)') /\ RunIds' = RunIds
      BY <1>0, <1>1, <1>2, BoundSame, SameDatabase DEF FoundOK
    <3>6. QED
      BY <3>1, <3>3, <3>4, <3>5 DEF FoundOK
  <2>4. calm => /\ \A g \in Family : Made("show", g) => seen[g] = Loaded(g)
                /\ \A g \in Family : Made("name", g) => named[g] = Loaded(g)
    BY <1>0, <1>2 DEF CalmOK
  <2>5. QED
    BY <1>1, <1>3, <2>1, <2>3, <2>4, Going
<1>5. CASE Loaded("equity") = NoRun
  <2>1. Fail("error")
    BY <1>1, <1>5
  <2>2. ~calm
    <3>1. seen.equity \in RunIds /\ (calm => seen = Whole)
      BY <1>2, AllShown
    <3>2. calm => seen.equity = Loaded("equity")
      BY <3>1, <1>0, RunFields DEF Whole
    <3>3. NoRun \notin RunIds
      BY DEF NoRun, RunIds
    <3>4. QED
      BY <1>5, <3>1, <3>2, <3>3
  <2>3. QED
    BY <1>1, <1>2, <1>3, <2>1, <2>2, Refusing
<1>6. QED
    BY <1>4, <1>5

(* A content depends on the runs selected only.                            *)
LEMMA ContentSame ==
    ASSUME "equity" \in ask.keys, NEW s, NEW n, \A f \in ask.keys : n[f] = s[f]
    PROVE  Content(n) = Content(s)
<1>1. n.equity = s.equity
    OBVIOUS
<1>2. [f \in ask.keys \cap Contexts |-> ContextContent(BundleOf(n[f]), BundleOf(s.equity), ask.cutoff)]
        = [f \in ask.keys \cap Contexts |-> ContextContent(BundleOf(s[f]), BundleOf(s.equity), ask.cutoff)]
    OBVIOUS
<1>3. QED
    BY <1>1, <1>2 DEF Content

(* What has been found when a request has nothing left to do.              *)
LEMMA AllDone ==
    ASSUME ReadingInv, op # "idle", todo = <<>>
    PROVE  /\ \A f \in ask.keys : seen[f] \in RunIds /\ Refusal(f, seen) = "none"
           /\ seen.equity \in RunIds
           /\ calm => seen = Whole /\ Refused(Whole) = {}
           /\ op \in Identified =>
                 /\ named \in [Family -> RunIds \cup {NoRun}] /\ \A f \in ask.keys : named[f] \in RunIds
                 /\ Bound(seen, named) /\ Content(named) = Content(seen)
                 /\ calm => named = Whole
           /\ calm /\ op = "read_model" => ruled = Whole.equity
<1>0. /\ ReadingTypeOK /\ WorkOK /\ FoundOK /\ CalmOK /\ DbTypes
      /\ "equity" \in ask.keys /\ ask.keys \subseteq Family
    BY TypesAndDb, RunFields DEF ReadingInv
<1>1. Members(todo) = {}
    BY SortedFew
<1>2. /\ \A f \in ask.keys : seen[f] \in RunIds /\ Refusal(f, seen) = "none"
      /\ seen.equity \in RunIds
      /\ calm => seen = Whole /\ Refused(Whole) = {}
    BY <1>1, AllShown
<1>3. ASSUME op \in Identified
      PROVE  /\ named \in [Family -> RunIds \cup {NoRun}] /\ \A f \in ask.keys : named[f] \in RunIds
             /\ Bound(seen, named) /\ Content(named) = Content(seen)
             /\ calm => named = Whole
  <2>1. /\ named \in [Family -> RunIds \cup {NoRun}] /\ \A f \in ask.keys : named[f] \in RunIds
        /\ calm => named = Whole
    BY <1>1, <1>3, AllNamed
  <2>2. Made("bind", "equity")
    BY <1>1, <1>3 DEF Made, StepsOf
  <2>3. Bound(seen, named)
    BY <1>0, <2>2 DEF FoundOK
  <2>4. \A f \in ask.keys : named[f] = seen[f]
    BY <2>3 DEF Bound, SameRun
  <2>5. Content(named) = Content(seen)
    BY <1>0, <2>4, ContentSame
  <2>6. QED
    BY <2>1, <2>3, <2>5
<1>4. calm /\ op = "read_model" => ruled = Whole.equity
  <2>1. op = "read_model" => Made("rule", "equity")
    BY <1>1 DEF Made, StepsOf
  <2>2. Whole.equity = Loaded("equity")
    BY <1>0 DEF Whole
  <2>3. QED
    BY <1>0, <2>1, <2>2 DEF CalmOK
<1>5. QED
    BY <1>2, <1>3, <1>4

(* A request ends with a reply.                                            *)
LEMMA Ending ==
    ASSUME ReadingInv, NEW a, NEW o, o = op, answer' = a, op' = "idle", todo = <<>>,
           UNCHANGED <<dbVars, ask, todo, seen, named, ruled, calm, listed, confirmed>>, Names(a),
           calm => /\ a.op \in {"snapshot", "status", "read_model"} => a = AtOnce(a.op)
                   /\ a.outcome = "shown" => \A f \in ask.keys : seen[f] = Loaded(f)
                   /\ a.outcome # "not_visible"
    PROVE  ReadingInv'
<1>0. ReadingTypeOK /\ WorkOK /\ FoundOK /\ CalmOK /\ AnswerOK
    BY DEF ReadingInv
<1>1. /\ now' = now /\ runs' = runs /\ ask' = ask /\ calm' = calm /\ listed' = listed
      /\ confirmed' = confirmed /\ todo' = <<>> /\ seen' = seen /\ named' = named /\ ruled' = ruled
    BY DEF dbVars
<1>2. /\ RunIds' = RunIds /\ (Settled' <=> Settled) /\ \A g : Loaded(g)' = Loaded(g)
      /\ \A x : Names(x)' <=> Names(x)
      /\ \A x : AtOnce(x)' = AtOnce(x)
    BY SameDatabase
<1>3. ReadingTypeOK'
    BY <1>0, <1>1, <1>2 DEF ReadingTypeOK
<1>4. WorkOK'
    BY <1>1, NoWork
<1>5. FoundOK' /\ CalmOK'
    BY <1>0, <1>1, <1>2 DEF FoundOK, CalmOK
<1>6. AnswerOK'
  <2>1. PICK c : c = confirmed
    OBVIOUS
  <2>2. Names(a)' /\ Names(c)'
    BY <1>0, <1>2, <2>1 DEF AnswerOK
  <2>3. Names(answer)' /\ Names(confirmed)'
    BY <1>1, <2>1, <2>2 DEF Names
  <2>4. AtOnce(answer.op)' = AtOnce(a.op)
    <3>1. AtOnce(answer.op)' = AtOnce(a.op)'
      OBVIOUS
    <3>2. QED
      BY <1>2, <3>1
  <2>5. QED
    BY <1>1, <1>2, <2>3, <2>4 DEF AnswerOK
<1>7. QED
    BY <1>3, <1>4, <1>5, <1>6 DEF ReadingInv

LEMMA DeliverStep ==
    ASSUME ReadingInv, Deliver
    PROVE  ReadingInv'
<1>1. PICK a, o : a = Shown(op, seen, named, ruled) /\ o = op
    OBVIOUS
<1>2. /\ op \in Ops \ {"refresh"} /\ op # "idle" /\ todo = <<>> /\ op' = "idle" /\ answer' = a
      /\ UNCHANGED <<dbVars, ask, todo, seen, named, ruled, calm, listed, confirmed>>
    BY <1>1 DEF Deliver, Ops
<1>3. /\ a.op = op /\ a.outcome = "shown" /\ a.content = Content(seen)
      /\ a.runs = IF op \in Identified THEN named ELSE NoRuns
    BY <1>1 DEF Shown, Reply, NoReply
<1>4. /\ calm => seen = Whole /\ Refused(Whole) = {}
      /\ op \in Identified =>
            /\ named \in [Family -> RunIds \cup {NoRun}] /\ \A f \in ask.keys : named[f] \in RunIds
            /\ Bound(seen, named) /\ Content(named) = Content(seen)
            /\ calm => named = Whole
      /\ calm /\ op = "read_model" => ruled = Whole.equity
    BY <1>2, AllDone
<1>5. Names(a)
    BY <1>3, <1>4 DEF Names
<1>6. calm => a = AtOnce(a.op)
  <2> SUFFICES ASSUME calm PROVE a = AtOnce(op)
    BY <1>3
  <2>1. Refused(Whole) = {} /\ seen = Whole
    BY <1>4
  <2>2. op \in Identified => Bound(Whole, Whole)
    BY <1>4
  <2>3. AtOnce(op) = Shown(op, Whole, Whole, Whole.equity)
    BY <2>1, <2>2, AtOnceIs
  <2>4. a = Shown(op, Whole, Whole, Whole.equity)
    BY <1>1, <1>4 DEF Shown
  <2>5. QED
    BY <2>3, <2>4
<1>7. calm => \A f \in ask.keys : seen[f] = Loaded(f)
  <2>1. ask.keys \subseteq Family
    BY TypesAndDb, RunFields DEF ReadingInv
  <2>2. QED
    BY <1>4, <2>1 DEF Whole
<1>8. QED
    BY <1>1, <1>2, <1>3, <1>5, <1>6, <1>7, Ending

LEMMA RefreshPhases ==
    ASSUME NEW p, NEW c, NEW scenario
    PROVE  Refresh(p, c, scenario).phase \in
              {"no_refresh_needed", "manual_catchup_required", "failed_retained_prior", "demo_published"}
    BY DEF Refresh

LEMMA AttemptStep ==
    ASSUME ReadingInv, NEW scenario \in Scenarios, Attempt(scenario)
    PROVE  ReadingInv'
<1>1. PICK result : result = Refresh(Through(seen), ask.cutoff, scenario)
    OBVIOUS
<1>2. PICK a, o : /\ a = [Reply("refresh", result.phase) EXCEPT
                            !.runs = named, !.content = Content(seen), !.demo = result.demo]
                  /\ o = op
    OBVIOUS
<1>3. /\ op = "refresh" /\ todo = <<>> /\ op' = "idle" /\ answer' = a
      /\ UNCHANGED <<dbVars, ask, todo, seen, named, ruled, calm, listed, confirmed>>
    BY <1>1, <1>2, Zenon DEF Attempt
<1>4. a.op = "refresh" /\ a.outcome = result.phase /\ a.content = Content(seen) /\ a.runs = named
    BY <1>2 DEF Reply, NoReply
<1>5. /\ named \in [Family -> RunIds \cup {NoRun}] /\ \A f \in ask.keys : named[f] \in RunIds
      /\ Content(named) = Content(seen)
    BY <1>3, AllDone DEF Identified
<1>6. Names(a)
    BY <1>4, <1>5 DEF Names
<1>7. a.outcome # "shown" /\ a.outcome # "not_visible"
    BY <1>1, <1>4, RefreshPhases
<1>8. QED
    BY <1>2, <1>3, <1>4, <1>6, <1>7, Ending

LEMMA RefuseMovedStep ==
    ASSUME ReadingInv, RefuseMoved
    PROVE  ReadingInv'
<1>1. /\ op = "refresh" /\ Fail("moved") /\ seen' = seen /\ named' = named /\ ruled' = ruled
      /\ UNCHANGED <<dbVars, ask, calm, listed, confirmed>>
    BY DEF RefuseMoved
<1>2. /\ seen \in [Family -> RunIds \cup {NoRun}] /\ named \in [Family -> RunIds \cup {NoRun}]
      /\ ruled \in RunIds \cup {NoRun}
    BY DEF ReadingInv, ReadingTypeOK
<1>3. QED
    BY <1>1, <1>2, Refusing

-----------------------------------------------------------------------------
(* What a refresh comes to                                                 *)

(* What an outcome says of the weekdays missing.                           *)
Fills(ends, demo, gap) ==
    /\ ends = "no_refresh_needed" => gap = {}
    /\ ends = "manual_catchup_required" => Cardinality(gap) > Ceiling
    /\ ends = "failed_retained_prior" => Cardinality(gap) \in 1..Ceiling /\ demo = NoBatch
    /\ ends = "demo_published" =>
          Cardinality(gap) \in 1..Ceiling /\ demo.covered = [f \in Capabilities |-> gap]

(* A refresh answers for the weekdays missing after the prior session.     *)
LEMMA RefreshGap ==
    ASSUME NEW p \in Nat, NEW c \in Nat, NEW scenario, NEW gap,
           \A d : d \in gap <=> d \in Weekdays /\ p < d /\ d <= c,
           NEW result, result = Refresh(p, c, scenario)
    PROVE  Fills(result.phase, result.demo, gap)
<1>1. Weekdays \subseteq Nat /\ Ceiling \in Nat
    BY SessionAssumption
<1>2. MissingSessions(ExpectedCompleted(p, c), p) = gap
    BY <1>1 DEF MissingSessions, ExpectedCompleted
<1>3. IsFiniteSet(gap)
  <2>1. gap \subseteq 0..c
    <3>1. \A d \in gap : d \in Nat /\ d <= c
      BY <1>1
    <3>2. QED
      BY <3>1
  <2>2. IsFiniteSet(0..c)
    BY FS_Interval
  <2>3. QED
    BY <2>1, <2>2, FS_Subset
<1>4. Cardinality(gap) \in Nat /\ (gap # {} => Cardinality(gap) >= 1)
  <2>1. Cardinality(gap) \in Nat /\ (Cardinality(gap) = 0 <=> gap = {})
    BY <1>3, FS_CardinalityType, FS_EmptySet
  <2>2. QED
    BY <2>1
<1>5. PICK batch : batch = Batch(gap, scenario)
    OBVIOUS
<1>6. Publishable(batch) => batch.covered = [f \in Capabilities |-> gap]
  <2>1. batch.asked = gap /\ batch.covered = [f \in Served(scenario) |-> CoveredBy(f, gap, scenario)]
    BY <1>5 DEF Batch
  <2>2. SUFFICES ASSUME Publishable(batch) PROVE batch.covered = [f \in Capabilities |-> gap]
    OBVIOUS
  <2>3. DOMAIN batch.covered = Capabilities /\ \A f \in Capabilities : batch.covered[f] = gap
    BY <2>1, <2>2 DEF Publishable, Incomplete
  <2>4. DOMAIN batch.covered = Served(scenario)
    BY <2>1
  <2>5. QED
    BY <2>1, <2>3, <2>4
<1>7. CASE gap = {}
  <2>1. result.phase = "no_refresh_needed"
    BY <1>2, <1>7 DEF Refresh
  <2>2. QED
    BY <1>7, <2>1 DEF Fills
<1>8. CASE gap # {} /\ TooMany(gap)
  <2>1. result.phase = "manual_catchup_required"
    BY <1>2, <1>8 DEF Refresh
  <2>2. QED
    BY <1>8, <2>1 DEF Fills, TooMany
<1>9. CASE gap # {} /\ ~TooMany(gap)
  <2>1. Cardinality(gap) \in 1..Ceiling
    BY <1>1, <1>4, <1>9 DEF TooMany
  <2>2. CASE scenario = "quota_assumption_exhausted" \/ ~Publishable(batch)
    <3>1. result = [phase |-> "failed_retained_prior", demo |-> NoBatch]
      BY <1>2, <1>5, <1>9, <2>2 DEF Refresh
    <3>2. QED
      BY <2>1, <3>1 DEF Fills
  <2>3. CASE ~(scenario = "quota_assumption_exhausted" \/ ~Publishable(batch))
    <3>1. result = [phase |-> "demo_published", demo |-> batch]
      BY <1>2, <1>5, <1>9, <2>3 DEF Refresh
    <3>2. QED
      BY <1>6, <2>1, <2>3, <3>1 DEF Fills
  <2>4. QED
    BY <2>2, <2>3
<1>10. QED
    BY <1>7, <1>8, <1>9

LEMMA MinOfTwo ==
    ASSUME NEW x \in Nat, NEW y \in Nat
    PROVE  Min({x, y}) \in Nat
<1>1. \E m \in {x, y} : \A z \in {x, y} : m <= z
    OBVIOUS
<1>2. Min({x, y}) \in {x, y}
    BY <1>1 DEF Min
<1>3. QED
    BY <1>2

(* What is shown reaches a day.                                            *)
LEMMA ReachedDay ==
    ASSUME DbTypes, NEW s, s.equity \in RunIds, Refusal("equity", s) = "none"
    PROVE  Through(s) \in Nat /\ ask.cutoff \in Nat
<1>1. PICK b : b = runs[s.equity].bundle
    OBVIOUS
<1>2. b.cutoff \in Nat /\ b.open \subseteq Nat /\ ask.cutoff \in Nat /\ Normalizes(b)
    BY <1>1, RunFields DEF DbTypes
<1>3. b.family \in Family
    BY <1>2 DEF Normalizes, NormalizesEquity, NormalizesBenchmark, NormalizesSector, Family
<1>4. EndOf[b.family] \in Nat
    BY <1>3, ContentAssumption
<1>5. Reach(b) \in Nat
    BY <1>2, <1>4, MinOfTwo DEF Reach
<1>6. Upto(b, ask.cutoff) \in Nat
    BY <1>2, <1>5, MinOfTwo DEF Upto
<1>7. PICK T : T = Sessions(b, ask.cutoff)
    OBVIOUS
<1>8. T # {}
    BY <1>1, <1>7 DEF Refusal, BundleOf, NoRun, RunIds
<1>9. T \subseteq Nat /\ \A d \in T : d <= Upto(b, ask.cutoff)
    BY <1>2, <1>7 DEF Sessions
<1>10. \E x \in T : \A y \in T : y <= x
    BY <1>6, <1>8, <1>9, GreatestBelow
<1>11. \E x \in T : \A y \in T : x >= y
    BY <1>9, <1>10
<1>12. Max(T) \in T
    BY <1>11 DEF Max
<1>13. Through(s) = Max(T)
    BY <1>1, <1>7 DEF Through, Effective, BundleOf
<1>14. QED
    BY <1>2, <1>9, <1>12, <1>13

(* The steps that give no refresh an outcome keep what it answered for.    *)
LEMMA GapStays ==
    ASSUME RefreshFillsTheGap, ask' = ask, answer' = answer, confirmed' = confirmed
    PROVE  RefreshFillsTheGap'
    BY DEF RefreshFillsTheGap

LEMMA GapSilent ==
    ASSUME \/ answer'.op # "refresh"
           \/ answer'.outcome \notin {"no_refresh_needed", "manual_catchup_required",
                                      "failed_retained_prior", "demo_published"}
    PROVE  RefreshFillsTheGap'
    BY DEF RefreshFillsTheGap

LEMMA GapAnswered ==
    ASSUME ReadingInv, NEW scenario \in Scenarios, Attempt(scenario)
    PROVE  RefreshFillsTheGap'
<1>1. PICK p, c, result : /\ p = Through(seen) /\ c = ask.cutoff
                          /\ result = Refresh(p, c, scenario)
    OBVIOUS
<1>2. PICK a : a = [Reply("refresh", result.phase) EXCEPT
                        !.runs = named, !.content = Content(seen), !.demo = result.demo]
    OBVIOUS
<1>3. /\ op = "refresh" /\ todo = <<>> /\ StillCurrent(seen, named) /\ answer' = a
      /\ ask' = ask /\ confirmed' = confirmed
    BY <1>1, <1>2, Zenon DEF Attempt
<1>4. a.op = "refresh" /\ a.outcome = result.phase /\ a.demo = result.demo
    BY <1>2 DEF Reply, NoReply
<1>5. seen.equity \in RunIds /\ Refusal("equity", seen) = "none" /\ DbTypes
    BY <1>3, AllDone, TypesAndDb, RunFields DEF ReadingInv
<1>6. p \in Nat /\ c \in Nat
    BY <1>1, <1>5, ReachedDay
<1>7. PICK shown : shown = CHOOSE x \in confirmed.content : TRUE
    OBVIOUS
<1>8. shown.equity.through = p
  <2>1. confirmed.content = Content(seen)
    BY <1>3 DEF StillCurrent
  <2>2. \A x \in Content(seen) : x.equity.through = p
    BY <1>1 DEF Content, EquityContent, Through
  <2>3. Content(seen) # {}
    BY DEF Content
  <2>4. shown \in Content(seen)
    BY <1>7, <2>1, <2>3
  <2>5. QED
    BY <2>2, <2>4
<1>9. PICK gap : gap = {d \in Weekdays : p < d /\ d <= c}
    OBVIOUS
<1>9a. \A d : d \in gap <=> d \in Weekdays /\ p < d /\ d <= c
    BY <1>9
<1>10. Fills(result.phase, result.demo, gap)
    BY <1>1, <1>6, <1>9a, RefreshGap
<1>11. gap = {d \in Weekdays : (CHOOSE x \in confirmed'.content : TRUE).equity.through < d /\ d <= ask'.cutoff}
    BY <1>1, <1>3, <1>7, <1>8, <1>9
<1>12. QED
    BY <1>3, <1>4, <1>10, <1>11 DEF Fills, RefreshFillsTheGap

-----------------------------------------------------------------------------
(* The invariant of reading, and what follows                              *)

LEMMA ReadingStart == ReadingInit => ReadingInv /\ RefreshFillsTheGap
<1> SUFFICES ASSUME ReadingInit PROVE ReadingInv /\ RefreshFillsTheGap
    OBVIOUS
<1>1. /\ now = 1 /\ runs \in Beginnings /\ ask \in Asks /\ op = "idle" /\ todo = <<>> /\ calm = FALSE
      /\ seen = NoRuns /\ named = NoRuns /\ ruled = NoRun /\ listed = [runs |-> NoRuns, calm |-> FALSE]
      /\ confirmed = NoReply /\ answer = NoReply
    BY DEF ReadingInit
<1>2. ReadingTypeOK
    BY <1>1, BeginningAssumption, ReadingBoundAssumption DEF ReadingTypeOK, RunIds, NoRuns
<1>3. WorkOK
  <2>1. Sorted(<<>>) /\ Members(<<>>) = {}
    BY SortedFew
  <2>2. QED
    BY <1>1, <2>1 DEF WorkOK
<1>4. FoundOK /\ CalmOK
    BY <1>1 DEF FoundOK, CalmOK
<1>5. AnswerOK
    BY <1>1 DEF AnswerOK, Names, NoReply
<1>6. RefreshFillsTheGap
    BY <1>1 DEF RefreshFillsTheGap, NoReply
<1>7. QED
    BY <1>2, <1>3, <1>4, <1>5, <1>6 DEF ReadingInv

LEMMA ReadingStep ==
    ReadingInv /\ RefreshFillsTheGap /\ [ReadingNext]_marketVars => ReadingInv' /\ RefreshFillsTheGap'
<1> SUFFICES ASSUME ReadingInv, RefreshFillsTheGap, [ReadingNext]_marketVars
             PROVE  ReadingInv' /\ RefreshFillsTheGap'
    OBVIOUS
<1>0. DbTypes
    BY TypesAndDb DEF ReadingInv
<1>1. CASE UNCHANGED marketVars
  <2>1. UNCHANGED readerVars /\ now' = now /\ runs' = runs /\ ask' = ask /\ answer' = answer
        /\ confirmed' = confirmed
    BY <1>1 DEF marketVars, dbVars, readerVars
  <2>2. DbTypes' /\ Imported
    BY <1>0, <2>1, RunFields DEF DbTypes, Imported, RunIds
  <2>3. QED
    BY <2>1, <2>2, ImportStep, GapStays
<1>2. CASE DatabaseStep
  <2>1. DbTypes' /\ Imported /\ UNCHANGED readerVars
    BY <1>0, <1>2, DatabaseSteps
  <2>2. ask' = ask /\ answer' = answer /\ confirmed' = confirmed
    BY <2>1 DEF readerVars
  <2>3. QED
    BY <2>1, <2>2, ImportStep, GapStays
<1>3. CASE List
    BY <1>3, ListStep, GapStays DEF List
<1>4. ASSUME NEW o \in Ops, Request(o)
      PROVE  ReadingInv' /\ RefreshFillsTheGap'
  <2>1. answer'.op # "refresh"
    BY <1>4 DEF Request, NoReply
  <2>2. QED
    BY <1>4, <2>1, RequestStep, GapSilent
<1>5. ASSUME NEW why, Fail(why), ask' = ask, confirmed' = confirmed,
             why \in {"not_visible", "incompatible", "identity_conflict", "error", "moved"}
      PROVE  RefreshFillsTheGap'
  <2>1. answer'.outcome = why
    BY <1>5 DEF Fail, Reply, NoReply
  <2>2. QED
    BY <1>5, <2>1, GapSilent
<1>6. ASSUME Go, ask' = ask, confirmed' = confirmed
      PROVE  RefreshFillsTheGap'
    BY <1>6, GapStays DEF Go
<1>7. ASSUME NEW f \in Family, Show(f)
      PROVE  ReadingInv' /\ RefreshFillsTheGap'
  <2>1. PICK s : s = [seen EXCEPT ![f] = Loaded(f)]
    OBVIOUS
  <2>2. /\ IF Refusal(f, s) = "none" THEN Go ELSE Fail(Refusal(f, s))
        /\ ask' = ask /\ confirmed' = confirmed
    BY <1>7, <2>1 DEF Show
  <2>3. RefreshFillsTheGap'
    BY <1>5, <1>6, <2>2, RefusalKinds
  <2>4. QED
    BY <1>7, <2>3, QueryStep
<1>8. ASSUME NEW f \in Family, Name(f)
      PROVE  ReadingInv' /\ RefreshFillsTheGap'
  <2>1. (Go \/ Fail("identity_conflict")) /\ ask' = ask /\ confirmed' = confirmed
    BY <1>8 DEF Name
  <2>2. QED
    BY <1>5, <1>6, <1>8, <2>1, NameStep
<1>9. CASE Bind
  <2>1. (Go \/ Fail("identity_conflict")) /\ ask' = ask /\ confirmed' = confirmed
    BY <1>9 DEF Bind
  <2>2. QED
    BY <1>5, <1>6, <1>9, <2>1, BindStep
<1>10. CASE Rule
  <2>1. (Go \/ Fail("error")) /\ ask' = ask /\ confirmed' = confirmed
    BY <1>10 DEF Rule
  <2>2. QED
    BY <1>5, <1>6, <1>10, <2>1, RuleStep
<1>11. CASE Deliver
  <2>1. answer'.op # "refresh"
    BY <1>11 DEF Deliver, Shown, Reply, NoReply
  <2>2. QED
    BY <1>11, <2>1, DeliverStep, GapSilent
<1>12. CASE RefuseMoved
  <2>1. Fail("moved") /\ ask' = ask /\ confirmed' = confirmed
    BY <1>12 DEF RefuseMoved
  <2>2. QED
    BY <1>5, <1>12, <2>1, RefuseMovedStep
<1>13. ASSUME NEW s \in Scenarios, Attempt(s)
       PROVE  ReadingInv' /\ RefreshFillsTheGap'
    BY <1>13, AttemptStep, GapAnswered
<1>14. QED
    BY <1>1, <1>2, <1>3, <1>4, <1>7, <1>8, <1>9, <1>10, <1>11, <1>12, <1>13
       DEF ReadingNext, DatabaseStep

LEMMA ReadingInvariant == ReadingSpec => [](ReadingInv /\ RefreshFillsTheGap)
    BY ReadingStart, ReadingStep, PTL DEF ReadingSpec

(* Types: the runs an import adds are stored under the next id, brought    *)
(* what normalizes, and began no later than now; what a request has found  *)
(* are ids of runs.                                                        *)
THEOREM ReadingTypes == ReadingSpec => []ReadingTypeOK
<1>1. ReadingInv => ReadingTypeOK
    BY DEF ReadingInv
<1>2. QED
    BY <1>1, ReadingInvariant, PTL

(* A reply about a settled boundary is one reading of the database: what a *)
(* handler reads in up to seven queries of up to three sessions is what one *)
(* query of all families would show, whatever is imported meanwhile, and   *)
(* the catalog of that boundary names the same runs.                       *)
THEOREM SettledReplies == ReadingSpec => []SettledIsOneReading
<1>1. ReadingInv => SettledIsOneReading
  <2> SUFFICES ASSUME ReadingInv PROVE SettledIsOneReading
    OBVIOUS
  <2>0. "equity" \in ask.keys /\ ask.keys \subseteq Family
    BY TypesAndDb, RunFields DEF ReadingInv
  <2>1. AnswerOK /\ CalmOK
    BY DEF ReadingInv
  <2>2. calm /\ answer.op \in {"snapshot", "status", "read_model"} => answer = AtOnce(answer.op)
    BY <2>1 DEF AnswerOK
  <2>3. listed.calm => \A f \in Family : listed.runs[f] = Loaded(f)
    BY <2>1 DEF CalmOK
  <2>4. calm => /\ answer.outcome = "shown" => \A f \in ask.keys : seen[f] = Loaded(f)
                /\ answer.outcome = "not_visible" /\ ask.keys = {"equity"} => Loaded("equity") = NoRun
    BY <2>1 DEF AnswerOK
  <2>5. listed.calm => /\ \A f \in ask.keys : listed.runs[f] = Loaded(f)
                       /\ listed.runs.equity = Loaded("equity")
    BY <2>0, <2>3
  <2>6. QED
    BY <2>2, <2>4, <2>5 DEF SettledIsOneReading
<1>2. QED
    BY <1>1, ReadingInvariant, PTL

(* Two replies under one identity show one content: a reply is bound to    *)
(* the runs it was read from, and what those runs brought never changes.   *)
THEOREM IdentitiesName == ReadingSpec => []IdentityNamesContent
<1>1. ReadingInv => IdentityNamesContent
    BY DEF ReadingInv, AnswerOK, Names, IdentityNamesContent
<1>2. QED
    BY <1>1, ReadingInvariant, PTL

(* A refresh answers for exactly the weekdays missing after the snapshot   *)
(* its client was shown, in every required family, under every scenario.   *)
THEOREM RefreshesFillTheGap == ReadingSpec => []RefreshFillsTheGap
    BY ReadingInvariant, PTL

=============================================================================
