SPECIFICATION FairSearchSpec
CONSTANTS
    r1 = r1
    r2 = r2
    e1 = e1
    e2 = e2
    Req = {r1, r2}
    Ident = {1, 2, 3}
    Entity = {e1, e2}
    Cases <- All
    Threshold = 2
    MaxFallback = 3
    Nothing = Nothing
INVARIANTS AnswersWereThere MatchIsAnswered BreakerTrips
PROPERTY RequestsEnd
CHECK_DEADLOCK FALSE
