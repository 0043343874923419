SPECIFICATION FairRequestSpec
CONSTANTS
    Request = {q1, q2}
    Nobody = Nobody
    Entity = {0, 1, 2}
    Invalid = {0}
CHECK_DEADLOCK FALSE
INVARIANTS
    EventIffGone
    AnswerIsTrue
    LoggedIsSent
    RenewedTokenIsSent
    OnlyUsersDelete
PROPERTY EveryRequestIsAnswered
