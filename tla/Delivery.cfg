CONSTANTS
    Exchanges = {e1, e2}
    Size = 2
    Answers <- MCAnswers
    Refusals <- MCRefusals
    MaxRestarts = 1
SPECIFICATION FairSpec
INVARIANTS TypeOK EvidenceAgrees GapsAreCounted StreamsReleased
PROPERTIES ImplementsLedger EvidenceEnds
CHECK_DEADLOCK FALSE
