CONSTANT MaxSends = 5
SPECIFICATION FairSendingSpec
INVARIANT RecordAgrees
INVARIANT FailedIsFinal
INVARIANT FailedUnheardIsExhausted
PROPERTY SendingEnds
