SPECIFICATION ExecSpec
CHECK_DEADLOCK FALSE
INVARIANTS ErrorIsHeard
PROPERTIES DownstreamRefined FailureEndsSend
