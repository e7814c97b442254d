CONSTANTS
    Host = {0, 1, 2}
    Port = {0, 1}
    Number = {1}
    Garbage = {0, 1}
SPECIFICATION MatchSpec
INVARIANTS DestinationIsMatched
\* A rule in the kernel is the end of its command.
CHECK_DEADLOCK FALSE
