SPECIFICATION ParserSpec
CONSTANTS
    Line <- MCLine
    MaxLines = 5
INVARIANTS
    ParsesAsAnOutline
CHECK_DEADLOCK FALSE
