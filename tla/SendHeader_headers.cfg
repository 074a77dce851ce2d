\* The working buffer is as narrow as it may be, so that it overflows early.
CONSTANTS
    Bytes = {182, 255}
    MaxLength = 3
    Word = 4096
    NUL = 65
    Garbage = garbage
    BUFFER_SIZE = 2
    Chars <- MCChars
    Values <- MCValues
    MaxLines = 2
SPECIFICATION HeaderSpec
INVARIANTS FitsAllocation RoundTrip BufTypeOK HeaderIsWhole
CHECK_DEADLOCK FALSE
