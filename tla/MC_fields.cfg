\* fields_str_to_map against its reference reading, and the round trip
\* through pairs_to_fields_str, and of headers through
\* add_headers and get_headers.  The loop returns, so a finished parse has
\* no successor.
CONSTANTS
    Chars <- MCChars
    MaxLen = 4
    MaxPart = 1
    MaxPairs = 2
    Absent = Absent
    HeaderChars <- MCHeaderChars
    MaxHeaderPart = 2
    MaxHeaderList = 2
SPECIFICATION Spec
CHECK_DEADLOCK FALSE
INVARIANT TypeOK
INVARIANT ParseMatchesReference
INVARIANT RoundTrip
INVARIANT HeaderRoundTrip
