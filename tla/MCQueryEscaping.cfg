\* Values of up to three characters: a tab, "9", "A", "%" and a byte of UTF-8.
SPECIFICATION TextSpec
CONSTANTS
    Char <- MCChar
    MaxLength = 3
INVARIANT RoundTrip
CHECK_DEADLOCK FALSE
