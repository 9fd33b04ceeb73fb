\* What the library's documentation and code promise and do not keep; TLC stops
\* at the first, and each of the others fails alone.
SPECIFICATION LibrarySpec
CONSTANTS
    Node = {n1, n2, n3, n4}
    _head = head
    _end = end
    _first = first
    Null = null
CHECK_DEADLOCK FALSE
INVARIANTS
    SkipCountIsLength
    FormatOutputIsAlwaysTheText
    MemsetFillsWithAny
    StrchrFindsTheFirst
    StrrchrFindsTheLast
