\* The four components of the library, one in each behaviour.
SPECIFICATION LibrarySpec
CONSTANTS
    Node = {n1, n2, n3, n4}
    _head = head
    _end = end
    _first = first
    Null = null
\* A formatted string ends.
CHECK_DEADLOCK FALSE
INVARIANTS
    Linked
    StringResultsAreRight
    FormatOutputIsTheText
PROPERTIES
    ImplementsSequence
    SkipKeysAreKept
