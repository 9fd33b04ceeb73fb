---------------------------- MODULE MC_Library ----------------------------
(***************************************************************************)
(* The library's list, skip list, string functions and formatter side by   *)
(* side.  They share nothing, so a behaviour runs one of them; the others  *)
(* stay as they are.                                                       *)
(***************************************************************************)
EXTENDS List

CONSTANT _first

VARIABLES
    part,                              \* the component that runs
    forwards, level, count, _random,   \* of the skip list
    mem,                               \* of the string functions
    pieces, args, beyond, i, index, out  \* of the formatter

K == INSTANCE Skiplist WITH
        Key <- 1 .. 4, MIN <- 0, MAX <- 99, MAXLEVEL <- 8, COUNT <- 5,
        head_ <- _head, first_ <- _first, end_ <- _end

M == INSTANCE Strings WITH N <- 5, HIGH <- 2, ONES <- 3, WORD <- 2

F == INSTANCE Format WITH
        Piece <- {<<"a">>, <<":">>, <<"{", "{">>, <<"}", "}">>, <<"{", "}">>,
                  <<"{", ":", "x", "}">>, <<"{", ":", ">", "3", "}">>,
                  <<"{", ":", "*", ">", "4", "x", "}">>, <<"{", ":", "<", "2", "}">>,
                  <<"{", ":", "9", "x", "}">>},
        PIECES <- 3, Args <- {<<10, 27, -1>>}

skip   == <<forwards, level, count, _random>>
format == <<pieces, args, beyond, i, index, out>>
library == <<part, vars, skip, mem, format>>

LibraryInit ==
    /\ part \in {"list", "skiplist", "string", "format"}
    /\ Init /\ K!Init /\ M!Init
    /\ part = "skiplist" \/ _random = 0
    /\ IF part = "format" THEN F!Init
       ELSE pieces = <<>> /\ args = <<>> /\ beyond = 0 /\ i = 1 /\ index = 0 /\ out = <<>>

LibraryNext ==
    /\ UNCHANGED part
    /\ \/ part = "list" /\ Next /\ UNCHANGED <<skip, mem, format>>
       \/ part = "skiplist" /\ K!Next /\ UNCHANGED <<vars, mem, format>>
       \/ part = "string" /\ M!Next /\ UNCHANGED <<vars, skip, format>>
       \/ part = "format" /\ F!Next /\ UNCHANGED <<vars, skip, mem>>

LibrarySpec == LibraryInit /\ [][LibraryNext]_library

\* Whatever other lists have made of the number that the levels come from: the
\* chains of all levels stay sorted, each within the one below, searches agree
\* with them, a key once inserted into a list with levels is found until it is
\* removed, and no operation on a key moves another (skiplist.hpp:119-203).
SkipKeysAreKept ==
    /\ [](part = "skiplist" => K!TypeOK /\ K!LevelsAreSorted /\ K!SearchAgrees)
    /\ K!KeysComeAndGo

\* In every memory: memmove moves blocks whole however they overlap, memset
\* fills its block and no other byte with the values below 0x80 and 0xff,
\* comparisons order strings of characters below 0x80 as their texts are
\* ordered, strstr and memchr find the first place, and the digits of a number
\* are the number (string.cpp:77-373).  Of strchr, strrchr, the ends that the
\* copies of strings leave out and the other values of memset it says nothing.
StringResultsAreRight ==
    part = "string" =>
        /\ M!MovesExactly /\ M!FillsExactly
        /\ M!ComparisonsAgree /\ M!FindsWhole /\ M!NumbersReadBack

\* Where no field is read with another's specification, aligned left, filled
\* for a width of 9 or a string in a width, each is replaced by its own argument
\* in its own form (format.hpp:272-320).
FormatOutputIsTheText == part = "format" => F!OutputIsTheText

-----------------------------------------------------------------------------
(* What is said of the library and does not hold: LibraryAsSaid.cfg *)

FormatOutputIsAlwaysTheText == part = "format" => F!OutputIsAlwaysTheText
MemsetFillsWithAny == part = "string" => M!FillsWithAny
StrchrFindsTheFirst == part = "string" => M!FindsTheFirst
StrrchrFindsTheLast == part = "string" => M!FindsTheLast
SkipCountIsLength == part = "skiplist" => K!CountIsLength
=============================================================================
