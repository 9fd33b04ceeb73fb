------------------------------- MODULE Format -------------------------------
(***************************************************************************)
(* Library::format: the scan of a format string for fields, the reading of *)
(* a field's specification, and the digits, sign and width of a number.    *)
(* A string is a sequence of characters.  fmt::format_string has checked   *)
(* the format string when the kernel was compiled, so it is put together   *)
(* from the pieces that fmt knows.                                         *)
(***************************************************************************)
EXTENDS Integers, Sequences, FiniteSets, SequencesExt

CONSTANTS
    Piece,   \* the pieces of format strings
    PIECES,  \* bound on their number
    Args     \* sequences of arguments: numbers, or a string

Digit == <<"0", "1", "2", "3", "4", "5", "6", "7", "8", "9", "a", "b", "c", "d", "e", "f">>
Decimal == {Digit[k] : k \in 1 .. 10}
Number(c) == CHOOSE k \in 0 .. 9 : Digit[k + 1] = c
Nul == "nul"

\* The argument that is a string, and its text.
String == -1
Text == <<"s">>

VARIABLES
    pieces,  \* the format string
    args,
    beyond,  \* what the build put behind the empty string literal: one
             \* character, and then nothing that is a part of a specification
    i,       \* how far vformat has come
    index, out

vars == <<pieces, args, beyond, i, index, out>>

fmt == FlattenSeq(pieces)

\* A character, and what is read behind a string's end.
Ch(s, k) == IF k <= Len(s) THEN s[k] ELSE Nul

-----------------------------------------------------------------------------
(* Numbers *)

stol(s) == FoldLeft(LAMBDA n, c : n * 10 + Number(c), 0, s)

\* The digits of a number that is not negative; of a negative one, a digit
\* is read from before the table, and no caller prints one.
parse_base(n, base) ==
    LET d[m \in Nat] == IF m < base THEN <<Digit[m + 1]>>
                        ELSE Append(d[m \div base], Digit[(m % base) + 1])
    IN d[n]

\* parse_base has divided the argument down to 0, so it counts as positive.
parse_sign(sign, data) ==
    IF sign \in {"+", "space"} THEN <<sign>> \o data ELSE data

\* Left: all but the last of the places the data needs give way to it.
\* Right: as many as it needs.  Centre: nothing is done.
parse_align(align, data, ctx) ==
    CASE align = "<" -> data \o SubSeq(ctx, Len(data), Len(ctx))
      [] align = ">" -> SubSeq(ctx, 1, Len(ctx) - Len(data)) \o data
      [] align = "^" -> ctx

-----------------------------------------------------------------------------
(* A specification: each part is read if it stands at the place reached *)

\* Variant: the fill is looked for although an alignment stands there.
Greedy_fill(s, k) == Ch(s, k) \notin {Digit[d] : d \in 1 .. 9} \cup {"x"}

\* A character that is no digit below 9, no alignment and no x is a fill,
\* whatever follows it.
isFill(s, k) == Ch(s, k) \notin {Digit[d] : d \in 1 .. 9} \cup {"^", "<", ">", "x"}

Weigh(s, k) ==
    LET ends == {j \in k - 1 .. Len(s) : \A h \in k .. j : s[h] \in Decimal}
    IN IF k > Len(s) THEN <<>> ELSE SubSeq(s, k, CHOOSE j \in ends : \A h \in ends : h <= j)

parse_format_spac(s) ==
    LET a == IF isFill(s, 1) THEN 2 ELSE 1
        b == IF Ch(s, a) \in {"<", ">", "^"} THEN a + 1 ELSE a
        c == IF Ch(s, b) \in {"space", "+", "-"} THEN b + 1 ELSE b
        weigh == Weigh(s, c)
        d == c + Len(weigh)
        e == IF Ch(s, d) = "#" THEN d + 1 ELSE d
        g == IF Ch(s, e) = "0" /\ b = a THEN e + 1 ELSE e
    IN [fill  |-> IF g > e THEN "0" ELSE IF a = 2 THEN Ch(s, 1) ELSE "space",
        align |-> IF b > a THEN Ch(s, a) ELSE ">",
        sign  |-> IF c > b THEN Ch(s, b) ELSE "-",
        weigh |-> weigh,
        base  |-> CASE Ch(s, g) \in {"x", "X"} -> 16 [] Ch(s, g) \in {"b", "B"} -> 2
                    [] Ch(s, g) = "o" -> 8 [] OTHER -> 10]

\* A string is put out as it is.  A width below the number of digits moves
\* an iterator before the beginning: the pieces have none.
Rendered(arg, s) ==
    LET f == parse_format_spac(s)
        data == parse_sign(f.sign, parse_base(arg, f.base))
    IN IF arg = String THEN Text
       ELSE IF f.weigh = <<>> THEN data
       ELSE parse_align(f.align, data, [k \in 1 .. stol(f.weigh) |-> f.fill])

-----------------------------------------------------------------------------
(* vformat *)

NextOf(c, k) ==
    LET S == {j \in k .. Len(fmt) : fmt[j] = c}
    IN IF S = {} THEN 0 ELSE CHOOSE j \in S : \A h \in S : j <= h

\* The specification: from behind the next colon, wherever that is, for as
\* long as the difference of two unsigned places; behind the empty literal
\* lies what the build put there.
SpecOf(k) ==
    LET colon == NextOf(":", k + 1)
        end == NextOf("}", k + 1)
    IN IF colon = 0 THEN <<Nul, beyond>>
       ELSE IF end < colon THEN SubSeq(fmt, colon + 1, Len(fmt))
       ELSE SubSeq(fmt, colon + 1, IF end + 1 < Len(fmt) THEN end + 1 ELSE Len(fmt))

\* The argument: what stands before the colon as a number, if a colon comes
\* and no brace stands before it; 0 stands for what no argument has.
ArgOf(k) ==
    LET colon == NextOf(":", k + 1) IN
    IF colon # 0 /\ fmt[colon - 1] # "{"
    THEN LET id == SubSeq(fmt, k + 1, colon - 1) IN
         IF id # <<>> /\ ToSet(id) \subseteq Decimal /\ stol(id) < Len(args)
         THEN stol(id) + 1 ELSE 0
    ELSE IF index < Len(args) THEN index + 1 ELSE 0

Strings == UNION {[1 .. n -> Piece] : n \in 1 .. PIECES}

Init ==
    /\ pieces \in Strings /\ args \in Args
    /\ beyond \in {Nul, "a", "x", "3", "+", "<", "#"}
    /\ i = 1 /\ index = 0 /\ out = <<>>

Fixed == UNCHANGED <<pieces, args, beyond>>

\* For an argument that there is not, the formatter of any other type puts
\* out nothing.
Field ==
    /\ Ch(fmt, i) = "{" /\ Ch(fmt, i + 1) # "{"
    /\ out' = out \o IF ArgOf(i) = 0 THEN <<>> ELSE Rendered(args[ArgOf(i)], SpecOf(i))
    /\ index' = index + 1 /\ i' = NextOf("}", i + 1) + 1
    /\ Fixed

\* Two braces put out one.
Brace ==
    /\ \/ Ch(fmt, i) = "{" /\ Ch(fmt, i + 1) = "{"
       \/ Ch(fmt, i) = "}" /\ Ch(fmt, i + 1) = "}"
    /\ out' = Append(out, fmt[i]) /\ i' = i + 2
    /\ UNCHANGED index /\ Fixed

Plain ==
    /\ i <= Len(fmt) /\ fmt[i] # "{" /\ ~ (fmt[i] = "}" /\ Ch(fmt, i + 1) = "}")
    /\ out' = Append(out, fmt[i]) /\ i' = i + 1
    /\ UNCHANGED index /\ Fixed

\* The text is ended by a character of its own.
End ==
    /\ i = Len(fmt) + 1
    /\ out' = Append(out, Nul) /\ i' = i + 1
    /\ UNCHANGED index /\ Fixed

Next == Field \/ Brace \/ Plain \/ End

Spec == Init /\ [][Next]_vars

-----------------------------------------------------------------------------
(* Properties *)

\* The specification that a field's own text gives.
Own(p) == IF Len(p) = 2 THEN <<>> ELSE SubSeq(p, 3, Len(p) - 1)
IsField(p) == p[1] = "{" /\ p[2] # "{"
Width(s) == SelectSeq(s, LAMBDA c : c \in Decimal \ {"0"})

\* An argument's text in a width, at one end.
Reference(n, s) ==
    LET base == IF s # <<>> /\ Last(s) = "x" THEN 16 ELSE 10
        fill == IF Len(s) > 1 /\ s[2] \in {"<", ">"} THEN s[1] ELSE "space"
        low == <<Digit[(n % base) + 1]>>
        data == IF n = String THEN Text ELSE IF n < base THEN low ELSE <<Digit[(n \div base) + 1]>> \o low
        pad == [j \in 1 .. (IF Width(s) = <<>> THEN 0 ELSE Number(Width(s)[1]) - Len(data)) |-> fill]
    IN IF "<" \in ToSet(s) THEN data \o pad ELSE pad \o data

\* The argument of the field that piece k is: fields take them in order.
ArgumentOf(k) == Cardinality({h \in 1 .. k - 1 : IsField(pieces[h])}) + 1

\* The text with each field replaced by its own argument in its own form, and
\* two braces by one.
Expected ==
    Append(FlattenSeq([k \in DOMAIN pieces |->
               LET p == pieces[k] IN
               IF Len(p) = 1 THEN p
               ELSE IF ~ IsField(p) THEN <<p[1]>>
               ELSE Reference(args[ArgumentOf(k)], Own(p))]), Nul)

Done == i = Len(fmt) + 2

\* What goes wrong in the code.  A field without a specification takes that
\* of a later one (:286), or what lies behind an empty literal (:113).
TakesAnothers ==
    \E k \in DOMAIN pieces : /\ IsField(pieces[k]) /\ Own(pieces[k]) = <<>>
                            /\ \/ \E h \in k + 1 .. Len(pieces) : ":" \in ToSet(pieces[h])
                               \/ beyond \notin {Nul, "a", "#"}

\* Left alignment is one place too wide (:63).
AlignsLeft == \E k \in DOMAIN pieces : IsField(pieces[k]) /\ "<" \in ToSet(Own(pieces[k]))

\* A width that begins with 9 is taken for a fill (:113).
FillsWithNine == \E k \in DOMAIN pieces : IsField(pieces[k]) /\ "9" \in ToSet(Own(pieces[k]))

\* A string has no width (:193).
PadsText ==
    \E k \in DOMAIN pieces : /\ IsField(pieces[k]) /\ Width(Own(pieces[k])) # <<>>
                            /\ args[ArgumentOf(k)] = String

\* Where none of these four comes in, the output is the text with each field
\* replaced by its own argument in its own form, two braces by one, and an
\* end (format.hpp:276-318).
OutputIsTheText ==
    Done /\ ~ TakesAnothers /\ ~ AlignsLeft /\ ~ FillsWithNine /\ ~ PadsText => out = Expected

\* The same of every format string.  It is not so: LibraryAsSaid.cfg.
OutputIsAlwaysTheText == Done => out = Expected
=============================================================================
