------------------------------ MODULE Strings ------------------------------
(***************************************************************************)
(* The memory and string functions of the kernel (lib/string.cpp) over a   *)
(* small memory.  An address is an index, a byte one of a few values: 0    *)
(* ends a string, and the bytes from HIGH on have their top bit set, ONES  *)
(* all bits.  Calls whose strings or blocks would leave the memory, or     *)
(* overlap where C forbids it, are not made.                               *)
(***************************************************************************)
EXTENDS Integers, Sequences, SequencesExt

CONSTANTS
    N,     \* bytes of the memory
    HIGH,  \* the smallest byte with its top bit set
    ONES,  \* the byte 0xff, the largest
    WORD   \* sizeof( size_t )

Byte == 0 .. ONES
Address == 0 .. N - 1

VARIABLE mem

\* char is signed: the bytes from HIGH on are negative, ONES is -1.
Char(b) == IF b < HIGH THEN b ELSE b - ONES - 1

-----------------------------------------------------------------------------
(* Blocks *)

Up(n)   == [k \in 1 .. n |-> k - 1]
Down(n) == [k \in 1 .. n |-> n - k]

\* The bytes at s to d, one by one.
Copy(m, d, s, order) == FoldLeft(LAMBDA x, k : [x EXCEPT ![d + k] = x[s + k]], m, order)

memcpy(m, d, s, n) == Copy(m, d, s, Up(n))

\* Variant: upwards whenever the destination lies behind the source.
Turned_memmove(m, d, s, n) == Copy(m, d, s, IF d >= s THEN Up(n) ELSE Down(n))

memmove(m, d, s, n) == Copy(m, d, s, IF d <= s \/ d >= s + n THEN Up(n) ELSE Down(n))

\* The word that memset fills with: val << 24 is an int, so a value with its
\* top bit set fills the upper half of a word with ones.
val_word(v, k) == IF v >= HIGH /\ k % WORD >= WORD \div 2 THEN ONES ELSE v

\* Bytes up to a word's boundary, words, and the bytes that remain.
head(d, n) == IF n < (WORD - (d % WORD)) % WORD THEN n ELSE (WORD - (d % WORD)) % WORD

words(d, n) == ((n - head(d, n)) \div WORD) * WORD

memset(m, d, v, n) ==
    LET inWord == d + head(d, n) .. d + head(d, n) + words(d, n) - 1 IN
    [k \in Address |-> IF k \in inWord THEN val_word(v, k)
                       ELSE IF k \in d .. d + n - 1 THEN v ELSE m[k]]

\* The first of n bytes that differs decides.
memcmp(m, p, q, n) ==
    LET differ == {k \in 0 .. n - 1 : m[p + k] # m[q + k]} IN
    IF differ = {} THEN 0
    ELSE LET k == CHOOSE k \in differ : \A j \in differ : k <= j
         IN Char(m[p + k]) - Char(m[q + k])

\* Addresses or None.
None == -1
First(S) == IF S = {} THEN None ELSE CHOOSE k \in S : \A j \in S : k <= j

memchr(m, p, v, n) == First({k \in p .. p + n - 1 : m[k] = v})

-----------------------------------------------------------------------------
(* Strings *)

\* A string begins at p and ends in the memory.
IsString(m, p) == \E k \in p .. N - 1 : m[k] = 0

strlen(m, p) == First({k \in p .. N - 1 : m[k] = 0}) - p

\* The functions that copy a string leave its end out.
strcpy(m, d, s) == Copy(m, d, s, Up(strlen(m, s)))

Least(a, b) == IF a < b THEN a ELSE b
strncpy(m, d, s, n) == Copy(m, d, s, Up(Least(n, strlen(m, s))))

strcat(m, d, s) == Copy(m, d + strlen(m, d), s, Up(strlen(m, s)))

\* strncat does not go to the end of the destination first.
strncat(m, d, s, n) == strncpy(m, d, s, n)

\* The place where the two strings part, or the end of both.
strcmp(m, p, q) ==
    LET k == First({j \in 0 .. N - 1 : p + j < N /\ q + j < N
                                         /\ (m[p + j] # m[q + j] \/ m[p + j] = 0)})
    IN Char(m[p + k]) - Char(m[q + k])

\* The n-th character is left to the end, and compared whatever came before.
strncmp(m, p, q, n) ==
    LET k == First({j \in 0 .. N - 1 : p + j < N /\ q + j < N
                        /\ (j = n - 1 \/ m[p + j] # m[q + j] \/ m[p + j] = 0)})
    IN IF n = 0 THEN 0 ELSE Char(m[p + k]) - Char(m[q + k])

\* strchr moves on before it looks, up to the end, which it finds as well.
strchr(m, p, v) ==
    First({k \in p + 1 .. p + strlen(m, p) : m[k] = v})

\* Each search begins behind the one before, and so two further on.
RECURSIVE LastFrom(_, _, _)
LastFrom(m, p, v) ==
    LET q == IF p + 1 < N /\ IsString(m, p + 1) THEN strchr(m, p + 1, v) ELSE None
    IN IF q = None THEN p ELSE LastFrom(m, q, v)

strrchr(m, p, v) == IF strchr(m, p, v) = None THEN None ELSE LastFrom(m, strchr(m, p, v), v)

\* The first place of h where every character of q follows.
strstr(m, h, q) ==
    IF m[q] = 0 THEN h
    ELSE First({k \in h .. h + strlen(m, h) - 1 :
                   \A n \in 0 .. strlen(m, q) - 1 :
                       (\A j \in 0 .. n - 1 : m[k + j] = m[q + j]) => m[k + n] = m[q + n]})

-----------------------------------------------------------------------------
(* Numbers: the digits of a number, the first digit first *)

RECURSIVE utoa(_, _)
utoa(num, base) ==
    IF num < base THEN <<num>> ELSE Append(utoa(num \div base, base), num % base)

\* A negative number is negated and signed.  The most negative one stays what
\* it is, and its digits are read from before the table: no call is made.
Sign == "-"
itoa(num, base) == IF num < 0 THEN <<Sign>> \o utoa(- num, base) ELSE utoa(num, base)

-----------------------------------------------------------------------------

Fits(p, n) == p + n <= N
Apart(p, n, q, k) == p + n <= q \/ q + k <= p

Init == mem = [k \in Address |-> 0]

Memmove(d, s, n) == Fits(d, n) /\ Fits(s, n) /\ mem' = memmove(mem, d, s, n)

Memcpy(d, s, n) ==
    /\ Fits(d, n) /\ Fits(s, n) /\ Apart(d, n, s, n)
    /\ mem' = memcpy(mem, d, s, n)

Memset(d, v, n) == Fits(d, n) /\ mem' = memset(mem, d, v, n)

Strcpy(d, s) ==
    /\ IsString(mem, s) /\ Fits(d, strlen(mem, s) + 1)
    /\ Apart(d, strlen(mem, s) + 1, s, strlen(mem, s) + 1)
    /\ mem' = strcpy(mem, d, s)

Strncpy(d, s, n) ==
    /\ IsString(mem, s) /\ Fits(d, n) /\ Apart(d, n, s, strlen(mem, s) + 1)
    /\ mem' \in {strncpy(mem, d, s, n), strncat(mem, d, s, n)}

Strcat(d, s) ==
    /\ IsString(mem, s) /\ IsString(mem, d)
    /\ Fits(d, strlen(mem, d) + strlen(mem, s) + 1)
    /\ Apart(d, strlen(mem, d) + strlen(mem, s) + 1, s, strlen(mem, s) + 1)
    /\ mem' = strcat(mem, d, s)

Next ==
    \/ \E d, s \in Address, n \in 0 .. N : Memmove(d, s, n) \/ Memcpy(d, s, n) \/ Strncpy(d, s, n)
    \/ \E d \in Address, v \in Byte, n \in 0 .. N : Memset(d, v, n)
    \/ \E d, s \in Address : Strcpy(d, s) \/ Strcat(d, s)

Spec == Init /\ [][Next]_mem

-----------------------------------------------------------------------------
(* Properties *)

\* memmove leaves at d what was at s, and nothing else changed, however the
\* two blocks overlap (string.cpp:274).
MovesExactly ==
    \A d, s \in Address, n \in 0 .. N :
        Fits(d, n) /\ Fits(s, n) => memmove(mem, d, s, n)
            = [k \in Address |-> IF k \in d .. d + n - 1 THEN mem[s + k - d] ELSE mem[k]]

Filled(d, v, n) == [k \in Address |-> IF k \in d .. d + n - 1 THEN v ELSE mem[k]]

\* memset touches n bytes and no other, from any alignment, and fills them if
\* the value is below 0x80 or 0xff (string.cpp:312-341).
FillsExactly ==
    \A d \in Address, v \in Byte, n \in 0 .. N :
        Fits(d, n) =>
            /\ \A k \in Address \ (d .. d + n - 1) : memset(mem, d, v, n)[k] = mem[k]
            /\ v < HIGH \/ v = ONES => memset(mem, d, v, n) = Filled(d, v, n)

\* memset fills with every value.  It does not (:323): LibraryAsSaid.cfg.
FillsWithAny ==
    \A d \in Address, v \in Byte, n \in 0 .. N :
        Fits(d, n) => memset(mem, d, v, n) = Filled(d, v, n)

\* The string at p.
Text(p) == SubSeq([k \in 1 .. N |-> mem[k - 1]], p + 1, p + strlen(mem, p))
Strings == {p \in Address : IsString(mem, p)}

RECURSIVE Before(_, _)
Before(a, b) ==
    /\ b # <<>>
    /\ a = <<>> \/ Char(a[1]) < Char(b[1]) \/ (a[1] = b[1] /\ Before(Tail(a), Tail(b)))

Prefix(t, n) == SubSeq(t, 1, Least(n, Len(t)))

\* strcmp and strncmp order strings as their texts are ordered, and strncmp
\* looks at n characters and no further (string.cpp:97-114), if no
\* character has its top bit set; memcmp agrees inside both strings.
ComparisonsAgree ==
    \A p, q \in Strings :
        (\A c \in ToSet(Text(p)) \cup ToSet(Text(q)) : c < HIGH) =>
        /\ strcmp(mem, p, q) < 0 <=> Before(Text(p), Text(q))
        /\ strcmp(mem, p, q) = 0 <=> Text(p) = Text(q)
        /\ \A n \in 0 .. N :
              /\ strncmp(mem, p, q, n) < 0 <=> Before(Prefix(Text(p), n), Prefix(Text(q), n))
              /\ strncmp(mem, p, q, n) = 0 <=> Prefix(Text(p), n) = Prefix(Text(q), n)
              /\ n <= Len(Text(p)) /\ n <= Len(Text(q)) =>
                     memcmp(mem, p, q, n) = strncmp(mem, p, q, n)

\* strstr finds the first place where the needle stands whole
\* (string.cpp:172), and memchr the first byte (:222).
FindsWhole ==
    /\ \A h, q \in Strings :
          LET places == {k \in h .. h + strlen(mem, h) :
                            Text(q) = Prefix(Text(k), strlen(mem, q))}
          IN strstr(mem, h, q) = First(places)
    /\ \A p \in Strings : memchr(mem, p, 0, N - p) = p + strlen(mem, p)

\* strchr finds the first place of a character (:130), and strrchr the last
\* (:148).  Neither does: LibraryAsSaid.cfg.
At(p, v) == {k \in p .. p + strlen(mem, p) - 1 : mem[k] = v}
FindsTheFirst == \A p \in Strings, v \in 1 .. HIGH - 1 : strchr(mem, p, v) = First(At(p, v))
FindsTheLast ==
    \A p \in Strings, v \in 1 .. HIGH - 1 :
        strrchr(mem, p, v) =
            IF At(p, v) = {} THEN None ELSE CHOOSE k \in At(p, v) : \A j \in At(p, v) : j <= k

\* The memory as one number, for numbers of many digits.
Number == FoldLeft(LAMBDA x, k : x * (ONES + 1) + mem[k], 0, Up(N))
Value(digits, base) == FoldLeft(LAMBDA x, c : x * base + c, 0, digits)

\* What utoa and itoa write reads back as the number, with no zero before it
\* but 0 itself, in every base the kernel prints in (string.cpp:363-373).
NumbersReadBack ==
    \A base \in {2, 8, 10, 16} :
        LET digits == utoa(Number, base) IN
        /\ Value(digits, base) = Number /\ \A c \in ToSet(digits) : c < base
        /\ digits # <<>> /\ (Len(digits) > 1 => digits[1] # 0)
        /\ Number > 0 => itoa(- Number, base) = <<Sign>> \o digits
=============================================================================
