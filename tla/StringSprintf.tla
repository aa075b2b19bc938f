---------------------------- MODULE StringSprintf ----------------------------
(***************************************************************************)
(* string_vsprintf: format into the tail of a string that is both result   *)
(* and buffer, and try again with a larger one when the text did not fit.  *)
(* A character is a number: position i of the text is i, 0 is NUL.         *)
(*                                                                         *)
(* A definition whose name ends in Bug is a faulty variant of the one      *)
(* after it; it shows that a property can fail.  Nothing else uses it.     *)
(***************************************************************************)
EXTENDS Integers, Sequences

CONSTANTS
    InitialSize,    \* SPRINTF_INITIAL_SIZE
    MaxOld,         \* bound: size of the caller's string
    MaxText         \* bound: size of the formatted text

Error == -1

VARIABLES
    str,        \* the string
    before,     \* history: the string as it was passed
    append,     \* the argument append
    need,       \* length of the formatted text
    rounds,     \* how often vsnprintf was called
    result      \* << >>, or what the call returned

vars == <<str, before, append, need, rounds, result>>

NUL == 0

Text(n) == [i \in 1..n |-> i]

Old(n) == [i \in 1..n |-> -i]

\* string_sprintf formats into a new or a given string; _append adds to it.
Init ==
    /\ before \in {Old(n) : n \in 0..MaxOld}
    /\ str = before
    /\ append \in BOOLEAN
    /\ need \in 0..MaxText
    /\ rounds = 0
    /\ result = << >>

pos == IF append THEN Len(before) ELSE 0

\* std::string::resize
resize(s, n) == [i \in 1..n |-> IF i <= Len(s) THEN s[i] ELSE NUL]

Least(a, b) == IF a < b THEN a ELSE b

\* vsnprintf(data + pos, size, ...) cuts the text and ends it with NUL.
vsnprintf(s, size) ==
    LET n == Least(need, size - 1) IN
    [i \in DOMAIN s |-> IF i \in pos + 1 .. pos + n THEN i - pos
                        ELSE IF i = pos + n + 1 THEN NUL ELSE s[i]]

Fits_Bug(size) == need <= size

Fits(size) == need < size

\* One round of the loop; vsnprintf may fail in each.
Round ==
    LET tail == Len(str) - pos
        size == IF tail < InitialSize THEN InitialSize ELSE tail
        out  == vsnprintf(resize(str, pos + size), size)
    IN  /\ result = << >>
        /\ rounds' = rounds + 1
        /\ \/ str' = resize(out, pos) /\ result' = <<Error>>
           \/ Fits(size) /\ str' = resize(out, pos + need) /\ result' = <<Len(str')>>
           \/ ~Fits(size) /\ str' = resize(out, pos + need + 1) /\ UNCHANGED result
        /\ UNCHANGED <<before, append, need>>

Next == Round

-----------------------------------------------------------------------------
(***************************************************************************)
(* The call ends after one retry at most.  It returns the text whole,      *)
(* after the old string when appending, with no NUL of a smaller or larger *)
(* buffer left in it; if formatting fails in either round, an append       *)
(* leaves the old string as it was.                                        *)
(***************************************************************************)
FormatsWhole ==
    /\ rounds <= 2
    /\ rounds = 2 => result # << >>
    /\ result # << >> =>
          LET kept == SubSeq(before, 1, pos) IN
          \/ result = <<Error>> /\ str = kept
          \/ result = <<Len(str)>> /\ str = kept \o Text(need)
=============================================================================
