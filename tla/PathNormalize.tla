--------------------------- MODULE PathNormalize ---------------------------
(***************************************************************************)
(* path_normalize of foundation/path_normalize.h.  A path is the sequence  *)
(* of the texts between its separators: "/x//y" is <<"", "x", "", "y">>,   *)
(* "/" is <<"", "">> and the empty path is <<"">>.  Splitting at           *)
(* separators loses nothing, so this is the string itself.  The function   *)
(* is a template over the character type; Empty, Dot and DotDot stand for  *)
(* the texts "", "." and ".." of the type it is used with.                 *)
(*                                                                         *)
(* A definition whose name ends in Bug is a faulty variant of the one      *)
(* after it; it shows that a property can fail.  Nothing else uses it.     *)
(***************************************************************************)
EXTENDS Integers, Sequences, SequencesExt

CONSTANTS Empty, Dot, DotDot

is_absolute(path) == Len(path) > 1 /\ path[1] = Empty

\* One round of the outer loop: what token does to segments.
Step_Bug(segments, token, absolute) ==
    CASE token \in {Empty, Dot} -> segments
      [] token = DotDot -> IF segments # << >> THEN Front(segments)
                         ELSE IF absolute THEN segments ELSE Append(segments, token)
      [] OTHER -> Append(segments, token)

Step(segments, token, absolute) ==
    CASE token \in {Empty, Dot} -> segments
      [] token = DotDot ->
            IF segments # << >> /\ Last(segments) # DotDot THEN Front(segments)
            ELSE IF absolute THEN segments ELSE Append(segments, token)
      [] OTHER -> Append(segments, token)

\* A separator in front if absolute, then the segments with separators between.
Join(segments, absolute) ==
    IF segments = << >>
    THEN IF absolute THEN <<Empty, Empty>> ELSE <<Empty>>
    ELSE IF absolute THEN <<Empty>> \o segments ELSE segments

path_normalize(path) ==
    LET absolute == is_absolute(path)
        segments[n \in 0 .. Len(path)] ==
            IF n = 0 THEN << >> ELSE Step(segments[n - 1], path[n], absolute)
    IN  Join(segments[Len(path)], absolute)
=============================================================================
