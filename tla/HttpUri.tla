------------------------------ MODULE HttpUri ------------------------------
(***************************************************************************)
(* HTTP_URI_Parser and the percent-decoding of http_helper.cpp.  A string  *)
(* is a sequence of characters.                                            *)
(*                                                                         *)
(* A path is decoded segment by segment; a malformed escape is only        *)
(* traced, and the segment keeps what was decoded before it.  A key or a   *)
(* value of the query with a malformed escape becomes empty.  Nothing      *)
(* makes parse() answer false.                                             *)
(*                                                                         *)
(* A definition whose name ends in Bug is a faulty variant of the one      *)
(* after it; it shows that a property can fail.  Nothing else uses it.     *)
(***************************************************************************)
EXTENDS Integers, Sequences, SequencesExt

(***************************************************************************)
(* The bytes that some escape denotes; a byte of another value is "?".     *)
(***************************************************************************)
Code == [ c \in {"/", "%", "&", "=", "+", " ", "x"} |->
            CASE c = "/" -> <<"2", "F">> [] c = "%" -> <<"2", "5">>
              [] c = "&" -> <<"2", "6">> [] c = "=" -> <<"3", "D">>
              [] c = "+" -> <<"2", "B">> [] c = " " -> <<"2", "0">>
              [] c = "x" -> <<"7", "8">> ]

HexDigits == {"0", "2", "3", "5", "6", "7", "8", "B", "D", "F"}

Byte(h, l) ==
    LET known == {c \in DOMAIN Code : Code[c] = <<h, l>>}
    IN  IF known = {} THEN "?" ELSE CHOOSE c \in known : TRUE

(***************************************************************************)
(* The answer and the contents of res.  slash and space are the two flags. *)
(***************************************************************************)
decode_percent_Bug(src, slash, space) ==
    LET from[i \in 1 .. Len(src) + 3] ==
          CASE i > Len(src) -> [ok |-> TRUE, res |-> << >>]
            [] i <= Len(src) /\ src[i] = "%" ->
                  IF i + 2 > Len(src) \/ ~({src[i + 1], src[i + 2]} \subseteq HexDigits)
                  THEN [from[i + 1] EXCEPT !.res = <<"%">> \o @]
                  ELSE [from[i + 3] EXCEPT !.res = <<Byte(src[i + 1], src[i + 2])>> \o @]
            [] OTHER ->
                  [from[i + 1] EXCEPT !.res =
                      <<IF src[i] = "+" /\ space THEN " " ELSE src[i]>> \o @]
    IN  from[1]

decode_percent(src, slash, space) ==
    LET from[i \in 1 .. Len(src) + 1] ==
          CASE i > Len(src) -> [ok |-> TRUE, res |-> << >>]
            [] i <= Len(src) /\ src[i] = "%" ->
                  IF i + 2 > Len(src) \/ ~({src[i + 1], src[i + 2]} \subseteq HexDigits)
                  THEN [ok |-> FALSE, res |-> << >>]
                  ELSE LET byte == Byte(src[i + 1], src[i + 2])
                       IN  [from[i + 3] EXCEPT !.res =
                              (IF byte = "/" /\ ~slash THEN SubSeq(src, i, i + 2)
                               ELSE <<byte>>) \o @]
            [] OTHER ->
                  [from[i + 1] EXCEPT !.res =
                      <<IF src[i] = "+" /\ space THEN " " ELSE src[i]>> \o @]
    IN  from[1]

decode_path(seg) == decode_percent(seg, TRUE, FALSE).res

decode_query(src) ==
    LET d == decode_percent(src, TRUE, TRUE)
    IN  IF d.ok THEN d.res ELSE << >>

-----------------------------------------------------------------------------
\* The pieces of s between the occurrences of ch, empty ones too.
Split(s, ch) ==
    LET upto[n \in 0 .. Len(s)] ==
          IF n = 0 THEN << << >> >>
          ELSE LET parts == upto[n - 1]
               IN  IF s[n] = ch THEN Append(parts, << >>)
                   ELSE [parts EXCEPT ![Len(parts)] = Append(@, s[n])]
    IN  upto[Len(s)]

Join(parts, ch) ==
    LET upto[n \in 1 .. Len(parts)] ==
          IF n = 1 THEN parts[1] ELSE upto[n - 1] \o <<ch>> \o parts[n]
    IN  upto[Len(parts)]

\* The position of the first ch in s, Len(s) + 1 if there is none.
Find(s, ch) == SelectInSeq(Append(s, ch), LAMBDA x : x = ch)

parse_path(raw_path) ==
    LET segments == Split(raw_path, "/")
    IN  Join([i \in DOMAIN segments |-> decode_path(segments[i])], "/")

\* One token of the query: the first "=" separates key and value.
Param(token) ==
    LET e == Find(token, "=")
    IN  <<decode_query(SubSeq(token, 1, e - 1)),
          decode_query(SubSeq(token, e + 1, Len(token)))>>

\* The tokenizer drops empty tokens.
tokenize(s, ch) ==
    LET parts == Split(s, ch)
        upto[n \in 0 .. Len(parts)] ==
          IF n = 0 THEN << >>
          ELSE IF parts[n] = << >> THEN upto[n - 1] ELSE Append(upto[n - 1], parts[n])
    IN  upto[Len(parts)]

parse_query(raw_query) ==
    LET tokens == tokenize(raw_query, "&")
    IN  [i \in DOMAIN tokens |-> Param(tokens[i])]

\* parse() and parse_i(), on a cleared HTTP_URI.
parse(tgt) ==
    LET q         == Find(tgt, "?")
        raw_path  == SubSeq(tgt, 1, q - 1)
        raw_query == SubSeq(tgt, q + 1, Len(tgt))
    IN  [target       |-> tgt,
         raw_path     |-> raw_path,
         decoded_path |-> parse_path(raw_path),
         raw_query    |-> raw_query,
         query_params |-> parse_query(raw_query)]
=============================================================================
