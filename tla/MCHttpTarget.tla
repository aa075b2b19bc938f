---------------------------- MODULE MCHttpTarget ----------------------------
(***************************************************************************)
(* From the text of a request's target to its handler: HttpRouter with     *)
(* small configurations and all short targets, HTTP_URI_Parser against the *)
(* encoding it undoes, and path_normalize against what a path means.  The  *)
(* last two are functions: they are called once, on every input.           *)
(***************************************************************************)
EXTENDS HttpRouter

CONSTANTS
    MaxEntries,     \* bound: entries of handler.conf
    MaxTarget,      \* bound: characters of a target's path
    MaxSegment,     \* bound: characters in a path segment
    MaxField,       \* bound: characters in a key or a value
    MaxParts,       \* bound: segments of a path, parameters of a query
    MaxRaw,         \* bound: characters in a raw text
    MaxTokens       \* bound: texts between the separators of a path

ASSUME BoundAssumption == MaxTokens \in Nat

VARIABLES
    input,  \* what parse or path_normalize was called with, or None
    uri,    \* the HTTP_URI that parse made of input
    path    \* the path that path_normalize made of input

Normal == INSTANCE PathNormalize WITH Empty <- << >>, Dot <- <<".">>, DotDot <- <<".", ".">>

-----------------------------------------------------------------------------
(***************************************************************************)
(* Configurations and targets.                                             *)
(***************************************************************************)
MCRegistered == {"Echo", "Reader"}

MCMethods == {"get", "delete", "head"}

MCImplements == [n \in MCRegistered |-> IF n = "Echo" THEN {"get", "delete"} ELSE {"get"}]

RoutePaths == {<<"/">>, <<"/", "x">>, <<"/", "x", "/">>, <<"/", "x", "/", "x">>,
               <<"/", "x", "x">>, <<"x">>, << >>}

Entries == {Invalid} \cup [path : RoutePaths, handler : MCRegistered]
             \cup [path : {<<"/">>, <<"/", "x">>}, handler : {"Unknown"}]

MCAddresses == {"127.0.0.1", "0.0.0.0"}

MCGlobals == {NotObject} \cup [host : MCAddresses \cup {"localhost", Invalid},
                               port : {80, 65535, 65536, 65616, Invalid}]

MCPlain == [host |-> Invalid, port |-> Invalid]

MCConfigs == {NotArray, BrokenArray} \cup UNION {[1 .. n -> Entries] : n \in 0 .. MaxEntries}

\* Every short path, and some with an escaped slash or with a query.
MCTargets ==
    UNION {[1 .. n -> {"/", "x"}] : n \in 0 .. MaxTarget}
      \cup {<<"/", "x", "%", "2", "F", "x">>, <<"/", "x", "%", "2">>,
            <<"/", "x", "?", "/", "x">>, <<"?", "x">>}

-----------------------------------------------------------------------------
(***************************************************************************)
(* Targets built from what the client means, with every choice of escaping *)
(* that RFC 3986 and form encoding leave it, and raw texts with malformed  *)
(* escapes.                                                                *)
(***************************************************************************)
Escaped(c) == [means |-> c, as |-> <<"%">> \o Code[c]]

Literal(c) == [means |-> c, as |-> <<c>>]

PathChars == {Escaped(c) : c \in {"x", "+", "/", "%"}} \cup {Literal("x"), Literal("+")}

KeyChars == {Escaped(c) : c \in {"&", "=", "+", " "}}
              \cup {Literal("x"), [means |-> " ", as |-> <<"+">>]}

ValueChars == KeyChars \cup {Literal("=")}

Texts(chars, n) == UNION {[1 .. m -> chars] : m \in 0 .. n}

Meaning(t) == [i \in DOMAIN t |-> t[i].means]

Encoding(t) == FlattenSeq([i \in DOMAIN t |-> t[i].as])

Params == Texts(KeyChars, MaxField) \X Texts(ValueChars, MaxField)

\* One segment or more after the leading slash.
PathInputs ==
    LET segs == Texts(PathChars, MaxSegment)
        input_of(s) ==
            LET all == << << >> >> \o s
            IN  [target |-> Join([i \in DOMAIN all |-> Encoding(all[i])], "/"),
                 path   |-> Join([i \in DOMAIN all |-> Meaning(all[i])], "/"),
                 params |-> << >>]
    IN  {input_of(s) : s \in UNION {[1 .. n -> segs] : n \in 1 .. MaxParts}}

\* One parameter or more after "/x?", a stray "&" among them.
QueryInputs ==
    LET shown(p)     == Encoding(p[1]) \o <<"=">> \o Encoding(p[2])
        meant(p)     == <<Meaning(p[1]), Meaning(p[2])>>
        input_of(ps) ==
            [target |-> <<"/", "x", "?", "&">>
                          \o Join([i \in DOMAIN ps |-> shown(ps[i])], "&"),
             path   |-> <<"/", "x">>,
             params |-> [i \in DOMAIN ps |-> meant(ps[i])]]
    IN  {input_of(ps) : ps \in UNION {[1 .. n -> Params] : n \in 1 .. MaxParts}}

Raws == UNION {[1 .. n -> {"%", "2", "F", "x"}] : n \in 0 .. MaxRaw}

\* A raw text as the only path segment and as the only value.
RawInputs == {[target |-> <<"/">> \o r \o <<"?", "x", "=">> \o r, raw |-> r] : r \in Raws}

-----------------------------------------------------------------------------
Tokens == {<< >>, <<".">>, <<".", ".">>, <<"x">>, <<"y">>}

Paths == UNION {[1 .. n -> Tokens] : n \in 1 .. MaxTokens}

MCInit == Init /\ input = None /\ uri = None /\ path = None

Parse ==
    /\ uri = None /\ path = None /\ phase = "starting"
    /\ \E i \in PathInputs \cup QueryInputs \cup RawInputs :
          input' = i /\ uri' = parse(i.target)
    /\ UNCHANGED <<vars, path>>

Normalize ==
    /\ uri = None /\ path = None /\ phase = "starting"
    /\ \E p \in Paths : input' = [given |-> p] /\ path' = Normal!path_normalize(p)
    /\ UNCHANGED <<vars, uri>>

\* dispatch reads routes and factory: one request to each of them is enough, and
\* one file of routes to each file of settings.
Route ==
    /\ input = None
    /\ \/ \E log \in BOOLEAN, g \in Globals, file \in {NotArray, BrokenArray, << >>} :
             init(log, g, file)
       \/ \E file \in Configs : init(TRUE, MCPlain, file)
       \/ main
       \/ reply = None /\ \E t \in Targets, m \in Methods, k \in BOOLEAN : dispatch(t, m, k)
       \/ phase = "serving" /\ reply = None /\ \E name \in Registered : unregister_handler(name)
    /\ UNCHANGED <<input, uri, path>>

MCNext == Parse \/ Normalize \/ Route

MCSpec == MCInit /\ [][MCNext]_<<vars, input, uri, path>>

-----------------------------------------------------------------------------
\* The longest prefix of r that decodes without a malformed escape.
GoodPrefix(r) ==
    CHOOSE p \in Prefixes(r) :
        /\ decode_percent(p, TRUE, TRUE).ok
        /\ \A o \in Prefixes(r) : decode_percent(o, TRUE, TRUE).ok => Len(o) <= Len(p)

(***************************************************************************)
(* Whatever characters the client chose to escape, decoded_path is the     *)
(* path it meant, a slash inside a segment included, and the parameters    *)
(* come out as meant, in order, duplicates included: "&" and "=" in        *)
(* escapes do not separate, "=" after the first belongs to the value, "+"  *)
(* is a space, empty tokens are dropped.  A malformed escape cuts its path *)
(* segment there and empties its value: nothing after it is decoded, and   *)
(* no "%" of it is kept (parse_path, parse_query, decode_percent).  The    *)
(* path is decoded and nothing else: empty segments stay, so it is not     *)
(* normalized (DecodedPathIsNormalized is false).                          *)
(***************************************************************************)
DecodesAsMeant ==
    uri # None =>
        \/ /\ "path" \in DOMAIN input
           /\ uri.decoded_path = input.path
           /\ uri.query_params = input.params
        \/ /\ "raw" \in DOMAIN input
           /\ LET good == GoodPrefix(input.raw)
              IN  /\ uri.decoded_path = <<"/">> \o decode_path(good)
                  /\ uri.query_params[1][2] =
                        IF good = input.raw THEN decode_query(good) ELSE << >>
                  /\ good # input.raw => input.raw[Len(good) + 1] = "%"
                  /\ \A i \in DOMAIN uri.decoded_path : uri.decoded_path[i] # "%"

(***************************************************************************)
(* What http_uri.h says of decoded_path, "normalized", in the words of     *)
(* path_normalize.h: no ".", no ".." and no consecutive separators.  (A    *)
(* separator at the end may stay, as the parser's tests ask.)  The code    *)
(* doesn't ensure it: parse_path only decodes.                             *)
(***************************************************************************)
DecodedPathIsNormalized ==
    uri # None =>
        LET segments == Split(uri.decoded_path, "/")
        IN  \A i \in 2 .. Len(segments) :
               /\ segments[i] \notin {<<".">>, <<".", ".">>}
               /\ segments[i] = << >> => i = Len(segments)

(***************************************************************************)
(* The working directory, deep enough that no path climbs out of it, and   *)
(* the directory that a walk along p reaches: ".." goes up and stays at    *)
(* the root.                                                               *)
(***************************************************************************)
Cwd == [i \in 1 .. MaxTokens |-> "cwd"]

Walk(p) ==
    LET at[n \in 0 .. Len(p)] ==
          IF n = 0 THEN IF Normal!is_absolute(p) THEN << >> ELSE Cwd
          ELSE LET d == at[n - 1]
               IN  CASE p[n] \in {<< >>, <<".">>} -> d
                     [] p[n] = <<".", ".">> -> IF d = << >> THEN d ELSE Front(d)
                     [] OTHER -> Append(d, p[n])
    IN  at[Len(p)]

IsNormal(p) ==
    \/ p \in {<< << >> >>, << << >>, << >> >>}
    \/ LET body == IF Normal!is_absolute(p) THEN Tail(p) ELSE p
       IN  \A i \in DOMAIN body :
              /\ body[i] \notin {<< >>, <<".">>}
              /\ body[i] = <<".", ".">> => ~Normal!is_absolute(p) /\ \A j \in 1 .. i : body[j] = <<".", ".">>

(***************************************************************************)
(* Normalising a path never changes the directory it leads to, nor whether *)
(* it is absolute.  The result is in normal form: no "." and no empty      *)
(* component, and ".." only as the leading components of a relative path.  *)
(* Normalising it again changes nothing.                                   *)
(***************************************************************************)
NormalFormOfSamePath ==
    path # None =>
        /\ Walk(path) = Walk(input.given)
        /\ Normal!is_absolute(path) = Normal!is_absolute(input.given)
        /\ IsNormal(path)
        /\ Normal!path_normalize(path) = path
=============================================================================
