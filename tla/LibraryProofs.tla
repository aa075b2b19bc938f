--------------------------- MODULE LibraryProofs ---------------------------
(***************************************************************************)
(* Proofs about CURL_Client, Pending_Q, string_sprintf and LRU: for any    *)
(* requests, jobs, strings, sizes of the buffer, keys and capacities.      *)
(***************************************************************************)
EXTENDS MCLibrary, SequenceTheorems, FiniteSetTheorems, TLAPS

-----------------------------------------------------------------------------
(***************************************************************************)
(* CURL_Client.  Between the last option and the transfer the response is  *)
(* the cleared one (Cleaned); the rest is what is to be shown.             *)
(***************************************************************************)
CurlTypes ==
    /\ b \in Nat
    /\ c \in Requests
    /\ d \in Responses
    /\ e \in [Responses -> [status : Nat, from : SUBSET Nat]]

Cleaned == f = "perform" => e[d] = [status |-> 0, from |-> {}]

CurlInv == CurlTypes /\ Cleaned /\ C!PerformsThisRequest /\ C!ResponseIsOfOneSend

LEMMA CurlSend ==
    ASSUME CurlInv, NEW q \in Requests, NEW r \in Responses, C!send(q, r)
    PROVE  CurlInv'
<1>1. q.headers \in Nat /\ q.follow_redirects \in BOOLEAN
  BY LibraryAssumption
<1>2. b' = b + 1 /\ c' = q /\ d' = r /\ f' = "perform" /\ b' \in Nat
      /\ e' = [e EXCEPT ![r] = [status |-> 0, from |-> {}]]
  BY DEF C!send, C!clear, CurlInv, CurlTypes
<1>3. CurlTypes' /\ Cleaned'
  BY <1>2 DEF CurlInv, CurlTypes, Cleaned
<1> DEFINE h1 == [C!Cleared EXCEPT !.method = q.method]
           h2 == C!setup_common_options(h1, q, r)
<1>4. PICK rest \in 0 .. q.headers :
         a' = [C!setup_headers(h2, b', rest)
                 EXCEPT !.post = IF q.method = "POST" THEN b' ELSE @, !.errbuf = b']
  BY DEF C!send, C!curl_easy_reset
<1> DEFINE options == {"open", "method", "target", "agent", "redirect", "verify_peer",
                       "verify_host", "headers", "list", "post", "errbuf", "sink"}
<1>a. h2.method = q.method /\ h2.post = 0 /\ h2.sink = r
      /\ h2.target = q.target /\ h2.agent = q.user_agent
      /\ h2.redirect = (q.follow_redirects \/ FALSE)
      /\ h2.verify_peer = TRUE /\ h2.verify_host = TRUE
      /\ DOMAIN h2 = options
  <2>1. DOMAIN h1 = options
    BY DEF C!Cleared
  <2>2. h1.method = q.method /\ h1.post = 0 /\ h1.agent = ""
    BY DEF C!Cleared
  <2>3. h1.redirect = FALSE
    BY DEF C!Cleared
  <2>4. h1.verify_peer = TRUE
    BY DEF C!Cleared
  <2>5. h1.verify_host = TRUE
    BY DEF C!Cleared
  <2> HIDE DEF h1
  <2>6. DOMAIN h2 = options
    BY <2>1 DEF C!setup_common_options
  <2>7. h2.method = q.method /\ h2.post = 0 /\ h2.sink = r
    BY <2>1, <2>2 DEF C!setup_common_options
  <2>8. h2.target = q.target /\ h2.agent = q.user_agent
    BY <2>1, <2>2 DEF C!setup_common_options
  <2>9. h2.redirect = (q.follow_redirects \/ FALSE)
    BY <2>1, <2>3 DEF C!setup_common_options
  <2>10. h2.verify_peer = TRUE
    BY <2>1, <2>4 DEF C!setup_common_options
  <2>11. h2.verify_host = TRUE
    BY <2>1, <2>5 DEF C!setup_common_options
  <2> HIDE DEF h2
  <2> QED
    BY <2>6, <2>7, <2>8, <2>9, <2>10, <2>11
<1>b. (q.follow_redirects \/ FALSE) = q.follow_redirects
  BY <1>1
<1>c. a'.method = q.method /\ a'.target = q.target /\ a'.agent = q.user_agent
      /\ a'.redirect = q.follow_redirects /\ a'.verify_peer /\ a'.verify_host
      /\ a'.headers = rest /\ a'.list = (IF rest = 0 THEN 0 ELSE b')
      /\ a'.post = (IF q.method = "POST" THEN b' ELSE 0) /\ a'.errbuf = b' /\ a'.sink = r
  <2> HIDE DEF h2
  <2> QED
    BY <1>4, <1>a, <1>b DEF C!setup_headers
<1>5. C!PerformsThisRequest'
  BY <1>1, <1>2, <1>c DEF C!PerformsThisRequest
<1>6. C!ResponseIsOfOneSend'
  BY <1>2 DEF C!ResponseIsOfOneSend, CurlInv, CurlTypes
<1> QED
  BY <1>3, <1>5, <1>6 DEF CurlInv

LEMMA CurlPerform ==
    ASSUME CurlInv, C!perform_request
    PROVE  CurlInv'
<1>1. f = "perform" /\ f' = "idle" /\ UNCHANGED <<a, b, c, d>>
  BY DEF C!perform_request
<1>2. a.sink = d /\ e[d] = [status |-> 0, from |-> {}] /\ d \in Responses /\ b \in Nat
      /\ e \in [Responses -> [status : Nat, from : SUBSET Nat]]
  BY <1>1 DEF CurlInv, CurlTypes, Cleaned, C!PerformsThisRequest
<1>3. \/ e' = [e EXCEPT ![d] = [status |-> b, from |-> {b}]]
      \/ e' = [e EXCEPT ![d] = [status |-> 0, from |-> {b}]]
      \/ e' = e
  BY <1>2 DEF C!perform_request
<1>4. CurlTypes' /\ Cleaned' /\ C!PerformsThisRequest'
  BY <1>1, <1>2, <1>3 DEF CurlInv, CurlTypes, Cleaned, C!PerformsThisRequest
<1>5. C!ResponseIsOfOneSend'
  BY <1>2, <1>3 DEF CurlInv, C!ResponseIsOfOneSend
<1> QED
  BY <1>4, <1>5 DEF CurlInv

LEMMA CurlStep ==
    ASSUME CurlInv, C!Next \/ UNCHANGED places
    PROVE  CurlInv'
<1>1. CASE UNCHANGED places
  BY <1>1 DEF places, CurlInv, CurlTypes, Cleaned, C!PerformsThisRequest, C!ResponseIsOfOneSend
<1>2. CASE C!Cleanup
  <2>1. f = "idle" /\ UNCHANGED <<b, c, d, e, f>>
    BY <1>2 DEF C!Cleanup
  <2> QED
    BY <2>1 DEF CurlInv, CurlTypes, Cleaned, C!PerformsThisRequest, C!ResponseIsOfOneSend
<1> QED
  BY <1>1, <1>2, CurlSend, CurlPerform DEF C!Next

LEMMA CurlInit == ASSUME C!Init PROVE CurlInv
  BY DEF C!Init, CurlInv, CurlTypes, Cleaned, C!PerformsThisRequest, C!ResponseIsOfOneSend

LEMMA CurlInvariant == LibrarySpec => [](part = "curl" => CurlInv)
<1> DEFINE Inv == part = "curl" => CurlInv
<1>1. LibraryInit => Inv
  BY CurlInit DEF LibraryInit
<1>2. Inv /\ [LibraryNext]_places => Inv'
  BY CurlStep DEF LibraryNext, places
<1> QED
  BY <1>1, <1>2, PTL DEF LibrarySpec, places

(***************************************************************************)
(* Whatever a handle sent before, libcurl performs this request and writes *)
(* to this response, and verifies certificates also for a request that     *)
(* asks not to: LibrarySpec => []PerformsThisRequest.                      *)
(***************************************************************************)
THEOREM HandlesCarryNothingOver == LibrarySpec => []PerformsThisRequest
<1>1. (part = "curl" => CurlInv) => PerformsThisRequest
  BY DEF CurlInv, PerformsThisRequest
<1> QED
  BY <1>1, CurlInvariant, PTL

(***************************************************************************)
(* A response that is used again holds one transfer, whatever failed:      *)
(* LibrarySpec => []ResponseIsOfOneSend.                                   *)
(***************************************************************************)
THEOREM ResponsesAreNotMixed == LibrarySpec => []ResponseIsOfOneSend
<1>1. (part = "curl" => CurlInv) => ResponseIsOfOneSend
  BY DEF CurlInv, ResponseIsOfOneSend
<1> QED
  BY <1>1, CurlInvariant, PTL

-----------------------------------------------------------------------------
(***************************************************************************)
(* Pending_Q.  Besides what is to be shown: between front() and pop() the  *)
(* consumer has seen the head, which no push moves and nobody else pops.   *)
(***************************************************************************)
Popped == [job : Jobs, checked : Seq(Jobs)]

Out(s) == [i \in DOMAIN s |-> s[i].job]

QueueTypes ==
    /\ a \in Seq(Jobs)
    /\ b \in [Consumers -> {"empty", "front", "pop"}]
    /\ c \in [Consumers -> Seq(Jobs)]
    /\ e \in Seq(Popped)

SeenIsHead == \A k \in Consumers : b[k] = "pop" => c[k] = <<Head(a)>>

QueueInv == QueueTypes /\ SeenIsHead /\ Q!PopsWhatItChecked

LEMMA AppendMoves ==
    \A s, t \in Seq(Jobs) : \A x \in Jobs : Append(s \o t, x) = s \o Append(t, x)
  OBVIOUS

LEMMA HeadMoves ==
    \A s, t \in Seq(Jobs) : t # << >> => Append(s, Head(t)) \o Tail(t) = s \o t
  OBVIOUS

LEMMA OutIsSeq == \A s \in Seq(Popped) : Out(s) \in Seq(Jobs)
<1> TAKE s \in Seq(Popped)
<1>1. \A i \in 1 .. Len(s) : s[i].job \in Jobs
  <2> TAKE i \in 1 .. Len(s)
  <2>1. s[i] \in Popped
    OBVIOUS
  <2> QED
    BY <2>1 DEF Popped
<1>2. Len(s) \in Nat /\ Out(s) = [i \in 1 .. Len(s) |-> s[i].job]
  BY DEF Out
<1> QED
  BY <1>1, <1>2, IsASeq

LEMMA OutAppend ==
    \A s \in Seq(Popped), r \in Popped : Out(Append(s, r)) = Append(Out(s), r.job)
  BY DEF Out, Popped

LEMMA HeadStays ==
    \A s \in Seq(Jobs), x \in Jobs : s # << >> => Head(Append(s, x)) = Head(s)
  OBVIOUS

LEMMA QueuePush ==
    ASSUME QueueInv, NEW pj \in Jobs, Q!push(pj)
    PROVE  QueueInv'
<1>1. a' = Append(a, pj) /\ d' = Append(d, pj) /\ UNCHANGED <<b, c, e>>
  BY DEF Q!push
<1>2. a \in Seq(Jobs) /\ a' \in Seq(Jobs) /\ a' # << >> /\ Out(e) \in Seq(Jobs)
  BY <1>1, OutIsSeq, AppendProperties DEF QueueInv, QueueTypes
<1>3. QueueTypes'
  BY <1>1, <1>2 DEF QueueInv, QueueTypes
<1>4. SeenIsHead'
  BY <1>1, <1>2, HeadStays DEF QueueInv, SeenIsHead, Q!PopsWhatItChecked
<1>5. d = Out(e) \o a
  BY DEF QueueInv, Q!PopsWhatItChecked, Out
<1>6. d' = Out(e) \o a'
  BY <1>1, <1>2, <1>5, AppendMoves, Zenon
<1>7. Q!PopsWhatItChecked'
  BY <1>1, <1>2, <1>6 DEF QueueInv, Q!PopsWhatItChecked, Out
<1> QED
  BY <1>3, <1>4, <1>7 DEF QueueInv

LEMMA QueuePop ==
    ASSUME QueueInv, NEW k \in Consumers, Q!pop(k)
    PROVE  QueueInv'
<1> DEFINE r == [job |-> Head(a), checked |-> c[k]]
<1>1. b[k] = "pop" /\ a # << >> /\ e' = Append(e, r) /\ a' = Tail(a) /\ d' = d
      /\ b' = [b EXCEPT ![k] = "empty"] /\ c' = [c EXCEPT ![k] = << >>]
  BY DEF Q!pop
<1>2. Consumers = {k}
  BY LibraryAssumption
<1>3. a \in Seq(Jobs) /\ e \in Seq(Popped) /\ Out(e) \in Seq(Jobs) /\ Head(a) \in Jobs
      /\ Tail(a) \in Seq(Jobs)
  BY <1>1, OutIsSeq, HeadTailProperties DEF QueueInv, QueueTypes
<1>4. r \in Popped /\ r.checked = <<r.job>> /\ r.job = Head(a)
  BY <1>1, <1>3 DEF QueueInv, QueueTypes, SeenIsHead, Popped
<1> HIDE DEF r
<1>5. e' \in Seq(Popped) /\ Len(e') = Len(e) + 1 /\ e'[Len(e) + 1] = r
      /\ \A i \in 1 .. Len(e) : e'[i] = e[i]
  BY <1>1, <1>3, <1>4, AppendProperties
<1>6. QueueTypes'
  BY <1>1, <1>3, <1>5 DEF QueueInv, QueueTypes
<1>7. \A j \in Consumers : b'[j] = "empty"
  BY <1>1, <1>2 DEF QueueInv, QueueTypes
<1>8. SeenIsHead'
  BY <1>7 DEF SeenIsHead
<1>9. \A i \in DOMAIN e' : e'[i].checked = <<e'[i].job>>
  <2>1. \A i \in DOMAIN e : e[i].checked = <<e[i].job>>
    BY DEF QueueInv, Q!PopsWhatItChecked
  <2> SUFFICES ASSUME NEW i \in DOMAIN e'
               PROVE  e'[i].checked = <<e'[i].job>>
    OBVIOUS
  <2>2. (i \in DOMAIN e /\ e'[i] = e[i]) \/ e'[i] = r
    BY <1>3, <1>5
  <2> QED
    BY <1>4, <2>1, <2>2, Zenon
<1>10. Out(e') = Append(Out(e), Head(a))
  BY <1>1, <1>3, <1>4, OutAppend, Zenon
<1>11. d = Out(e) \o a
  BY DEF QueueInv, Q!PopsWhatItChecked, Out
<1>12. d' = Out(e') \o a'
  BY <1>1, <1>3, <1>10, <1>11, HeadMoves, Zenon
<1>13. Q!PopsWhatItChecked'
  BY <1>7, <1>9, <1>12 DEF Q!PopsWhatItChecked, Out
<1> QED
  BY <1>6, <1>8, <1>13 DEF QueueInv

LEMMA QueueStep ==
    ASSUME QueueInv, Q!Next \/ UNCHANGED places
    PROVE  QueueInv'
<1>1. CASE UNCHANGED places
  BY <1>1 DEF places, QueueInv, QueueTypes, SeenIsHead, Q!PopsWhatItChecked
<1>2. ASSUME NEW k \in Consumers, Q!empty(k)
      PROVE  QueueInv'
  BY <1>2 DEF Q!empty, QueueInv, QueueTypes, SeenIsHead, Q!PopsWhatItChecked
<1>3. ASSUME NEW k \in Consumers, Q!front(k)
      PROVE  QueueInv'
  <2>1. a # << >> /\ UNCHANGED <<a, d, e>>
        /\ \/ b' = [b EXCEPT ![k] = "pop"] /\ c' = [c EXCEPT ![k] = <<Head(a)>>]
           \/ b' = [b EXCEPT ![k] = "empty"] /\ c' = c
    BY <1>3 DEF Q!front
  <2>2. <<Head(a)>> \in Seq(Jobs)
    BY <2>1, HeadTailProperties DEF QueueInv, QueueTypes
  <2>3. QueueTypes'
    BY <2>1, <2>2 DEF QueueInv, QueueTypes
  <2>4. SeenIsHead'
    BY <2>1 DEF QueueInv, QueueTypes, SeenIsHead
  <2>5. Q!PopsWhatItChecked'
    BY <2>1 DEF QueueInv, Q!PopsWhatItChecked
  <2> QED
    BY <2>3, <2>4, <2>5 DEF QueueInv
<1> QED
  BY <1>1, <1>2, <1>3, QueuePush, QueuePop DEF Q!Next

LEMMA QueueInit == ASSUME Q!Init PROVE QueueInv
<1>1. a = << >> /\ d = << >> /\ e = << >> /\ b = [k \in Consumers |-> "empty"]
      /\ c = [k \in Consumers |-> << >>]
  BY DEF Q!Init
<1>2. QueueTypes /\ SeenIsHead
  BY <1>1 DEF QueueTypes, SeenIsHead
<1>3. d = [i \in DOMAIN e |-> e[i].job] \o a
  BY <1>1
<1>4. Q!PopsWhatItChecked
  BY <1>1, <1>3 DEF Q!PopsWhatItChecked
<1> QED
  BY <1>2, <1>4 DEF QueueInv

(***************************************************************************)
(* With one consumer, and however many threads push between its calls,     *)
(* empty(), front() and pop() act as one:                                  *)
(* LibrarySpec => []PopsWhatItChecked.                                     *)
(***************************************************************************)
THEOREM ThreeCallsActAsOne == LibrarySpec => []PopsWhatItChecked
<1> DEFINE Inv == part = "queue" => QueueInv
<1>1. LibraryInit => Inv
  BY QueueInit DEF LibraryInit
<1>2. Inv /\ [LibraryNext]_places => Inv'
  BY QueueStep DEF LibraryNext, places
<1>3. Inv => PopsWhatItChecked
  BY DEF QueueInv, PopsWhatItChecked
<1> QED
  BY <1>1, <1>2, <1>3, PTL DEF LibrarySpec, places

-----------------------------------------------------------------------------
(***************************************************************************)
(* string_vsprintf.  While it has no result, the caller's text is still    *)
(* there (Kept), and after one round the buffer holds the text and its NUL *)
(* (Grown): the second round always fits.                                  *)
(***************************************************************************)
SprintfTypes == a \in Seq(Int) /\ b \in Seq(Int) /\ c \in BOOLEAN /\ d \in Nat /\ e \in 0 .. 2

Kept ==
    f = << >> => S!pos <= Len(a) /\ \A i \in 1 .. S!pos : a[i] = b[i]

Grown ==
    /\ e = 1 /\ f = << >> => Len(a) = S!pos + d + 1
    /\ e = 2 => f # << >>

SprintfInv == SprintfTypes /\ Kept /\ Grown /\ S!FormatsWhole

LEMMA PosInBefore ==
    ASSUME SprintfTypes
    PROVE  S!pos \in 0 .. Len(b)
  BY DEF SprintfTypes, S!pos

LEMMA Resized ==
    ASSUME NEW s \in Seq(Int), NEW n \in Nat
    PROVE  /\ S!resize(s, n) \in Seq(Int)
           /\ Len(S!resize(s, n)) = n
           /\ \A i \in 1 .. n : i <= Len(s) => S!resize(s, n)[i] = s[i]
<1>1. S!resize(s, n) = [i \in 1 .. n |-> IF i <= Len(s) THEN s[i] ELSE 0]
  BY DEF S!resize, S!NUL
<1>2. \A i \in 1 .. n : (IF i <= Len(s) THEN s[i] ELSE 0) \in Int
  OBVIOUS
<1> QED
  BY <1>1, <1>2, IsASeq

\* What vsnprintf leaves in the buffer: the caller's text, then what fits.
LEMMA Printed ==
    ASSUME SprintfTypes, NEW s \in Seq(Int), NEW size \in Nat \ {0}, Len(s) = S!pos + size
    PROVE  /\ S!vsnprintf(s, size) \in Seq(Int)
           /\ Len(S!vsnprintf(s, size)) = S!pos + size
           /\ \A i \in 1 .. S!pos : S!vsnprintf(s, size)[i] = s[i]
           /\ d < size => \A i \in S!pos + 1 .. S!pos + d :
                              S!vsnprintf(s, size)[i] = i - S!pos
<1> DEFINE n == IF d < size - 1 THEN d ELSE size - 1
           p == S!pos
           v(i) == IF i \in p + 1 .. p + n THEN i - p ELSE IF i = p + n + 1 THEN 0 ELSE s[i]
<1>1. p \in Nat /\ n \in Nat /\ d \in Nat /\ (d < size => n = d)
  BY PosInBefore DEF SprintfTypes
<1>2. S!vsnprintf(s, size) = [i \in 1 .. p + size |-> v(i)]
  BY <1>1 DEF S!vsnprintf, S!Least, S!NUL
<1> HIDE DEF p, n
<1>3. \A i \in 1 .. p + size : v(i) \in Int
  BY <1>1 DEF p
<1>4. S!vsnprintf(s, size) \in Seq(Int) /\ Len(S!vsnprintf(s, size)) = p + size
  BY <1>1, <1>2, <1>3, IsASeq
<1>5. \A i \in 1 .. p : S!vsnprintf(s, size)[i] = s[i]
  BY <1>1, <1>2
<1>6. d < size => \A i \in p + 1 .. p + d : S!vsnprintf(s, size)[i] = i - p
  BY <1>1, <1>2
<1> QED
  BY <1>4, <1>5, <1>6 DEF p

\* A sequence that starts with s and goes on with the text is s and the text.
LEMMA IsKept ==
    ASSUME NEW s \in Seq(Int), NEW t \in Seq(Int), Len(s) <= Len(t),
           \A i \in 1 .. Len(s) : s[i] = t[i]
    PROVE  s = SubSeq(t, 1, Len(s))
  OBVIOUS

LEMMA IsKeptAndText ==
    ASSUME NEW s \in Seq(Int), NEW t \in Seq(Int), NEW p \in 0 .. Len(t), NEW n \in Nat,
           Len(s) = p + n,
           \A i \in 1 .. p : s[i] = t[i],
           \A i \in p + 1 .. p + n : s[i] = i - p
    PROVE  s = SubSeq(t, 1, p) \o S!Text(n)
<1> DEFINE k == SubSeq(t, 1, p)
           x == S!Text(n)
<1>1. k \in Seq(Int) /\ Len(k) = p /\ \A i \in 1 .. p : k[i] = t[i]
  OBVIOUS
<1>2. x \in Seq(Int) /\ Len(x) = n /\ \A i \in 1 .. n : x[i] = i
  BY DEF S!Text
<1> HIDE DEF k, x
<1>3. /\ k \o x \in Seq(Int)
      /\ Len(k \o x) = Len(k) + Len(x)
      /\ \A i \in 1 .. Len(k) + Len(x) :
            (k \o x)[i] = IF i <= Len(k) THEN k[i] ELSE x[i - Len(k)]
  BY <1>1, <1>2, ConcatProperties
<1>4. ASSUME NEW i \in 1 .. p + n
      PROVE  s[i] = (k \o x)[i]
  <2>1. (k \o x)[i] = IF i <= p THEN k[i] ELSE x[i - p]
    BY <1>1, <1>2, <1>3, Zenon
  <2>2. p \in Nat
    OBVIOUS
  <2>3. \/ i \in 1 .. p /\ i <= p
        \/ i \in p + 1 .. p + n /\ i - p \in 1 .. n /\ ~(i <= p)
    BY <2>2
  <2> QED
    BY <1>1, <1>2, <2>1, <2>3, Zenon
<1>5. Len(s) = Len(k \o x) /\ \A i \in 1 .. Len(s) : s[i] = (k \o x)[i]
  BY <1>1, <1>2, <1>3, <1>4, Zenon
<1>6. s = k \o x
  BY <1>3, <1>5, SeqEqual, Zenon
<1> QED
  BY <1>6 DEF k, x

LEMMA SprintfRound ==
    ASSUME SprintfInv, S!Round
    PROVE  SprintfInv'
<1> DEFINE p    == S!pos
           tail == Len(a) - p
           size == IF tail < InitialSize THEN InitialSize ELSE tail
           s    == S!resize(a, p + size)
           out  == S!vsnprintf(s, size)
<1>1. f = << >> /\ e' = e + 1 /\ UNCHANGED <<b, c, d>>
  BY DEF S!Round
<1>2. \/ a' = S!resize(out, p) /\ f' = <<-1>>
      \/ d < size /\ a' = S!resize(out, p + d) /\ f' = <<Len(a')>>
      \/ ~(d < size) /\ a' = S!resize(out, p + d + 1) /\ f' = f
  BY DEF S!Round, S!Fits, S!Error
<1>3. p \in 0 .. Len(b) /\ a \in Seq(Int) /\ b \in Seq(Int) /\ d \in Nat /\ e \in 0 .. 1
      /\ p <= Len(a) /\ S!pos' = p
  BY <1>1, PosInBefore DEF SprintfInv, SprintfTypes, Kept, Grown, S!pos
<1>4. size \in Nat \ {0} /\ tail <= size /\ p + size \in Nat /\ p <= p + size
      /\ p + d \in Nat /\ p + d + 1 \in Nat /\ p \in Nat
  BY <1>3, LibraryAssumption
<1>5. e = 1 => d < size
  BY <1>1, <1>3, <1>4 DEF SprintfInv, Grown
<1>0. \A i \in 1 .. p : i \in 1 .. p + size /\ i \in 1 .. p + d + 1 /\ i \in 1 .. p + d
                          /\ i <= p + size /\ i <= Len(a)
  BY <1>3, <1>4
<1> HIDE DEF size, tail, p
<1>6. s \in Seq(Int) /\ Len(s) = p + size /\ \A i \in 1 .. p : s[i] = b[i]
  <2>1. s \in Seq(Int) /\ Len(s) = p + size
        /\ \A i \in 1 .. p + size : i <= Len(a) => s[i] = a[i]
    BY <1>3, <1>4, Resized
  <2>2. \A i \in 1 .. p : a[i] = b[i]
    BY <1>1 DEF SprintfInv, Kept, p
  <2> QED
    BY <1>0, <2>1, <2>2, Zenon
<1> HIDE DEF s
<1>7. out \in Seq(Int) /\ Len(out) = p + size /\ (\A i \in 1 .. p : out[i] = b[i])
      /\ (d < size => \A i \in p + 1 .. p + d : out[i] = i - p)
  <2>1. SprintfTypes /\ Len(s) = S!pos + size
    BY <1>6 DEF SprintfInv, p
  <2> QED
    BY <1>4, <1>6, <2>1, Printed DEF p
<1> HIDE DEF out
<1>8. CASE a' = S!resize(out, p) /\ f' = <<-1>>
  <2>0. a' \in Seq(Int) /\ Len(a') = p
        /\ \A i \in 1 .. p : i <= Len(out) => a'[i] = out[i]
    BY <1>4, <1>7, <1>8, Resized
  <2>1. a' \in Seq(Int) /\ Len(a') = p /\ \A i \in 1 .. p : a'[i] = b[i]
    BY <1>0, <1>7, <2>0, Zenon
  <2>2. a' = SubSeq(b, 1, p)
    BY <1>3, <2>1, IsKept
  <2>3. SprintfTypes' /\ Kept' /\ Grown'
    BY <1>1, <1>3, <1>8, <2>1 DEF SprintfInv, SprintfTypes, Kept, Grown
  <2>4. S!FormatsWhole'
    BY <1>1, <1>3, <1>8, <2>2 DEF S!FormatsWhole, S!Error
  <2> QED
    BY <2>3, <2>4 DEF SprintfInv
<1>9. CASE d < size /\ a' = S!resize(out, p + d) /\ f' = <<Len(a')>>
  <2>1. a' \in Seq(Int) /\ Len(a') = p + d
        /\ \A i \in 1 .. p + d : i <= Len(out) => a'[i] = out[i]
    BY <1>4, <1>7, <1>9, Resized
  <2>2. (\A i \in 1 .. p : a'[i] = b[i]) /\ \A i \in p + 1 .. p + d : a'[i] = i - p
    <3>1. \A i \in 1 .. p : a'[i] = b[i]
      BY <1>0, <1>7, <2>1, Zenon
    <3>2. \A i \in p + 1 .. p + d : i \in 1 .. p + d /\ i <= p + size
      BY <1>3, <1>4, <1>9
    <3>3. \A i \in p + 1 .. p + d : a'[i] = i - p
      BY <1>7, <1>9, <2>1, <3>2, Zenon
    <3> QED
      BY <3>1, <3>3
  <2>3. a' = SubSeq(b, 1, p) \o S!Text(d)
    BY <1>3, <2>1, <2>2, IsKeptAndText
  <2>4. SprintfTypes' /\ Kept' /\ Grown'
    BY <1>1, <1>3, <1>9, <2>1 DEF SprintfInv, SprintfTypes, Kept, Grown
  <2>5. S!FormatsWhole'
    BY <1>1, <1>3, <1>9, <2>3 DEF S!FormatsWhole
  <2> QED
    BY <2>4, <2>5 DEF SprintfInv
<1>10. CASE ~(d < size) /\ a' = S!resize(out, p + d + 1) /\ f' = f
  <2>1. e' = 1
    BY <1>1, <1>3, <1>5, <1>10
  <2>2. a' \in Seq(Int) /\ Len(a') = p + d + 1
        /\ \A i \in 1 .. p + d + 1 : i <= Len(out) => a'[i] = out[i]
    BY <1>4, <1>7, <1>10, Resized
  <2>3. \A i \in 1 .. p : a'[i] = b[i]
    BY <1>0, <1>7, <2>2, Zenon
  <2>4. SprintfTypes' /\ Kept' /\ Grown'
    BY <1>1, <1>3, <1>10, <2>1, <2>2, <2>3 DEF SprintfInv, SprintfTypes, Kept, Grown
  <2>5. S!FormatsWhole'
    BY <1>1, <1>10, <2>1 DEF S!FormatsWhole
  <2> QED
    BY <2>4, <2>5 DEF SprintfInv
<1> QED
  BY <1>2, <1>8, <1>9, <1>10

LEMMA SprintfInit == ASSUME S!Init PROVE SprintfInv
<1>1. a = b /\ c \in BOOLEAN /\ d \in 0 .. MaxText /\ e = 0 /\ f = << >>
  BY DEF S!Init
<1>2. PICK n \in 0 .. MaxOld : b = S!Old(n)
  BY DEF S!Init
<1>3. b \in Seq(Int)
  BY <1>2, LibraryAssumption, IsASeq DEF S!Old
<1>4. SprintfTypes
  BY <1>1, <1>3, LibraryAssumption DEF SprintfTypes
<1>5. Kept
  BY <1>1, <1>3, <1>4, PosInBefore DEF Kept
<1> QED
  BY <1>1, <1>4, <1>5 DEF SprintfInv, Grown, S!FormatsWhole

LEMMA SprintfStep ==
    ASSUME SprintfInv, S!Next \/ UNCHANGED places
    PROVE  SprintfInv'
<1>1. CASE UNCHANGED places
  BY <1>1 DEF places, SprintfInv, SprintfTypes, Kept, Grown, S!FormatsWhole, S!pos
<1> QED
  BY <1>1, SprintfRound DEF S!Next

(***************************************************************************)
(* string_vsprintf ends after one retry at most with the whole text, for   *)
(* every size of the buffer, the string and the text, and an append that   *)
(* fails leaves the string as it was: LibrarySpec => []FormatsWhole.       *)
(***************************************************************************)
THEOREM TheTextIsWhole == LibrarySpec => []FormatsWhole
<1> DEFINE Inv == part = "sprintf" => SprintfInv
<1>1. LibraryInit => Inv
  BY SprintfInit DEF LibraryInit
<1>2. Inv /\ [LibraryNext]_places => Inv'
  BY SprintfStep DEF LibraryNext, places
<1>3. Inv => FormatsWhole
  BY DEF SprintfInv, FormatsWhole
<1> QED
  BY <1>1, <1>2, <1>3, PTL DEF LibrarySpec, places

-----------------------------------------------------------------------------
(***************************************************************************)
(* LRU.  The list as the set of its nodes (In) and the order of two of     *)
(* them (Before): what the operations do to both is all the proof uses.    *)
(***************************************************************************)
In(s) == {s[i] : i \in DOMAIN s}

Before(s, m, n) == \E i, j \in DOMAIN s : i < j /\ s[i] = m /\ s[j] = n

LEMMA PushedFront ==
    ASSUME NEW s \in Seq(Nodes), NEW n \in Nodes
    PROVE  /\ <<n>> \o s \in Seq(Nodes)
           /\ Len(<<n>> \o s) = Len(s) + 1
           /\ In(<<n>> \o s) = {n} \cup In(s)
           /\ \A k, m : Before(<<n>> \o s, k, m) => (k = n /\ m \in In(s)) \/ Before(s, k, m)
<1> DEFINE t == <<n>> \o s
<1>1. t \in Seq(Nodes) /\ Len(t) = Len(s) + 1 /\ Len(s) \in Nat /\ DOMAIN s = 1 .. Len(s)
  OBVIOUS
<1>2. t[1] = n /\ \A i \in 1 .. Len(s) : t[i + 1] = s[i]
  OBVIOUS
<1> HIDE DEF t
<1>3. DOMAIN t = 1 .. Len(s) + 1
  BY <1>1
<1>4. \A i \in DOMAIN t : i = 1 \/ (i - 1 \in DOMAIN s /\ t[i] = s[i - 1] /\ i > 1)
  <2> TAKE i \in DOMAIN t
  <2>1. i = 1 \/ (i - 1 \in 1 .. Len(s) /\ (i - 1) + 1 = i /\ i > 1)
    BY <1>1, <1>3
  <2> QED
    BY <1>1, <1>2, <2>1
<1>5. \A i \in DOMAIN s : i + 1 \in DOMAIN t
  BY <1>1, <1>3
<1>6. 1 \in DOMAIN t
  BY <1>1, <1>3
<1>7. In(t) = {n} \cup In(s)
  <2>1. \A i \in DOMAIN t : t[i] = n \/ t[i] \in In(s)
    BY <1>2, <1>4 DEF In
  <2>2. \A i \in DOMAIN s : s[i] \in In(t)
    BY <1>1, <1>2, <1>5 DEF In
  <2>3. n \in In(t)
    BY <1>2, <1>6 DEF In
  <2> QED
    BY <2>1, <2>2, <2>3 DEF In
<1>8. ASSUME NEW k, NEW m, Before(t, k, m)
      PROVE  (k = n /\ m \in In(s)) \/ Before(s, k, m)
  <2>1. PICK i \in DOMAIN t, j \in DOMAIN t : i < j /\ t[i] = k /\ t[j] = m
    BY <1>8 DEF Before
  <2>2. j - 1 \in DOMAIN s /\ m = s[j - 1]
    BY <1>1, <1>3, <1>4, <2>1
  <2>3. CASE i = 1
    BY <1>2, <2>1, <2>2, <2>3 DEF In
  <2>4. CASE i - 1 \in DOMAIN s /\ t[i] = s[i - 1]
    <3>1. i - 1 < j - 1
      BY <1>1, <1>3, <2>1
    <3> QED
      BY <2>1, <2>2, <2>4, <3>1 DEF Before
  <2> QED
    BY <1>4, <2>3, <2>4
<1> QED
  BY <1>1, <1>7, <1>8 DEF t

LEMMA CutOut ==
    ASSUME NEW s \in Seq(Nodes), NEW p \in DOMAIN s,
           \A i, j \in DOMAIN s : s[i] = s[j] => i = j
    PROVE  LET t == SubSeq(s, 1, p - 1) \o SubSeq(s, p + 1, Len(s)) IN
           /\ t \in Seq(Nodes)
           /\ Len(t) = Len(s) - 1
           /\ In(t) = In(s) \ {s[p]}
           /\ \A k, m : Before(t, k, m) => Before(s, k, m)
<1> DEFINE u == SubSeq(s, 1, p - 1)
           v == SubSeq(s, p + 1, Len(s))
           t == u \o v
           g(i) == IF i < p THEN i ELSE i + 1
<1>1. Len(s) \in Nat /\ DOMAIN s = 1 .. Len(s) /\ p \in 1 .. Len(s)
  OBVIOUS
<1>2. u \in Seq(Nodes) /\ Len(u) = p - 1 /\ \A i \in 1 .. p - 1 : u[i] = s[i]
  OBVIOUS
<1>3. v \in Seq(Nodes) /\ Len(v) = Len(s) - p /\ \A i \in 1 .. Len(s) - p : v[i] = s[p + i]
  OBVIOUS
<1> HIDE DEF u, v
<1>4. /\ t \in Seq(Nodes)
      /\ Len(t) = Len(u) + Len(v)
      /\ \A i \in 1 .. Len(u) + Len(v) : t[i] = IF i <= Len(u) THEN u[i] ELSE v[i - Len(u)]
  BY <1>2, <1>3, ConcatProperties
<1> HIDE DEF t
<1>5. Len(t) = Len(s) - 1 /\ DOMAIN t = 1 .. Len(s) - 1
  BY <1>1, <1>2, <1>3, <1>4
<1>6. \A i \in DOMAIN t : g(i) \in DOMAIN s /\ g(i) # p /\ t[i] = s[g(i)]
  <2> TAKE i \in DOMAIN t
  <2>1. t[i] = IF i <= p - 1 THEN u[i] ELSE v[i - (p - 1)]
    BY <1>1, <1>2, <1>3, <1>4, <1>5
  <2>2. CASE i < p
    <3>1. i <= p - 1 /\ i \in 1 .. p - 1 /\ g(i) = i /\ i \in DOMAIN s
      BY <1>1, <1>5, <2>2
    <3> QED
      BY <1>2, <2>1, <2>2, <3>1
  <2>3. CASE ~(i < p)
    <3>1. ~(i <= p - 1) /\ i - (p - 1) \in 1 .. Len(s) - p /\ p + (i - (p - 1)) = i + 1
          /\ i + 1 \in DOMAIN s /\ i + 1 # p
      BY <1>1, <1>5, <2>3
    <3>2. v[i - (p - 1)] = s[i + 1]
      BY <1>3, <3>1
    <3> QED
      BY <2>1, <2>3, <3>1, <3>2
  <2> QED
    BY <2>2, <2>3
<1>7. \A j \in DOMAIN s : j # p => \E i \in DOMAIN t : g(i) = j
  <2> SUFFICES ASSUME NEW j \in DOMAIN s, j # p
               PROVE  \E i \in DOMAIN t : g(i) = j
    OBVIOUS
  <2>1. CASE j < p
    <3>1. j \in DOMAIN t
      BY <1>1, <1>5, <2>1
    <3> QED
      BY <2>1, <3>1
  <2>2. CASE j > p
    <3>1. j - 1 \in DOMAIN t /\ ~(j - 1 < p) /\ (j - 1) + 1 = j
      BY <1>1, <1>5, <2>2
    <3> QED
      BY <3>1
  <2> QED
    BY <1>1, <2>1, <2>2
<1>8. \A i, j \in DOMAIN t : i < j => g(i) < g(j)
  BY <1>1, <1>5
<1> HIDE DEF g
<1>9. In(t) = In(s) \ {s[p]}
  <2>1. \A i \in DOMAIN t : t[i] \in In(s) /\ t[i] # s[p]
    BY <1>6 DEF In
  <2>2. \A j \in DOMAIN s : s[j] = s[p] \/ s[j] \in In(t)
    BY <1>6, <1>7 DEF In
  <2> QED
    BY <2>1, <2>2 DEF In
<1>10. ASSUME NEW k, NEW m, Before(t, k, m)
       PROVE  Before(s, k, m)
  <2>1. PICK i \in DOMAIN t, j \in DOMAIN t : i < j /\ t[i] = k /\ t[j] = m
    BY <1>10 DEF Before
  <2>2. g(i) \in DOMAIN s /\ g(j) \in DOMAIN s /\ g(i) < g(j) /\ s[g(i)] = k /\ s[g(j)] = m
    BY <1>6, <1>8, <2>1
  <2> QED
    BY <2>2 DEF Before
<1> QED
  BY <1>4, <1>5, <1>9, <1>10 DEF t, u, v

LEMMA LastDropped ==
    ASSUME NEW s \in Seq(Nodes), s # << >>,
           \A i, j \in DOMAIN s : s[i] = s[j] => i = j
    PROVE  LET t == SubSeq(s, 1, Len(s) - 1) IN
           /\ t \in Seq(Nodes)
           /\ Len(t) = Len(s) - 1
           /\ In(t) = In(s) \ {s[Len(s)]}
           /\ \A k, m : Before(t, k, m) => Before(s, k, m)
<1>1. Len(s) \in DOMAIN s
  OBVIOUS
<1>2. SubSeq(s, Len(s) + 1, Len(s)) = << >>
  OBVIOUS
<1>3. SubSeq(s, 1, Len(s) - 1) \o << >> = SubSeq(s, 1, Len(s) - 1)
  OBVIOUS
<1> DEFINE t == SubSeq(s, 1, Len(s) - 1) \o SubSeq(s, Len(s) + 1, Len(s))
<1>4. /\ t \in Seq(Nodes)
      /\ Len(t) = Len(s) - 1
      /\ In(t) = In(s) \ {s[Len(s)]}
      /\ \A k, m : Before(t, k, m) => Before(s, k, m)
  BY <1>1, CutOut
<1>5. t = SubSeq(s, 1, Len(s) - 1)
  BY <1>2, <1>3
<1> HIDE DEF t
<1> QED
  BY <1>4, <1>5

LEMMA BeforeIsIn == \A s, k, m : Before(s, k, m) => k \in In(s) /\ m \in In(s)
  BY DEF Before, In

(***************************************************************************)
(* Linked: a node is in the list exactly when it holds a pair, and map and *)
(* node lead to each other.  Ordered: the list is in the order of the last *)
(* uses, which none of the operations' code ever looks at.                 *)
(***************************************************************************)
Pair == [key : Keys, value : Values]

LruTypes ==
    /\ a \in Seq(Nodes)
    /\ b \in [Nodes -> Pair \cup {None}]
    /\ c \in [Keys -> Nodes \cup {None}]
    /\ d \in Nat
    /\ e \in [Keys -> Nat]
    /\ f \in [Keys -> Values \cup {None}]

Linked ==
    /\ \A n \in Nodes : n \in In(a) <=> b[n] # None
    /\ \A n \in In(a) : c[b[n].key] = n
    /\ \A k \in Keys :
          c[k] # None => c[k] \in In(a) /\ b[c[k]].key = k /\ b[c[k]].value = f[k]

Ordered ==
    /\ \A m, n \in In(a) : Before(a, m, n) => e[b[m].key] > e[b[n].key]
    /\ \A k \in Keys : e[k] <= d

LruInv == LruTypes /\ Linked /\ Ordered /\ Len(a) <= CacheCapacity

LEMMA LruDistinct ==
    ASSUME LruInv
    PROVE  \A i, j \in DOMAIN a : a[i] = a[j] => i = j
<1> SUFFICES ASSUME NEW i \in DOMAIN a, NEW j \in DOMAIN a, a[i] = a[j], i # j
             PROVE  FALSE
  OBVIOUS
<1>1. a \in Seq(Nodes) /\ i \in Nat /\ j \in Nat
  BY DEF LruInv, LruTypes
<1>2. i < j \/ j < i
  BY <1>1
<1>3. Before(a, a[i], a[i])
  BY <1>2 DEF Before
<1>4. a[i] \in Nodes /\ a[i] \in In(a)
  BY <1>1 DEF In
<1>5. b[a[i]] \in Pair
  BY <1>4 DEF LruInv, LruTypes, Linked
<1>6. e[b[a[i]].key] \in Nat
  BY <1>5 DEF LruInv, LruTypes, Pair
<1> QED
  BY <1>3, <1>4, <1>6 DEF LruInv, Ordered

\* What the two parts of the list's nodes are.
LEMMA LruNodes ==
    ASSUME LruInv
    PROVE  /\ \A n \in In(a) : n \in Nodes /\ b[n] \in Pair /\ b[n].key \in Keys
                                /\ c[b[n].key] = n /\ e[b[n].key] \in Nat
           /\ \A m, n \in In(a) : b[m].key = b[n].key => m = n
           /\ In(a) \subseteq Nodes
<1>1. \A n \in In(a) : n \in Nodes
  BY DEF LruInv, LruTypes, In
<1>2. \A n \in In(a) : b[n] \in Pair
  BY <1>1 DEF LruInv, LruTypes, Linked
<1>3. \A n \in In(a) : b[n].key \in Keys
  BY <1>2 DEF Pair
<1>4. \A n \in In(a) : c[b[n].key] = n
  BY DEF LruInv, Linked
<1>5. \A n \in In(a) : e[b[n].key] \in Nat
  BY <1>3 DEF LruInv, LruTypes
<1>6. \A m, n \in In(a) : b[m].key = b[n].key => m = n
  BY <1>4, Zenon
<1> QED
  BY <1>1, <1>2, <1>3, <1>4, <1>5, <1>6

LEMMA NodeErased ==
    ASSUME LruInv, NEW n \in In(a)
    PROVE  /\ L!Without(n) \in Seq(Nodes)
           /\ Len(L!Without(n)) = Len(a) - 1
           /\ In(L!Without(n)) = In(a) \ {n}
           /\ \A k, m : Before(L!Without(n), k, m) => Before(a, k, m)
<1> DEFINE p == CHOOSE i \in DOMAIN a : a[i] = n
<1>1. p \in DOMAIN a /\ a[p] = n
  BY DEF In
<1>2. L!Without(n) = SubSeq(a, 1, p - 1) \o SubSeq(a, p + 1, Len(a))
  BY DEF L!Without
<1> HIDE DEF p
<1>3. a \in Seq(Nodes) /\ \A i, j \in DOMAIN a : a[i] = a[j] => i = j
  BY LruDistinct DEF LruInv, LruTypes
<1> QED
  BY <1>1, <1>2, <1>3, CutOut

LEMMA NodeSpliced ==
    ASSUME LruInv, NEW n \in In(a)
    PROVE  /\ L!ToFront(n) \in Seq(Nodes)
           /\ Len(L!ToFront(n)) = Len(a)
           /\ In(L!ToFront(n)) = In(a)
           /\ \A k, m : Before(L!ToFront(n), k, m) =>
                           /\ m \in In(a) \ {n}
                           /\ k = n \/ (k \in In(a) \ {n} /\ Before(a, k, m))
<1> DEFINE w == L!Without(n)
<1>1. w \in Seq(Nodes) /\ Len(w) = Len(a) - 1 /\ In(w) = In(a) \ {n}
      /\ \A k, m : Before(w, k, m) => Before(a, k, m)
  BY NodeErased
<1>2. L!ToFront(n) = <<n>> \o w
  BY DEF L!ToFront
<1>3. n \in Nodes /\ Len(a) \in Nat
  BY LruNodes DEF LruInv, LruTypes
<1> HIDE DEF w
<1>4. L!ToFront(n) \in Seq(Nodes) /\ Len(L!ToFront(n)) = Len(w) + 1
      /\ In(L!ToFront(n)) = {n} \cup In(w)
      /\ \A k, m : Before(L!ToFront(n), k, m) => (k = n /\ m \in In(w)) \/ Before(w, k, m)
  BY <1>1, <1>2, <1>3, PushedFront
<1>5. Len(L!ToFront(n)) = Len(a)
  BY <1>1, <1>3, <1>4
<1>6. In(L!ToFront(n)) = In(a)
  BY <1>1, <1>4
<1>7. ASSUME NEW k, NEW m, Before(L!ToFront(n), k, m)
      PROVE  /\ m \in In(a) \ {n}
             /\ k = n \/ (k \in In(a) \ {n} /\ Before(a, k, m))
  BY <1>1, <1>4, <1>7, BeforeIsIn, Zenon
<1> QED
  BY <1>4, <1>5, <1>6, <1>7

(***************************************************************************)
(* What get() and the first branch of put() have in common: the node of a  *)
(* known key moves to the front, and the key is the one used last.         *)
(***************************************************************************)
LEMMA LruUse ==
    ASSUME LruInv, NEW k \in Keys, c[k] # None,
           a' = L!ToFront(c[k]), c' = c, d' = d + 1, e' = [e EXCEPT ![k] = d + 1],
           b' \in [Nodes -> Pair \cup {None}],
           \A m \in In(a) : b'[m] # None /\ b'[m].key = b[m].key,
           \A m \in Nodes \ {c[k]} : b'[m] = b[m],
           f' \in [Keys -> Values \cup {None}],
           b'[c[k]].value = f'[k],
           \A j \in Keys \ {k} : f'[j] = f[j]
    PROVE  LruInv'
<1> DEFINE n == c[k]
<1>1. n \in In(a) /\ b[n].key = k /\ n \in Nodes
  BY LruNodes DEF LruInv, Linked
<1>2. a' \in Seq(Nodes) /\ Len(a') = Len(a) /\ In(a') = In(a)
  BY <1>1, NodeSpliced
<1>3. \A j, m : Before(a', j, m) =>
         m \in In(a) \ {n} /\ (j = n \/ (j \in In(a) \ {n} /\ Before(a, j, m)))
  BY <1>1, NodeSpliced, Zenon
<1>4. d \in Nat /\ e \in [Keys -> Nat] /\ e' \in [Keys -> Nat] /\ e'[k] = d + 1
      /\ \A j \in Keys : j # k => e'[j] = e[j]
  BY DEF LruInv, LruTypes
<1>5. LruTypes' /\ (Len(a) <= CacheCapacity)'
  BY <1>2, <1>4 DEF LruInv, LruTypes
<1>6. Linked'
  <2>1. \A m \in Nodes : m \in In(a') <=> b'[m] # None
    BY <1>1, <1>2 DEF LruInv, Linked
  <2>2. \A m \in In(a') : c'[b'[m].key] = m
    BY <1>2 DEF LruInv, Linked
  <2>3. ASSUME NEW j \in Keys, c'[j] # None
        PROVE  c'[j] \in In(a') /\ b'[c'[j]].key = j /\ b'[c'[j]].value = f'[j]
    <3>1. c[j] \in In(a) /\ b[c[j]].key = j /\ b[c[j]].value = f[j] /\ c[j] \in Nodes
      BY <2>3, LruNodes DEF LruInv, Linked
    <3>2. j = k \/ c[j] # n
      BY <1>1, <3>1
    <3> QED
      BY <1>2, <3>1, <3>2
  <2> QED
    BY <2>1, <2>2, <2>3 DEF Linked
<1>7. Ordered'
  <2>1. ASSUME NEW j \in In(a'), NEW m \in In(a'), Before(a', j, m)
        PROVE  e'[b'[j].key] > e'[b'[m].key]
    <3>1. j \in In(a) /\ m \in In(a) /\ m # n /\ b'[j].key = b[j].key /\ b'[m].key = b[m].key
      BY <1>2, <1>3, <2>1
    <3>2. b[m].key \in Keys /\ b[m].key # k /\ b[j].key \in Keys
      BY <1>1, <3>1, LruNodes
    <3>3. e'[b[m].key] = e[b[m].key] /\ e[b[m].key] \in Nat /\ e[b[m].key] <= d
      BY <1>4, <3>2 DEF LruInv, Ordered
    <3>4. CASE j = n
      BY <1>1, <1>4, <3>1, <3>3, <3>4
    <3>5. CASE j # n
      <4>1. Before(a, j, m) /\ b[j].key # k
        BY <1>1, <1>3, <2>1, <3>1, <3>5, LruNodes
      <4>2. e[b[j].key] > e[b[m].key] /\ e'[b[j].key] = e[b[j].key]
        BY <1>4, <3>1, <3>2, <4>1 DEF LruInv, Ordered
      <4> QED
        BY <3>1, <3>3, <4>2
    <3> QED
      BY <3>4, <3>5
  <2>2. \A j \in Keys : e'[j] <= d'
    BY <1>4 DEF LruInv, Ordered
  <2> QED
    BY <2>1, <2>2 DEF Ordered
<1> QED
  BY <1>5, <1>6, <1>7 DEF LruInv

LEMMA LruGet ==
    ASSUME LruInv, NEW k \in Keys, L!get(k), d' = d + 1, L!Used(k), f' = f
    PROVE  LruInv'
<1>1. c[k] # None /\ a' = L!ToFront(c[k]) /\ b' = b /\ c' = c /\ e' = [e EXCEPT ![k] = d + 1]
  BY DEF L!get, L!Used
<1>2. \A m \in In(a) : b[m] # None
  BY LruNodes DEF LruInv, Linked
<1>3. b[c[k]].value = f[k]
  BY <1>1 DEF LruInv, Linked
<1>4. b \in [Nodes -> Pair \cup {None}] /\ f \in [Keys -> Values \cup {None}]
  BY DEF LruInv, LruTypes
<1>5. \A m \in In(a) : b'[m] # None /\ b'[m].key = b[m].key
  BY <1>1, <1>2
<1> QED
  BY <1>1, <1>3, <1>4, <1>5, LruUse

LEMMA LruPutKnown ==
    ASSUME LruInv, NEW k \in Keys, NEW v \in Values, c[k] # None, d' = d + 1, L!Used(k),
           b' = [b EXCEPT ![c[k]].value = v], a' = L!ToFront(c[k]), c' = c,
           f' = [f EXCEPT ![k] = v]
    PROVE  LruInv'
<1> DEFINE n == c[k]
<1>1. n \in In(a) /\ b[n].key = k /\ n \in Nodes /\ b[n] \in Pair
  BY LruNodes DEF LruInv, Linked
<1>2. b' = [b EXCEPT ![n] = [key |-> k, value |-> v]]
  <2>1. b[n] = [key |-> k, value |-> b[n].value]
    BY <1>1 DEF Pair
  <2>2. [b[n] EXCEPT !.value = v] = [key |-> k, value |-> v]
    BY <2>1
  <2>3. b' = [b EXCEPT ![n] = [b[n] EXCEPT !.value = v]]
    OBVIOUS
  <2> QED
    BY <2>2, <2>3
<1>3. [key |-> k, value |-> v] \in Pair /\ None \notin Pair
  BY LibraryAssumption DEF Pair
<1>4. b' \in [Nodes -> Pair \cup {None}] /\ b'[n] = [key |-> k, value |-> v]
      /\ \A m \in Nodes \ {n} : b'[m] = b[m]
  BY <1>1, <1>2, <1>3 DEF LruInv, LruTypes
<1>5. \A m \in In(a) : b'[m] # None /\ b'[m].key = b[m].key
  BY <1>1, <1>3, <1>4, LruNodes
<1>6. f' \in [Keys -> Values \cup {None}] /\ f'[k] = v /\ \A j \in Keys \ {k} : f'[j] = f[j]
  BY DEF LruInv, LruTypes
<1>7. e' = [e EXCEPT ![k] = d + 1] /\ b'[n].value = f'[k]
  BY <1>4, <1>6 DEF L!Used
<1> QED
  BY <1>4, <1>5, <1>6, <1>7, LruUse

LEMMA LruErase ==
    ASSUME LruInv, NEW k \in Keys, L!erase(k), d' = d + 1,
           f' = [f EXCEPT ![k] = None], e' = e
    PROVE  LruInv'
<1> DEFINE n == c[k]
<1>1. n # None /\ a' = L!Without(n) /\ b' = [b EXCEPT ![n] = None] /\ c' = [c EXCEPT ![k] = None]
  BY DEF L!erase
<1>2. n \in In(a) /\ b[n].key = k /\ n \in Nodes
  BY <1>1, LruNodes DEF LruInv, Linked
<1>3. a' \in Seq(Nodes) /\ Len(a') = Len(a) - 1 /\ In(a') = In(a) \ {n}
      /\ \A j, m : Before(a', j, m) => Before(a, j, m)
  BY <1>1, <1>2, NodeErased
<1>4. LruTypes' /\ (Len(a) <= CacheCapacity)'
  BY <1>1, <1>2, <1>3, LibraryAssumption DEF LruInv, LruTypes
<1>5. \A m \in Nodes : b'[m] = IF m = n THEN None ELSE b[m]
  BY <1>1 DEF LruInv, LruTypes
<1>6. \A j \in Keys : c'[j] = (IF j = k THEN None ELSE c[j]) /\ (j # k => f'[j] = f[j])
  BY <1>1 DEF LruInv, LruTypes
<1>7. Linked'
  <2>1. \A m \in Nodes : m \in In(a') <=> b'[m] # None
    BY <1>3, <1>5 DEF LruInv, Linked
  <2>2. \A m \in In(a') : c'[b'[m].key] = m
    BY <1>2, <1>3, <1>5, <1>6, LruNodes
  <2>3. ASSUME NEW j \in Keys, c'[j] # None
        PROVE  c'[j] \in In(a') /\ b'[c'[j]].key = j /\ b'[c'[j]].value = f'[j]
    <3>1. j # k /\ c'[j] = c[j] /\ f'[j] = f[j]
      BY <1>6, <2>3
    <3>2. c[j] \in In(a) /\ b[c[j]].key = j /\ b[c[j]].value = f[j] /\ c[j] \in Nodes
      BY <2>3, <3>1, LruNodes DEF LruInv, Linked
    <3>3. c[j] # n
      BY <1>2, <3>1, <3>2
    <3> QED
      BY <1>3, <1>5, <3>1, <3>2, <3>3
  <2> QED
    BY <2>1, <2>2, <2>3 DEF Linked
<1>8. Ordered'
  <2>1. ASSUME NEW j \in In(a'), NEW m \in In(a'), Before(a', j, m)
        PROVE  e'[b'[j].key] > e'[b'[m].key]
    <3>1. j \in In(a) /\ m \in In(a) /\ b'[j] = b[j] /\ b'[m] = b[m] /\ Before(a, j, m)
      BY <1>3, <1>5, <2>1, LruNodes
    <3> QED
      BY <3>1 DEF LruInv, Ordered
  <2>2. \A j \in Keys : e'[j] <= d'
    BY DEF LruInv, LruTypes, Ordered
  <2> QED
    BY <2>1, <2>2 DEF Ordered
<1> QED
  BY <1>4, <1>7, <1>8 DEF LruInv

(***************************************************************************)
(* The second branch of put(), without and with a victim: kept, freed and  *)
(* known are what is left of the list, the nodes and the map.              *)
(***************************************************************************)
LEMMA LruAdd ==
    ASSUME LruInv, NEW k \in Keys, NEW v \in Values, NEW n \in Nodes, c[k] = None,
           NEW kept \in Seq(Nodes), NEW freed, NEW known,
           In(kept) \subseteq In(a), Len(kept) + 1 <= CacheCapacity,
           \A j, m : Before(kept, j, m) => Before(a, j, m),
           freed = [m \in Nodes |-> IF m \in In(kept) THEN b[m] ELSE None],
           known = [j \in Keys |-> IF c[j] \in In(kept) THEN c[j] ELSE None],
           freed[n] = None,
           a' = <<n>> \o kept,
           b' = [freed EXCEPT ![n] = [key |-> k, value |-> v]],
           c' = [known EXCEPT ![k] = n],
           d' = d + 1,
           e' = [e EXCEPT ![k] = d + 1],
           f' = [f EXCEPT ![k] = v]
    PROVE  LruInv'
<1> DEFINE new == [key |-> k, value |-> v]
<1>1. new \in Pair /\ None \notin Pair /\ new.key = k /\ new.value = v /\ n # None
  BY LibraryAssumption DEF Pair
<1> HIDE DEF new
<1>2. a' \in Seq(Nodes) /\ Len(a') = Len(kept) + 1 /\ In(a') = {n} \cup In(kept)
      /\ \A j, m : Before(a', j, m) => (j = n /\ m \in In(kept)) \/ Before(kept, j, m)
  BY PushedFront
<1>3. \A m \in In(kept) : m \in In(a) /\ m \in Nodes /\ m # n /\ b[m] \in Pair
                          /\ b[m].key \in Keys /\ b[m].key # k /\ c[b[m].key] = m
  <2>1. \A m \in In(kept) : m \in In(a) /\ m \in Nodes /\ b[m] \in Pair
                             /\ b[m].key \in Keys /\ c[b[m].key] = m
    BY LruNodes
  <2>2. \A m \in In(kept) : m # n
    BY <1>1, <2>1
  <2>3. \A m \in In(kept) : b[m].key # k
    BY <2>1, LibraryAssumption
  <2> QED
    BY <2>1, <2>2, <2>3
<1>4. \A m \in Nodes : b'[m] = IF m = n THEN new ELSE IF m \in In(kept) THEN b[m] ELSE None
  BY DEF new
<1>5. \A j \in Keys : c'[j] = IF j = k THEN n ELSE IF c[j] \in In(kept) THEN c[j] ELSE None
  OBVIOUS
<1>6. b' \in [Nodes -> Pair \cup {None}]
  BY <1>1, <1>3 DEF new
<1>7. c' \in [Keys -> Nodes \cup {None}]
  BY <1>3
<1>8. d \in Nat /\ e \in [Keys -> Nat] /\ e' \in [Keys -> Nat] /\ e'[k] = d + 1
      /\ (\A j \in Keys : j # k => e'[j] = e[j])
      /\ f' \in [Keys -> Values \cup {None}] /\ f'[k] = v
      /\ (\A j \in Keys : j # k => f'[j] = f[j])
  BY DEF LruInv, LruTypes
<1>9. LruTypes' /\ (Len(a) <= CacheCapacity)'
  BY <1>2, <1>6, <1>7, <1>8 DEF LruTypes
<1>10. Linked'
  <2>1. \A m \in Nodes : m \in In(a') <=> b'[m] # None
    BY <1>1, <1>2, <1>3, <1>4
  <2>2. \A m \in In(a') : c'[b'[m].key] = m
    BY <1>1, <1>2, <1>3, <1>4, <1>5
  <2>3. ASSUME NEW j \in Keys, c'[j] # None
        PROVE  c'[j] \in In(a') /\ b'[c'[j]].key = j /\ b'[c'[j]].value = f'[j]
    <3>1. CASE j = k
      BY <1>1, <1>2, <1>4, <1>5, <1>8, <3>1
    <3>2. CASE j # k
      <4>1. c'[j] = c[j] /\ c[j] \in In(kept)
        BY <1>5, <2>3, <3>2
      <4>2. c[j] \in In(a) /\ b'[c[j]] = b[c[j]] /\ c[j] # None
        BY <1>3, <1>4, <4>1, LibraryAssumption
      <4>3. b[c[j]].key = j /\ b[c[j]].value = f[j]
        BY <4>2 DEF LruInv, Linked
      <4> QED
        BY <1>2, <1>8, <3>2, <4>1, <4>2, <4>3
    <3> QED
      BY <3>1, <3>2
  <2> QED
    BY <2>1, <2>2, <2>3 DEF Linked
<1>11. Ordered'
  <2>1. ASSUME NEW j \in In(a'), NEW m \in In(a'), Before(a', j, m)
        PROVE  e'[b'[j].key] > e'[b'[m].key]
    <3>1. (j = n /\ m \in In(kept)) \/ (Before(a, j, m) /\ j \in In(kept) /\ m \in In(kept))
      BY <1>2, <2>1, BeforeIsIn, Zenon
    <3>2. b'[m] = b[m] /\ b[m].key \in Keys /\ b[m].key # k /\ m \in In(a)
      BY <1>3, <1>4, <3>1
    <3>3. e'[b'[m].key] = e[b[m].key] /\ e[b[m].key] \in Nat /\ e[b[m].key] <= d
      BY <1>8, <3>2 DEF LruInv, Ordered
    <3>4. CASE j = n
      BY <1>1, <1>4, <1>8, <3>3, <3>4
    <3>5. CASE Before(a, j, m) /\ j \in In(kept)
      <4>1. b'[j] = b[j] /\ b[j].key \in Keys /\ b[j].key # k /\ j \in In(a)
        BY <1>3, <1>4, <3>5
      <4>2. e'[b'[j].key] = e[b[j].key] /\ e[b[j].key] > e[b[m].key]
        BY <1>8, <3>2, <3>5, <4>1 DEF LruInv, Ordered
      <4> QED
        BY <3>3, <4>2
    <3> QED
      BY <3>1, <3>4, <3>5
  <2>2. \A j \in Keys : e'[j] <= d'
    BY <1>8 DEF LruInv, Ordered
  <2> QED
    BY <2>1, <2>2 DEF Ordered
<1> QED
  BY <1>9, <1>10, <1>11 DEF LruInv

LEMMA LruInsert ==
    ASSUME LruInv, NEW k \in Keys, NEW v \in Values, c[k] = None, L!Insert(k, v),
           d' = d + 1, L!Used(k), f' = [f EXCEPT ![k] = v]
    PROVE  LruInv'
<1> DEFINE full   == Len(a) = CacheCapacity
           victim == a[Len(a)]
           kept   == IF full THEN SubSeq(a, 1, Len(a) - 1) ELSE a
           freed  == IF full THEN [b EXCEPT ![victim] = None] ELSE b
           known  == IF full THEN [c EXCEPT ![b[victim].key] = None] ELSE c
<1>1. PICK n \in Nodes : /\ freed[n] = None
                         /\ a' = <<n>> \o kept
                         /\ b' = [freed EXCEPT ![n] = [key |-> k, value |-> v]]
                         /\ c' = [known EXCEPT ![k] = n]
  BY DEF L!Insert
<1>2. e' = [e EXCEPT ![k] = d + 1]
  BY DEF L!Used
<1>3. a \in Seq(Nodes) /\ Len(a) \in Nat /\ Len(a) <= CacheCapacity /\ CacheCapacity \in Nat \ {0}
      /\ b \in [Nodes -> Pair \cup {None}] /\ c \in [Keys -> Nodes \cup {None}]
  BY LibraryAssumption DEF LruInv, LruTypes
<1>4. \A m \in Nodes : m \notin In(a) => b[m] = None
  BY DEF LruInv, Linked
<1>5. \A j \in Keys : c[j] \notin In(a) => c[j] = None
  BY DEF LruInv, Linked
<1>6. CASE ~full
  <2>1. kept = a /\ freed = b /\ known = c
    BY <1>6
  <2>2. b = [m \in Nodes |-> IF m \in In(a) THEN b[m] ELSE None]
    BY <1>3, <1>4
  <2>3. c = [j \in Keys |-> IF c[j] \in In(a) THEN c[j] ELSE None]
    BY <1>3, <1>5
  <2>4. Len(a) + 1 <= CacheCapacity
    BY <1>3, <1>6
  <2> HIDE DEF kept, freed, known
  <2> QED
    BY <1>1, <1>2, <1>3, <2>1, <2>2, <2>3, <2>4, LruAdd
<1>7. CASE full
  <2>1. a # << >> /\ Len(a) \in DOMAIN a
    BY <1>3, <1>7
  <2>2. victim \in In(a)
    BY <2>1 DEF In
  <2>3. /\ kept \in Seq(Nodes)
        /\ Len(kept) = Len(a) - 1
        /\ In(kept) = In(a) \ {victim}
        /\ \A j, m : Before(kept, j, m) => Before(a, j, m)
    BY <1>3, <1>7, <2>1, LruDistinct, LastDropped
  <2>4. Len(kept) + 1 <= CacheCapacity
    BY <1>3, <2>3
  <2>5. freed = [b EXCEPT ![victim] = None] /\ known = [c EXCEPT ![b[victim].key] = None]
    BY <1>7
  <2> HIDE DEF kept, freed, known, victim
  <2>6. freed = [m \in Nodes |-> IF m \in In(kept) THEN b[m] ELSE None]
    BY <1>3, <1>4, <2>3, <2>5
  <2>7. \A j \in Keys : c[j] \in In(kept) <=> c[j] \in In(a) /\ j # b[victim].key
    <3> TAKE j \in Keys
    <3>1. c[j] = victim => j = b[victim].key
      BY <1>3, <2>2, LruNodes, LibraryAssumption DEF LruInv, Linked
    <3>2. c[b[victim].key] = victim
      BY <2>2, LruNodes
    <3> QED
      BY <2>3, <3>1, <3>2
  <2>8. known = [j \in Keys |-> IF c[j] \in In(kept) THEN c[j] ELSE None]
    BY <1>3, <1>5, <2>5, <2>7
  <2>9. In(kept) \subseteq In(a)
    BY <2>3
  <2> QED
    BY <1>1, <1>2, <2>3, <2>4, <2>6, <2>8, <2>9, LruAdd
<1> QED
  BY <1>6, <1>7

LEMMA LruInit == ASSUME L!MCInit PROVE LruInv
<1>1. a = << >> /\ b = [n \in Nodes |-> None] /\ c = [k \in Keys |-> None] /\ d = 0
      /\ e = [k \in Keys |-> 0] /\ f = [k \in Keys |-> None]
  BY DEF L!MCInit, L!Init
<1>2. In(a) = {} /\ Len(a) = 0 /\ a \in Seq(Nodes)
  BY <1>1 DEF In
<1> QED
  BY <1>1, <1>2, LibraryAssumption DEF LruInv, LruTypes, Linked, Ordered

LEMMA LruStep ==
    ASSUME LruInv, L!MCNext
    PROVE  LruInv'
<1>1. d' = d + 1
  BY DEF L!MCNext
<1>2. ASSUME NEW k \in Keys, L!get(k), L!Used(k), f' = f
      PROVE  LruInv'
  BY <1>1, <1>2, LruGet
<1>3. ASSUME NEW k \in Keys, NEW v \in Values, L!put(k, v), L!Used(k),
             f' = [f EXCEPT ![k] = v]
      PROVE  LruInv'
  BY <1>1, <1>3, LruPutKnown, LruInsert DEF L!put
<1>4. ASSUME NEW k \in Keys, L!erase(k), f' = [f EXCEPT ![k] = None], e' = e
      PROVE  LruInv'
  BY <1>1, <1>4, LruErase
<1> QED
  BY <1>2, <1>3, <1>4 DEF L!MCNext

LEMMA LruInvariant == LibrarySpec => [](part = "lru" => LruInv)
<1> DEFINE Inv == part = "lru" => LruInv
<1>1. LibraryInit => Inv
  BY LruInit DEF LibraryInit
<1>2. LruInv /\ UNCHANGED places => LruInv'
  BY DEF places, LruInv, LruTypes, Linked, Ordered, In, Before
<1>3. Inv /\ [LibraryNext]_places => Inv'
  BY <1>2, LruStep DEF LibraryNext, places
<1> QED
  BY <1>1, <1>3, PTL DEF LibrarySpec, places

(***************************************************************************)
(* For any keys, values, nodes and capacity, the list and the map of an    *)
(* LRU agree and get() answers the last put():                             *)
(* LibrarySpec => []CacheIsConsistent.                                     *)
(***************************************************************************)
THEOREM ListAndMapAgree == LibrarySpec => []CacheIsConsistent
<1>1. ASSUME LruInv
      PROVE  L!MapMatchesList
  <2>1. \A i \in DOMAIN a : a[i] \in In(a)
    BY DEF In
  <2>2. \A i, j \in DOMAIN a : a[i] = a[j] => i = j
    BY <1>1, LruDistinct
  <2>3. \A k \in Keys : c[k] # None => /\ \E i \in DOMAIN a : a[i] = c[k]
                                      /\ b[c[k]] # None
                                      /\ b[c[k]].key = k
    BY <1>1, LruNodes, LibraryAssumption DEF LruInv, Linked, In, Pair
  <2>4. \A i \in DOMAIN a : b[a[i]] # None /\ c[b[a[i]].key] = a[i]
    BY <1>1, <2>1, LruNodes DEF LruInv, Linked
  <2>5. \A n \in Nodes : b[n] # None => \E i \in DOMAIN a : a[i] = n
    BY <1>1 DEF LruInv, Linked, In
  <2> QED
    BY <1>1, <2>2, <2>3, <2>4, <2>5 DEF LruInv, L!MapMatchesList
<1>2. ASSUME LruInv
      PROVE  L!GetAnswersLastPut
  BY <1>2 DEF LruInv, Linked, L!GetAnswersLastPut, L!Lookup
<1>3. (part = "lru" => LruInv) => CacheIsConsistent
  BY <1>1, <1>2 DEF CacheIsConsistent
<1> QED
  BY <1>3, LruInvariant, PTL

LEMMA OneKeyPerNode ==
    ASSUME LruInv
    PROVE  Cardinality({k \in Keys : c[k] # None}) = Len(a)
<1> DEFINE index == 1 .. Len(a)
           known == {k \in Keys : c[k] # None}
           g == [i \in index |-> b[a[i]].key]
<1>1. Len(a) \in Nat /\ DOMAIN a = index /\ \A i \in index : a[i] \in In(a)
  BY DEF LruInv, LruTypes, In
<1>2. \A i \in index : g[i] \in known
  BY <1>1, LruNodes, LibraryAssumption
<1>3. \A i, j \in index : g[i] = g[j] => i = j
  BY <1>1, LruNodes, LruDistinct
<1>4. ASSUME NEW k \in known
      PROVE  \E i \in index : g[i] = k
  <2>1. c[k] \in In(a) /\ b[c[k]].key = k
    BY DEF LruInv, Linked
  <2>2. PICK i \in index : a[i] = c[k]
    BY <1>1, <2>1 DEF In
  <2> QED
    BY <2>1, <2>2
<1> HIDE DEF g
<1>5. g \in [index -> known]
  BY <1>2 DEF g
<1>6. g \in Bijection(index, known)
  BY <1>3, <1>4, <1>5 DEF Bijection, Injection, Surjection, IsInjective
<1>7. IsFiniteSet(index) /\ Cardinality(index) = Len(a)
  BY <1>1, FS_Interval
<1>8. ExistsBijection(index, known)
  BY <1>6 DEF ExistsBijection
<1> HIDE DEF index, known
<1>9. Cardinality(known) = Len(a)
  BY <1>7, <1>8, FS_Bijection
<1> QED
  BY <1>9 DEF known

LEMMA LastIsOldest ==
    ASSUME LruInv, a # << >>
    PROVE  LET victim == a[Len(a)] IN
           /\ b[victim].key \in Keys
           /\ \A j \in Keys : c[j] # None => e[b[victim].key] <= e[j]
<1> DEFINE victim == a[Len(a)]
<1>1. a \in Seq(Nodes) /\ Len(a) \in DOMAIN a /\ \A i \in DOMAIN a : i < Len(a) \/ i = Len(a)
  BY DEF LruInv, LruTypes
<1>2. victim \in In(a)
  BY <1>1 DEF In
<1>3. b[victim].key \in Keys /\ e[b[victim].key] \in Nat
  BY <1>2, LruNodes
<1>4. ASSUME NEW j \in Keys, c[j] # None
      PROVE  e[b[victim].key] <= e[j]
  <2>1. c[j] \in In(a) /\ b[c[j]].key = j /\ e[j] \in Nat
    BY <1>4 DEF LruInv, LruTypes, Linked
  <2>2. c[j] = victim \/ Before(a, c[j], victim)
    BY <1>1, <2>1 DEF In, Before
  <2>3. Before(a, c[j], victim) => e[j] > e[b[victim].key]
    BY <1>2, <2>1 DEF LruInv, Ordered
  <2> HIDE DEF victim
  <2> QED
    BY <1>3, <2>1, <2>2, <2>3
<1> QED
  BY <1>3, <1>4

LEMMA LruEvicts ==
    ASSUME LruInv, L!MCNext
    PROVE  L!Evicts
<1> SUFFICES ASSUME NEW k \in Keys, c[k] # None, c'[k] = None, f'[k] # None
             PROVE  /\ Len(a) = CacheCapacity
                    /\ \A j \in Keys : c[j] # None => e[k] <= e[j]
  <2>1. \A T : L!Cardinality(T) = Cardinality(T)
    BY DEF L!Cardinality, Cardinality, L!IsFiniteSet, IsFiniteSet
  <2> QED
    BY <2>1, OneKeyPerNode DEF L!Evicts
<1>1. c \in [Keys -> Nodes \cup {None}] /\ f \in [Keys -> Values \cup {None}]
  BY DEF LruInv, LruTypes
<1>2. ASSUME NEW i \in Keys, L!get(i)
      PROVE  FALSE
  BY <1>2 DEF L!get
<1>3. ASSUME NEW i \in Keys, L!erase(i), f' = [f EXCEPT ![i] = None]
      PROVE  FALSE
  BY <1>1, <1>3 DEF L!erase
<1>4. ASSUME NEW i \in Keys, NEW v \in Values, L!put(i, v)
      PROVE  /\ Len(a) = CacheCapacity
             /\ \A j \in Keys : c[j] # None => e[k] <= e[j]
  <2>1. L!Insert(i, v)
    BY <1>4 DEF L!put
  <2> DEFINE known == IF Len(a) = CacheCapacity THEN [c EXCEPT ![b[a[Len(a)]].key] = None] ELSE c
  <2>2. PICK n \in Nodes : c' = [known EXCEPT ![i] = n]
    BY <2>1 DEF L!Insert
  <2>3. n # None /\ CacheCapacity \in Nat \ {0}
    BY LibraryAssumption
  <2>4. k # i /\ known[k] = None
    BY <1>1, <2>2, <2>3
  <2>5. Len(a) = CacheCapacity /\ k = b[a[Len(a)]].key
    BY <1>1, <2>4
  <2>6. a # << >>
    BY <2>3, <2>5
  <2> QED
    BY <2>5, <2>6, LastIsOldest
<1> QED
  BY <1>2, <1>3, <1>4 DEF L!MCNext

(***************************************************************************)
(* put() into a full cache evicts the key that was not used for the        *)
(* longest time, and nothing else ever drops out of the cache unless it is *)
(* erased: LibrarySpec => EvictsLeastRecentlyUsed.                         *)
(***************************************************************************)
THEOREM TheVictimIsTheOldest == LibrarySpec => EvictsLeastRecentlyUsed
<1>1. (part = "lru" => LruInv) /\ [LibraryNext]_places => [part = "lru" => L!Evicts]_<<a, b, c>>
  BY LruEvicts DEF LibraryNext, places
<1> QED
  BY <1>1, LruInvariant, PTL DEF LibrarySpec, places, EvictsLeastRecentlyUsed
=============================================================================
