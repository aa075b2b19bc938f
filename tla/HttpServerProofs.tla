-------------------------- MODULE HttpServerProofs --------------------------
(***************************************************************************)
(* Proofs about the HTTP server, for any number of connections, of         *)
(* requests on each, and for any set of faults.                            *)
(*                                                                         *)
(* What an operation's handler relies on is in Session: where the session  *)
(* stands between two requests while it reads, and between a request and   *)
(* its response while it writes.                                           *)
(***************************************************************************)
EXTENDS HttpServer, SequenceTheorems, TLAPS

TypeOK ==
    /\ server \in {"running", "stopped", "crashed"}
    /\ listening \in BOOLEAN
    /\ sock \in [Conns -> {"none", "queued", "open", "reset", "closed"}]
    /\ wire \in [Conns -> Seq(Nat)]
    /\ buff \in [Conns -> Seq(Nat)]
    /\ op \in [Conns -> {"none", "read", "write"}]
    /\ result \in [Conns -> {"pending", "ok", "error"}]
    /\ current \in [Conns -> Nat]
    /\ sent \in [Conns -> Seq(Requests)]
    /\ answered \in [Conns -> Seq(Nat)]
    /\ broken \subseteq Conns

\* What has not been parsed are the requests after the current one, first those
\* in the buffer, then those on the wire.
Unparsed(c) ==
    /\ current[c] + Len(buff[c]) + Len(wire[c]) = Len(sent[c])
    /\ \A i \in 1 .. Len(buff[c]) : buff[c][i] = current[c] + i
    /\ \A i \in 1 .. Len(wire[c]) : wire[c][i] = current[c] + Len(buff[c]) + i

\* The requests up to n have been answered; all but the last had keep-alive.
Answers(c) ==
    LET n == Len(answered[c])
    IN  /\ current[c] \in {n, n + 1}
        /\ \A i \in 1 .. n : answered[c][i] = i
        /\ \A i \in 1 .. n : sent[c][i] # "bad"
        /\ \A i \in 1 .. n - 1 : sent[c][i] = "keep"

\* Another request may be read or answered.
Open(c) == \A i \in 1 .. Len(answered[c]) : sent[c][i] = "keep"

Reading(c) == current[c] = Len(answered[c]) /\ Open(c)

Answering(c) ==
    current[c] = Len(answered[c]) + 1 /\ sent[c][current[c]] # "bad" /\ Open(c)

Session(c) ==
    /\ sock[c] \in {"none", "queued"} => op[c] = "none" /\ Reading(c)
    /\ op[c] = "read" /\ result[c] = "pending" => Reading(c)
    /\ op[c] = "read" /\ result[c] = "ok" => Answering(c)
    /\ op[c] = "write" /\ result[c] = "pending" => Answering(c)
    /\ op[c] = "write" /\ result[c] = "ok" =>
          current[c] = Len(answered[c]) /\ current[c] > 0

\* Where connection c stands with its requests.
Books(c) == Unparsed(c) /\ Answers(c)

ServerInv ==
    /\ TypeOK
    /\ \A c \in Conns : Books(c) /\ Session(c)

\* A session whose operation is under way has an open socket or lost it.
Sockets == \A c \in Conns : op[c] # "none" => sock[c] = "open" \/ c \in broken

CrashInv ==
    /\ \A c \in Conns : sock[c] \in {"none", "queued"} => op[c] = "none"
    /\ Sockets
    /\ CrashNeedsBrokenConnection

-----------------------------------------------------------------------------
\* Taking the next request off a buffer b that is refilled with the first n
\* requests of the wire w, where b and w hold the requests after the k-th.
LEMMA TakeNext ==
    ASSUME NEW b \in Seq(Nat), NEW w \in Seq(Nat), NEW k \in Nat, NEW n \in 0 .. Len(w),
           b \o SubSeq(w, 1, n) # << >>,
           \A i \in 1 .. Len(b) : b[i] = k + i,
           \A i \in 1 .. Len(w) : w[i] = k + Len(b) + i
    PROVE  LET have == b \o SubSeq(w, 1, n)
               b2   == Tail(have)
               w2   == SubSeq(w, n + 1, Len(w))
           IN  /\ Head(have) = k + 1
               /\ b2 \in Seq(Nat) /\ w2 \in Seq(Nat)
               /\ (k + 1) + Len(b2) + Len(w2) = k + Len(b) + Len(w)
               /\ \A i \in 1 .. Len(b2) : b2[i] = k + 1 + i
               /\ \A i \in 1 .. Len(w2) : w2[i] = k + 1 + Len(b2) + i
<1> DEFINE pre  == SubSeq(w, 1, n)
           have == b \o pre
           b2   == Tail(have)
           w2   == SubSeq(w, n + 1, Len(w))
<1>0. Len(b) \in Nat /\ Len(w) \in Nat /\ n \in Nat /\ n <= Len(w)
    OBVIOUS
<1>1. pre \in Seq(Nat) /\ Len(pre) = n /\ \A i \in 1 .. n : pre[i] = w[i]
    OBVIOUS
<1>2. w2 \in Seq(Nat) /\ Len(w2) = Len(w) - n /\ \A i \in 1 .. Len(w2) : w2[i] = w[n + i]
    OBVIOUS
<1> HIDE DEF pre, w2
<1>3. /\ have \in Seq(Nat) /\ Len(have) = Len(b) + n
      /\ \A i \in 1 .. Len(b) + n : have[i] = IF i <= Len(b) THEN b[i] ELSE pre[i - Len(b)]
  <2>1. /\ have \in Seq(Nat) /\ Len(have) = Len(b) + Len(pre)
        /\ \A i \in 1 .. Len(b) + Len(pre) :
              have[i] = IF i <= Len(b) THEN b[i] ELSE pre[i - Len(b)]
    BY <1>1, ConcatProperties, Zenon
  <2>2. QED
    BY <1>1, <2>1
<1>4. \A i \in 1 .. Len(have) : have[i] = k + i
  <2> SUFFICES ASSUME NEW i \in 1 .. Len(have) PROVE have[i] = k + i
    OBVIOUS
  <2>1. CASE i <= Len(b)
    BY <1>3, <2>1
  <2>2. CASE i > Len(b)
    <3>1. i - Len(b) \in 1 .. n
      BY <1>3, <2>2
    <3>2. \A j \in 1 .. n : pre[j] = k + Len(b) + j
      <4> SUFFICES ASSUME NEW j \in 1 .. n PROVE pre[j] = k + Len(b) + j
        OBVIOUS
      <4>1. j \in 1 .. Len(w)
        BY <1>0
      <4>2. QED
        BY <1>1, <4>1
    <3>3. pre[i - Len(b)] = k + Len(b) + (i - Len(b))
      BY <3>1, <3>2
    <3>4. QED
      BY <1>3, <2>2, <3>3
  <2>3. QED
    BY <2>1, <2>2
<1>5. have # << >>
    BY DEF pre
<1> HIDE DEF have
<1>6. /\ Len(have) > 0 /\ Head(have) = have[1]
      /\ b2 \in Seq(Nat) /\ Len(b2) = Len(have) - 1
      /\ \A i \in 1 .. Len(b2) : b2[i] = have[i + 1]
    BY <1>3, <1>5, HeadTailProperties, EmptySeq
<1> HIDE DEF b2
<1>7. Head(have) = k + 1
    BY <1>4, <1>6, <1>3
<1>8. \A i \in 1 .. Len(b2) : b2[i] = k + 1 + i
    BY <1>3, <1>4, <1>6
<1>9. \A i \in 1 .. Len(w2) : w2[i] = k + 1 + Len(b2) + i
  <2> SUFFICES ASSUME NEW i \in 1 .. Len(w2) PROVE w2[i] = k + 1 + Len(b2) + i
    OBVIOUS
  <2>1. n + i \in 1 .. Len(w)
    BY <1>2
  <2>2. w[n + i] = k + Len(b) + (n + i)
    BY <2>1
  <2>3. QED
    BY <1>2, <1>3, <1>6, <2>2
<1>10. (k + 1) + Len(b2) + Len(w2) = k + Len(b) + Len(w)
    BY <1>2, <1>3, <1>6
<1>11. QED
    BY <1>2, <1>6, <1>7, <1>8, <1>9, <1>10 DEF have, b2, w2, pre

-----------------------------------------------------------------------------
\* What a step that reads or writes nothing on d keeps.
Kept(d) ==
    /\ Books(d)'
    /\ Reading(d) => Reading(d)'
    /\ Answering(d) => Answering(d)'

LEMMA FrameKeeps ==
    ASSUME NEW d \in Conns, Books(d),
           wire'[d] = wire[d], buff'[d] = buff[d], current'[d] = current[d],
           sent'[d] = sent[d], answered'[d] = answered[d]
    PROVE  Kept(d)
    BY DEF Kept, Books, Unparsed, Answers, Reading, Answering, Open

\* A request that the client sends goes to the end of the wire.
LEMMA SendKeeps ==
    ASSUME TypeOK, NEW c \in Conns, NEW r \in Requests, Send(c, r), NEW d \in Conns, Books(d)
    PROVE  Kept(d)
<1>1. CASE d # c
  <2>1. /\ wire'[d] = wire[d] /\ buff'[d] = buff[d] /\ current'[d] = current[d]
        /\ sent'[d] = sent[d] /\ answered'[d] = answered[d]
    BY <1>1 DEF Send, TypeOK
  <2>2. QED
    BY <2>1, FrameKeeps
<1>2. CASE d = c
  <2> DEFINE w == wire[c]
             s == sent[c]
  <2>1. w \in Seq(Nat) /\ s \in Seq(Requests) /\ Len(s) + 1 \in Nat /\ buff[c] \in Seq(Nat)
        /\ current[c] \in Nat /\ answered[c] \in Seq(Nat)
    BY DEF TypeOK
  <2>2. /\ wire'[c] = Append(w, Len(s) + 1) /\ sent'[c] = Append(s, r)
    BY DEF Send, TypeOK
  <2>same. buff'[c] = buff[c] /\ current'[c] = current[c] /\ answered'[c] = answered[c]
    BY DEF Send, TypeOK
  <2> HIDE DEF w, s
  <2>3. /\ Len(wire'[c]) = Len(w) + 1 /\ wire'[c][Len(w) + 1] = Len(s) + 1
        /\ \A i \in 1 .. Len(w) : wire'[c][i] = w[i]
    BY <2>1, <2>2, AppendProperties
  <2>4. Len(sent'[c]) = Len(s) + 1 /\ \A i \in 1 .. Len(s) : sent'[c][i] = s[i]
    BY <2>1, <2>2, AppendProperties
  <2>5. /\ current[c] + Len(buff[c]) + Len(w) = Len(s)
        /\ \A i \in 1 .. Len(buff[c]) : buff[c][i] = current[c] + i
        /\ \A i \in 1 .. Len(w) : w[i] = current[c] + Len(buff[c]) + i
    BY <1>2 DEF Books, Unparsed, w, s
  <2>nat. current[c] \in Nat
    BY <2>1
  <2>6. Len(w) \in Nat /\ Len(s) \in Nat /\ Len(buff[c]) \in Nat /\ Len(answered[c]) \in Nat
    BY <2>1
  <2>7. Unparsed(c)'
    <3>1. current'[c] + Len(buff'[c]) + Len(wire'[c]) = Len(sent'[c])
      <4>1. Len(wire'[c]) = Len(w) + 1 /\ Len(sent'[c]) = Len(s) + 1
            /\ Len(buff'[c]) = Len(buff[c])
        BY <2>same, <2>3, <2>4
      <4>2. current[c] + Len(buff[c]) + Len(w) = Len(s)
        BY <2>5
      <4>4. current[c] + Len(buff[c]) + (Len(w) + 1) = Len(s) + 1
        BY <2>1, <4>2
      <4>5. QED
        BY <2>same, <4>1, <4>4, Zenon
    <3>2. ASSUME NEW i \in 1 .. Len(wire'[c])
          PROVE  wire'[c][i] = current'[c] + Len(buff'[c]) + i
      <4>1. CASE i \in 1 .. Len(w)
        BY <2>same, <2>3, <2>5, <4>1
      <4>2. CASE i = Len(w) + 1
        BY <2>nat, <2>same, <2>3, <2>5, <2>6, <4>2
      <4>3. QED
        BY <2>3, <2>6, <4>1, <4>2
    <3>3. QED
      BY <2>same, <2>5, <3>1, <3>2 DEF Unparsed
  <2>8. current[c] <= Len(s)
    BY <2>nat, <2>5, <2>6
  <2>9. Answers(c)
    BY <1>2 DEF Books
  <2>10. \A i \in 1 .. Len(answered[c]) : i <= current[c] => sent'[c][i] = s[i]
    BY <2>nat, <2>4, <2>6, <2>8
  <2>11. Len(answered[c]) <= current[c]
    BY <2>nat, <2>6, <2>9 DEF Answers
  <2>old. \A i \in 1 .. Len(answered[c]) : sent'[c][i] = sent[c][i]
    BY <2>nat, <2>6, <2>10, <2>11 DEF s
  <2>12. Answers(c)'
    BY <2>same, <2>6, <2>9, <2>old DEF Answers
  <2>13. Open(c) => Open(c)'
    BY <2>same, <2>6, <2>old DEF Open
  <2>14. Reading(c) => Reading(c)'
    BY <2>same, <2>13 DEF Reading
  <2>15. Answering(c) => Answering(c)'
    <3>1. SUFFICES ASSUME Answering(c) PROVE Answering(c)'
      OBVIOUS
    <3>2. current[c] \in 1 .. Len(s)
      BY <2>nat, <2>6, <2>8, <3>1 DEF Answering
    <3>3. QED
      BY <2>same, <2>4, <2>13, <3>1, <3>2 DEF Answering, s
  <2>16. QED
    BY <1>2, <2>7, <2>12, <2>14, <2>15 DEF Kept, Books
<1>3. QED
    BY <1>1, <1>2

\* A read that finds a request makes it the current one; one that fails, or
\* that refuses the request, leaves the session without an answer to give.
LEMMA ReadParses ==
    ASSUME TypeOK, NEW c \in Conns, Read(c), Books(c), Reading(c)
    PROVE  /\ Books(c)'
           /\ result'[c] = "ok" => Answering(c)'
           /\ result'[c] \in {"ok", "error"}
           /\ current' \in [Conns -> Nat] /\ wire' \in [Conns -> Seq(Nat)]
           /\ buff' \in [Conns -> Seq(Nat)]
<1>1. CASE UNCHANGED <<wire, buff, current>> /\ Complete(c, "error")
  <2>1. UNCHANGED <<sent, answered>>
    BY DEF Read, client
  <2>2. Kept(c)
    BY <1>1, <2>1, FrameKeeps
  <2>3. result'[c] = "error"
    BY <1>1 DEF Complete, TypeOK
  <2>4. QED
    BY <1>1, <2>2, <2>3 DEF Kept, TypeOK
<1>2. ASSUME NEW n \in 0 .. Len(wire[c]),
             LET have == buff[c] \o SubSeq(wire[c], 1, n)
             IN  /\ have # << >>
                 /\ wire' = [wire EXCEPT ![c] = SubSeq(@, n + 1, Len(@))]
                 /\ buff' = [buff EXCEPT ![c] = Tail(have)]
                 /\ current' = [current EXCEPT ![c] = Head(have)]
                 /\ Complete(c, IF sent[c][Head(have)] = "bad" THEN "error" ELSE "ok")
      PROVE  /\ Books(c)'
             /\ result'[c] = "ok" => Answering(c)'
             /\ result'[c] \in {"ok", "error"}
             /\ current' \in [Conns -> Nat] /\ wire' \in [Conns -> Seq(Nat)]
             /\ buff' \in [Conns -> Seq(Nat)]
  <2> DEFINE have == buff[c] \o SubSeq(wire[c], 1, n)
             k    == current[c]
             w2   == SubSeq(wire[c], n + 1, Len(wire[c]))
             b2   == Tail(have)
  <2>1. buff[c] \in Seq(Nat) /\ wire[c] \in Seq(Nat) /\ k \in Nat /\ answered[c] \in Seq(Nat)
    BY DEF TypeOK
  <2>2. /\ k + Len(buff[c]) + Len(wire[c]) = Len(sent[c])
        /\ \A i \in 1 .. Len(buff[c]) : buff[c][i] = k + i
        /\ \A i \in 1 .. Len(wire[c]) : wire[c][i] = k + Len(buff[c]) + i
    BY DEF Books, Unparsed
  <2>3. /\ Head(have) = k + 1
        /\ b2 \in Seq(Nat) /\ w2 \in Seq(Nat)
        /\ (k + 1) + Len(b2) + Len(w2) = k + Len(buff[c]) + Len(wire[c])
        /\ \A i \in 1 .. Len(b2) : b2[i] = k + 1 + i
        /\ \A i \in 1 .. Len(w2) : w2[i] = k + 1 + Len(b2) + i
    <3> DEFINE b == buff[c]
               w == wire[c]
    <3>1. b \in Seq(Nat) /\ w \in Seq(Nat) /\ k \in Nat /\ n \in 0 .. Len(w)
      BY <2>1
    <3>2. b \o SubSeq(w, 1, n) # << >>
      BY <1>2
    <3>3. \A i \in 1 .. Len(b) : b[i] = k + i
      BY <2>2
    <3>4. \A i \in 1 .. Len(w) : w[i] = k + Len(b) + i
      BY <2>2
    <3> HIDE DEF k, b, w
    <3>5. LET h  == b \o SubSeq(w, 1, n)
              u  == Tail(h)
              v  == SubSeq(w, n + 1, Len(w))
          IN  /\ Head(h) = k + 1
              /\ u \in Seq(Nat) /\ v \in Seq(Nat)
              /\ (k + 1) + Len(u) + Len(v) = k + Len(b) + Len(w)
              /\ \A i \in 1 .. Len(u) : u[i] = k + 1 + i
              /\ \A i \in 1 .. Len(v) : v[i] = k + 1 + Len(u) + i
      BY <3>1, <3>2, <3>3, <3>4, TakeNext, Zenon
    <3>6. QED
      BY <3>5 DEF b, w
  <2>4. /\ wire' = [wire EXCEPT ![c] = w2] /\ buff' = [buff EXCEPT ![c] = b2]
        /\ current' = [current EXCEPT ![c] = k + 1]
        /\ result' = [result EXCEPT ![c] = IF sent[c][k + 1] = "bad" THEN "error" ELSE "ok"]
    BY <1>2, <2>3 DEF Complete
  <2> HIDE DEF have, w2, b2
  <2>5. /\ wire'[c] = w2 /\ buff'[c] = b2 /\ current'[c] = k + 1
        /\ result'[c] = IF sent[c][k + 1] = "bad" THEN "error" ELSE "ok"
    BY <2>4 DEF TypeOK
  <2>6. sent' = sent /\ answered' = answered
    BY DEF Read, client
  <2>7. Unparsed(c)'
    <3>1. (k + 1) + Len(b2) + Len(w2) = Len(sent[c])
      BY <2>2, <2>3
    <3>2. QED
      BY <2>3, <2>5, <2>6, <3>1 DEF Unparsed
  <2>8. k = Len(answered[c]) /\ Open(c) /\ Answers(c)
    BY DEF Reading, Books
  <2>9. Answers(c)'
    BY <2>5, <2>6, <2>8 DEF Answers
  <2>10. result'[c] = "ok" => Answering(c)'
    BY <2>5, <2>6, <2>8 DEF Answering, Open
  <2>11. QED
    BY <2>1, <2>3, <2>4, <2>5, <2>7, <2>9, <2>10 DEF Books, TypeOK
<1>3. QED
    BY <1>1, <1>2 DEF Read

\* A response is to the current request, the one after those answered before.
LEMMA WriteAnswers ==
    ASSUME TypeOK, NEW c \in Conns, Write(c), Books(c), Answering(c)
    PROVE  /\ Books(c)'
           /\ result'[c] = "ok" => current'[c] = Len(answered'[c]) /\ current'[c] > 0
           /\ result'[c] \in {"ok", "error"}
           /\ answered' \in [Conns -> Seq(Nat)]
<1>1. UNCHANGED <<wire, buff, current, sent>>
    BY DEF Write, client
<1>2. CASE UNCHANGED answered /\ Complete(c, "error")
  <2>1. Kept(c)
    BY <1>1, <1>2, FrameKeeps
  <2>2. result'[c] = "error"
    BY <1>2 DEF Complete, TypeOK
  <2>3. QED
    BY <1>2, <2>1, <2>2 DEF Kept, TypeOK
<1>3. CASE answered' = [answered EXCEPT ![c] = Append(@, current[c])] /\ Complete(c, "ok")
  <2> DEFINE a == answered[c]
             n == Len(a)
  <2>1. a \in Seq(Nat) /\ n \in Nat /\ current[c] \in Nat
    BY DEF TypeOK
  <2>2. current[c] = n + 1 /\ sent[c][n + 1] # "bad" /\ \A i \in 1 .. n : sent[c][i] = "keep"
    BY DEF Answering, Open
  <2>3. answered'[c] = Append(a, current[c]) /\ answered' \in [Conns -> Seq(Nat)]
    BY <1>3, <2>1 DEF TypeOK
  <2>4. \A i \in 1 .. n : a[i] = i
    BY DEF Books, Answers
  <2> HIDE DEF a
  <2>5. /\ Len(answered'[c]) = n + 1 /\ answered'[c][n + 1] = n + 1
        /\ \A i \in 1 .. n : answered'[c][i] = i
    BY <2>1, <2>2, <2>3, <2>4, AppendProperties
  <2> HIDE DEF n
  <2>6. Answers(c)'
    <3>1. \A i \in 1 .. n + 1 : answered'[c][i] = i
      BY <2>1, <2>5
    <3>2. \A i \in 1 .. n + 1 : sent[c][i] # "bad"
      BY <2>1, <2>2
    <3>3. \A i \in 1 .. (n + 1) - 1 : sent[c][i] = "keep"
      BY <2>1, <2>2
    <3>4. QED
      BY <1>1, <2>2, <2>5, <3>1, <3>2, <3>3 DEF Answers
  <2>7. Unparsed(c)'
    BY <1>1 DEF Books, Unparsed
  <2>8. result'[c] = "ok"
    BY <1>3 DEF Complete, TypeOK
  <2>9. current'[c] = Len(answered'[c]) /\ current'[c] > 0
    BY <1>1, <2>1, <2>2, <2>5
  <2>10. QED
    BY <2>3, <2>6, <2>7, <2>8, <2>9 DEF Books
<1>4. QED
    BY <1>2, <1>3 DEF Write

-----------------------------------------------------------------------------
\* The steps.  Most of them read and write nothing; they move the session on.
LEMMA ServerStep ==
    ASSUME ServerInv, [Next]_vars
    PROVE  ServerInv'
<1> USE DEF ServerInv
<1>1. TypeOK /\ \A d \in Conns : Books(d) /\ Session(d)
    OBVIOUS
<1> HIDE DEF ServerInv
<1> USE <1>1
<1>2. ASSUME NEW c \in Conns, Connect(c) PROVE ServerInv'
  <2>1. TypeOK' /\ UNCHANGED <<wire, buff, current, sent, answered>>
    BY <1>2 DEF TypeOK, client, Connect
  <2>2. \A d \in Conns : Kept(d)
    BY <2>1, FrameKeeps
  <2>3. ASSUME NEW d \in Conns PROVE Session(d)'
    BY <1>2, <2>2 DEF Session, Kept, TypeOK, client, Connect
  <2>4. QED
    BY <2>1, <2>2, <2>3 DEF ServerInv, Kept
<1>3. ASSUME NEW c \in Conns, Shutdown(c) PROVE ServerInv'
  <2>1. TypeOK' /\ UNCHANGED <<wire, buff, current, sent, answered>>
    BY <1>3 DEF TypeOK, client, Shutdown
  <2>2. \A d \in Conns : Kept(d)
    BY <2>1, FrameKeeps
  <2>3. ASSUME NEW d \in Conns PROVE Session(d)'
    BY <1>3, <2>2 DEF Session, Kept, TypeOK, client, Shutdown
  <2>4. QED
    BY <2>1, <2>2, <2>3 DEF ServerInv, Kept
<1>4. ASSUME NEW c \in Conns, Reset(c) PROVE ServerInv'
  <2>1. TypeOK' /\ UNCHANGED <<wire, buff, current, sent, answered>>
    BY <1>4 DEF TypeOK, client, Reset
  <2>2. \A d \in Conns : Kept(d)
    BY <2>1, FrameKeeps
  <2>3. ASSUME NEW d \in Conns PROVE Session(d)'
    BY <1>4, <2>2 DEF Session, Kept, TypeOK, client, Reset
  <2>4. QED
    BY <2>1, <2>2, <2>3 DEF ServerInv, Kept
<1>5. ASSUME NEW c \in Conns, Timeout(c) PROVE ServerInv'
  <2>1. TypeOK' /\ UNCHANGED <<wire, buff, current, sent, answered>>
    BY <1>5 DEF TypeOK, client, Timeout, Complete
  <2>2. \A d \in Conns : Kept(d)
    BY <2>1, FrameKeeps
  <2>3. ASSUME NEW d \in Conns PROVE Session(d)'
    BY <1>5, <2>2 DEF Session, Kept, TypeOK, client, Timeout, Complete
  <2>4. QED
    BY <2>1, <2>2, <2>3 DEF ServerInv, Kept
<1>6. ASSUME NEW c \in Conns, accept(c) PROVE ServerInv'
  <2>1. TypeOK' /\ UNCHANGED <<wire, buff, current, sent, answered>>
    BY <1>6 DEF TypeOK, client, accept, handle_request_reading, Start
  <2>2. \A d \in Conns : Kept(d)
    BY <2>1, FrameKeeps
  <2>3. ASSUME NEW d \in Conns PROVE Session(d)'
    BY <1>6, <2>2 DEF Session, Kept, TypeOK, client, accept, handle_request_reading, Start
  <2>4. QED
    BY <2>1, <2>2, <2>3 DEF ServerInv, Kept
<1>7. ASSUME accept_error PROVE ServerInv'
  <2>1. TypeOK' /\ UNCHANGED <<wire, buff, current, sent, answered>>
    BY <1>7 DEF TypeOK, client, accept_error
  <2>2. \A d \in Conns : Kept(d)
    BY <2>1, FrameKeeps
  <2>3. ASSUME NEW d \in Conns PROVE Session(d)'
    BY <1>7, <2>2 DEF Session, Kept, TypeOK, client, accept_error
  <2>4. QED
    BY <2>1, <2>2, <2>3 DEF ServerInv, Kept
<1>8. ASSUME Signal PROVE ServerInv'
  <2>1. TypeOK' /\ UNCHANGED <<wire, buff, current, sent, answered>>
    BY <1>8 DEF TypeOK, client, Signal, Down
  <2>2. \A d \in Conns : Kept(d)
    BY <2>1, FrameKeeps
  <2>3. ASSUME NEW d \in Conns PROVE Session(d)'
    BY <1>8, <2>2 DEF Session, Kept, TypeOK, client, Signal, Down
  <2>4. QED
    BY <2>1, <2>2, <2>3 DEF ServerInv, Kept
<1>9. ASSUME NEW c \in Conns, handle_request_received(c) PROVE ServerInv'
  <2>1. TypeOK' /\ UNCHANGED <<wire, buff, current, sent, answered>>
    BY <1>9 DEF TypeOK, client, handle_request_received, close, Down, handle_request, Start
  <2>2. \A d \in Conns : Kept(d)
    BY <2>1, FrameKeeps
  <2>3. ASSUME NEW d \in Conns PROVE Session(d)'
    BY <1>9, <2>2 DEF Session, Kept, TypeOK, client, handle_request_received, close, Down, handle_request, Start
  <2>4. QED
    BY <2>1, <2>2, <2>3 DEF ServerInv, Kept
<1>10. ASSUME UNCHANGED vars PROVE ServerInv'
  <2>1. TypeOK' /\ UNCHANGED <<wire, buff, current, sent, answered>>
    BY <1>10 DEF TypeOK, client, vars
  <2>2. \A d \in Conns : Kept(d)
    BY <2>1, FrameKeeps
  <2>3. ASSUME NEW d \in Conns PROVE Session(d)'
    BY <1>10, <2>2 DEF Session, Kept, TypeOK, client, vars
  <2>4. QED
    BY <2>1, <2>2, <2>3 DEF ServerInv, Kept
<1>11. ASSUME NEW c \in Conns, handle_writing_finished(c) PROVE ServerInv'
  <2>1. TypeOK' /\ UNCHANGED <<wire, buff, current, sent, answered>>
    BY <1>11 DEF TypeOK, client, handle_writing_finished, close, Down, reset_parser,
                 handle_request_reading, Start
  <2>2. \A d \in Conns : Kept(d)
    BY <2>1, FrameKeeps
  <2>3. op[c] = "write" /\ result[c] = "ok" /\ keep_alive(c) => Reading(c)'
    <3> SUFFICES ASSUME op[c] = "write", result[c] = "ok", keep_alive(c) PROVE Reading(c)'
      OBVIOUS
    <3>1. current[c] = Len(answered[c]) /\ current[c] > 0
      BY DEF Session
    <3>2. sent[c][Len(answered[c])] = "keep"
      BY <3>1 DEF keep_alive
    <3>3. \A i \in 1 .. Len(answered[c]) - 1 : sent[c][i] = "keep"
      BY DEF Books, Answers
    <3>4. Len(answered[c]) \in Nat
      BY DEF TypeOK
    <3>5. Reading(c)
      BY <3>1, <3>2, <3>3, <3>4 DEF Reading, Open
    <3>6. QED
      BY <2>2, <3>5 DEF Kept
  <2>4. ASSUME NEW d \in Conns PROVE Session(d)'
    BY <1>11, <2>2, <2>3 DEF Session, Kept, TypeOK, client, handle_writing_finished, close, Down,
                            handle_request_reading, Start
  <2>5. QED
    BY <2>1, <2>2, <2>4 DEF ServerInv, Kept
<1>12. ASSUME NEW c \in Conns, NEW r \in Requests, Send(c, r) PROVE ServerInv'
  <2>1. TypeOK'
    BY <1>12 DEF TypeOK, Send
  <2>2. \A d \in Conns : Kept(d)
    BY <1>12, SendKeeps
  <2>3. ASSUME NEW d \in Conns PROVE Session(d)'
    BY <1>12, <2>2 DEF Session, Kept, Send
  <2>4. QED
    BY <2>1, <2>2, <2>3 DEF ServerInv, Kept
<1>13. ASSUME NEW c \in Conns, Read(c) PROVE ServerInv'
  <2>1. op[c] = "read" /\ Reading(c)
    BY <1>13 DEF Read, Pending, Session
  <2>2. /\ Books(c)' /\ (result'[c] = "ok" => Answering(c)') /\ result'[c] \in {"ok", "error"}
        /\ current' \in [Conns -> Nat] /\ wire' \in [Conns -> Seq(Nat)]
        /\ buff' \in [Conns -> Seq(Nat)]
    BY <1>13, <2>1, ReadParses
  <2>3. UNCHANGED <<server, listening, sock, sent, op, answered, broken>>
    BY <1>13 DEF Read, client
  <2>4. result' = [result EXCEPT ![c] = result'[c]]
    BY <1>13 DEF Read, Complete, TypeOK
  <2>5. ASSUME NEW d \in Conns \ {c} PROVE Kept(d) /\ result'[d] = result[d] /\ current'[d] = current[d]
    <3>1. /\ wire'[d] = wire[d] /\ buff'[d] = buff[d] /\ current'[d] = current[d]
          /\ result'[d] = result[d]
      BY <1>13 DEF Read, Complete, TypeOK
    <3>2. QED
      BY <2>3, <3>1, FrameKeeps
  <2>6. sock[c] \notin {"none", "queued"}
    BY <2>1 DEF Session
  <2>7. ASSUME NEW d \in Conns PROVE Session(d)'
    <3>1. CASE d = c
      BY <2>1, <2>2, <2>3, <2>6, <3>1 DEF Session
    <3>2. CASE d # c
      <4>1. Kept(d) /\ result'[d] = result[d] /\ current'[d] = current[d]
        BY <2>5, <3>2
      <4>2. QED
        BY <2>3, <4>1 DEF Session, Kept
    <3>3. QED
      BY <3>1, <3>2
  <2>8. TypeOK'
    BY <2>2, <2>3, <2>4 DEF TypeOK
  <2>9. QED
    BY <2>2, <2>5, <2>7, <2>8 DEF ServerInv, Kept
<1>14. ASSUME NEW c \in Conns, Write(c) PROVE ServerInv'
  <2>1. op[c] = "write" /\ Answering(c)
    BY <1>14 DEF Write, Pending, Session
  <2>2. /\ Books(c)' /\ result'[c] \in {"ok", "error"} /\ answered' \in [Conns -> Seq(Nat)]
        /\ result'[c] = "ok" => current'[c] = Len(answered'[c]) /\ current'[c] > 0
    BY <1>14, <2>1, WriteAnswers
  <2>3. UNCHANGED <<server, listening, sock, wire, buff, current, sent, op, broken>>
    BY <1>14 DEF Write, client
  <2>4. result' = [result EXCEPT ![c] = result'[c]]
    BY <1>14 DEF Write, Complete, TypeOK
  <2>5. ASSUME NEW d \in Conns \ {c} PROVE Kept(d) /\ result'[d] = result[d] /\ answered'[d] = answered[d]
    <3>1. answered'[d] = answered[d] /\ result'[d] = result[d]
      BY <1>14 DEF Write, Complete, TypeOK
    <3>2. QED
      BY <2>3, <3>1, FrameKeeps
  <2>6. sock[c] \notin {"none", "queued"}
    BY <2>1 DEF Session
  <2>7. ASSUME NEW d \in Conns PROVE Session(d)'
    <3>1. CASE d = c
      BY <2>1, <2>2, <2>3, <2>6, <3>1 DEF Session
    <3>2. CASE d # c
      <4>1. Kept(d) /\ result'[d] = result[d] /\ answered'[d] = answered[d]
        BY <2>5, <3>2
      <4>2. QED
        BY <2>3, <4>1 DEF Session, Kept
    <3>3. QED
      BY <3>1, <3>2
  <2>8. TypeOK'
    BY <2>2, <2>3, <2>4 DEF TypeOK
  <2>9. QED
    BY <2>2, <2>5, <2>7, <2>8 DEF ServerInv, Kept
<1>15. QED
    BY <1>2, <1>3, <1>4, <1>5, <1>6, <1>7, <1>8, <1>9, <1>10, <1>11, <1>12, <1>13, <1>14 DEF Next

\* A socket that is not open when its session's handler runs was reset or timed
\* out: the server itself closes a socket only together with the session.
LEMMA CrashStep ==
    ASSUME TypeOK, CrashInv, [Next]_vars
    PROVE  CrashInv'
<1> USE DEF TypeOK, CrashInv, Sockets, CrashNeedsBrokenConnection
<1>1. ASSUME NEW c \in Conns, Connect(c) PROVE CrashInv'
    BY <1>1 DEF Connect
<1>2. ASSUME NEW c \in Conns, Shutdown(c) PROVE CrashInv'
    BY <1>2 DEF Shutdown
<1>3. ASSUME NEW c \in Conns, Reset(c) PROVE CrashInv'
    BY <1>3 DEF Reset
<1>4. ASSUME NEW c \in Conns, NEW r \in Requests, Send(c, r) PROVE CrashInv'
    BY <1>4 DEF Send
<1>5. ASSUME NEW c \in Conns, Read(c) PROVE CrashInv'
    BY <1>5 DEF Read
<1>6. ASSUME NEW c \in Conns, Write(c) PROVE CrashInv'
    BY <1>6 DEF Write
<1>7. ASSUME NEW c \in Conns, Timeout(c) PROVE CrashInv'
    BY <1>7 DEF Timeout
<1>8. ASSUME NEW c \in Conns, accept(c) PROVE CrashInv'
    BY <1>8 DEF accept, handle_request_reading, Start
<1>9. ASSUME NEW c \in Conns, handle_request_received(c) PROVE CrashInv'
    BY <1>9 DEF handle_request_received, close, Down, handle_request, Start
<1>10. ASSUME NEW c \in Conns, handle_writing_finished(c) PROVE CrashInv'
    BY <1>10 DEF handle_writing_finished, close, Down, handle_request_reading,
                Start
<1>11. ASSUME accept_error PROVE CrashInv'
    BY <1>11 DEF accept_error
<1>12. ASSUME Signal PROVE CrashInv'
    BY <1>12 DEF Signal, Down
<1>13. ASSUME UNCHANGED vars PROVE CrashInv'
    BY <1>13 DEF vars
<1>14. QED
    BY <1>1, <1>2, <1>3, <1>4, <1>5, <1>6, <1>7, <1>8, <1>9, <1>10, <1>11, <1>12, <1>13
    DEF Next

LEMMA ServerInvariant == Spec => [](ServerInv /\ CrashInv)
<1>1. Init => ServerInv /\ CrashInv
    BY DEF Init, ServerInv, TypeOK, Books, Unparsed, Answers, Session, Reading, Answering, Open,
           CrashInv, Sockets, CrashNeedsBrokenConnection
<1>2. ServerInv /\ CrashInv /\ [Next]_vars => (ServerInv /\ CrashInv)'
    BY ServerStep, CrashStep DEF ServerInv
<1>3. QED
    BY <1>1, <1>2, PTL DEF Spec

\* The requests in the buffer and on the wire, as one sequence.
LEMMA UnparsedInOrder ==
    ASSUME TypeOK, NEW c \in Conns, Unparsed(c)
    PROVE  LET rest == buff[c] \o wire[c]
           IN  /\ current[c] + Len(rest) = Len(sent[c])
               /\ \A i \in 1 .. Len(rest) : rest[i] = current[c] + i
<1> DEFINE b == buff[c]
           w == wire[c]
           k == current[c]
           rest == b \o w
<1>1. b \in Seq(Nat) /\ w \in Seq(Nat) /\ k \in Nat
    BY DEF TypeOK
<1>2. /\ k + Len(b) + Len(w) = Len(sent[c])
      /\ \A i \in 1 .. Len(b) : b[i] = k + i
      /\ \A i \in 1 .. Len(w) : w[i] = k + Len(b) + i
    BY DEF Unparsed
<1> HIDE DEF b, w, k
<1>3. /\ rest \in Seq(Nat) /\ Len(rest) = Len(b) + Len(w)
      /\ \A i \in 1 .. Len(b) + Len(w) : rest[i] = IF i <= Len(b) THEN b[i] ELSE w[i - Len(b)]
    BY <1>1, ConcatProperties, Zenon
<1>4. Len(b) \in Nat /\ Len(w) \in Nat
    BY <1>1
<1> HIDE DEF rest
<1>5. k + Len(rest) = Len(sent[c])
  <2>1. k + (Len(b) + Len(w)) = k + Len(b) + Len(w)
    BY <1>1, <1>4
  <2>2. QED
    BY <1>2, <1>3, <2>1
<1>6. ASSUME NEW i \in 1 .. Len(rest) PROVE rest[i] = k + i
  <2>1. CASE i <= Len(b)
    BY <1>2, <1>3, <2>1
  <2>2. CASE ~(i <= Len(b))
    <3>1. i - Len(b) \in 1 .. Len(w)
      BY <1>3, <1>4, <2>2
    <3>2. rest[i] = w[i - Len(b)]
      BY <1>3, <2>2
    <3>3. w[i - Len(b)] = k + Len(b) + (i - Len(b))
      BY <1>2, <3>1
    <3>4. k + Len(b) + (i - Len(b)) = k + i
      BY <1>1, <1>4
    <3>5. QED
      BY <3>2, <3>3, <3>4
  <2>3. QED
    BY <2>1, <2>2
<1>7. QED
    BY <1>5, <1>6 DEF rest, b, w, k

(***************************************************************************)
(* However the requests of a connection were pipelined or split over       *)
(* reads, HTTP_Session answers them in their order, each once and without  *)
(* a gap, and loses none between the wire, buff_ and parser_.              *)
(***************************************************************************)
THEOREM AnswersInOrder == Spec => []ResponsesInOrder
<1>1. ServerInv => ResponsesInOrder
  <2> SUFFICES ASSUME ServerInv, NEW c \in Conns
               PROVE  LET n    == Len(answered[c])
                          rest == buff[c] \o wire[c]
                      IN  /\ \A i \in 1 .. n : answered[c][i] = i
                          /\ current[c] \in {n, n + 1}
                          /\ current[c] + Len(rest) = Len(sent[c])
                          /\ \A i \in 1 .. Len(rest) : rest[i] = current[c] + i
    BY DEF ResponsesInOrder
  <2>1. TypeOK /\ Unparsed(c) /\ Answers(c)
    BY DEF ServerInv, Books
  <2>2. QED
    BY <2>1, UnparsedInOrder DEF Answers
<1>2. QED
    BY <1>1, ServerInvariant, PTL

(***************************************************************************)
(* HTTP_Session sends nothing after a response without keep-alive and      *)
(* answers no request after one that its parser refused.                   *)
(***************************************************************************)
THEOREM CloseIsLast == Spec => []NothingAfterClose
<1>1. ServerInv => NothingAfterClose
  <2> SUFFICES ASSUME ServerInv, NEW c \in Conns,
                      NEW i \in DOMAIN answered[c], NEW j \in DOMAIN answered[c]
               PROVE  /\ sent[c][answered[c][i]] # "bad"
                      /\ i < j => sent[c][answered[c][i]] = "keep"
    BY DEF NothingAfterClose
  <2>1. answered[c] \in Seq(Nat) /\ Answers(c)
    BY DEF ServerInv, TypeOK, Books
  <2>2. i \in 1 .. Len(answered[c]) /\ j \in 1 .. Len(answered[c])
    BY <2>1
  <2>3. answered[c][i] = i
    BY <2>1, <2>2 DEF Answers
  <2>4. i < j => i \in 1 .. Len(answered[c]) - 1
    BY <2>1, <2>2
  <2>5. QED
    BY <2>1, <2>2, <2>3, <2>4 DEF Answers
<1>2. QED
    BY <1>1, ServerInvariant, PTL

(***************************************************************************)
(* remote_endpoint() throws, and ends the server, only after a connection  *)
(* timed out or was reset by its peer; nothing else a client or a failing  *)
(* accept does makes a handler meet a socket that is not connected.        *)
(***************************************************************************)
THEOREM OnlyBrokenConnectionsCrash == Spec => []CrashNeedsBrokenConnection
    BY ServerInvariant, PTL DEF CrashInv
=============================================================================
