------------------------ MODULE ProcessHandlerProofs ------------------------
(***************************************************************************)
(* Proofs about Process_Handler, for any streams, any number of lines and  *)
(* any size of the pipes.                                                  *)
(***************************************************************************)
EXTENDS ProcessHandler, SequenceTheorems, TLAPS

(***************************************************************************)
(* The inductive invariant.  The lines are where they should be: those the *)
(* callback got, those in the buffer and those in the pipe are, in this    *)
(* order, all the child has written (Ordered).  A completion that carries  *)
(* a line finds one in the buffer, so that the callback is never called    *)
(* with what isn't there; and a read that failed, or a callback called     *)
(* with junk, means that the pipe was closed under it or that the child    *)
(* has ended and all it wrote has been delivered (Exhausted).              *)
(***************************************************************************)
StreamTypes ==
    /\ sent \in [Streams -> Nat]
    /\ data \in [Streams -> Seq(Nat)]
    /\ buf \in [Streams -> Seq(Nat)]
    /\ got \in [Streams -> Seq(Nat)]
    /\ read \in [Streams -> {"none", "pending", "line", "error"}]
    /\ pipe \in [Streams -> BOOLEAN]
    /\ junk \in [Streams -> BOOLEAN]

Ended == proc \in {"zombie", "gone"}

Lines(n) == [i \in 1 .. n |-> i]

Ordered(s) == got[s] \o buf[s] \o data[s] = Lines(sent[s])

Exhausted(s) == Ended /\ buf[s] = << >> /\ data[s] = << >>

StreamInv(s) ==
    /\ Ordered(s)
    /\ read[s] = "line" => buf[s] # << >>
    /\ read[s] = "error" \/ junk[s] => ~pipe[s] \/ Exhausted(s)

\* Nothing has happened before spawn().
Unspawned == obj = "new" => proc = "none" /\ \A s \in Streams : read[s] = "none" /\ ~junk[s]

(***************************************************************************)
(* The child.  suspend() meets a child that runs or is stopped, never one  *)
(* that was killed: the call that kills it doesn't return before it has    *)
(* ended.                                                                  *)
(***************************************************************************)
ChildInv ==
    /\ obj = "spawned" => proc # "none"
    /\ proc = "killed" => call \in {"terminate", "destroy"}
    /\ StoppedCanBeResumed

ChildTypes ==
    proc \in {"none", "running", "stopped", "killed", "zombie", "gone"}

HandlerInv ==
    /\ StreamTypes
    /\ ChildTypes
    /\ Unspawned
    /\ \A s \in Streams : StreamInv(s)
    /\ ChildInv

-----------------------------------------------------------------------------
(***************************************************************************)
(* What the steps do to the lines of one stream: g the lines the callback  *)
(* got, b those in the buffer, d those in the pipe.                        *)
(***************************************************************************)
LEMMA Associative == \A s, t, u \in Seq(Nat) : (s \o t) \o u = s \o (t \o u)
BY ConcatAssociative

LEMMA OneMore ==
    \A g, b, d \in Seq(Nat), n \in Nat :
        g \o b \o d = Lines(n) => g \o b \o Append(d, n + 1) = Lines(n + 1)
<1> SUFFICES ASSUME NEW g \in Seq(Nat), NEW b \in Seq(Nat), NEW d \in Seq(Nat),
                    NEW n \in Nat, g \o b \o d = Lines(n)
             PROVE  g \o b \o Append(d, n + 1) = Lines(n + 1)
  OBVIOUS
<1> DEFINE all == g \o b \o d
<1>1. g \o b \in Seq(Nat) /\ all \in Seq(Nat) /\ n + 1 \in Nat /\ <<n + 1>> \in Seq(Nat)
  <2>1. g \o b \in Seq(Nat)
    BY ConcatProperties
  <2>2. all \in Seq(Nat)
    BY <2>1, ConcatProperties
  <2> QED
    BY <2>1, <2>2
<1>2. Append(d, n + 1) = d \o <<n + 1>>
  BY <1>1, AppendIsConcat
<1>3. ((g \o b) \o d) \o <<n + 1>> = (g \o b) \o (d \o <<n + 1>>)
  BY <1>1, Associative, Zenon
<1>4. all \o <<n + 1>> = Append(all, n + 1)
  BY <1>1, AppendIsConcat
<1>5. Append(Lines(n), n + 1) = Lines(n + 1)
  <2>1. Lines(n + 1) \in Seq(Nat) /\ Len(Lines(n + 1)) = n + 1
    BY DEF Lines
  <2>2. Lines(n) \in Seq(Nat) /\ Len(Lines(n)) = n
    BY DEF Lines
  <2> QED
    BY <2>1, <2>2 DEF Lines
<1> QED
  BY <1>2, <1>3, <1>4, <1>5

LEMMA Deliver ==
    \A g, b, d \in Seq(Nat) :
        b # << >> => Append(g, Head(b)) \o Tail(b) \o d = g \o b \o d
<1> SUFFICES ASSUME NEW g \in Seq(Nat), NEW b \in Seq(Nat), NEW d \in Seq(Nat), b # << >>
             PROVE  Append(g, Head(b)) \o Tail(b) \o d = g \o b \o d
  OBVIOUS
<1>1. Head(b) \in Nat /\ Tail(b) \in Seq(Nat) /\ <<Head(b)>> \in Seq(Nat)
  BY HeadTailProperties
<1>2. Append(g, Head(b)) \in Seq(Nat) /\ Append(g, Head(b)) = g \o <<Head(b)>>
  BY <1>1, AppendProperties, AppendIsConcat
<1>3. (g \o <<Head(b)>>) \o Tail(b) = g \o (<<Head(b)>> \o Tail(b))
  BY <1>1, Associative, Zenon
<1>4. <<Head(b)>> \o Tail(b) = b
  <2>1. 1 \in 1 .. Len(b) /\ Len(b) \in 1 .. Len(b)
    BY EmptySeq
  <2>2. SubSeq(b, 1, Len(b)) = <<b[1]>> \o SubSeq(b, 1 + 1, Len(b))
    BY <2>1, SubSeqRecursiveFirst
  <2>3. SubSeq(b, 1, Len(b)) = b /\ SubSeq(b, 2, Len(b)) = Tail(b) /\ Head(b) = b[1]
    BY SubSeqFull, TailIsSubSeq
  <2> QED
    BY <2>2, <2>3
<1> QED
  BY <1>1, <1>2, <1>3, <1>4

LEMMA Fetch ==
    ASSUME NEW g \in Seq(Nat), NEW d \in Seq(Nat), NEW n \in 1 .. Len(d)
    PROVE  LET b2 == SubSeq(d, 1, n)
               d2 == SubSeq(d, n + 1, Len(d))
           IN  /\ b2 \in Seq(Nat) /\ d2 \in Seq(Nat) /\ b2 # << >>
               /\ g \o b2 \o d2 = g \o << >> \o d
<1> DEFINE b2 == SubSeq(d, 1, n)
           d2 == SubSeq(d, n + 1, Len(d))
<1>1. b2 \in Seq(Nat) /\ Len(b2) = n /\ d2 \in Seq(Nat)
  OBVIOUS
<1>2. b2 # << >>
  BY <1>1, EmptySeq
<1>3. b2 \o d2 = d
  <2>1. 1 \in 1 .. Len(d) + 1 /\ n \in 1 - 1 .. Len(d) /\ Len(d) \in n .. Len(d)
    BY LenProperties
  <2>2. SubSeq(d, 1, n) \o SubSeq(d, n + 1, Len(d)) = SubSeq(d, 1, Len(d))
    BY <2>1, ConcatAdjacentSubSeq
  <2>3. SubSeq(d, 1, Len(d)) = d
    BY SubSeqFull
  <2> QED
    BY <2>2, <2>3
<1> HIDE DEF b2, d2
<1>4. (g \o b2) \o d2 = g \o (b2 \o d2)
  BY <1>1, Associative, Zenon
<1>5. g \o << >> = g
  BY ConcatEmptySeq
<1> QED
  BY <1>1, <1>2, <1>3, <1>4, <1>5 DEF b2, d2

\* The same of a stream s.
LEMMA LineWritten ==
    ASSUME StreamTypes, NEW s \in Streams, StreamInv(s)
    PROVE  got[s] \o buf[s] \o Append(data[s], sent[s] + 1) = Lines(sent[s] + 1)
<1>1. got[s] \in Seq(Nat) /\ buf[s] \in Seq(Nat) /\ data[s] \in Seq(Nat) /\ sent[s] \in Nat
  BY DEF StreamTypes
<1>2. got[s] \o buf[s] \o data[s] = Lines(sent[s])
  BY DEF StreamInv, Ordered
<1> QED
  BY <1>1, <1>2, OneMore, Zenon

LEMMA LineDelivered ==
    ASSUME StreamTypes, NEW s \in Streams, buf[s] # << >>
    PROVE  Append(got[s], Head(buf[s])) \o Tail(buf[s]) \o data[s]
              = got[s] \o buf[s] \o data[s]
<1>1. got[s] \in Seq(Nat) /\ buf[s] \in Seq(Nat) /\ data[s] \in Seq(Nat)
  BY DEF StreamTypes
<1> QED
  BY <1>1, Deliver, Zenon

-----------------------------------------------------------------------------
\* A child that has ended stays so.
LEMMA EndIsFinal ==
    ASSUME Unspawned, Ended, [Next]_vars
    PROVE  Ended'
<1>1. CASE spawn
  BY <1>1 DEF spawn, Unspawned, Ended
<1>2. CASE suspend \/ resume \/ terminate \/ destroy
  BY <1>2 DEF suspend, resume, terminate, destroy, Enter, Reaped, running, Ended
<1>3. CASE OnExit \/ WaitpidReturns \/ WaitReturns \/ TerminateReturns \/ Exit
  BY <1>3 DEF OnExit, WaitpidReturns, WaitReturns, TerminateReturns, Exit, Ended
<1>4. CASE UNCHANGED proc
  BY <1>4 DEF Ended
<1>5. CASE \E s \in Streams : BeginLine(s) \/ EndLine(s) \/ Complete(s) \/ handle_stream(s)
  BY <1>4, <1>5 DEF BeginLine, EndLine, Complete, handle_stream, child
<1>6. CASE ReadInput \/ suspended \/ wait \/ write_stdin \/ close_stdin \/ WriteReturns
           \/ UNCHANGED vars
  BY <1>4, <1>6 DEF ReadInput, suspended, wait, write_stdin, close_stdin, WriteReturns,
                    child, vars
<1> QED
  BY <1>1, <1>2, <1>3, <1>5, <1>6 DEF Next

\* Most steps touch no stream.
Quiet == UNCHANGED <<sent, data, buf, read, got, junk, pipe>>

LEMMA StreamSteps ==
    ASSUME [Next]_vars
    PROVE  \/ Quiet
           \/ \E s \in Streams : EndLine(s) \/ Complete(s) \/ handle_stream(s)
           \/ spawn \/ terminate \/ destroy
<1>1. ASSUME NEW s \in Streams, BeginLine(s) PROVE Quiet
  BY <1>1 DEF BeginLine, Quiet, reading, ends
<1>2. CASE ReadInput \/ Exit \/ OnExit \/ suspend \/ close_stdin
  BY <1>2 DEF ReadInput, Exit, OnExit, suspend, close_stdin, Quiet, output, reading, ends
<1>3. CASE suspended \/ resume \/ wait \/ write_stdin
  BY <1>3 DEF suspended, resume, wait, write_stdin, Enter, Quiet, output, reading, ends
<1>4. CASE WaitpidReturns \/ WaitReturns \/ WriteReturns \/ TerminateReturns
  BY <1>4 DEF WaitpidReturns, WaitReturns, WriteReturns, TerminateReturns, Quiet,
              output, reading, ends
<1>5. CASE UNCHANGED vars
  BY <1>5 DEF vars, Quiet, output, reading, ends
<1> QED
  BY <1>1, <1>2, <1>3, <1>4, <1>5 DEF Next

LEMMA TypesStep ==
    ASSUME StreamTypes, \A s \in Streams : StreamInv(s), [Next]_vars
    PROVE  StreamTypes'
<1>1. CASE Quiet
  BY <1>1 DEF Quiet, StreamTypes
<1>2. ASSUME NEW s \in Streams, EndLine(s) PROVE StreamTypes'
  <2>1. sent[s] + 1 \in Nat /\ data[s] \in Seq(Nat)
    BY DEF StreamTypes
  <2>2. Append(data[s], sent[s] + 1) \in Seq(Nat)
    BY <2>1
  <2> QED
    BY <1>2, <2>1, <2>2 DEF EndLine, StreamTypes, reading, ends
<1>3. ASSUME NEW s \in Streams, Complete(s) PROVE StreamTypes'
  <2>1. ASSUME NEW n \in 1 .. Len(data[s])
        PROVE  SubSeq(data[s], 1, n) \in Seq(Nat) /\ SubSeq(data[s], n + 1, Len(data[s])) \in Seq(Nat)
    <3>1. data[s] \in Seq(Nat)
      BY DEF StreamTypes
    <3> QED
      BY <2>1, <3>1
  <2> QED
    BY <1>3, <2>1 DEF Complete, StreamTypes, ends
<1>4. ASSUME NEW s \in Streams, handle_stream(s) PROVE StreamTypes'
  <2>1. CASE obj # "destroyed" /\ read[s] = "line"
    <3>1. buf[s] \in Seq(Nat) /\ got[s] \in Seq(Nat) /\ buf[s] # << >>
      BY <2>1 DEF StreamTypes, StreamInv
    <3>2. Append(got[s], Head(buf[s])) \in Seq(Nat) /\ Tail(buf[s]) \in Seq(Nat)
      BY <3>1, HeadTailProperties, AppendProperties
    <3>3. /\ got' = [got EXCEPT ![s] = Append(got[s], Head(buf[s]))]
          /\ buf' = [buf EXCEPT ![s] = Tail(buf[s])]
          /\ read' = [read EXCEPT ![s] = NextRead(s)]
          /\ UNCHANGED <<sent, data, pipe, junk>>
      BY <1>4, <2>1 DEF handle_stream, consume, output, ends
    <3>4. NextRead(s) \in {"none", "pending"}
      BY DEF NextRead
    <3> QED
      BY <3>2, <3>3, <3>4 DEF StreamTypes
  <2>2. CASE obj = "destroyed" \/ read[s] # "line"
    BY <1>4, <2>2 DEF handle_stream, NextRead, StreamTypes, output, ends
  <2> QED
    BY <2>1, <2>2
<1>5. CASE spawn
  BY <1>5 DEF spawn, StreamTypes, output
<1>6. CASE terminate \/ destroy
  BY <1>6 DEF terminate, destroy, CloseStreams, StreamTypes, output
<1> QED
  BY <1>1, <1>2, <1>3, <1>4, <1>5, <1>6, StreamSteps

\* A stream whose lines stay where they are keeps its invariant.
LEMMA StreamFrame ==
    ASSUME NEW s \in Streams, StreamInv(s), Ended => Ended',
           sent'[s] = sent[s], data'[s] = data[s], buf'[s] = buf[s],
           got'[s] = got[s], junk'[s] = junk[s],
           read'[s] = read[s] \/ read'[s] \in {"none", "pending"} \/ ~pipe'[s],
           read'[s] = "line" => read[s] = "line",
           pipe'[s] => pipe[s]
    PROVE  StreamInv(s)'
BY DEF StreamInv, Ordered, Exhausted

LEMMA StreamStep ==
    ASSUME StreamTypes, Unspawned, \A s \in Streams : StreamInv(s), [Next]_vars,
           NEW s \in Streams
    PROVE  StreamInv(s)'
<1>0. Ended => Ended'
  BY EndIsFinal
<1>1. CASE Quiet
  BY <1>0, <1>1, StreamFrame DEF Quiet
<1>2. ASSUME NEW t \in Streams, EndLine(t) PROVE StreamInv(s)'
  <2>1. UNCHANGED <<buf, got, junk, read, pipe>>
    BY <1>2 DEF EndLine, reading, ends
  <2>2. CASE s # t
    BY <1>0, <1>2, <2>1, <2>2, StreamFrame DEF EndLine, StreamTypes
  <2>3. CASE s = t
    <3>1. sent'[s] = sent[s] + 1 /\ data'[s] = Append(data[s], sent[s] + 1)
      BY <1>2, <2>3 DEF EndLine, StreamTypes
    <3>2. /\ got[s] \in Seq(Nat) /\ buf[s] \in Seq(Nat) /\ data[s] \in Seq(Nat)
          /\ sent[s] \in Nat
      BY DEF StreamTypes
    <3>3. got[s] \o buf[s] \o Append(data[s], sent[s] + 1) = Lines(sent[s] + 1)
      BY LineWritten
    <3>4. Ordered(s)'
      BY <2>1, <3>1, <3>3 DEF Ordered
    <3>5. ~Ended
      BY <1>2 DEF EndLine, Ended
    <3> QED
      BY <2>1, <3>4, <3>5 DEF StreamInv, Exhausted
  <2> QED
    BY <2>2, <2>3
<1>3. ASSUME NEW t \in Streams, Complete(t) PROVE StreamInv(s)'
  <2>1. UNCHANGED <<sent, got, junk, pipe>>
    BY <1>3 DEF Complete, ends
  <2>2. CASE s # t
    BY <1>0, <1>3, <2>1, <2>2, StreamFrame DEF Complete, StreamTypes
  <2>3. CASE s = t /\ UNCHANGED <<buf, data>>
    <3>1. Ordered(s)'
      BY <2>1, <2>3 DEF StreamInv, Ordered
    <3>2. \/ read'[s] = "line" /\ buf[s] # << >>
          \/ read'[s] = "error" /\ Exhausted(s)
      BY <1>3, <2>3, <1>0 DEF Complete, StreamTypes, Exhausted, Ended
    <3> QED
      BY <1>0, <2>1, <2>3, <3>1, <3>2 DEF StreamInv, Exhausted
  <2>4. CASE s = t /\ ~UNCHANGED <<buf, data>>
    <3>1. PICK n \in 1 .. Len(data[s]) :
             /\ buf[s] = << >>
             /\ buf'[s] = SubSeq(data[s], 1, n)
             /\ data'[s] = SubSeq(data[s], n + 1, Len(data[s]))
             /\ read'[s] = "line"
      BY <1>3, <2>4 DEF Complete, StreamTypes
    <3>2. got[s] \in Seq(Nat) /\ data[s] \in Seq(Nat)
      BY DEF StreamTypes
    <3>3. /\ SubSeq(data[s], 1, n) # << >>
          /\ got[s] \o SubSeq(data[s], 1, n) \o SubSeq(data[s], n + 1, Len(data[s]))
                = got[s] \o << >> \o data[s]
      BY <3>2, Fetch
    <3>4. Ordered(s)'
      BY <2>1, <3>1, <3>3 DEF StreamInv, Ordered
    <3>5. data[s] # << >>
      BY <3>2, EmptySeq
    <3> QED
      BY <2>1, <3>1, <3>3, <3>4, <3>5 DEF StreamInv, Exhausted
  <2> QED
    BY <2>2, <2>3, <2>4
<1>4. ASSUME NEW t \in Streams, handle_stream(t) PROVE StreamInv(s)'
  <2>1. UNCHANGED <<sent, data, pipe>>
    BY <1>4 DEF handle_stream, output, ends
  <2>2. CASE s # t
    BY <1>0, <1>4, <2>1, <2>2, StreamFrame DEF handle_stream, StreamTypes
  <2>3. CASE s = t /\ UNCHANGED <<buf, got, junk>>
    <3>1. read'[s] \in {"none", "pending"}
      BY <1>4, <2>3 DEF handle_stream, NextRead, StreamTypes
    <3> QED
      BY <1>0, <2>1, <2>3, <3>1, StreamFrame
  <2>4. CASE s = t /\ obj # "destroyed" /\ read[s] = "line"
    <3>1. /\ got'[s] = Append(got[s], Head(buf[s])) /\ buf'[s] = Tail(buf[s])
          /\ junk' = junk /\ read'[s] \in {"none", "pending"}
      BY <1>4, <2>4 DEF handle_stream, consume, NextRead, StreamTypes
    <3>2. /\ got[s] \in Seq(Nat) /\ buf[s] \in Seq(Nat) /\ data[s] \in Seq(Nat)
          /\ buf[s] # << >>
      BY <2>4 DEF StreamTypes, StreamInv
    <3>3. Append(got[s], Head(buf[s])) \o Tail(buf[s]) \o data[s]
             = got[s] \o buf[s] \o data[s]
      BY <3>2, LineDelivered
    <3>4. Ordered(s)'
      BY <2>1, <3>1, <3>3 DEF StreamInv, Ordered
    <3> QED
      BY <2>1, <3>1, <3>2, <3>4 DEF StreamInv, Exhausted
  <2>5. CASE s = t /\ obj # "destroyed" /\ read[s] = "error"
    <3>1. buf' = buf /\ got' = got /\ read'[s] \in {"none", "pending"}
      BY <1>4, <2>5 DEF handle_stream, NextRead, StreamTypes
    <3> QED
      BY <1>0, <2>1, <2>5, <3>1 DEF StreamInv, Ordered, Exhausted
  <2> QED
    BY <1>4, <2>2, <2>3, <2>4, <2>5 DEF handle_stream
<1>5. CASE spawn
  <2>1. UNCHANGED <<sent, data, buf, got, junk>>
    BY <1>5 DEF spawn, output
  <2>2. read[s] = "none" /\ ~junk[s] /\ read'[s] \in {"none", "pending"}
    BY <1>5 DEF spawn, Unspawned
  <2> QED
    BY <2>1, <2>2 DEF StreamInv, Ordered
<1>6. CASE terminate \/ destroy
  <2>1. UNCHANGED <<sent, data, buf, got, junk>> /\ CloseStreams
    BY <1>6 DEF terminate, destroy, output
  <2>2. ~pipe'[s] /\ (read'[s] = read[s] \/ read'[s] = "error")
    BY <2>1 DEF CloseStreams
  <2> QED
    BY <1>0, <2>1, <2>2, StreamFrame
<1> QED
  BY <1>1, <1>2, <1>3, <1>4, <1>5, <1>6, StreamSteps

-----------------------------------------------------------------------------
LEMMA UnspawnedStep ==
    ASSUME Unspawned, [Next]_vars
    PROVE  Unspawned'
<1>1. CASE obj # "new"
  <2>1. obj' # "new"
    BY <1>1 DEF Next, vars, handler, BeginLine, EndLine, Complete, handle_stream, ReadInput,
       Exit, OnExit, spawn, suspend, suspended, resume, wait, write_stdin, close_stdin, Enter,
       WaitpidReturns, WaitReturns, WriteReturns, terminate, destroy, TerminateReturns
  <2> QED
    BY <2>1 DEF Unspawned
<1>2. CASE obj = "new"
  <2>1. proc = "none" /\ \A s \in Streams : read[s] = "none" /\ ~junk[s]
    BY <1>2 DEF Unspawned
  <2>2. CASE spawn
    BY <2>1, <2>2 DEF spawn, Unspawned
  <2>3. CASE UNCHANGED vars
    BY <2>1, <2>3 DEF vars, child, reading, Unspawned
  <2>4. ~(\E s \in Streams : BeginLine(s) \/ EndLine(s) \/ Complete(s) \/ handle_stream(s))
    BY <2>1 DEF BeginLine, EndLine, Complete, handle_stream
  <2>5. ~(ReadInput \/ Exit \/ OnExit \/ suspend \/ suspended \/ resume \/ wait \/ write_stdin
          \/ close_stdin \/ terminate \/ destroy)
    BY <1>2, <2>1 DEF ReadInput, Exit, OnExit, suspend, suspended, resume, wait, write_stdin,
       close_stdin, terminate, destroy, Idle
  <2>6. CASE WaitpidReturns \/ WaitReturns \/ TerminateReturns
    BY <2>1, <2>6 DEF WaitpidReturns, WaitReturns, TerminateReturns
  <2>7. CASE WriteReturns
    BY <2>1, <2>7 DEF WriteReturns, child, reading, Unspawned
  <2> QED
    BY <2>2, <2>3, <2>4, <2>5, <2>6, <2>7 DEF Next
<1> QED
  BY <1>1, <1>2

LEMMA ChildStep ==
    ASSUME ChildTypes, ChildInv, Unspawned, [Next]_vars
    PROVE  ChildTypes' /\ ChildInv'
<1> USE DEF ChildTypes, ChildInv, StoppedCanBeResumed
<1>1. CASE UNCHANGED <<obj, call, child>>
  BY <1>1 DEF child
<1>2. CASE \E s \in Streams : BeginLine(s) \/ EndLine(s) \/ Complete(s) \/ handle_stream(s)
  BY <1>1, <1>2 DEF BeginLine, EndLine, Complete, handle_stream, handler, waiting
<1>3. CASE ReadInput \/ close_stdin \/ UNCHANGED vars
  BY <1>1, <1>3 DEF ReadInput, close_stdin, vars, handler, waiting
<1>4. CASE Exit \/ OnExit
  BY <1>4 DEF Exit, OnExit, handler
<1>5. CASE spawn
  BY <1>5 DEF spawn, Unspawned
<1>6. CASE suspend
  BY <1>6 DEF suspend, Idle, running, Reaped, handler
<1>7. CASE suspended \/ resume \/ wait \/ write_stdin
  BY <1>7 DEF suspended, resume, wait, write_stdin, Idle, Enter, running, Reaped, handler
<1>8. CASE WaitpidReturns
  BY <1>8 DEF WaitpidReturns, Return, handler
<1>9. CASE WaitReturns \/ TerminateReturns
  BY <1>9 DEF WaitReturns, TerminateReturns, Return, handler
<1>10. CASE WriteReturns
  BY <1>10 DEF WriteReturns, Return, handler, child
<1>11. CASE terminate
  BY <1>11 DEF terminate, Idle, running, Reaped
<1>12. CASE destroy
  BY <1>12 DEF destroy, running, Reaped
<1> QED
  BY <1>2, <1>3, <1>4, <1>5, <1>6, <1>7, <1>8, <1>9, <1>10, <1>11, <1>12 DEF Next

LEMMA HandlerInvariant == Spec => []HandlerInv
<1>1. Init => HandlerInv
  <2> SUFFICES ASSUME Init PROVE HandlerInv
    OBVIOUS
  <2>1. StreamTypes
    BY DEF Init, StreamTypes
  <2>2. ChildTypes /\ ChildInv /\ Unspawned
    BY DEF Init, ChildTypes, ChildInv, StoppedCanBeResumed, Unspawned
  <2>3. ASSUME NEW s \in Streams PROVE StreamInv(s)
    <3>1. /\ got[s] = << >> /\ buf[s] = << >> /\ data[s] = << >> /\ sent[s] = 0
          /\ read[s] = "none" /\ ~junk[s]
      BY DEF Init
    <3>2. << >> \o << >> \o << >> = Lines(0)
      BY DEF Lines
    <3> QED
      BY <3>1, <3>2 DEF StreamInv, Ordered
  <2> QED
    BY <2>1, <2>2, <2>3 DEF HandlerInv
<1>2. HandlerInv /\ [Next]_vars => HandlerInv'
  BY TypesStep, StreamStep, UnspawnedStep, ChildStep DEF HandlerInv
<1> QED
  BY <1>1, <1>2, PTL DEF Spec

(***************************************************************************)
(* Whatever chunks the pipe delivers, however calls, callbacks and the end *)
(* of the child interleave, the lines arrive in order, none lost and none  *)
(* twice, and junk comes last: Spec => []LinesInOrder.                     *)
(***************************************************************************)
THEOREM LinesArriveInOrder == Spec => []LinesInOrder
<1>1. ASSUME HandlerInv, NEW s \in Streams
      PROVE  /\ got[s] \o buf[s] \o data[s] = [i \in 1 .. sent[s] |-> i]
             /\ junk[s] => ~pipe[s] \/ (proc \in {"zombie", "gone"} /\ Len(got[s]) = sent[s])
  <2>1. Ordered(s) /\ (junk[s] => ~pipe[s] \/ Exhausted(s))
    BY <1>1 DEF HandlerInv, StreamInv
  <2>2. got[s] \in Seq(Nat) /\ sent[s] \in Nat
    BY <1>1 DEF HandlerInv, StreamTypes
  <2>3. Exhausted(s) => Len(got[s]) = sent[s]
    <3>1. got[s] \o << >> \o << >> = got[s]
      BY <2>2
    <3>2. Len(Lines(sent[s])) = sent[s]
      BY <2>2 DEF Lines
    <3> QED
      BY <2>1, <3>1, <3>2 DEF Ordered, Exhausted
  <2> QED
    BY <2>1, <2>3 DEF Ordered, Lines, Exhausted, Ended
<1>2. HandlerInv => LinesInOrder
  BY <1>1 DEF LinesInOrder
<1> QED
  BY <1>2, HandlerInvariant, PTL

(***************************************************************************)
(* resume() can always get the report it waits for, unless a call of       *)
(* suspended() took it: Spec => []StoppedCanBeResumed.                     *)
(***************************************************************************)
THEOREM StopsAreReported == Spec => []StoppedCanBeResumed
<1>1. HandlerInv => StoppedCanBeResumed
  BY DEF HandlerInv, ChildInv
<1> QED
  BY <1>1, HandlerInvariant, PTL
=============================================================================
