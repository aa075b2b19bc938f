----------------------------- MODULE HttpServer -----------------------------
(***************************************************************************)
(* The HTTP server: HTTP_Acceptor, one HTTP_Session per connection, and    *)
(* the io_context of main() that runs the handlers of all of them on one   *)
(* thread, one at a time.                                                  *)
(*                                                                         *)
(* A session always has one operation pending, a read or a write.  The     *)
(* operation completes (Read, Write, Timeout: asio and the kernel), and    *)
(* later the io_context runs its handler.  The peer may send, shut down or *)
(* reset the connection between the two.                                   *)
(*                                                                         *)
(* remote_endpoint() throws unless the socket is connected.  Nothing       *)
(* between the handlers and main() catches, so the exception leaves        *)
(* ioc.run() and ends the process.  A beast timer that fires closes the    *)
(* socket before it completes the operation with error::timeout.           *)
(*                                                                         *)
(* A request is what the session tells apart: "keep" and "close" ask for   *)
(* or decline keep-alive, "bad" is refused by the parser (malformed, or    *)
(* larger than beast's limits).                                            *)
(*                                                                         *)
(* A definition whose name ends in Bug is a faulty variant of the one      *)
(* after it; it shows that a property can fail.  Nothing else uses it.     *)
(***************************************************************************)
EXTENDS Integers, Sequences, SequencesExt

CONSTANTS
    Conns,          \* connections clients may open
    MaxRequests,    \* bound: per connection, the requests its client sends
    Faults          \* which of "timeout", "reset" and "accept" may happen

ASSUME HttpServerAssumption ==
    /\ MaxRequests \in [Conns -> Nat]
    /\ Faults \subseteq {"timeout", "reset", "accept"}

VARIABLES
    server,     \* the process: "running", "stopped" by a signal, or "crashed"
    listening,  \* the acceptor is open, with an async_accept pending
    sock,       \* per connection: "none", "queued" in the backlog, "open",
                \* "reset" by the peer, or "closed" by the server
    fin,        \* the client has shut down its sending side
    wire,       \* complete requests in the socket's receive queue, by number
    buff,       \* buff_: complete requests read but not yet parsed
    expiry,     \* whether expires_after has been called on the stream
    op,         \* the session's operation: "none", "read" or "write"
    result,     \* of the operation: "pending", "ok" or "error"
    current,    \* parser_: the request read, and answered next
    sent,       \* history: the kinds of the requests the client sent
    answered,   \* history: the requests answered, in order
    broken      \* history: the connections that timed out or were reset

vars == <<server, listening, sock, fin, wire, buff, expiry, op, result,
          current, sent, answered, broken>>

client == <<fin, sent>>

Requests == {"keep", "close", "bad"}

Init ==
    /\ server = "running"
    /\ listening = TRUE
    /\ sock = [c \in Conns |-> "none"]
    /\ fin = [c \in Conns |-> FALSE]
    /\ wire = [c \in Conns |-> << >>]
    /\ buff = [c \in Conns |-> << >>]
    /\ expiry = [c \in Conns |-> FALSE]
    /\ op = [c \in Conns |-> "none"]
    /\ result = [c \in Conns |-> "pending"]
    /\ current = [c \in Conns |-> 0]
    /\ sent = [c \in Conns |-> << >>]
    /\ answered = [c \in Conns |-> << >>]
    /\ broken = {}

(***************************************************************************)
(* The clients and the network.                                            *)
(***************************************************************************)
Connect(c) ==
    /\ server = "running"
    /\ listening
    /\ sock[c] = "none"
    /\ sock' = [sock EXCEPT ![c] = "queued"]
    /\ UNCHANGED <<server, listening, client, wire, buff, expiry, op, result,
                   current, answered, broken>>

Send(c, r) ==
    /\ server = "running"
    /\ sock[c] \in {"queued", "open"}
    /\ ~fin[c]
    /\ Len(sent[c]) < MaxRequests[c]
    /\ wire' = [wire EXCEPT ![c] = Append(@, Len(sent[c]) + 1)]
    /\ sent' = [sent EXCEPT ![c] = Append(@, r)]
    /\ UNCHANGED <<server, listening, sock, fin, buff, expiry, op, result,
                   current, answered, broken>>

Shutdown(c) ==
    /\ server = "running"
    /\ sock[c] \in {"queued", "open"}
    /\ ~fin[c]
    /\ fin' = [fin EXCEPT ![c] = TRUE]
    /\ UNCHANGED <<server, listening, sock, sent, wire, buff, expiry, op, result,
                   current, answered, broken>>

\* The peer's RST arrives.  What it sent before stays readable.
Reset(c) ==
    /\ server = "running"
    /\ "reset" \in Faults
    /\ sock[c] = "open"
    /\ sock' = [sock EXCEPT ![c] = "reset"]
    /\ broken' = broken \cup {c}
    /\ UNCHANGED <<server, listening, client, wire, buff, expiry, op, result,
                   current, answered>>

(***************************************************************************)
(* Completion of the pending operations.                                   *)
(***************************************************************************)
Complete(c, r) == result' = [result EXCEPT ![c] = r]

Pending(c, kind) == op[c] = kind /\ result[c] = "pending"

\* http::async_read: parse from the buffer first; read on only if it is empty.
Read(c) ==
    /\ server = "running"
    /\ Pending(c, "read")
    /\ UNCHANGED <<server, listening, sock, client, expiry, op, answered, broken>>
    /\ \/ \E n \in 0 .. Len(wire[c]) :
             LET have == buff[c] \o SubSeq(wire[c], 1, n)
             IN  /\ have # << >>
                 /\ buff[c] # << >> => n = 0
                 /\ wire' = [wire EXCEPT ![c] = SubSeq(@, n + 1, Len(@))]
                 /\ buff' = [buff EXCEPT ![c] = Tail(have)]
                 /\ current' = [current EXCEPT ![c] = Head(have)]
                 /\ Complete(c, IF sent[c][Head(have)] = "bad" THEN "error" ELSE "ok")
       \/ /\ buff[c] = << >>
          /\ (wire[c] = << >> /\ fin[c]) \/ sock[c] = "reset"
          /\ Complete(c, "error")
          /\ UNCHANGED <<wire, buff, current>>

\* beast::async_write of the response to the current request.
Write(c) ==
    /\ server = "running"
    /\ Pending(c, "write")
    /\ \/ /\ sock[c] = "open"
          /\ answered' = [answered EXCEPT ![c] = Append(@, current[c])]
          /\ Complete(c, "ok")
       \/ /\ sock[c] = "reset"
          /\ Complete(c, "error")
          /\ UNCHANGED answered
    /\ UNCHANGED <<server, listening, sock, client, wire, buff, expiry, op, current,
                   broken>>

\* The timer of the tcp_stream fires first: beast closes the socket.
Timeout(c) ==
    /\ server = "running"
    /\ "timeout" \in Faults
    /\ op[c] # "none" /\ result[c] = "pending"
    /\ expiry[c]
    /\ sock' = [sock EXCEPT ![c] = "closed"]
    /\ Complete(c, "error")
    /\ broken' = broken \cup {c}
    /\ UNCHANGED <<server, listening, client, wire, buff, expiry, op, current, answered>>

(***************************************************************************)
(* The handlers.  The process ends, by a signal or by an exception: every  *)
(* socket is closed and no handler runs any more.                          *)
(***************************************************************************)
Down(how) ==
    /\ server' = how
    /\ listening' = FALSE
    /\ sock' = [c \in Conns |-> IF sock[c] = "none" THEN "none" ELSE "closed"]
    /\ op' = [c \in Conns |-> "none"]
    /\ UNCHANGED <<client, wire, buff, expiry, result, current, answered, broken>>

expires_after_Bug(c) == expiry

expires_after(c) == [expiry EXCEPT ![c] = TRUE]

\* The part of an action that starts an operation with its timeout.
Start(c, kind) ==
    /\ expiry' = expires_after(c)
    /\ op' = [op EXCEPT ![c] = kind]
    /\ result' = [result EXCEPT ![c] = "pending"]

handle_request_reading(c) == Start(c, "read")

\* async_accept's handler without an error: a new session, and accept() again.
accept(c) ==
    /\ server = "running"
    /\ listening
    /\ sock[c] = "queued"
    /\ sock' = [sock EXCEPT ![c] = "open"]
    /\ handle_request_reading(c)
    /\ UNCHANGED <<server, listening, client, wire, buff, current, answered, broken>>

\* async_accept's handler with an error (no descriptors left, say): close().
accept_error ==
    /\ server = "running"
    /\ "accept" \in Faults
    /\ listening
    /\ listening' = FALSE
    /\ sock' = [c \in Conns |-> IF sock[c] = "queued" THEN "closed" ELSE sock[c]]
    /\ UNCHANGED <<server, client, wire, buff, expiry, op, result, current, answered, broken>>

close_Bug(c) == Down("crashed")

close(c) ==
    \/ /\ sock[c] = "open"
       /\ sock' = [sock EXCEPT ![c] = "closed"]
       /\ op' = [op EXCEPT ![c] = "none"]
       /\ UNCHANGED <<server, listening, client, wire, buff, expiry, result, current,
                      answered, broken>>
    \/ sock[c] # "open" /\ Down("crashed")

handle_request(c) ==
    /\ Start(c, "write")
    /\ UNCHANGED <<server, listening, sock, client, wire, buff, current, answered, broken>>

handle_request_received(c) ==
    /\ server = "running"
    /\ op[c] = "read"
    /\ \/ result[c] = "error" /\ close(c)
       \/ result[c] = "ok" /\ sock[c] = "open" /\ handle_request(c)
       \/ result[c] = "ok" /\ sock[c] # "open" /\ Down("crashed")

\* Every response carries its request's keep-alive (HttpRouter).
keep_alive_Bug(c) == TRUE

keep_alive_NoBug(c) == FALSE

keep_alive(c) == sent[c][current[c]] = "keep"

\* A new parser: what buff_ holds past the last request stays.
reset_parser_Bug(c) == [buff EXCEPT ![c] = << >>]

reset_parser(c) == buff

handle_writing_finished(c) ==
    /\ server = "running"
    /\ op[c] = "write"
    /\ \/ result[c] = "error" /\ close(c)
       \/ result[c] = "ok" /\ ~keep_alive(c) /\ close(c)
       \/ /\ result[c] = "ok" /\ keep_alive(c)
          /\ buff' = reset_parser(c)
          /\ handle_request_reading(c)
          /\ UNCHANGED <<server, listening, sock, client, wire, current, answered, broken>>

\* SIGINT, SIGQUIT or SIGTERM: close the acceptor, stop the io_context.
Signal ==
    /\ server = "running"
    /\ Down("stopped")

Next ==
    \/ \E c \in Conns :
          \/ Connect(c) \/ Shutdown(c) \/ Reset(c)
          \/ \E r \in Requests : Send(c, r)
          \/ Read(c) \/ Write(c) \/ Timeout(c)
          \/ accept(c) \/ handle_request_received(c) \/ handle_writing_finished(c)
    \/ accept_error
    \/ Signal

Spec == Init /\ [][Next]_vars

(***************************************************************************)
(* The reactor completes what can complete, timers fire, and the one       *)
(* thread of the io_context, which never blocks in a handler, runs every   *)
(* handler that is ready.  Clients owe nothing.                            *)
(***************************************************************************)
Fairness ==
    \A c \in Conns :
        /\ WF_vars(Read(c))
        /\ WF_vars(Write(c))
        /\ WF_vars(Timeout(c))
        /\ WF_vars(accept(c))
        /\ WF_vars(handle_request_received(c))
        /\ WF_vars(handle_writing_finished(c))

LiveSpec == Spec /\ Fairness

-----------------------------------------------------------------------------
IsDown == server # "running"

(***************************************************************************)
(* A connection gets its responses in the order of its requests, one per   *)
(* request and without a gap, however its requests were pipelined; what is *)
(* answered, parsed, buffered and on the wire is all that was sent.        *)
(***************************************************************************)
ResponsesInOrder ==
    \A c \in Conns :
        LET n    == Len(answered[c])
            rest == buff[c] \o wire[c]
        IN  /\ \A i \in 1 .. n : answered[c][i] = i
            /\ current[c] \in {n, n + 1}
            /\ current[c] + Len(rest) = Len(sent[c])
            /\ \A i \in 1 .. Len(rest) : rest[i] = current[c] + i

(***************************************************************************)
(* A response without keep-alive is the last one of its connection, and    *)
(* no request is answered after one the parser refused, even if the client *)
(* pipelined more (handle_writing_finished and handle_request_received     *)
(* close the session).                                                     *)
(***************************************************************************)
NothingAfterClose ==
    \A c \in Conns : \A i, j \in DOMAIN answered[c] :
        /\ sent[c][answered[c][i]] # "bad"
        /\ i < j => sent[c][answered[c][i]] = "keep"

(***************************************************************************)
(* No operation of a session is pending forever: a peer that stalls loses  *)
(* its session to the timer expires_after sets before each operation.      *)
(***************************************************************************)
NoOperationHangs ==
    \A c \in Conns :
        (op[c] # "none" /\ result[c] = "pending") ~>
            (IsDown \/ op[c] = "none" \/ result[c] # "pending")

(***************************************************************************)
(* On a connection that is accepted and neither times out nor is reset, a  *)
(* request that follows only keep-alive requests is answered, also one     *)
(* sent before the connection was accepted or just before the client shut  *)
(* down its side.                                                          *)
(***************************************************************************)
RequestsAreAnswered ==
    \A c \in Conns : \A i \in 1 .. MaxRequests[c] :
        (/\ Len(sent[c]) >= i
         /\ sent[c][i] # "bad"
         /\ \A j \in 1 .. i - 1 : sent[c][j] = "keep")
        ~> \/ Len(answered[c]) >= i
           \/ IsDown \/ c \in broken \/ (~listening /\ sock[c] = "closed" /\ ~expiry[c])

(***************************************************************************)
(* The process ends by an exception only after a connection timed out or   *)
(* was reset: refused requests, early shutdowns of clients, responses      *)
(* without keep-alive and a failing accept end sessions, never the server. *)
(***************************************************************************)
CrashNeedsBrokenConnection == server = "crashed" => broken # {}

(***************************************************************************)
(* The server stays up whatever happens on one of its connections.         *)
(***************************************************************************)
ServerSurvives == server # "crashed"
=============================================================================
