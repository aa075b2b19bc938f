--------------------------- MODULE ProcessHandler ---------------------------
(***************************************************************************)
(* One Process_Handler: its child, the pipes to it and the line callbacks. *)
(*                                                                         *)
(* Three actors: the child; the caller, which makes one call at a time;    *)
(* and the io_context, which completes reads, runs their handlers and      *)
(* waits for children at SIGCHLD.  The caller may itself be a handler of   *)
(* the io_context (inLoop), as the scheduler is: a call that blocks then   *)
(* stops the loop.                                                         *)
(*                                                                         *)
(* After terminate() the other calls of a handler have no effect.          *)
(* The child's text is told apart by lines; what follows its last newline  *)
(* is never delivered.  A read that ends with an error has length 0, and   *)
(* its handler doesn't look at the error: the callback is called with      *)
(* length 0 - 1, the largest size_t (junk).                                *)
(*                                                                         *)
(* Boost's exit status (status) is "own" once running(), wait(), the       *)
(* SIGCHLD service or terminate() has settled it.                          *)
(*                                                                         *)
(* A definition whose name ends in Bug is a faulty variant of the one      *)
(* after it; it shows that a property can fail.  Nothing else uses it.     *)
(***************************************************************************)
EXTENDS Integers, Sequences

CONSTANTS
    Streams,        \* stdout and stderr
    MaxLines,       \* bound: per stream, the lines the child writes
    PipeSize        \* lines a pipe holds

VARIABLES
    obj,        \* the handler: "new", "spawned", "failed", "terminated" or "destroyed"
    inLoop,     \* does the caller run on the io_context?
    call,       \* the blocking call under way, or "idle"
    status,     \* what proc_ knows: "unknown" or "own"
    exit_cb,    \* the exit callback: "none", "armed" or "called"
    proc,       \* the child: "none", "running", "stopped", "killed", "zombie", "gone"
    report,     \* the child's stop has not been reported to a waitpid yet
    asked,      \* history: suspended() has taken the report of the stop
    todo,       \* the stream the child is writing to, or "free"
    sent,       \* history: per stream, the lines the child has written
    stdin,      \* stdin_: "none", "null" (connected to nothing) or "pipe"
    input,      \* lines in the child's stdin
    pipe,       \* per stream: stdout_ or stderr_ is open
    cb,         \* per stream: stdout_cb_ or stderr_cb_ is set
    data,       \* per stream: the lines in the pipe
    buf,        \* per stream: the lines in stdout_buf_ or stderr_buf_
    read,       \* per stream: "none", "pending", or completed: "line", "error"
    got,        \* history: per stream, the lines its callback was called with
    junk        \* history: per stream, was the callback called with junk?

handler == <<obj, inLoop, stdin>>
waiting == <<call, status, exit_cb>>
child   == <<proc, report, asked>>
output  == <<todo, sent, data>>
reading == <<buf, read, got, junk>>
ends    == <<pipe, cb>>
vars    == <<handler, waiting, child, output, input, reading, ends>>

Init ==
    /\ obj = "new"
    /\ inLoop \in BOOLEAN
    /\ call = "idle" /\ status = "unknown" /\ exit_cb = "none"
    /\ proc = "none" /\ report = FALSE /\ asked = FALSE
    /\ todo = "free" /\ sent = [s \in Streams |-> 0]
    /\ stdin = "none" /\ input = 0
    /\ pipe = [s \in Streams |-> FALSE]
    /\ cb \in [Streams -> BOOLEAN]
    /\ data = [s \in Streams |-> << >>]
    /\ buf = [s \in Streams |-> << >>]
    /\ read = [s \in Streams |-> "none"]
    /\ got = [s \in Streams |-> << >>]
    /\ junk = [s \in Streams |-> FALSE]

Idle == call = "idle" /\ obj = "spawned"

-----------------------------------------------------------------------------
(***************************************************************************)
(* The child.  It stands still while a pipe it writes to is full.          *)
(***************************************************************************)
BeginLine(s) ==
    /\ proc = "running" /\ todo = "free"
    /\ sent[s] < MaxLines[s]
    /\ todo' = s
    /\ UNCHANGED <<handler, waiting, child, sent, data, input, reading, ends>>

EndLine(s) ==
    /\ proc = "running" /\ todo = s
    /\ pipe[s] /\ Len(data[s]) < PipeSize
    /\ todo' = "free"
    /\ sent' = [sent EXCEPT ![s] = @ + 1]
    /\ data' = [data EXCEPT ![s] = Append(@, sent[s] + 1)]
    /\ UNCHANGED <<handler, waiting, child, input, reading, ends>>

ReadInput ==
    /\ proc = "running" /\ todo = "free"
    /\ input > 0
    /\ input' = input - 1
    /\ UNCHANGED <<handler, waiting, child, output, reading, ends>>

\* It ends by itself, or the kernel ends it.
Exit ==
    /\ (proc = "running" /\ todo = "free") \/ proc = "killed"
    /\ proc' = "zombie"
    /\ UNCHANGED <<handler, waiting, report, asked, output, input, reading, ends>>

-----------------------------------------------------------------------------
(***************************************************************************)
(* handle_stdout and handle_stderr: what becomes of the stream's read.     *)
(***************************************************************************)
NextRead_Bug(s) == "none"

NextRead(s) == IF pipe[s] /\ cb[s] THEN "pending" ELSE "none"

\* An interactive child gets a pipe; else stdin_ is a stream without one.
spawn ==
    /\ obj = "new"
    /\ \/ /\ obj' = "spawned"
          /\ proc' = "running"
          /\ exit_cb' = "armed"
          /\ stdin' \in {"null", "pipe"}
          /\ pipe' = [s \in Streams |-> TRUE]
          /\ read' = [s \in Streams |-> IF cb[s] THEN "pending" ELSE "none"]
       \/ /\ obj' = "failed"
          /\ UNCHANGED <<proc, exit_cb, stdin, pipe, read>>
    /\ UNCHANGED <<inLoop, call, status, report, asked, output, input, buf, got, junk, cb>>

(***************************************************************************)
(* The io_context: async_read_until completes, with a line that is in the  *)
(* buffer already or after reading some of the pipe, or at the end of the  *)
(* stream.                                                                 *)
(***************************************************************************)
LoopRuns == inLoop => call = "idle"

Complete(s) ==
    /\ LoopRuns
    /\ read[s] = "pending"
    /\ \/ /\ buf[s] # << >>
          /\ read' = [read EXCEPT ![s] = "line"]
          /\ UNCHANGED <<buf, data>>
       \/ \E n \in 1 .. Len(data[s]) :
             /\ buf[s] = << >>
             /\ buf' = [buf EXCEPT ![s] = SubSeq(data[s], 1, n)]
             /\ data' = [data EXCEPT ![s] = SubSeq(@, n + 1, Len(@))]
             /\ read' = [read EXCEPT ![s] = "line"]
       \/ /\ buf[s] = << >> /\ data[s] = << >> /\ proc \in {"zombie", "gone"}
          /\ read' = [read EXCEPT ![s] = "error"]
          /\ UNCHANGED <<buf, data>>
    /\ UNCHANGED <<handler, waiting, child, todo, sent, input, got, junk, ends>>

\* streambuf.consume(len)
consume_Bug(s) == buf[s]

consume(s) == Tail(buf[s])

\* The handler of handle_stream.  It has its own copy of the callback, but the
\* buffer is the handler's: once that is destroyed the effect is undefined.
handle_stream(s) ==
    /\ LoopRuns
    /\ read[s] \in {"line", "error"}
    /\ \/ /\ obj # "destroyed" /\ read[s] = "line"
          /\ got' = [got EXCEPT ![s] = Append(@, Head(buf[s]))]
          /\ buf' = [buf EXCEPT ![s] = consume(s)]
          /\ read' = [read EXCEPT ![s] = NextRead(s)]
          /\ UNCHANGED junk
       \/ /\ obj # "destroyed" /\ read[s] = "error"
          /\ junk' = [junk EXCEPT ![s] = TRUE]
          /\ read' = [read EXCEPT ![s] = NextRead(s)]
          /\ UNCHANGED <<buf, got>>
       \/ /\ obj = "destroyed"
          /\ read' = [read EXCEPT ![s] = "none"]
          /\ UNCHANGED <<buf, got, junk>>
    /\ UNCHANGED <<handler, waiting, child, output, input, ends>>

\* The SIGCHLD service, with the child's status or, too late, without it.
OnExit ==
    /\ LoopRuns
    /\ exit_cb = "armed" /\ proc \in {"zombie", "gone"}
    /\ exit_cb' = "called"
    /\ status' = IF proc = "zombie" THEN "own" ELSE status
    /\ proc' = "gone"
    /\ UNCHANGED <<handler, call, report, asked, output, input, reading, ends>>

-----------------------------------------------------------------------------
(***************************************************************************)
(* proc_->running(), which waits for a child that has ended.               *)
(***************************************************************************)
running == status # "own" /\ proc \notin {"zombie", "gone"}

Reaped ==
    /\ ~running
    /\ status' = "own"
    /\ proc' = IF status # "own" THEN "gone" ELSE proc

suspend_Bug ==
    /\ Idle /\ running
    /\ proc' = "stopped"
    /\ UNCHANGED <<handler, waiting, report, asked, output, input, reading, ends>>

\* SIGSTOP for a child that runs; one that is stopped already stays so.
suspend ==
    /\ Idle
    /\ \/ /\ running
          /\ proc' = "stopped"
          /\ report' = (report \/ proc = "running")
          /\ asked' = (asked /\ proc = "stopped")
          /\ UNCHANGED status
       \/ Reaped /\ UNCHANGED <<report, asked>>
    /\ UNCHANGED <<handler, call, exit_cb, output, input, reading, ends>>

\* The calls that block, up to where they block: waitpid(pid, WUNTRACED) in
\* suspended() and resume(), waitpid(pid) in wait(), a full pipe in write_stdin().
Enter(c) ==
    /\ call' = c
    /\ UNCHANGED <<handler, exit_cb, report, asked, output, input, reading, ends>>

suspended   == Idle /\ Enter("suspended") /\ UNCHANGED <<proc, status>>
wait        == Idle /\ status # "own" /\ Enter("wait") /\ UNCHANGED <<proc, status>>
write_stdin == Idle /\ stdin = "pipe" /\ Enter("write") /\ UNCHANGED <<proc, status>>

resume ==
    /\ Idle
    /\ \/ running /\ Enter("resume") /\ UNCHANGED <<proc, status>>
       \/ Reaped /\ Enter("idle")

Return == call' = "idle"

\* The stop is reported once; resume() then sends SIGCONT.  A child that has
\* ended is waited for behind Boost's back.
WaitpidReturns ==
    /\ call \in {"suspended", "resume"}
    /\ Return
    /\ \/ /\ proc = "stopped" /\ report
          /\ report' = FALSE
          /\ proc' = IF call = "resume" THEN "running" ELSE proc
          /\ asked' = (call = "suspended")
       \/ /\ proc \in {"zombie", "gone"}
          /\ proc' = "gone"
          /\ UNCHANGED <<report, asked>>
    /\ UNCHANGED <<handler, status, exit_cb, output, input, reading, ends>>

\* It throws if someone else has waited for the child since it was called.
WaitReturns ==
    /\ call = "wait"
    /\ proc \in {"zombie", "gone"}
    /\ Return
    /\ proc' = "gone"
    /\ status' = IF proc = "zombie" THEN "own" ELSE status
    /\ UNCHANGED <<handler, exit_cb, report, asked, output, input, reading, ends>>

WriteReturns ==
    /\ call = "write"
    /\ Return
    /\ \/ input < PipeSize /\ input' = input + 1
       \/ proc \in {"zombie", "gone"} /\ UNCHANGED input
    /\ UNCHANGED <<handler, status, exit_cb, child, output, reading, ends>>

close_stdin ==
    /\ Idle
    /\ stdin # "none"
    /\ stdin' = "none"
    /\ UNCHANGED <<obj, inLoop, waiting, child, output, input, reading, ends>>

(***************************************************************************)
(* terminate(), and the members of a handler that is destroyed: callbacks  *)
(* and pipes go first, which aborts the reads that are pending.            *)
(***************************************************************************)
CloseStreams_Bug ==
    /\ read' = [s \in Streams |-> IF read[s] = "pending" THEN "error" ELSE read[s]]
    /\ stdin' = "none"
    /\ UNCHANGED <<cb, pipe>>

CloseStreams ==
    /\ cb' = [s \in Streams |-> FALSE]
    /\ pipe' = [s \in Streams |-> FALSE]
    /\ stdin' = "none"
    /\ read' = [s \in Streams |-> IF read[s] = "pending" THEN "error" ELSE read[s]]

terminate ==
    /\ Idle
    /\ CloseStreams
    /\ \/ /\ running
          /\ proc' = "killed"
          /\ call' = "terminate"
          /\ UNCHANGED <<obj, status>>
       \/ /\ Reaped
          /\ obj' = "terminated"
          /\ UNCHANGED call
    /\ UNCHANGED <<inLoop, exit_cb, report, asked, output, input, buf, got, junk>>

\* The destructor terminates a child that runs.
destroy ==
    /\ call = "idle" /\ obj \in {"spawned", "failed", "terminated"}
    /\ CloseStreams
    /\ \/ /\ obj = "spawned" /\ running
          /\ proc' = "killed"
          /\ call' = "destroy"
          /\ UNCHANGED <<obj, status>>
       \/ /\ obj = "spawned" /\ Reaped
          /\ obj' = "destroyed"
          /\ UNCHANGED call
       \/ /\ obj # "spawned"
          /\ obj' = "destroyed"
          /\ UNCHANGED <<proc, status, call>>
    /\ UNCHANGED <<inLoop, exit_cb, report, asked, output, input, buf, got, junk>>

TerminateReturns ==
    /\ call \in {"terminate", "destroy"}
    /\ proc \in {"zombie", "gone"}
    /\ proc' = "gone"
    /\ status' = "own"
    /\ Return
    /\ obj' = IF call = "destroy" THEN "destroyed" ELSE "terminated"
    /\ UNCHANGED <<inLoop, stdin, exit_cb, report, asked, output, input, reading, ends>>

Next ==
    \/ \E s \in Streams : BeginLine(s) \/ EndLine(s) \/ Complete(s) \/ handle_stream(s)
    \/ ReadInput \/ Exit \/ OnExit
    \/ spawn \/ suspend \/ suspended \/ resume \/ wait \/ write_stdin \/ close_stdin
    \/ WaitpidReturns \/ WaitReturns \/ WriteReturns
    \/ terminate \/ destroy \/ TerminateReturns

Spec == Init /\ [][Next]_vars

\* The loop runs what is ready, and a child that can write does.
Fairness ==
    \A s \in Streams : WF_vars(Complete(s)) /\ WF_vars(handle_stream(s)) /\ WF_vars(EndLine(s))

LiveSpec == Spec /\ Fairness

-----------------------------------------------------------------------------
(***************************************************************************)
(* A callback gets the child's lines in the order they were written, none  *)
(* lost or repeated, however they arrive in chunks; and it is called with  *)
(* junk only after the last of them, or once terminate() has closed the    *)
(* pipe under a pending read.                                              *)
(***************************************************************************)
LinesInOrder ==
    \A s \in Streams :
        /\ got[s] \o buf[s] \o data[s] = [i \in 1 .. sent[s] |-> i]
        /\ junk[s] => ~pipe[s] \/ (proc \in {"zombie", "gone"} /\ Len(got[s]) = sent[s])

\* What may keep a stream from being read.
Unread(s) == ~cb[s] \/ (inLoop /\ call # "idle")

(***************************************************************************)
(* If a stream has a callback, a child that writes to it is not held up    *)
(* for ever by a full pipe, and what it wrote is delivered, unless the     *)
(* handler is terminated or the loop blocked by a call.  (Without a        *)
(* callback, as in the scheduler's children, nobody reads the pipe.)       *)
(***************************************************************************)
LinesAreDelivered ==
    \A s \in Streams :
        /\ (todo = s /\ cb[s]) ~> (todo # s \/ Unread(s) \/ proc # "running")
        /\ \A i \in 1 .. MaxLines[s] :
              (sent[s] >= i /\ cb[s]) ~> (Len(got[s]) >= i \/ Unread(s))

(***************************************************************************)
(* After terminate() the reads come to an end: callbacks are cleared and   *)
(* pipes closed first, so that no completion starts another read.  (A      *)
(* handler destroyed before that leaves its last completion behind.)       *)
(***************************************************************************)
ReadsEndAfterTerminate ==
    \A s \in Streams :
        obj = "terminated" ~> read[s] = "none"

(***************************************************************************)
(* A child stopped by suspend() can be resumed: resume() waits for the     *)
(* report of the stop, and nothing but a call of suspended() in between    *)
(* has taken it; then resume() would block for ever.                       *)
(***************************************************************************)
StoppedCanBeResumed == proc = "stopped" => report \/ asked
=============================================================================
