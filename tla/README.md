# A TLA+ model of inks

`inks` is a small HTTP server (Boost.Asio, Boost.Beast) with a process manager and an
asynchronous process scheduler beside it. This directory models both, and the objects and
algorithms they are built from, in TLA+: TLC checks the models on small instances; TLAPS proves
every invariant and every action property the passing runs check, and the refinement of the
scheduler's abstract specification, for all instances. Only liveness is left to TLC. Paths below
are relative to the repository.

Run a check with `tlc -config <cfg> <module>` and a proof with `tlapm <module>.tla`.
`PROJECT.json` lists the runs, the source lines each definition models, the hazards and the
findings.

## The system

| Part | State it keeps | Operations | What makes it hard |
|---|---|---|---|
| `aps::Scheduler` (`process/aps_scheduler.*`) | `stop_`, `running_`, two lane counters | `run`, `stop`; completion handlers `run_loop`, `handle_exit`, `handle_timeout` | completions in any order, timers past cancelling, late exit callbacks, `size_t` counters |
| `aps::P90_Estimator` | window of run times | `add`, `compute`, `size` | rank arithmetic, full window |
| `aps::Pending_Q`, `Finished_Storage` | deque; map of results | `empty`, `push`, `front`, `pop`; `store`, `find` | check-then-act across calls, `front` without the lock |
| `Process_Manager` | table pid -> handler | `spawn`, `wait`, `terminate`, `terminate_with_children` | blocking calls with and without the mutex, raw pointer after unlock, pid reuse |
| `Process_Handler` | child, three pipes, two read buffers, callbacks | `spawn`, `suspend`, `suspended`, `resume`, `wait`, `terminate`, `write_stdin`, `close_stdin`; the destructor; read completions | pipes that fill up, completions after `terminate`, calls that block the loop that reads, a stop that is reported once |
| `Process_Killer`, `exponential_retry` | an iterator | `elegant_kill`; `compute`, `increment`, `equal` | zombies, races between two system calls, overflow of the shift |
| `LRU` | list and map of iterators | `get`, `put`, `erase` | iterators into nodes, eviction order |
| `HTTP_Session`, `HTTP_Acceptor`, `main` | one pending operation per session; the acceptor; the io_context | accept, read, write and signal handlers | peers that stall, reset or pipeline; exceptions that leave `ioc.run()` |
| `HTTP_Router`, `HTTP_Handler`, factory, `Initializer`, `Settings` | `routes_`, `creators_`, host and port | `init`, `add`, `dispatch`, `unregister_handler` | prefix matching on strings, configurations with parts missing or out of range |
| `HTTP_URI_Parser`, `hlpr::decode_*`, `path_normalize` | none | pure functions | malformed escapes, separators in escapes, `..` |
| `CURL_Client` | a libcurl handle with its options | `send`; the destructor | options and raw pointers that outlive a send, a response used again |
| `string_sprintf` | none; the string is the buffer | `string_sprintf`, `string_sprintf_append` | off-by-one around the buffer's size |
| `aps_solver`, `deleter.h`, packaging | - | - | not modelled, see the end |

How they interact: the scheduler is given an `io_context`, a queue that other threads push to
and a storage; it calls `Process_Manager::spawn` with a callback that captures the job id, and
`terminate` at a deadline. The manager owns one `Process_Handler` per child. The HTTP side is
separate: `main` runs the `Initializer`, which fills the router, then the acceptor and its
sessions on one `io_context` with one thread (`threads` of the configuration is never read);
a session calls the router, the router the parser and a handler.

What makes each part correct:

- scheduler: what is taken from a lane is given back once; a job has one process and one place;
  every queued job is started and ends; a stored result is final;
- estimator: the nearest-rank percentile of the latest window, and deadlines that spare it;
- queue: the job checked is the job popped;
- process manager: no child escapes, no entry dangles, no call holds the table for ever; under
  the scheduler, a deadline kills its own run;
- process handler: lines in order and delivered; nothing else reaches a callback before the last
  line unless the pipe was closed; after `terminate` the reads end; a stopped child can be resumed
  unless `suspended` was asked;
- killer: answers true only of dead processes, SIGKILL last, and it ends;
- LRU: list and map agree, the victim is the least recently used;
- CURL client: a transfer is this request's only and verifies certificates, a response is one
  transfer's only;
- `string_sprintf`: the text is whole;
- server: responses in order, nothing after a close, every request answered, no hang, no crash;
- start-up: the server serves where and what the two configuration files say, or the defaults;
- router, parser, normalisation: equal to their reference definitions.

## The modules

### Process scheduler

`Scheduler` is the core. `running_` is a function that is `NoRun` where the map has no entry;
the counters wrap at `SizeMax` as `size_t` does. Each completion handler is one action, as all
of them run on the one thread of the io_context. Three environment actions come between them:
`Expire` (the timer's completion is queued and can no longer be cancelled; it stays in `due`
even if the run is erased, as destroying a timer cancels only what has not completed),
`ChildExit`, and `OnExit`, the callback of Boost.Process, which comes once for every child,
also for one that `terminate` has waited for (`child[p] = "reaped"`); in that case the status
is not the child's (`LostStatuses`, -1 in Boost.Process). `Submit` is `Pending_Q::push` by a
client. `run_loop` includes `schedule`: taking the lane, spawning, arming the deadline and
`emplace`, which keeps an entry the id already has.
Abstractions: a job is its id and its lane; the length of a deadline is left to `Expire`,
which may come at any time; a pid is not reused before its callback has run; a pass of
`run_loop` that schedules nothing is a stuttering step; the storage is the set of ids with a
result (`store` keeps the first result of an id, `find` has no effect). `stop_` is a plain
`bool` written by another thread: a pass that misses it is a pass before `Stop`.

`JobLifecycle` is the abstract specification: new, queued, running, queued again, finished or
dropped, at most `Capacity` running. `Scheduler` implements it when ids are unique
(`ImplementsLifecycle`, refinement mapping `Phases`).

`P90Estimator` is the window and `compute_timeout`; `Scheduler` instantiates it. `PendingQueue`
takes the three calls of `run_loop` apart and shows that with one consumer they act as one.

`ManagedScheduler` puts `Scheduler` on top of the manager's table. In a program that never calls
`wait`, only `terminate` removes an entry; the entry of a child that ended by itself is `"stale"`.
`managed_spawn` over a stale entry is `emplace` on an existing key: depending on the library the
new handler is destroyed, which kills the new child, or it is left to nobody. `Killed` is what
`terminate` does: the handler it finds signals its own child. The other steps are `Scheduler`'s.

### Processes

`ProcessHandler` is one handler with three actors: the child, a caller that makes one call at a
time, and the io_context. `inLoop` says whether the caller is itself a handler of the io_context;
then a blocking call (`call`) stops `Complete`, `handle_stream` and `OnExit`. A stream is the
child's lines in the pipe (`data`) and in the streambuf (`buf`); one completion may bring several
lines, and its handler consumes one. Closing a pipe completes a pending read with an error, which
the handler doesn't look at. `report` is the kernel's notice of a stop, which one `waitpid` takes.
Of Boost.Process the model has what the code relies on: `running()` waits for a child that has
ended and never throws; `wait()` throws if somebody else has waited for it; the exit callback
comes once, with a status of -1 if the status was lost.

`ProcessManager` has one action per critical section or blocking call of a thread. The mutex is
explicit only where a call blocks with it held (`mtx`). `insert` covers both behaviours of
`emplace` on an existing pid. `terminate_with_children` is the same as `terminate` for the
child itself: the killer's function is empty, and erasing the handler runs its destructor,
which kills and waits. `Reap` is Boost.Process's own wait at SIGCHLD; a `wait` that is blocked by
then throws (`WaitReturns`) and leaves the entry. The kernel may hand out a pid again while an
entry or a call still has it; the history `recurred` remembers which. Taking a status and storing
it is one step.

`Backoff` has the operators of the iterator with the widths of `unsigned` and `unsigned long
long` as parameters. `ProcessKiller` uses it for `elegant_kill`, two system calls per attempt,
with the iterators of `exponential_retry` as a parameter. Its pid may come back once, as another
process that may or may not be signalled (`Reuse`, `target`).

### HTTP

`HttpServer`: a session has one operation pending (`op`, `result`); `Read`, `Write` and
`Timeout` complete it, a handler consumes the completion. `buff` is `buff_`, which keeps
pipelined requests across `reset_parser`. `close` and `handle_request_received` call
`remote_endpoint()`, which throws unless the socket is connected; `Down("crashed")` is that
exception leaving `ioc.run()`. Requests are only told apart by what the session tells apart.
The history `broken` remembers the connections that timed out or were reset.

`HttpUri` (strings as sequences of characters), `PathNormalize` (a path as the texts between
its separators) and the router's `find_handler` are pure operators; their loops are recursive
functions on the position, as the code goes. `HttpRouter` adds start-up
(the log directory, the two configuration files, `make_address` and the bind in `main`, each of
which may fail), dispatch, and the factory, which the `REGISTER_HTTP_HANDLER` objects fill before
`main`; `unregister_handler`, which has no caller, may come whenever the server serves. The history
`config` is the pair of files. A file is what its JSON value makes of it: `NotObject` and `NotArray`
stand for files that are missing, malformed from the start or of another type. `BrokenArray` is a
`handler.conf` that is malformed only after its opening bracket: the parser builds the value in
place and throws, `parse_from_file` clears the array and returns it, and `is_array()` holds. A response is its status and its keep-alive; `HttpServer` uses that every response has the
keep-alive of its request, which `RoutesToLongestPrefix` includes.

### Library

`Lru` models list nodes with an identity. `StringSprintf` has one action per round of the loop;
characters are numbers, so that the old string, the text and NUL are told apart. `CurlClient`
names the header list, the body and the error buffer of a send by the number of the send, so that
a pointer into an earlier one is seen; a failing `curl_slist_append` anywhere is the choice of
`rest`. The conditional options (`follow_redirects`, the two `verify_ssl_...`, `user_agent`) are only
ever switched on, over libcurl's defaults after `curl_easy_reset`; peer and host are verified by
default, so a request can't switch that off, and `PerformsThisRequest` says so.

The modules `...Proofs` hold the theorems about the module they are named after; `LibraryProofs`
those about the parts of `MCLibrary`, `HttpTargetProofs` those about the parts of `MCHttpTarget`,
and `SchedulerProofs` also those about `ManagedScheduler`.

The `MC...` modules hold histories, enumerations of inputs and bounds; `MCLibrary` runs the
four objects of the library and the estimator, which don't interact, one per behaviour.
Definitions whose name ends in `Bug` are faulty variants that show that a property can fail.

## The runs

| Run | Instance | Shows |
|---|---|---|
| `sched_unique` | 4 jobs with unique ids, 4 lanes (1 fast, 3 slow), 4 pids, spawn may fail | `TypeOK`, `LaneAccounting`, `OneProcessPerJob`, `OnePlacePerJob`, `NoSlowTimeout`; the refinement of `JobLifecycle` |
| `sched_resubmit` | on the manager's table: one id, 4 submissions, a second id, 1 submission, 2 pids, 4 lanes | `LaneCapacity`, `EntryCanBeRemoved` with ids that are not unique and pids that come back; `KillReachesTheRun` |
| `sched_live` | slow lanes held, 2 more jobs for one fast lane, spawn may fail | `QueuedJobIsStarted` if children may hang; `QueuedJobSettles` if they end |
| `sched_mapped` | one job, 4 pids | a finding, below |
| `library` | LRU: 3 keys, capacity 2, 7 calls; queue: 6 pushes, one consumer; `string_sprintf`: buffer 3, strings to 5, texts to 7; CURL: 3 sends, 2 requests, 2 responses; estimator: windows up to 15, 17 reports that count, any others between them | consistency and eviction; the three calls act as one; whole texts; no send sees an earlier one; percentile of the samples that are kept, deadline |
| `proc_handler` | 2 streams, 3 lines and 1, pipes of 2 lines, caller in the loop or not | order and delivery of lines, end of the reads, resumption |
| `proc_manager` | 3 threads, 2 pids, 2 handler objects | control of every child, soundness of the table, no hold on the mutex for ever |
| `proc_killer` | all iterators of 3-bit numbers | order and number of attempts, delays, result, end |
| `http_target` | all inputs up to the bounds | start-up, parser, router and normalisation equal their reference definitions |
| `http_normalized` | paths of 2 segments | a finding, below |
| `http_session` | 2 connections, one with 2 requests; timeouts, resets, failing accept | order, answers, no hang, no crash without a broken connection |
| `http_timeout` | the same, timeouts only | a finding, below |

Why the bounds are enough. Four lanes are the smallest number the constructor accepts, and give
one fast lane, so that both lanes fill, are borrowed both ways and are refused. A job can time
out once and then runs in the slow lane, or borrows the fast lane again; four pids allow a late
callback of every earlier run. Two run times tell every rank of a window apart, and windows of
14 and 15 straddle the scheduler's minimum; reports of 0 seconds come anywhere among the others. Three threads are a waiter, a terminator and a spawner, and two handler objects let a
freed address be used again. Five runs, three of them with a failed spawn, fill the four lanes
while the two pids change hands between the ids. A pipe of two lines is full while a third line
waits, and lets one read bring two lines. A buffer of 3 has texts and old strings shorter, equal
and longer, with and without appending. Two responses and three sends allow a response to be used
again directly and after another one. For the killer `unsigned` has 3 bits and `unsigned long long` 6,
in the ratio of the build, so that the counter passes the width of the shift and reaches
UINT_MAX. The HTTP bounds allow two requests in one read on one connection while the other is
in any state. `SizeMax` is larger
than the lanes, so that a wrapped counter is seen. `CanonicalNames` breaks the symmetry of job
ids and pids in the order of first use; `NotStopped` cuts the states after `stop`, in which the
liveness properties hold already and nothing happens that could not happen before the next
pass of `run_loop` (`sched_resubmit` explores them). `CanonicalPids` does the same for pids with
the same kind of entry; `SecondIdOnce` is a bound.

Fairness. Handlers of an io_context that runs are run: weak fairness on `run_loop`,
`handle_timeout`, `OnExit`, and on `Expire`, as time passes. There is none on `ChildExit`
except as the hypothesis of `QueuedJobSettles`, which is about children that end. In `ProcessHandler` the io_context runs what is ready and a child that is writing to a pipe with
room goes on; a call that blocks the loop, or a child that never ends, is not fair. In
`ProcessManager` the kernel schedules a thread that holds the mutex (`Destroy`) and SIGKILL
works. In
`HttpServer` the reactor completes what can complete, timers fire and handlers run; clients owe
nothing. In `ProcessKiller` the caller goes on and SIGKILL works; the process may ignore
SIGTERM and its parent may never reap it.

## Findings

- `sched_mapped`: `handle_exit` finds the run by the job id only. The exit callback of a run
  that `handle_timeout` killed may come after the job was started again; it removes the new
  run's entry, and releases its lane while its process lives.
  (With unique ids and -1 as the lost status no false result is stored.)
- `http_timeout`: a session that times out ends the process, because `close()` asks a socket
  that beast has closed for its peer. `http_session` shows that nothing but a timeout or a
  reset does that (`CrashNeedsBrokenConnection`).
- `http_normalized`: `http_uri.h:24` calls `decoded_path` normalized, which `path_normalize.h:2`
  explains as without `.`, `..` and consecutive separators. `path_normalize` is never called, and
  the decoded path of the target `//` is `//`. `DecodesAsMeant` is about decoding only.

Two more disagreements have no run of their own:

- `aps_scheduler.cpp:271` says of a deadline in the slow lane "Should never happen by design".
  With unique ids that is proved (`SlowRunsNeverTimeOut`). If an id is submitted again, an expired
  deadline of its first run can meet its second run in the slow lane, which is then killed and
  queued again (`NoSlowTimeout` fails in `MCScheduler` with one id and `MaxSubmits = 2`).
- `schedulable` (`aps_scheduler.cpp:122-127`) ends in `return true`, so the condition under which
  a slow job may borrow the fast lane has no effect; the model's `schedulable` has none.

Observations no line of the repository contradicts: `HTTP_URI_Parser::parse` never answers
false, so the router's 400 is unreachable and a malformed escape cuts its segment short
(`DecodesAsMeant`); a failing accept closes the acceptor for good; a run in the slow lane whose
spawn failed keeps its lane for good (the exception in `EntryCanBeRemoved`); `elegant_kill` may
answer false of a process that is gone; delays shrink to 0 once all bits are shifted out.

More of them, from `ProcessHandler` and `ManagedScheduler`: the scheduler's children have no line
callback, so nobody reads their pipes and a child that writes more than they hold never ends by
itself; the scheduler never removes the entry of a child that ended by itself, and a child whose
pid comes back over such an entry is killed at once or outlives its deadline (`shadowed`); after
`suspended()` has answered true, `resume()` blocks for ever; a callback is called once with a
length of `SIZE_MAX` at the end of its stream, and again and again as long as the pipe stays open;
a handler destroyed with a completion outstanding is used by it.

From `CurlClient` and the rest: `verify_ssl_peer = false` and `verify_ssl_host = false` have no
effect, as the options are only ever switched on and libcurl's defaults are on; a `handler.conf`
that breaks off after `[` doesn't stop the start-up, and the server serves without any route, while
one that breaks off elsewhere does; the error buffer lives on the stack of
`perform_request` and the handle keeps the pointer until the next send; a port above 65535 is cut
to 16 bits, and 65536 means any port; HEAD is answered 501, with a body; `HTTP_Handler` has no
virtual destructor although handlers are owned through it; the `signal_set` for SIGSEGV and its
like swallows them.

## The proofs

Every inductive invariant below was checked with TLC on the bounds of its component's run before
it was proved. Each proof has one lemma or step per action; a theorem follows from its invariant.

### Scheduler (`SchedulerProofs`)

For all constants that satisfy `SchedulerAssumption` (and `P90Assumption`):

- `TypeCorrect`: `Spec => []TypeOK`. It needs lemmas on `Plus`, `Dec`, `Append` and on the
  estimator's `AddTo`.
- `LanesNeverOvercommitted`: `Spec => []LaneCapacity`. `LaneCapacity` is inductive together
  with `TypeOK`: `schedulable` leaves room in one of the lanes, `ActualLane` picks it, and a
  release is for an entry that is counted. The lower bounds (the number of entries per lane)
  are what keeps `Dec` from wrapping; they need the lemmas on cardinality. Ids need not be
  unique and callbacks may be arbitrarily late.
- `EntriesCanBeRemoved`: `Spec => []EntryCanBeRemoved`, from `EntryInv`, which adds that the
  process of an entry belongs to its id, so that the callback outstanding is the entry's own, and
  that a due deadline is counted.

Under `UniqueIds` (each id is submitted once, and the status for a child that can no longer be
waited for does not look like an exit):

- `JobsHaveOneProcess`, `JobsHaveOnePlace`, `SlowRunsNeverTimeOut`. None of the three is
  inductive: each holds because of what may still be outstanding. `UniqueInv` adds that, per
  job: `Distinct`, it stands in the queue at most once; `Places`, while it is queued (or not yet
  submitted) it has no entry, no process, no outstanding deadline and no result, and with a
  result it has neither entry nor process; `Own`, it has at most one process that has not been
  waited for, and if it has an entry, that process is the entry's; `Deadlines`, at most one
  deadline is past cancelling, and if the job has an entry it is that run's, in the fast lane.
  Each action is shown to preserve it for the job it touches and to
  leave the others alone.
- `LanesAreAccounted`: the counters equal the entries. `emplace` never meets an entry of the same
  id here, which is `Places`, so that every lane taken has an entry.
- `SchedulerImplementsLifecycle`: the initial state maps to `JobLifecycle`'s, and every action to
  one of its steps or to none. `UniqueInv` says in which phase the job of an action is; the bound
  of `JobLifecycle` on running jobs comes from `LaneCapacity` and `LaneAccounting`.

### Scheduler on the manager's table (`SchedulerProofs`)

`ManagedInv` says of an entry of `running_` that its own callback is outstanding (`EntryOwn`), and
of the table that a handler which isn't stale has a child nobody waited for, and a child without
such a handler got its pid over a stale entry (`Controls`). The scheduler's own `EntryInv`
doesn't hold here: a child may be gone before its run is entered. From it:
`KillsItsOwnRun` (the action property `KillReachesTheRun`), `ManagedEntriesCanBeRemoved`, and,
with the lemmas on the counters, `ManagedLanesNeverOvercommitted`.

### Estimator (`P90EstimatorProofs`)

For all constants that satisfy `P90Assumption` (the capacity, the minimum of samples and the
default timeout are positive, run times are not negative), and any number of reports:

- `PercentileIsExact`: `HistorySpec => []ComputesP90`. The inductive invariant says that the window
  is the last `Capacity` elements of the history of reports that count, which makes dropping the
  oldest sample right; the rest is about one window. There `NthElement` exists because the counts of
  the samples up to a value start at most at the rank and end above it, and the integer rank is the
  least k with 10 (k + 1) >= 9 n, which is the nearest-rank definition.
- `DeadlinesSpareTypicalJobs`: `HistorySpec => []DeadlineSparesTypicalJobs`. The percentile p of
  positive run times is positive, so p * 1.5 rounded up exceeds p, and the deadline minus one still
  covers all the samples that p covers.

### Processes (`ProcessManagerProofs`, `ProcessHandlerProofs`, `ProcessKillerProofs`)

- `EntriesAreSound`, `WaitIsSafeAlone`, `NoChildEscapes`, for any threads, pids and addresses
  (`ManagerAssumption`: `None` is none of them). `TableIsSound` isn't inductive: a thread may be
  about to insert or destroy. `Held` adds that the object of such a thread is its alone, and that
  only the thread with the mutex destroys. For the children `ChildInv` adds, for pids that did not
  come back, that a pid in the hands of a thread has no entry (`Holders`) and that the object at
  hand, or the entry's, is one whose child was not waited for (`Owners`).
- `LinesArriveInOrder`, `StopsAreReported`, for any streams, numbers of lines and pipe sizes, with
  no assumption. `LinesInOrder` says nothing about reads under way; `StreamInv` adds that a
  completion with a line finds it in the buffer, and that after a failed read nothing is left to
  deliver unless the pipe was closed. `ChildInv` adds that the call which kills the child doesn't
  return before it has ended, so that `suspend()` never meets a killed child.
- `TrueIsReliable`, `TermComesFirst`, `DelaysDoubleUpToTheCap`, for any widths of the integers
  (`BackoffAssumption`) and any iterators (`KillerAssumption`). `KillerInv` counts: the attempts
  with a signal are what the iterator says (`Counts`, `Rounds`), and as long as the pid is the
  target's, an attempt that could signal it did (`Warned`). For the delay a lemma shows that a
  shift by less than the width is the multiplication by a power of two.

### HTTP sessions (`HttpServerProofs`)

`AnswersInOrder`, `CloseIsLast`, `OnlyBrokenConnectionsCrash`, for any connections, numbers of
requests and faults (`HttpServerAssumption`). `ServerInv` says for each connection which requests
are in the buffer and on the wire (`Unparsed`), that requests are answered from the first on and
all but the last had keep-alive (`Answers`), and what a pending operation and its completion stand
for (`Session`): while reading, everything parsed is answered; while writing, exactly one request
is not. `CrashInv` adds that a session with an operation under way has an open socket unless its
connection broke, so that `remote_endpoint()` doesn't throw.

### From a target to its handler (`HttpTargetProofs`)

For all constants that satisfy `RouterAssumption` (targets, paths and names in the files are texts,
ports are natural numbers, `BrokenArray` is not `NotArray`) and `BoundAssumption` (`MaxTokens` is a natural number). The bounds of
`MCHttpTarget` are constants here like all others: texts, paths, configurations and numbers of
segments and parameters have any size.

- `LongestPrefixAnswers`: `Spec => []RoutesToLongestPrefix`. `Stops` are the lengths at which a
  covering route can end; a round of the loop goes from one stop to the next lower one (`NextStop`),
  so that what it answers is the longest of the hits (`Answers`). `RouterInv` adds that `routes_` is
  a table of registered handlers, whatever the files hold.
- `ServerServesAsConfigured`: `Spec => []ServesAsConfigured`. `SettingsInv` says that
  `parse_settings` ran once, on the defaults, that the routes are the entries of `handler.conf`, and
  that nothing touched either since. One round of the loop over the entries adds its entry to the
  routes of the ones before (`LoadStepLists`), so the whole loop has the last handler of each path
  (`LoadedRoutes`, by induction on the number of entries; `InitLists`).
- `ParserDecodesAsMeant`: `MCSpec => []DecodesAsMeant`. The invariant is that `uri` is what `parse`
  made of `input`; the work is in the functions. Decoding a concatenation is decoding its parts if
  the first is sound (`DecodeConcat`), so an encoding decodes to its meaning, one chosen escape at a
  time (`EncodingDecodes`). No encoding contains the separators of its place, so `Split` undoes
  `Join` (`SplitJoin`), the first `?` and the first `=` are the ones that were put there
  (`FindFirst`), and the tokenizer drops only the empty token (`TokenizePadded`). A raw text is its
  longest sound prefix and then a malformed escape, as any other character or escape would make a
  longer prefix sound (`GoodGrows`); there the decoding ends (`MalformedEnds`).
- `NormalizeKeepsMeaning`: `MCSpec => []NormalFormOfSamePath`. After each token the stack of
  `path_normalize` is in normal form and leads to where the tokens so far lead; the working
  directory is deep enough for the `..` of one path, which is why `MaxTokens` is a number. A path in
  normal form is pushed token by token, so the second call returns it.

These functions are recursive, and the induction theorems of the library can't be used, as they
take a predicate as a parameter. The modules have their own: a set of naturals that isn't empty has
a least element (`LeastNatural`), hence induction for a set (`SetInduction`, `RankInduction`), hence
a recursive function whose arguments get smaller exists (`RecursionExists`). For each recursive
function a lemma `...Def` or `...Exists` unfolds it once.

### Library (`LibraryProofs`)

For all constants that satisfy `LibraryAssumption`: `None` is no node and no pair, the capacity
and the first buffer size are positive, one thread consumes the queue.

- `ListAndMapAgree`, `TheVictimIsTheOldest` (an action property). `LruInv` treats the list as the
  set of its nodes (`In`) and their order (`Before`): a node is in the list exactly when it holds a
  pair, map and node lead to each other (`Linked`), and the list is in the order of the last uses
  (`Ordered`), from which it follows too that no node is there twice. Lemmas say what a splice, an
  erase, a push and a pop do to `In` and `Before`. That a full list means a full map is a
  bijection between positions and keys.
- `ThreeCallsActAsOne`: between `front()` and `pop()` the consumer has seen the head
  (`SeenIsHead`), which a push leaves in place. It is false with two consumers.
- `TheTextIsWhole`: as long as there is no result the caller's text is there (`Kept`), and after
  one round the buffer has room for the text and its NUL (`Grown`).
- `HandlesCarryNothingOver` (with the verify options, on for every transfer because the reset
  switches them on and nothing switches them off), `ResponsesAreNotMixed`: `Cleaned` adds that the response of the
  transfer to come is empty.

### Only model-checked

- Liveness (`QueuedJobIsStarted`, `QueuedJobSettles`, `TerminateReturns`, `KillsInTheEnd`,
  `RequestsAreAnswered`, `NoOperationHangs`, `LinesAreDelivered`, `ReadsEndAfterTerminate`):
  fairness and ENABLED are out of the prover's reach.
- The three findings: `LiveProcessIsMapped`, `ServerSurvives` and `DecodedPathIsNormalized` are
  false, and TLC shows how.

What the proofs assume is what the modules state as `ASSUME`, each named above, and what the models
abstract from; TLC evaluates every assumption on the constants of its run.

## Not modelled

- `aps_solver`, a load generator: a child in the models is any process.
- `deleter.h`, a scope guard without state that no modelled part uses.
- Logging, the text of the echo response and of the stock responses, the headers of a response
  other than keep-alive, and `bad_request` and `not_found`, which no request reaches.
- `threads` of the settings, which is read from the file and never used.
- Reads without effect: `pid()`, `exit_code()`, `Pending_Q::size`, `Finished_Storage::find`, `dump`.
- The reuse of a pid before its exit callback has run, in `Scheduler` and `ManagedScheduler`:
  Boost.Process would then run the old callback for the new child's exit.
- A `pipe()` that fails, as it does without file descriptors. `Process_Handler::spawn` makes its
  pipes before its `try` (`process_handler.cpp:41-43`), so the exception passes through
  `Process_Manager::spawn` and `run_loop`, with the lane already taken, and leaves the caller of
  `ioc.run()` to deal with it. The safety properties concern behaviours up to there; liveness
  assumes that it doesn't happen. Failures inside the `try` are modelled (`SpawnMayFail`).
- A number in a configuration file that no JSON number type holds: `json::out_of_range` isn't caught
  and the process ends, as in `"exited"`. A port of 2^64 or more is read as a floating-point number
  and ignored, as is `Invalid`.
- Two threads that call on one `Process_Handler` at a time, other than through the manager.
- libcurl, Boost and the kernel, except as their callers see them.
- The FUSE file system the project's README names, which is not in the repository; build files and
  packaging.

## Plan

Done: the scheduler with its estimator, queue and storage, alone and on the manager's table; the
process manager, handler and killer; the HTTP server, its start-up, router and parser; LRU, path
normalisation, `string_sprintf` and the CURL client; the proofs above.

All invariants and action properties of the passing runs are proved. Next: the safety part of what
liveness rests on (who may hold the manager's mutex, which operation a session has pending), as
invariants of their own with proofs.
