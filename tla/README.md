# GroovyServ, specified and verified

GroovyServ keeps one JVM running and lets light native clients run Groovy
scripts in it. This directory holds TLA+ models of its server and clients, the
TLC configurations that check them on small instances, and TLAPS proofs of the
main safety properties for instances of any size. Paths below are relative to
`src/main` of the repository; `G/` is `groovy/org/jggug/kobo/groovyserv`.

## The system

| Component | State it keeps | Operations | Hard part |
|---|---|---|---|
| `G/RequestWorker`, `StreamRequestHandler`, `GroovyInvokeHandler`, `ClientConnection` | two futures, a connection with a pipe and a socket, interrupt flags | open a session, run the two handlers, cancel, answer, close | three or four threads ending each other, in any order |
| `G/platform/CurrentDirHolder`, `EnvironmentVariables` | four copies of the directory, two of each variable | `setDir`, `reset`, `put` | shared by all sessions |
| `G/ui/ServerCLI`, `GroovyServer`, `AuthToken`, `GroovyClient` | a port, a token file, processes | start, kill, restart, ping, shutdown | separate processes that meet only in a file and a port |
| `G/stream/StreamResponseOutputStream`, `c/session.c` | a socket carrying frames | write a chunk, send the status, parse | two channels and a status on one stream |
| `c/session.c`, `G/StreamRequestHandler` (input) | a socket carrying stdin, the pipe | send a chunk, interrupt, read a body | segmentation, signals, back pressure |
| `G/ClientProtocols`, `InvocationRequest` | none | parse and format headers, check the token | boundaries |
| `G/GServThreadGroup`, `ClientConnection`'s holder, `GroovyInvokeHandler`'s sub threads | thread groups, an inherited thread local | start, list, join, stop | threads that start while others are counted |
| `c/groovyclient.c`, `option.c` | options, a socket, the number of failed attempts | control a server, connect or start one, read the token, send, wait | retry, other clients and commands at the same time, signals |
| `c/buf.c`, `base64.c`, `session.c` (`send_header`) | a buffer that grows | encode, append | boundaries |
| `java/.../GroovyMain2`, `NoExitSecurityManager2` | none | run a script, turn `System.exit` into an exception | how failures end |
| `ruby/`, `sh/`, `bat/` | none | other clients, launchers | pure set-up and I/O |

A client opens a socket and writes an invocation request; `GroovyServer` accepts
it and makes a `RequestWorker`, which parses the request and submits a stream
handler (socket to pipe) and an invoke handler (the script, whose `System.in` is
the pipe and whose `System.out` and `System.err` frame onto the socket). The
handler that ends first cancels the other, sends the exit status and closes.
Sessions are independent but for `CurrentDirHolder` and `EnvironmentVariables`,
which all invoke handlers share, and for the shutdown command, which ends the
process. `ServerCLI` runs talk to the server as clients do, and the native
client runs them with `system()` when it finds no server.

What makes each part correct: one answer, decided before the connection closes,
and every thread ended (worker); a directory that belongs to a running session,
the same wherever it is kept (directory); no server shadowed by another's token,
commands that end, "shut down" meaning gone (life cycle); output complete, in
order and on its channel, then the script's status (responses); the script
reading its client's stdin without gap (stdin); threads that speak to their own
client and end with their session (sub threads); a client that ends, and is
served, whether there was a server or not (native client); a header sent as it
was put together (utilities).

## The modules

| Module | What it is |
|---|---|
| `Session` | abstract: a connection's fate is decided once, answered at most once, then closed |
| `RequestWorker` | one connection with all its threads; implements `Session` |
| `RequestWorkerProof` | its theorems |
| `CurrentDirHolder`, `CurrentDirHolderProof` | the state all sessions share, and its theorems |
| `SubThreads`, `SubThreadsProof` | all threads of the server with their groups and connections, what a script starts and how its handler ends it; its theorems |
| `ServerLifecycle` | commands and daemons on one port |
| `NativeClient`, `MCNativeClient` | native clients composed with `ServerLifecycle`; and an instance |
| `ServerLifecycleProof` | the theorems of these two |
| `Delivery` | abstract: what was written appears once, in order, on its channel, then the client exits with the status |
| `ResponseStream`, `ResponseStreamProof` | the frames and the native client's parser; implements `Delivery` as long as chunks do not mix; its theorems |
| `StdinStream`, `StdinStreamProof` | the native client's stdin to the script, and its theorems |
| `Invocation`, `MCInvocation`, `InvocationProof` | a command line on its way to the script: client options, header, token, environment, classpath; an instance; its theorems |
| `Base64` | the native client's encoding of an argument |
| `Buf` | its growing character buffer |
| `SendHeader`, `MCSendHeader`, `SendHeaderProof` | `send_header`, the composition of these two; an instance; the theorems of all three |

Operators named `...` after "Mutant of" in a module are deliberately wrong
versions of an action. They are not part of any specification; putting one in
place of its original must violate the property `PROJECT.json` pairs it with,
which shows that the property does depend on that code.

### RequestWorker

`pc` has an entry for the worker's thread and each pool thread. Labels follow the
code: the stream handler goes `start`, `read`, `write`, `finally`; the invoke
handler `start`, `setup`, `script`, `join`, `kill`; both then go through
`FutureTask` (`set`) and `afterExecute` (`await` the two fields, `cancel` the
other, `enter` `closeSafely`, `send`, `close`, `exit`). An action is one step
between two points where other threads can see or disturb the state: a
monitor's acquisition, a blocking call, a write to a shared field. `future` is
the state of each `FutureTask`, `assigned` which of the two fields are set,
`interrupted` the threads' interrupt flags, `holder` the owner of
`closeSafely`'s monitor. The client's stream requests are a sequence of kinds;
`Size: 0`, `-1`, a command and the two ways of leaving are different kinds
because the handler ends differently for each. The script may read its stdin
from its main or a sub thread, start a sub thread, interrupt itself, end, exit
or throw.

Outside the model, from `java.util.concurrent` and `java.io`: `FutureTask.run`
and `set` (a cancelled task's outcome is dropped, a task cancelled before it began
does not run), `cancel(true)` (sets the flag of the thread that runs the task),
and `PipedInputStream` (a full pipe blocks, a dead reader breaks it). A single
sub thread stands for all of them, and its `Thread.stop` takes effect at once;
several, and those they start, are the subject of `SubThreads`.

### CurrentDirHolder

`setDir` and `reset` are one action per assignment, in the code's order, with the
monitor's owner in `holder`; `PWD` is two steps (native, cache) because
`EnvironmentVariables.put` is. A client may propagate a `PWD` of its own
(`-Cenv-all`, or a mask that it matches), which `setupEnvVars` puts by the same
two steps after `setDir` and outside the monitor (`PutNative`, `PutCache`); `pwd`
is its value. So what the code keeps consistent is `user.dir` and the native
directory; of `PWD`'s copies the properties say that they hold the directory or
what some client has put. `chdir` fails silently for a directory not in
`Existing`. A session whose client sends no `Cwd` neither sets nor resets.

### ServerLifecycle

`ServerCLI` runs (`CLIs`) are processes with their own `GroovyClient`; run `c`
forks daemon `c`, whose token is identified with it. `file` is the token file:
absent, created but empty, or some daemon's token. A connection is accepted by
the operating system for whatever process listens, before the server looks at
it, so `Dial` needs only a bound port and `Pong` needs a serving process.
`goal` tells what `isServerAvailable` is called for: in order to kill, to start,
or while waiting for up. The stale `exitStatus` of the client that pinged is
why `RequestShutdown` goes straight to the wait for down. `Init` starts with no
server, with one an earlier command left, or with one that was killed and left
its token.

### NativeClient

`NativeClient` extends `ServerLifecycle`: the servers, the port and the token
file are the same variables, and a client that runs `system()` takes a run `c`
that nobody has used and performs `ServerLifecycle`'s own `Invoke(c)`; all that
run does afterwards is `ServerLifecycle`'s. Every other action leaves the
servers' variables alone, which theorem `ImplementsLifecycle` confirms. `at`
follows `main`: the command it was told to run (`kill`, `restart`), `connect`,
`start` after a refusal, `system` while a command runs, `token`, `header`,
`session`. `opt` are the options that matter to it: what to do with the server,
where the host comes from, whether a token is given. `SystemFails` is a command
that cannot be run at all. A remote server is only known by what it may answer.
A refused connection is answered by `start_server` once at most (`failCount`); a
client that was told to restart the server and is refused all the same has run two
commands.

`request` and `answer` are the two directions of the connection, a message each:
what was sent first is what the server acts upon, so that an interruption before
the header is taken for the request. What a session carries besides is in
`Invocation`, `StdinStream` and `ResponseStream`.

### SubThreads

Threads are `<<session, number>>`; the first three are the worker and its pool
threads, the others are what the script starts. `group` is a thread's group as
a path from the server's own (empty) and `holder` what the inheritable
`connectionHolder` holds: both are taken from the thread that starts it, so that
the accepting thread's `serverHolder`, which has had every earlier connection,
decides for the workers. `Members` is what `ThreadGroup.enumerate` finds.
Counting (`ActiveCount`) and enumerating are two steps, and so is each `stop()`
of the list, between which scripts start and end threads; a stopped thread is
`stopping` until it ends. Joining has no limit in the code (the time-out only
looks at the interrupt flag) and is one step that waits. The rest of the
handlers is in `RequestWorker`.

### ResponseStream

The wire is a sequence of units. A header is two, so that a client that is out
of step can lose one and not the other; a body unit carries its channel and a
serial number. `BeginWrite` enters a channel's `PrintStream`, whose lock keeps
two threads off one channel but not off the socket. A client that is out of step
reads other bytes where it expects a header. `ReadGarbage` is what `read_headers`
makes of them if they are no header: exit with 1, exit with 0, or lines ignored up
to the next header. `ReadOutputAsHeaders` is what it does if the script's output
looks like one: it exits with the code that the output states (any of
`TextCodes`), or reads a body of a size that it states (`TextSizes`), which begins
behind the first empty line in what follows. `misread` remembers that this happened.

### StdinStream

`SendSize` and `SendBody` are the two writes of `send_to_server`; `Interrupt` is
the signal handler, which can run between them. What was written at once may
arrive in pieces (`Arrive`). `ReadBody` is the single `read` of
`StreamRequestHandler`, which returns what has arrived.

### Invocation

One action per kind of word in `scan_options`' loop (`pc = "scan"`), then `main`
(`control`, `send`), the server's parsing and check (`parse`, `check`), and
`removeClasspathFromArgs`' loop (`classpath`). Synonyms of an option are one word.
`argv` is the client's array, in which taken words become `NULL`; `typed` keeps
the line for the properties, which say what it means by a definition that knows
nothing of the two passes: an option's value is the word after it, unless that
option is itself a value. The environment, `CLASSPATH` and the token's file are
inputs, chosen when they are read. A variable's value is a sequence of lines,
because `send_header` writes it unencoded; those after the first (`RestLine`) are
header lines like any other to `parseHeaders`, and may be an argument (also one that
cannot be decoded), a variable, a classpath, a command, a token or the empty line
that ends the header. A key has the values of all its lines (`Values`), of which
`readInvocationRequest` takes the first where there is one value only. A request
with a built-in command is no invocation (`Run`). `trim` is modelled by a flag of a
line.

### Base64

One action per step of `base64_encode`'s loops. The working buffer is taken
modulo `Word`, 2^32 in the code; of the overflowing bits none is used, so that
its sign plays no part (the shift of a negative `int` to the right keeps the
lower bits on every compiler the client is built with). A digit is its index in
`BASE64_DICT`. `Decoded` is the reference: what a decoder reads at the place of
byte `k`. `Allocated` is what `send_header` allocates before the call.

### Buf and SendHeader

`buffer` is the memory, one element for a character; `Garbage` is memory never
written, which `buf_strnlen` may take for a NUL or not. A write behind the end
makes `buffer` longer than `buffer_size`, which the type invariant forbids. A
call (`buf_add`, `buf_printf`) is one step that writes what fits or finds that
it does not, and one that grows the buffer and writes again: `vsnprintf` has
then left a cut string and its NUL behind the content. `content` is a history of
what was handed over. `SendHeader` extends `Base64` and `Buf`: each line is
appended where `session.c` does it, and an argument first goes through all steps
of `Base64`.

## The runs

Passing runs:

| Run | Instance | Shows |
|---|---|---|
| `worker_safety` | pipe of 1 chunk, 2 requests of any kind and a client that may leave, self-interrupting scripts; 3.2 million states | the safety properties and the refinement of `Session` |
| `worker_live` | the same with data and empty-command requests, without self-interruption | a settled session is closed if its client reads or leaves; if scripts end too, both pool threads end, and a client that left frees its connection |
| `dir_safety` | 3 sessions, each with or without a `Cwd` and a `PWD`; 2 directories, one of them not accessible to the server | `user.dir` and the native directory agree, and `PWD` with them where no client put its own; a set directory has an owner; sessions from distinct directories run in their own |
| `lifecycle_commands` | 2 commands of any kind, overlapping or not, servers killed at any time | tokens and kills are consistent; without overlap each command ends and the server left over is reachable |
| `response_frames` | 2 threads, 2 chunks of up to 3 units, the status at any moment; output may state a code or one of 3 sizes | the client ends, with its own code or the one that was sent unless it obeyed output; undisturbed frames implement `Delivery` |
| `requests` | command lines of up to 4 of 14 words, 10 environments: 1 with a variable twice, 8 with lines of every kind in a value; 2 values of `CLASSPATH`; 1,435,696 states | the words typed arrive, first and in order, whatever the values are; nothing else does, and environment and classpath are what the line means, unless a value has a line of the kind that changes them |
| `headers` | up to 2 arguments of up to 3 bytes of 2 values, up to 2 variables, other strings of 0, 1 or 5 characters; a buffer of 2 characters, a working buffer of 12 bits; 680,556 states | what `send_header` allocates suffices, arguments decode, no write is behind the buffer's end, and what is sent is what was put together |
| `native_client` | 1 client with 5 lines of options, 2 commands, of which a user may start one and its server may be killed; 726,639 states | the token of the file is never refused; a client left alone ends, and is served |
| `sub_threads` | 2 sessions, 2 threads that scripts start in all, daemons or not; 357,905 states | each thread has its own client; threads are awaited, none is missed, only their own session stops them; handlers end |
| `stdin_input` | 5 units, reads of up to 3, a pipe of 2, segments, SIGINT at any moment | nothing twice, nothing out of order; without torn bodies the script reads exactly its stdin, all of it |

History variables are those that nothing in the code reads. Some only tell which
promise applies: `overlap` (a command was begun, or a server killed, while
another command ran), `crowded` (something else began, or a server died, during a
client), `mixed` (a chunk was begun while another thread wrote, or the status was
sent in between), `torn` (a `read` returned something else than the body that was
announced), `misread` (the client obeyed output in place of a header) and
`thrown` (a script ended by an exception, or its handler was interrupted).
Properties that are promised only for undisturbed behaviours are implications of
their negation; all others hold unconditionally in the same run. `content` (what
was handed to the buffer) and `present` (the threads there when a listing began)
remember what a property compares a later state with.

Two runs are expected to find a violation; each shows a place where a comment of
the repository says what the code does not do, explained under `findings` in
`PROJECT.json`: `worker_stdin_close` and `stdin_segments`.

Why the bounds are enough. A session has exactly three threads and one client,
so only the pipe and the number of requests are bounded; a pipe of one chunk is
full after one request and blocks the second, which is every case the handlers
distinguish. Three sessions are what it takes for one to free a directory that
a second still uses and a third takes. Two overlapping commands show every
race between two; the theorems cover more. Frames are confused by two chunks of
two threads at the earliest, and a body of three units can swallow a whole
foreign header and more; output that is obeyed may state a code that no script has,
and a size that is none, that fits, or that exceeds everything sent. The bodies of
stdin need one read that is shorter
than the body and a pipe smaller than the input. A buffer of two characters grows
at every call that the code has, by copying and by printing, with a string that
fits exactly, by one too long or by far; three bytes take an argument through
all positions of a byte in its digits, and the working buffer of twelve bits
overflows with the second byte. The theorems cover every length and width. Four
words hold two options with values, each of which may look like an option of
either end; one mask of each kind is enough to meet the limit of ten. The
values of several lines have lines of each kind, alone and together. One client
and a user's command show every race between two processes that start, stop and
use a server (two clients that start one are two commands to the server);
`TokenIsTaken` covers any number. In two sessions one begins, runs and ends
during another; two threads are what it takes for one to start another while the
first is counted, joined or stopped.

Deadlock is checked except where a system may really come to rest: overlapping
commands may wait for ever (`lifecycle_commands`, `native_client`), a session
that interrupted itself may keep its connection (`worker_safety`), and a header
that was sent (`headers`) and sessions that are over (`sub_threads`) have
nothing left to do.

Fairness. `RequestWorker`'s `Fairness` lets every thread of the server run when
it can, which is what the JVM's scheduler gives. The writes to the socket
(`SendExit`, `CloseConnection`) block as long as a client that is there does not
read, with `closeSafely`'s monitor held; they are assumed to return only once the
client is gone, when they fail. That they return at any time (the client reads or
leaves) is the antecedent `ClientReads` of `SettledLeadsToClosed` and
`ThreadsEnd`; that scripts and their sub threads end, which the code cannot
enforce, is the antecedent `ScriptsEnd` of `ThreadsEnd` and `GoneLeadsToClosed`.
Neither is part of the specification. The run is about scripts that do not
interrupt their own thread: of one that does, `afterExecute` may be abandoned
(see Divergences). `ServerLifecycle` assumes that processes run and that a server
answers what it is sent. `ResponseStream` assumes that the client runs and that a
closing that was begun is completed. `StdinStream` assumes that a chunk begun is
sent, arrives and is handled, and that the script reads on. `NativeClient`
assumes that processes run on and that a serving server answers; that scripts end
is the antecedent of `ClientEnds`. `SubThreads` assumes that the server's own
threads run on; that scripts and their threads end is the antecedent of
`HandlersEnd`. No strong fairness is assumed anywhere.

### Divergences

Besides the findings, the models contain behaviours that a reader of the code's
comments would not expect. No run is spent on them.

- `RequestWorker.groovy:186`: the status may be the stream handler's success
  although the script was cancelled, when the pipe's reader has died.
- `StreamRequestHandler.groovy:58`: `Size: -1`, "client exited" in the summary of
  the protocol, ends as an unexpected error (an array of negative size).
- `RequestWorker.groovy:78`: when a request is refused nobody closes the socket.
- `RequestWorker.groovy:142`: a task that ends with its thread's interrupt flag
  set before both fields are assigned makes `Thread.sleep` throw out of
  `afterExecute`; the other handler is neither cancelled nor unblocked.
- `ClientConnection.groovy:113`: the status is written and flushed inside
  `closeSafely`'s monitor, so that a client that neither reads nor leaves keeps
  the session from closing, and the other handler from ending, for ever.
- `ClientConnection.groovy:98`: an interrupt request is read by the thread that
  writes the client's data to the pipe; behind data that the script does not read
  it is never seen, whatever `ClientInterruptionSpec` expects of an interrupt.
- `RequestWorker.groovy:145`: a script's `System.exit` code is not reported, but
  0, when the stream handler has ended by itself just before (the pipe's reader
  died, or the client is gone); `SystemExitSpec.groovy:44` knows only the code.
- `GroovyInvokeHandler.groovy:122` says that the current directory "must be always
  the last entry of classpath"; with `-cp .:lib` it stays
  the first. `ClasspathArrives` says that it is there, and last unless an option
  names it.
- `GroovyInvokeHandler.groovy:107` takes `-cp` and its value out of all arguments,
  also of those behind the script's name, which Groovy leaves to the script.
- `session.c:152`, usage in `option.c:77` ("pass all environment variables"): of a
  value of several lines only the first arrives. The others are headers to the
  server: an `Arg` line is one more argument of the script, a `Cp` line takes the
  place of `CLASSPATH`, which comes later, a `Cmd` line may make the request a
  ping or a shutdown, an `Env` line puts another variable, and an empty line ends
  the header, so that `CLASSPATH` is lost and the rest reaches the stream handler.
- `ClientProtocols.groovy:164` trims: spaces at the end of a value are lost.
- `EnvironmentVariables.groovy:77`: two sessions that put one variable can leave
  the native environment and the cache with each other's value.
- `ServerCLI.groovy:102`: the status looked at after a shutdown request is the
  ping's, so a refusal goes unnoticed.
- `GroovyClient.groovy:146`: `isServerAvailable` is true whatever the status.
- `StreamResponseOutputStream.groovy:66`: `out` and `err` interleave on the
  socket; the code has a FIXME about it. A client that is out of step then reads
  output as a header, and exits with the code that output states as `Status`
  (`session.c:506`).
- `groovyclient.c:136`: the outcome of the command that `-Ckill-server` and
  `-Crestart-server` run is not looked at: the client says nothing and exits
  with 0, or goes on with whatever server there is.
- `groovyclient.c:237`: when the connection to a remote host is refused, a server
  is started on the local one, and the remote is tried again.
- `option.c:228` rejects control of the server together with `-Chost` only; with
  `GROOVYSERV_HOST` in the environment it is the local server that is killed.
- `session.c:501`: when the server dies under a session, the client takes the
  end of the stream for a normal exit with 0.
- `groovyclient.c:252`: `SIGINT` before the request was sent reaches the server as
  the request, which is answered as an invalid one.
- A server that was killed leaves its token in the file (`G/AuthToken.groovy`);
  if a server with a token of its own, given with `-Cauthtoken`, is up before
  the next command looks, a client may read the killed one's and be refused.
  This is why `NeverRefused` excepts it.
- `ServerCLI.groovy:162` deletes a token file as "old and unnecessary" that may
  belong to a server which came up since the port was probed.
- `CurrentDirHolder.groovy:40` and `:48`: of two sessions in one directory the
  first to end resets it under the other, and a third may then change it.
- `EnvironmentVariables.groovy:82`: a variable that one client propagates stays in
  the native environment and the cache for all later sessions. `PWD` is one of
  them (`GroovyInvokeHandler.groovy:92`): put after the `reset` of a session in the
  same directory, or by a client that sends no `Cwd`, it stays when the server is
  back in its own directory, and native environment and cache may differ.
- `groovyclient.c:252`: `SIGINT` between the header and the body of a chunk puts
  the interrupt request in the place of the body: the script reads it as input,
  and the server learns of the interruption from the end of the stream only.
- `GroovyInvokeHandler.groovy:144`: a thread that another sub thread starts after
  the listing for the joins is stopped without being awaited, and one started
  after the listing for the stops outlives the session.
- `buftest.c:42` and `:63` (tests): "extra \0 added" is not what `buf_offs_ncopy`
  does; the tests pass or not with what the memory holds.
- `groovyclient.c:338`: a script's exit status loses all but eight bits; statuses
  201 and 202 of a script are taken for refusals (`groovyclient.c:314`, a FIXME).

## The proofs

Theorems and proofs are in modules of their own, which extend the component's.
They assume only the named assumptions on the constants.

`RequestWorkerProof`. The six invariants follow from an inductive invariant in
which the location of each thread is tied to its future (a thread before `set`
has an unsettled or cancelled future; one past `cancel` leaves both settled),
the monitor's holder to the threads in `send` and `close`, and `conn`, `closed`
and the length of `sent` to each other and to whether somebody has passed
`send`. What is reported is tied to `result` of the thread that is about to
report. `TypeOK` alone does not suffice, because that only one status is sent
depends on `conn` being tested inside the monitor. The refinement of `Session`
is proved step by step from the same invariant under the mapping `Phase`:
a session is decided when both tasks are settled, or when the request was
refused or a built-in command.

`CurrentDirHolderProof`. Within the monitor the copies are a function of the
holder's location (which have already been assigned), outside of it all equal,
but for `PWD`, of which a copy may also be one that some client has put; what was
once put stays among these values. A session between `setDir` and `reset` with a
directory of its own still finds it, because a reset needs a session whose
directory it is.

`ServerLifecycleProof`. The port orders the daemons: at most one listens, and
only a listener writes the file. A run that waits for down after its request
remembers whom it pinged (`old`); it found no listener after that, and no
process ever listens twice, so `old` is over. For the native clients, first
`ImplementsLifecycle`: whatever they do is a step of `ServerLifecycle` or none,
so its invariant holds. `TokenIsTaken` then rests on the order of connecting and
reading (`TokenFits`): a client's server was listening when it connected; a
token found in the file later is that of a process that listens or listened, so
if the two differ the connected one is over and never answers.

`QuietReachable` and `AloneClientIsServed` need to know what a command or client
that is alone meets at each of its stages. `RunAlone` says it for a run: nobody
else is under way, so when it probes, the server that is there can be used or
there is none (`Steady`); between its request and the end of its wait the server
that was to stop has done nothing but that (`Stopping`); behind its fork there is
its own daemon alone, on its way up (`Starting`). For a client (`ClientAlone`) the
only command is the one it waits for, so that what this run told is still true
when the client connects: the connection finds the server, the token in the file
is the server's own, and its answer is not a refusal. A client runs no command
that was run before (`CommandKept`).

`SubThreadsProof`. A thread's group and holder are those of its session from the
moment it is made, for which the accepting thread must still hold the session
just accepted (no two are accepted at once). What a handler enumerates is thus
its own; `NoThreadMissed` rests on the array being longer than what was found in
it, so that the list holds all that lived then.

`StdinStreamProof`. The units on the wire have increasing numbers without a gap,
and what the script, the pipe and the handler hold, one behind the other
(`Stream`), comes before what is still on the wire: so any body, be it a header
in truth, keeps the order. For the prefix, every header on the wire is followed
by its whole body unless it is the last or was interrupted (`Framed`); as long
as no read was torn the handler looks for a header where one begins
(`Aligned`), has skipped no unit (`Complete`), and the next unit is the one
behind those it has taken. The lemmas about wires and streams are stated for
any sequences and do not mention the state.

`ResponseStreamProof`. A status is written once, so every status on the wire is
the decided one, and no header is on the wire without its tail; so the
status the client finds in a header is the one that was sent, however chunks were
mixed. Only output can state another, and output is read as a header only after
chunks were mixed: that is the second part of `NoPhantomStatus`, which rests on the
next invariant.

`ImplementsDelivery` needs an account of the whole wire (`DInv`). What was
written is numbered without gap and is on the wire in that order (`Numbering`):
that holds always. While nothing is mixed, each header on the wire announces the
units behind it, up to the next header or, for the last one, what its thread has
still to write (`Framed`, `OneWriter`, `LastHeader`); the client stands at a
header or within the body it read the header of (`Aligned`); and what it has
printed, with what is on the wire, is all that was written (`PrintedIsPrefix`,
`RestIsAhead`). So it never reads garbage, never meets the end before the
status, prints the next unit on its channel, and reads the status only behind
all output (`NoGarbage`, `NoEarlyEnd`, `UnitRead`, `StatusRead`): each of its
steps is one of `Delivery` or a stutter. The status of `Delivery` is what a
process can exit with: the server's, modulo 256.

`InvocationProof`. The properties define what a line means by recursion over it,
and the code makes several passes over it; the proof relates the two pass by
pass. In the client's loop, `argv` is the line without its own words before `i`,
the masks are the words behind `-Cenv` and `-Cenv-exclude` before `i`, and `i`
itself is no value (`ClientInv`). The header is then exactly `HeaderOf`: the
lines of Groovy's words, of the variables that are selected, of the classpath. All
of these but the lines within values are at known positions (`HeaderLines`,
`HeaderKeys`), and the words come before any value. The server reads up to the
first empty line, which is not before the words' end; so whatever the values are it
reads the words first, in order, and behind them the arguments that values have;
just the variables if these have single lines; and the classpath sent if no value
has a line that is a classpath's or empty (`HeaderRead`, `RequestInv`, `HasLine`,
`NoLine`, `SingleLines`). In the handler's loop what is kept and what is gathered
are those of the positions before `i` (`FilterInv`), where adding paths to those
gathered gathers those of both lists (`GatheredMore`). That further arguments leave
those before them alone is `WithoutPrefix`: what is kept of a line is the beginning
of what is kept of a longer one.

The recursive functions (`Picked`, `IsValue`, `FlattenSeq`) are about sequences of
any length. Their values are established by induction in the form of a set of
numbers that has zero and with each number the next (`Induction`, from the
library's theorem on well-founded relations that takes a set and no predicate):
first that the recursion has a solution, then what it is. What is picked is the
sequence along the list of the positions in order (`Enumerates`, `PickedIs`), and
there is only one such list (`OneEnumeration`).

`SendHeaderProof`, on `Base64`. While the argument is read, the bits encoded and
those available are the bits read (`6 * Len(encoded) + wb_available_length = 8 *
read`), and the available ones are the lower bits of the working buffer, whose
overflow cannot reach them because `Word` is a multiple of 2^12 (`LowerBits`). So
each digit is six bits of the argument, and two digits give its byte back. The
allocation suffices because rounding up to four digits keeps `6 * Len(encoded)`
within `8 * Len(original) + 22`.

On `SendHeader`. Between two calls the buffer is the content, a NUL and the
rest, so `buf_strnlen` finds the content's end whatever garbage is behind it; a
call in progress leaves what is before its offset alone, and growing keeps it.
The invariant of `Base64` is kept by every step of the composition, also when the
next argument begins, and no digit is a NUL that would end a line early.

Model-checked only: the liveness properties (fairness and `ENABLED` are outside the
prover's fragment). Every safety property that a passing run checks, and both
refinements, are proved. `CurrentDirHolder`'s, `ServerLifecycle`'s and `SubThreads`'
type invariants and `IdleIsHome`, `OneExitStatus` and `NeverTerminatedStatus`
are proved and not checked by a run.

## What is not modelled

What scripts compute; the words of which headers and arguments are made; the
launch scripts, the shell and Ruby clients and the Windows variants; logging;
file permissions of the token; the address check and the token check beyond
their outcome; what a header `Protocol` does but for the silence it asks for, `Env`
lines without `=`, and newlines in the current directory, `CLASSPATH` or the token,
which would tear the header as values do; a rest of a body of stdin that happens to
look like a request's header (`StdinStream` ignores such rests or ends the session);
the look of `buf_strnlen` at the element behind the buffer's end before it returns;
a connection that the operating system resets because the server closed it with
unread input of the client's, which can lose output not yet read; a daemon that
ends through an error of its own and leaves its token, which is in `ServerLifecycle`
only as a crash; `GroovyClient`'s polling reader beyond the ping's and the
shutdown's outcome; of `GroovyMain2` all but the ways in which a script's end
reaches the handler. `buf_strcopy` and `buf_nstrcopy` are not called by the
client. `PROJECT.json` lists every component with its status, and every hazard
with the property that covers it or the reason why none does.

## Plan

1. `GroovyClient`'s polling reader against partly arrived responses.
2. `GroovyMain2`'s ways of ending, as an operator from script outcomes to
   exit statuses.
3. The Ruby client as a variant of the native one, over the same
   `ResponseStream` and `StdinStream`.
4. Action properties of single components, with their proofs.
