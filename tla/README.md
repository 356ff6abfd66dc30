# A formal model of the CIS1 WebUI native server

The server (C++17, Boost.Asio and Beast, sqlite_orm) is the back end of a web
interface to the CIS continuous integration system. It serves the web page and
an HTTP API for authentication, uploads, downloads and webhooks; browsers keep
a websocket to it over which they manage users, projects and jobs, run jobs
and watch their logs; CIS cores connect to it over TCP to feed it the logs of
running jobs.

This directory holds TLA+ specifications of its parts, the TLC configurations
that check them on small instances, and TLAPS proofs of the theorems that hold
for every value of the constants.

    tlc -workers 2 -config ws_connection.cfg WsConnection
    tlapm WsConnectionProofs.tla

## 1. How the program runs

`main` reads the configuration and calls `application::run`, which starts the
listeners and one `io_context.run()` on one thread. Completion handlers and
timer callbacks are therefore atomic, and what interleaves is their order:
between starting an operation and its handler any number of other handlers may
run. An exception that leaves a handler leaves `io_context::run` and ends the
program (`main.cpp:90-99`). Objects are reference counted: a connection lives
while the handler of an outstanding operation holds it, a log session while a
subscriber, a feed or its timer's callback holds it.

Every action of the modules is one handler, or a part of one that ends in a
different outcome.

## 2. Inventory

### Live log sessions — `cis/session*.cpp`, `cis/offline_session.cpp`, `websocket/handlers/session_*.cpp`, `application.cpp`
*State*: the manager's map from session id to a weak pointer; per session its
state (pending, not established, in progress, finished, or offline), the log
received, the subscribers (a map from connection to a weak pointer), a 5 s
timer; per subscription a subscriber object with its session and its key among
the connection's close handlers, which own it; the session in the context of
each TCP connection of a core.
*Operations*: subscribe, unsubscribe, connection closed, session_auth,
log_entry, feed closed, job exited (`finish_session`), timer.
*Hard*: the subscription may come before, while and after the log is fed; the
timer's callback is queued while the feed connects; notices run from inside
`subscribe`; the last reference may go in any handler.
*Correct if*: a subscriber gets the whole log, once and in order; who hears
nothing more has been told why; a session nobody feeds is given up; sessions
are released.

### Close handlers of a websocket — `net/websocket_queue.cpp`
*State*: a `std::map<uint32_t, callable>`. *Operations*: add, remove.
*Hard*: unsigned arithmetic at 0, `insert` on a key in use.

### Websocket connection — `net/basic_websocket_session.cpp`, `net/queued_websocket_session.cpp`, `net/websocket_queue.cpp`
*State*: the stream, the timer and the ping state, the queue of outgoing
messages, the outstanding operations. *Operations*: the completion handlers of
accept, read, write, ping and the timer; control frames; messages pushed by
other connections' handlers.
*Hard*: back pressure (reading stops when the queue is full and is started
again by a write), the timer's handler racing the activity that moves its
deadline, failed operations that go on.
*Correct if*: no wakeup is lost, no message is stuck, no live peer is dropped
and no dead one is kept.

### HTTP connection — `net/http_session.*`, `http/handlers_chain.cpp`
*State*: the socket, the timer, one request parser, a queue of responses.
*Operations*: completion of a header, a body, a write; timer; upgrade to a
websocket.
*Hard*: requests are pipelined, so that writing, reading and handling overlap;
the response may be sent before the rest of its request is read; the parser is
replaced between the two.
*Correct if*: pipelining neither stalls nor mixes requests; a connection is
only closed when late, and always closed when its peer is gone.

### Accounts, tokens and rights — `auth_manager.cpp`, `rights_manager.cpp`, `database.*`
*State*: tables of users, tokens (7 days), API keys, projects and project
rights, with unique columns and cascading foreign keys; per websocket the user
it was authenticated as. *Operations*: some fifteen, one transaction each,
behind about as many websocket handlers that check rights first.
*Hard*: handlers made of several transactions of which one may fail; a
websocket whose user has been deleted, or whose token has expired; the rights
table has no unique constraint over user and project.
*Correct if*: a user and a project have at most one row of rights; a token or
key belongs to an existing user; a handler that failed half way has left a
state that a retry repairs; connections act for whom they logged in, and only
with the rights that user has now.

### File system cache — `fs_cache.*`
*State*: a tree of nodes down to a fixed level (from there on the disk is
read), each with a state (init, sync, modified, deleted) and the time of its
last update; directories are trusted for 5 s. *Operations*: find, iterate,
remove, move, create, invalidate, update.
*Hard*: entries deleted, moved or recreated within the 5 s; `remove` marks a
node that `fs_cache::find` does not check.
*Correct if*: the program's own changes show at once, those of others after
5 s.

### Projects, jobs and builds — `cis/cis_manager.cpp`, `cis/cis_structs.cpp`, websocket handlers of file entries
*State*: directories on disk (through the cache) and a database row for each
project. *Operations*: look up, list, create and remove projects, jobs, builds
and other entries, move entries, run a job.
*Hard*: directory and row are changed one after the other; other programs make
and remove entries; what the cache says exists is then opened on the disk.
*Correct if*: what a handler is told of the directories is so, or becomes so,
and no look-up hangs.

### Job runner and webhooks — `cis/cis_job.cpp`, `child_process.*`, `bound_task_chain.h`, `websocket/handlers/run_job.cpp`, `http/webhooks_handler.cpp`
*State*: the job with its session id and callbacks, the process, the lines
read from it, the task chain the job runs in; for a webhook, a temporary file.
*Operations*: start, line read, exit, the continuation of the chain.
*Hard*: the exit races the reading of the pipe; job and chain hold each other
until the exit cuts the circle, while the reader goes on with a bare pointer
to the job; a process that cannot be started calls nobody back.
*Correct if*: an announced session is finished exactly once, its requester is
told the truth in the right order, the file outlives its reader, and
everything is released.

### Uploads and the multipart parser — `http/multipart_form_handler.cpp`, `beast_ext/*`
*State*: per request the streaming search for a delimiter, the parser of a
part's headers, the bytes not settled yet, the values found, the open file.
*Operations*: header, `put` of the bytes that have come, end of the request.
*Hard*: a delimiter, or what looks like the beginning of one, may be cut over
any number of puts; positions are kept in two buffers; other uploads and
handlers change the same files meanwhile; errors of writing.
*Correct if*: what is found does not depend on how the input is cut, and what
is answered to be written is on the disk.

### Not to be modelled
Routing (regular expressions over addresses, no state), the error handler and
other formatting of responses, what static files and downloads read (I/O),
`cron_utils` and `list_cis_cron` (a pattern, and the output of an external
program), the configuration (read once, before anything runs), logging, base64, hashing and random numbers (wrappers), message types
(field lists). The protocol buffers of the TCP server are in a separate
repository; `Session` has the two handlers that this one registers with it.

### Interactions
HTTP connection → (upgrade) → websocket connection → handlers → accounts,
cache and projects, job runner, log sessions. The job runner tells the session
manager that a job exited; cores feed log sessions; log sessions and job
callbacks push messages into the queues of websockets; a websocket's close
handlers own its subscriptions. Nearly every handler asks accounts for the rights of its user;
projects add the rows that rights refer to; uploads and the core change the
directories behind the cache's back.

## 3. Modules

| module | models | extends |
|---|---|---|
| `CloseHandlers` | the table of close handlers as a function from keys, its numbering modulo the width of the key | |
| `Session` | log sessions, subscribers, feeds, timers, with reference counting | `CloseHandlers` |
| `MCSession` | model values and the symmetry for TLC | `Session` |
| `WsConnection` | one websocket connection | |
| `HttpConnection` | one HTTP connection | |
| `JobRun` | one run of a job, from the request to its release | |
| `LogFeed` | what log sessions promise a client, in the abstract; `Session` instantiates it | |
| `Accounts`, `MCAccounts` | the database, the connections that act for users, the handlers that manage them | |
| `FsCache` | the cache of the directories, as operators | |
| `Projects`, `MCProjects` | the handlers of projects, jobs, builds and entries, and the others who change the directories | `FsCache` |
| `Multipart`, `MCMultipart` | uploads, from their bytes to the files | |
| `SessionProofs`, `WsConnectionProofs`, `HttpConnectionProofs`, `JobRunProofs`, `AccountsProofs`, `ProjectsProofs` | proofs | the module of the name |
| `MultipartLemmas`, `MultipartProofs` | proofs: of one byte of an upload; of uploads | `Multipart`, `MultipartLemmas` |

### `Session`
`state`, `logs`, `reg` and `timer` are the fields of the session object of
each id (`"none"`: there is no object); a log is the number of its entries,
each entry being its index. `sub` has the subscriber objects, what they refer
to and, as history, the entries (`got`) and notices (`told`) their client was
sent. `handlers` is each connection's table of close handlers. `Held` says
when a session is referenced, `InTable` when a subscriber is, and every action
ends in `Settle`, which destroys the session objects nobody holds, as the last
`shared_ptr` would. `Attach` is the subscription from `session::subscribe` to
`set_subscribe_id`, including a session that is over and sends its notice from
inside: its `unsubscribe` then reads a field never set, so the key it removes
is any key (`garbage`). The subscription to an unknown session is split by
whether the log file exists: `SubscribeOffline`, `SubscribeNew`. `Connect` is
`session_auth`, `Log` is `log_entry`, `Finish` is `finish_session` called by
the job's exit, `TimerExpires` queues the callback and `OnTimer` runs it.
`WriteLogFile` is the core, outside this program, creating the log file.

Left out: the content of entries; `log_entry` before `session_auth`. Nobody is
refused a subscription: `session_subscribe` asks for no rights, not even for a
login.

### `LogFeed`
A topic keeps a log and passes each entry to those it serves. A client joins
with the whole log (`Join`) or is refused (`Refuse`); all who are served get
the next entry (`Entry`) or are told that there will be no more and are served
no longer (`End`); topics without clients may forget (`Leave`, `Keeps`).
`Session!Feed` maps a topic's log to `logs`, its clients to `Listeners`, and
what a client was sent to `got` and `told`.

### `WsConnection`
`reads`, `writes` and `pings` count the outstanding operations, `queue` is the
length of `messages_`. The timer is two variables: `timer`, its expiry in the
past or not, and `wait`, the asynchronous wait on it, as `expires_after`
cancels a wait without starting one and its handler looks at the expiry again.
A handler that pushes n replies is `OnRead(n)`. `OnReadError` runs the handler
and reads again, as the code does. After the timer closed the stream, what is
outstanding completes as aborted.

The stream of Beast takes one operation of a kind at a time, but `on_write`
reads when the queue was full, though the queue may have been filled during a
read, and `on_timer` pings without asking for the last ping. `Overlaps` is what
the stream does with the second one: an assertion ends the program (`aborted`),
or, in a build without assertions, it is put aside (`paused`). A ping is taken
up again after other writes (`OnResumed`), a read only after a close frame of
this side, which this program does not send: the handler put aside then holds
the connection object for ever.

`idle` is a history variable: the whole periods since the peer was heard of.

### `HttpConnection`
The handlers chain is abstracted to what it does to the connection: it answers
at once and has the body thrown away (`Answer`), keeps the body and answers
after it (`KeepBody`, `OnReadBody`; a webhook with a wrong signature is
answered twice), accepts or refuses an upgrade. The router always ends in one
of these, so "no handler took it" cannot be reached. `reads` counts the reads
by the body type they were started with, `parser` is the type of the one
parser object; two reads sharing it are the action `ParserLost` (undefined
behaviour, modelled as the end of the process) besides their regular
completion. `late` holds the operations whose success was already queued when
the socket was closed or moved to a websocket: these complete well.
`NoPeer` is `remote_endpoint()` throwing on a socket the peer has reset.

### `JobRun`
`chain` is the task chain: posted; held by the callbacks of the job that runs
in it; resumed, its last task being posted; done, and with it the job. `out` is
what the process wrote, `read` how much of it `line_reader` has handed on,
`seen` how much it had handed on when the end of the process was handled
(a history variable, as are `finished` and `sent`). `Writes` and `Exits` are
the process, outside this program; `OnLine` and `OnExit` are the completions
of its pipe and of its end, which no order binds: `OnLine` may follow `OnExit`
and even `Resume`, when it works on a destroyed job: that is `"undefined"`, or
does not show, and then the job's callback, though freed, may tell the client
that the job has started. `SpawnFails` leaves the chain held for ever, as the code does.
`JobNotFound` covers the same check in the request and in `run_job`.
`kind` tells the two requesters apart: the websocket handler, whose messages
are in `sent`, and a webhook, whose body is in a file.

Left out: the standard error; `exitmessage.txt`, read once at the end; the
parameters; a last line without its newline, which `line_reader` drops; exit
codes other than 0 and 1.

### `Accounts`
`users`, `tokens`, `keys`, `rights` and `projects` are the tables; ids are
given in order and not reused (`autoincrement`), and a row that refers to a
user goes with it (`on delete cascade`). `rights[u][p]` is a sequence, as
nothing in the schema makes it one row. `ctx` is `client_info` of each
websocket, with a history field `user`, the id of the row that logged in (the
program remembers the address only); `request` is what an upload or a webhook captured when its header was
read. The first part has the queries, under the names of the managers'
functions, the second (`InsertUser`, `SetRow` ...) what one transaction
changes, and a handler is an action of its name made of those. A handler that
fails or is refused before its first change is a stutter; one that fails later
keeps what it has changed (`login_pass`, `logout`, and
`set_user_permissions`, which does any subset of its projects). `CreateFile`,
`InsertAdmin`, `Start` and `Stop` are starts, ends and crashes.

Left out: hashing; names of users; transactions that fail for want of disk
space, otherwise than by ending the handler.

### `FsCache` and `Projects`
`disk` is the set of paths that exist, `cache` the node of each path. `FsCache`
has the member functions of `fs_node`, `fs_iterator` and `fs_cache` as
operators that take a cache and a disk and give the answer with the cache
afterwards. `Listed` is what an iterator steps through, `Has` what it finds. A directory that is gone is told from one that was removed through
the cache, since only the latter still says that it is a directory. `Ages`
lets five seconds pass for one node at a time, which allows more than one
clock does.

`Projects` has one action per handler; what it looks up before it changes
something, it looks up through the cache, in the order of the code. Rights are
left open, except that a project without a row gives none. `RemoveFound` lets
`remove_all` leave some entries, whose error the code ignores.
`create_project` and `remove_project` change directory and row, of which the
row may fail. `load_job_conf` reading a file that is not there is `hung`. `BuildBegins`, `BuildDropped` and `Uploaded` are changes the cache
is not told of; `Away` are places that entries are moved to and not followed.

Left out: the content of files; symbolic links; the executable flag; the end of
the program by `add_cis_job` without a login (below), which to this module is a
`Restart`.

### `Multipart`
A byte is a token: the few that the parsers tell apart, or any other. The texts
of the headers that cannot contain the beginning of a delimiter are one token;
`Bytes` are all tokens a client may send. `Upto` is what it has sent up to the
delimiter behind a part. `MultipartAssumption` is what a well-formed form is: a
boundary that no part contains, and no quote within a quoted name.
`Search` is `partial_search` with the table of `build_table`; `HandleChar` and
`HandleMessageChar` are the two parsers; `PartEvent`, `WritePart` and `Advance`
are the lambdas of `reader::put`, working on a record of its local variables
(`opened`, which files it has made or emptied, is no variable of the code, and
serves to tell which other uploads it crosses);
`Put` is one call with the next n bytes, `works` what the disk does in it:
whether it takes what is written, lets a file be closed (`EndBody`), and which
files it opens. A file is not opened, in the code as here, for whatever reason:
it is a directory, it may not be written, there is no room; `put` then ends
with an error, and the request is dropped. Where an error comes in a put in
which the disk opens and closes everything, the status is `dropped`, otherwise
`disk_failed`; as every put may be made with a disk that does, an error with
any other cause is met as `dropped` too. `Pending` keeps the bytes that are not settled, as the code
does. `stale` and `torn` note that it kept the wrong ones, and whether those
were then used; `short` that a write failed; `crossed` that a replace or a
removal met the file. `Dies` are an assertion and a dereference of the end.

Left out: more than one file with one name in a request; a file with an empty
name, for which open names the directory itself, and fails (or nothing is
written, as for any file that is not opened); boundaries other than one; headers
of parts in another order, which the parser refuses; the limit of the size of a
body (1 MB, Beast's default, which nothing here changes), beyond which reading
ends with an error, as with `BreaksOff`.

## 4. Runs

Every run that passes fires all actions of its module.

| run | asks | bounds |
|---|---|---|
| `session_safety` | do the tables of close handlers stay right, is `LogFeed` implemented | 1 session id, 1 connection, 1 feed, 4 subscriptions, logs of 1 entry, keys modulo 4; 132 k states |
| `session_live` | does every subscriber get all of the log and hear how it ended, are pending sessions given up, unused ones released | 1 id, 2 connections, 1 feed, 2 subscriptions, keys modulo 3; 106 k states |
| `ws_connection` | no wakeup lost, no message stuck, no live peer dropped, no dead one kept | limit 3, queue up to 6, up to 2 replies |
| `http_connection` | the same of HTTP | limit 2, queue up to 5, 2 reads of a kind; 124 k states |
| `job_run` | is a run answered, its session finished, its file removed, in every order of lines and end | 4 lines |
| `accounts` | do rights stay one row, does anything outlive its user, who may change accounts | 2 addresses, 1 password, 1 project, 2 levels, 2 websockets, 3 users, 2 tokens and 1 key ever; 318 k states |
| `projects` | do look-ups agree with the disk, when does one hang | 1 project with 1 job, its `job.conf` and 1 build, a place to move to, level 4; 53 k states |
| `multipart` | is an upload that is answered on the disk, and is every one answered, however it is cut | 2 requests, one of a field and a file or a file only, puts of 1 or 5 bytes, the other of a file of the same name, puts of 7; in any put a write, an open or a close may fail; 383 k states |
| `session_offline`, `ws_ping`, `http_parser`, `http_timer` | a claim of the source that does not hold | as above |

*Why the bounds are enough.* Sessions of different ids share nothing but the
close handlers of a connection; the subscriptions of one connection to one id
already use those in every state, and with four of them the fourth finds the
key counted down to one in use, which needs three keys and 0 (hence keys
modulo 4); two connections meet in one session in `session_live`, and together
with any number of subscriptions in the proofs. One log entry before and one subscription after it tells a gap from
a repetition; `NoLogIsMissed` is proved for any number. A queue limit of 2 or
3 with room for as many again has queues that are empty, below, at and above
the limit, and the handler of one message crossing it. Two reads of a kind
suffice for a second read to find the first one outstanding. Four lines are
the two the job looks at, one of its own, and the exit code; a process that
writes fewer, or no exit code, is among those the run explores.
Three users let an address be deleted and used again while a websocket and a
token of the first are left; two tokens let a websocket log out with one that
is not its own. One password shows who is asked for it; that only its owner or
an admin changes one is proved with `OnlyByRight`. One path of each kind is enough for the cache, whose nodes
influence each other only along a path, and moving away and back gives every
content a second place; the last level of caching is that of the build. In
`multipart` the contents have every beginning of a delimiter that starts again
(`CR CR LF`, `CR LF -` and another byte, a `CR` before the delimiter), and
puts of one and five bytes cut it at every place, in two, three or more; the
second request is cut a few times only, as it is there to meet the first.
`MaxUsers`, `MaxTokens` and `MaxKeys` bound what is ever added.
`MaxQueue`, `MaxReads`, `MaxLogs` and `MaxLines` bound counters that the code
leaves unbounded; steps beyond them are cut off.

### Properties
`Session`
- `WholeLog`: across backlog and live entries no gap, repetition or
  reordering, and whoever the session still reaches has its whole log.
- `OverIsTold`: no subscriber of a session that is over is left untold.
- `NotEstablishedSawNothing`: "not established" is the only thing its client
  was ever sent, whatever the order of feed, expiry and callback.
- `DeafOnlyIfShadowed`: a subscriber that waits for news is reached by its
  session, unless the same connection subscribed before (`emplace` keeps the
  first entry; the second subscription gets the backlog and nothing more).
- `AtMostThree`: the close handlers of a connection never exceed three, since
  keys are counted down from the largest; a further subscription is dropped.
- `SilencedForACause`: a subscriber is dropped without a word only because of
  its connection or its client, or by the unset key described above.
- `ImplementsLogFeed`: every step is one of `LogFeed` or changes nothing in
  it. Beyond the above it says that a notice reaches all who are served at that
  moment, is the first each of them gets and ends their service, and that a
  log only starts again when it serves nobody. A client that joined a session
  when it was over has its notice with the backlog, and is still served: if a
  core then connects to the session once more, its entries are sent after it.
- `PendingResolved`, `SessionReleased`: liveness, see section 5.

`WsConnection` and `HttpConnection`
- `ReaderNeverLost`: a connection that reads nothing has a full queue and a
  write under way that will read again.
- `OneWrite`: one write at a time, and one whenever something waits.
- `ClosedOnlyWhenIdle`, `ClosedOnlyWhenLate`: the timer closes a connection
  only after two whole silent periods (websocket), or one since the last
  header's read was started (HTTP).
- `SilentPeerReleased`: if the peer falls silent for good the connection is
  destroyed. For a websocket not if two reads or two pings overlapped and the
  stream still keeps one of them. `MuteReleased`: so is an HTTP connection that
  can send no more, even if its peer goes on sending requests. For HTTP both
  assume that no upgrade was refused; `http_timer` shows why.

`JobRun`
- `AnswersInOrder`: a client is told of the start and of the end at most once
  each, and in this order unless the end was handled before the first line.
- `CodeIsReal`: "success" is only said of a process that wrote `Exit code: 0`;
  -1 only if no exit code had been read when its end was handled.
- `AnnouncedIsFinished`: a session is finished at most once, and exactly once
  unless the end of the process overtook the very line with its id.
- `FileOutlivesProcess`: the file is there while its reader runs.
- `UndefinedOnlyIfOvertaken`: only the overtaking of the first two lines leads
  to the use of a destroyed job.
- `Answered`: after the end of the process everything is released and the file
  removed, and a websocket that stayed was told how the run ended, unless
  waiting for the process failed: of that it is told nothing. `Drained`: every
  line is read.

`Accounts`
- `ShownIsEnforced`: the rights shown, by user or by project, are those that
  handlers enforce, although the queries treat several rows differently; the
  key in the list of users is the one its user is shown.
- `NoOrphans`: no token, key or right without its user, so that a new account
  with the address of a deleted one inherits nothing.
- `ContextsAreTrue`: a token or key that a connection remembers is, if it still
  exists, of the user the connection acts for.
- `OnlyByRight`: accounts, keys and rights change only through a websocket that
  acts (`ActsFor`) for an account which may do so now, whatever it was at the
  login. A websocket that outlived its account acts for nobody, unless another
  account was added with the same address: then for that one.

`Projects`
- `AgedIsExact`: once everything on the way to a path is five seconds old, it
  is found exactly if it exists.
- `OwnChangesSeen`: what a handler makes or moves is listed so by the next
  look, except along with another entry (below). What it removes is no longer
  listed, except as the second node of a directory whose first one was removed
  too (`Overlooked`).
- `HangsOnlyAfterMove`: only the move of a directory leads to the hang below.

`Multipart`
- `AnsweredIsStored`: when a request is answered, all its parts were taken as
  they were sent, and every file said to be written is on the disk as sent.
- `WellFormedIsAnswered`: a well-formed request is answered, unless the disk
  could not open or close a file of it.
  Both except for what `torn`, `short` and `crossed` note (below).

## 5. Fairness

`WF(TimerExpires)`, `WF(Timeout)`: clocks run. `WF(OnTimer)`, `WF(OnAborted)`,
`WF(OnLine)`, `WF(OnExit)`, `WF(Resume)`: the `io_context` runs every handler
that is ready (a pipe with a line in it and a process that has ended are), and
closing a socket makes
its outstanding operations ready. Nothing is assumed of peers, cores, jobs, or
the network: reads, writes and pings on an open socket may stand still.

## 6. What does not hold

- `session_offline`. A comment in `offline_session::establish` says that it is
  reached only when a new session has the id of an old one. The core creates
  the log file before its feed authenticates, and a browser subscribing in
  between opens the file as an offline session, which `connect` then finds.
- `ws_ping`. `on_ping` asserts that a ping completes with ping state 1 or 0.
  When a second ping is started during the first, it completes with 2. (Where
  assertions are built in, one of the stream ends the program before that.)
- `http_parser`. A response that fills the queue is sent before the rest of
  its request is read; its write then starts reading a header, replacing the
  parser in use. Once the two reads overlap, a completion finds a parser of
  another type and the "Bad parser cast" ends the program.
- `http_timer`. "The timer is operated continuously": an upgrade that is
  refused ends the timer although the connection goes on.

Nothing in the repository claims the opposite of the following, which the
models show as well; the properties name them as exceptions.

Log sessions
- A connection keeps at most three subscriptions, and one to a session that is
  over may silence another (`AtMostThree`, `SilencedForACause`).

Websocket connections
- A queue filled during a read makes `on_write` start a second read during the
  first, and a slow ping may be met by a second one: the stream asserts that
  this does not happen, or may keep the handler, and the connection with it
  (`Overlaps`, `SilentPeerReleased`).

Accounts
- A websocket opened with a token in its cookie does not remember the token, and
  stays logged in after a logout with that token (`OpenWebsocket`, `logout`).
- A websocket whose account was deleted goes on as the account that was added
  with the same address since (`ActsFor`, `OnlyByRight`).
- If the program ends between making the database file and the administrator's
  account, no start makes that account (`CreateFile`).

Job runs
- A job that cannot be started, and one whose process could not be waited for,
  is never answered (`SpawnFails`, `OnExit`, `Answered`).
- If the end of the process is handled before the line with the session id, the
  client may be told of the start after the end, by a callback that is freed
  (`OnLine`, `AnswersInOrder`).

Directories
- `load_job_conf` never ends if `job.conf` cannot be opened. That needs a
  directory that was moved, or one above it, and a look-up within five seconds:
  only the parents are told, what the cache knows below the old place stays
  (`HangsOnlyAfterMove`).
- `fs_iterator::begin` steps over one deleted first entry, with `++` on the node
  and not on the iterator: when the first two entries of a directory were
  removed, `list_directory` still shows the second until the directory is read
  again, although find does not find it (`Overlooked`, `Listed`, `Has`).
- `fs_cache::begin` does not step over a deleted first entry at all:
  `list_projects` may still show a project removed as a file entry (`RootListed`).
- Making a directory with those above it tells only its direct parent
  (`AlongWith`). A directory that is gone keeps the nodes below it (`Update`).
- `fs_cache::find` does not ask whether a node is deleted: for five seconds what
  was removed is found, and adding it again is refused as already there (`Seek`).
- A callback of a running job invalidates the job's node, and thereby marks a
  removed one as modified, that is, as existing (`Started`).
- The row of a project may be missing after an error, and then no handler of the
  project may manage it before the next start; removing or moving the directory
  of a project as a file entry leaves its row (`create_project`,
  `remove_fs_entry`).
- `add_cis_job` answers a websocket that is not logged in with an error and goes
  on, as a `return` is missing (add_cis_job.cpp:36-42): `value()` of its missing
  login throws, and the program ends.
- `refresh_fs_entry` reads nothing that is fresh; a failing `add_cis_job` leaves
  what it has made; the cron entries of a job that was removed can not be
  removed, since the job is looked up first.

Uploads
- A put that comes to its end within the name of a part reads behind the last
  buffer (`Dies`); the assertion on the directory is made when the body comes,
  not when the rights were checked.
- If a put belongs whole to a delimiter that began before it, the bytes kept
  are the first ones of that put again (`Pending`): content is changed, or a
  well-formed request is dropped (`torn`).
- Errors of writing are lost, the last of a part as that of the close behind it
  takes its place, the last of a put with the put: the answer is still good
  (`short`). A directory that is missing when
  the header comes leads to a good answer with nothing written.
- Two replaces of a file at one time mix their contents (`crossed`); one that is
  broken off leaves what it has written, and so does one that is dropped because
  a later file of it could not be opened.

## 7. Proofs

The theorems hold for all sets of ids, connections, feeds and subscribers, all
limits and all bounds, under the named assumptions of the modules (the limits
are natural numbers, the limit of a queue and the number of keys are not zero,
`NoOne` is no id, connection, subscriber, address, password or project; for the
cache, `FsCacheAssumption`: the paths are a finite tree of directories with a
level from 2 on, and `job.conf` is not the name of a build; for uploads,
`MultipartAssumption`, above).

- `SessionProofs!TypeCorrect`, `ThreeHandlersAtMost`. The type invariant is
  inductive together with `Tables`: every table satisfies `KeysInv`, its keys
  being among 0, the largest and the one below. It is needed because the bound
  of three does not by itself survive `add_close_handler`, and because the
  types of new keys rest on it. `AddHandlerKeys` and `SmallerTableKeys` prove it
  of the two operations for every width of the key.
- `SessionProofs!NoLogIsMissed`. `WholeLog` is inductive with `RegInv` (an
  entry of `reg` names a subscriber of that connection and session),
  `NoneIsEmpty` (an id without an object has no log and no subscribers, so that
  a later object starts afresh) and `FeedInv` (a feed's session exists). The
  lemma `QuietStep` covers the actions that add no entry: listeners only
  disappear, and logs stay as they are or are destroyed.
- The second part of `SessionProofs` proves the rest of the safety of `Session`
  from `FeedInd`. Its part `HoldInv` says that a handler is under the key its
  subscriber has and holds its session (so that `unsubscribe` cannot take away
  somebody else's), and that a session nobody holds does not exist (what
  `Settle` is for);
  `ToldInv` says that nobody has two notices, that a session has at most its
  log sent to it, and which states its listeners can have been told of.
  `OverHasBeenTold`, `NotEstablishedIsAll` follow from it; `OnlyTheShadowedAreDeaf`
  needs besides that a live subscriber was entered or found an entry
  (`Entered`). `SessionImplementsFeed`: `Attach` is `Join` or `Refuse`, `Log` is
  `Entry`, `Finish` and `OnTimer` are `End` when somebody listens, the timer and
  the log file stutter, and every other action only lets clients go (`Leave`).
- `WsConnectionProofs`: `TypeCorrect`, `NoLostReader`, `WritesAreSerial` from
  `FlowInv`, which adds that nothing is queued before the handshake; and
  `IdleBeforeClose` from `IdleInv`, which ties the ping state and the expiry to
  the number of silent periods.
- `HttpConnectionProofs`: `TypeCorrect`, `NoLostReader`, `WritesAreSerial` from
  `FlowInv`, which adds `FrontWrite`: at most one write at all times, with its
  response in the queue, on failed and closed sockets too; `LateBeforeClose`
  from `LateInv`.

- `JobRunProofs`: `TypeCorrect`; `FileStays` and `OnlyOvertaking` from
  `StageInv`, which relates the stage of the chain to the process and to the
  handling of its end; `Finishes` from `FinishInv` (finished once if a line
  had been read when the end was handled); `Answers` from `SentInv` (what was
  sent, and after which line: before the last task nothing but the start);
  `Honest` from `CodeInv` (an exit code is the last line written, and the code
  on its way to the client is a real one).

- `AccountsProofs` proves all properties of `accounts` from `AccountsInv`:
  `NoOrphans`, with `Numbered` (rows are numbered upwards, so that a number
  names one user for ever, and a key has one), `OneRow` (one row of rights per
  user and project, although the schema allows more: every insertion follows a
  query in the same transaction), `Remembered` (connections remember issued
  numbers only) and `ContextsAreTrue`, which without `Numbered` and `Remembered`
  is not inductive. `Transacts` is what every transaction does to the tables;
  `ShownIsEnforced` is then a matter of one row. `OnlyByRight` rests on `Owned`:
  an address is of one account, that of a login is that of its websocket, and
  another account that has the address since has a higher number; so what the
  handlers find by the address is among what `ActsFor` allows (`FoundIsOwn`).

- `ProjectsProofs` proves all properties of `projects`, for every tree, depth and
  caching level. Its invariant is `ProjectsInv`, around `Good(c, d, G, H, K)` of a
  cache and a disk: the cache is a tree; an entry of `G` that it shows while the
  directory above is not read again, or is gone, exists (`NoGhost`); one of `H`
  that exists is shown while that directory is not read again (`NoGap`); one of `K`
  that the cache then knows at all, deleted or not, exists (`NoTrace`). Every look-up keeps it
  (`UpdateGood`, `FindGood`, `GetJobLooks`, `LookAtJobsLooks`), by induction
  along the path or over the jobs. `HangOnlyMoved` is `NoGhost` of the job.confs
  (`Held`), which only a move can break. `AgedExact` goes along the aged way
  (`AgedFound`) and needs of the cache only that it is a tree. `ChangesSeen`
  looks at each change in turn (`RemoveFoundIs`, `CreatedIs`, `RenamedIsDisk`,
  and `GhostProjectMade` for a project that was only in the cache); the entry
  changed is neither a ghost nor a gap then, and a listing shows it right unless
  it is overlooked (`ListingGood`, `ListedRight`). Induction
  goes over sets of numbers, each having a least element (lemma `Induction`, from
  the library's `NatLessThanWellFounded`), and the value of a recursive function
  is had from the walk it describes (`FindWalks`, `LookAtJobsWalks`).

- `MultipartProofs` proves both properties of `multipart`, for all well-formed
  forms and file names, any number of uploads and any pieces. Its invariant
  `UploadsInv` says that every upload is `Upright` and every two are `Apart`.
  An upload that is being read is `Safe`: had a put of no bytes just begun, it
  would stand where the bytes sent up to then say (`Stands`) - before the first
  delimiter, within a part or at the beginning of a delimiter behind it, between
  two parts, behind the last. Within a part (`MidOf`) the header parser is at
  the byte that comes (`Reads`), the earlier parts are kept (`Earlier`) and what
  has been taken of this one, in its value or in its file, is what was sent of it
  up to the last byte written (`Current`). One that is torn or crossed need only
  be where the parser of the stream says; while a put lasts, one that is neither,
  and that the disk serves, has no error (`Sound`). `Apart` says that a file which one
  upload has open and another has written belongs to one that is crossed.
  The argument goes by the byte, then by the put, then by the actions.
  `MultipartLemmas` shows where everything is in the bytes of a form
  (`Layout`), what the search finds (`SearchEncapsulation`: a whole match, one
  byte more, a match that starts again with that byte, or nothing), and that
  a settled byte of a part goes through the header parser (`HeaderStep`) and the
  event it raises (`CurrentStep`) as `Current` says. `MultipartProofs` puts
  these together for each state of the stream's parser (`PreambleByte`,
  `PartByte`, `BehindByte`, `EpilogueByte`), for all bytes of a put (`AllCome`),
  for what is kept until the next one (`KeptSafe`: it is there that a delimiter
  in three puts or more tears), and for what a put does to the other
  uploads (`PutOnward`). Without `Apart`, `Upright` would not be inductive: a
  put would append to a file emptied by another upload that nobody had marked.
  The prefix table, the search and the loops over bytes are recursive functions;
  what they compute is had as in `ProjectsProofs`, from the walk they describe.

*Only model-checked*: the liveness properties (`PendingResolved`,
`SessionReleased`, `SilentPeerReleased`, `MuteReleased`, `Answered`, `Drained`:
ENABLED and fairness are out of the prover's reach). Every safety property of
the passing runs is a theorem.

## 8. Plan

What is left, in this order:

1. `JobRun` composed with `Session`: `OnExit` calling `Finish`, the process
   being the core that writes the log. Its question: is every subscriber of a
   job's log told that it is over, and what remains when the end overtakes the
   session id. The two are now joined only by `AnnouncedIsFinished` (a run
   finishes its session once) and by `Finish` (once for an id).
