# Verification of httpaa

TLA+ models of the server in this repository (a threaded HTTP/1.1 server written
as header-only C libraries), TLC configurations that check them on small
instances, and TLAPS proofs that hold for every size.

## 1. The system

| Component | State it keeps | Operations that change it |
|---|---|---|
| Server (`socket/socketaa_server.h`) | listening socket, the `socketaa_work` it fills for every accept | accept loop, post to the pool; returns on an accept or select error |
| Workers Pool (`worker/workeraa_utils.h`, `workeraa_index_utils.h`) | `workeraa_sync`: mutex, condition, works array, count, read and write index; the threads | `workeraa_pool_init`, `workeraa_set_work`, `workeraa_get_work`, `workeraa_main` |
| Socket worker (`socket/socketaa_worker.h`) | `work->flags` (is_select, is_recv, is_send, is_recv_shutdown), the fd sets, the 3 s timeout shared by all its select calls | the select loop; recv, send, shutdown, close |
| Worker for HTTP (`worker/workeraa_http.h`) | one `workeraa_http` per thread: request and response buffer, header flags, parsed request | `init`, `recv`, `send`, `get_buffer` callbacks |
| HTTP parser (`http/httpaa.h`, `httpaa_utils.h`) | the `httpaa` struct, a read position in the request | request line, header table, recursive descent |
| URI parser and resolver (`url/`) | the `uriaa` struct, a read position | recursive descent, dot segments, percent escapes |
| String library (`string/stringaa.h`) | buffer, size, read and write position, flags per string | malloc, realloc, copy, add, link, cursor moves |
| Socket client, string mathematics, network worker | - | see section 7 |

How they interact. The server thread and the worker threads share the `workeraa_sync`
struct under one mutex, and the `socketaa_work` structs that the works array points
to: a struct is allocated by the first post to its slot and overwritten by the later
ones, while workers use it *without* the mutex. Everything else is called
synchronously in a worker thread: `workeraa_main` gets a work, calls the INIT
callback and `socketaa_worker`, which calls the RECV_DATA and SEND_DATA callbacks,
which call the HTTP parser, which calls the URI parser; all of them work on strings.

What is hard about it: the interleaving of posts, takes and condition-variable
wakeups; index arithmetic at the end of the array, where an index equal to the size
means "full"; a struct reused while somebody may still look at it; a client that
sends in pieces, stops, shuts down or resets at any moment; failures of malloc,
select, pthread_create and accept in the middle; the `workeraa_http` struct that
carries state from one connection to the next. `PROJECT.json` lists these hazards
with the lines where they bite.

What makes each component correct:

- pool: a posted connection is executed once, by one worker, in order; no worker
  sleeps while work waits; stores stay inside the array; counted works are taken
  after the array was full, too;
- socket worker: returns for every client, closes each connection exactly once,
  never waits for nothing unless the client is gone;
- HTTP worker: answers a complete GET with its own whole response, and nothing else;
- parsers: accept what the grammar says, leave the read position where the rule ended;
- strings: text and write position stay inside the buffer, appending keeps what was there.

## 2. Modules

| Module | What it is |
|---|---|
| `RingIndex` | the four index functions of `workeraa_index_utils.h` as operators of (read, write, count, size) |
| `WorkQueue` | abstract specification: a FIFO queue of connections, each served by one worker and executed once |
| `WorkerPool` | server and workers around the shared works array |
| `Descriptors` | `WorkerPool` composed with the table of descriptors that accept() and close() share between all threads |
| `HttpWorker` | the HTTP callbacks as operators on the `workeraa_http` struct |
| `SocketWorker` | one worker thread's select loop against an arbitrary client, connection after connection; uses `HttpWorker` |
| `StringPos` | the moves of a string's read and write position |
| `StringBuffer` | strings that own or link buffers, and the heap under them |
| `StringFind` | the loop of `stringaa_find` |
| `UriGrammar` | the recursive descent of `uriaa_rfc2396.h` as operators on position and components |
| `UriParser` | one call of `uriaa_check_url`, with the grammar of RFC 2396 as reference |
| `UriResolve` | `uriaa_resolve_uri`: base and reference parsed by `UriGrammar`, merged, dot segments removed, composed |
| `UriEscape` | `uriaa_escape` and `uriaa_unescape` |
| `HttpRequest` | the request parser on a text that arrives in pieces; the target goes to `UriGrammar` |
| `MC...` | modules of the TLC runs |
| `Pool_proofs` | theorems about `WorkerPool` and `Descriptors` |
| `String_proofs` | theorems about `StringBuffer` and `StringFind` |
| `SocketWorker_proofs`, `UriParser_proofs`, `UriResolve_proofs`, `UriEscape_proofs`, `HttpRequest_proofs` | theorems about the module of that name |
| `UriGrammar_proofs` | what every parsing function of `UriGrammar` promises; `UriResolve` and `HttpRequest` instantiate the grammar through it, so that their proofs can cite these lemmas |

`WorkerPool` and `SocketWorker` split at one point: `WorkerPool!Begin` to
`WorkerPool!Finish` of a worker is one passage of `SocketWorker` from `Start` back to
`pc = "idle"`. `SocketWorker!WorkerReturns` is what justifies the fairness that
`WorkerPool` puts on `Finish`; `WorkerPool!OwnsStruct` is what justifies that
`SocketWorker` treats the work struct as the worker's own, which holds on the first
lap around the array; `Descriptors!OwnDescriptor` is what justifies that it treats the
socket as its own. `HttpWorker` asks of the parser only which requests it parses;
`HttpRequest` is the parser itself.

### WorkerPool

`workeraa_set_work` and `workeraa_get_work` hold the mutex from their first to their
last access to the sync struct, so each is atomic (`SetWork`, `GetWork`), except
where `pthread_cond_wait` gives the mutex up (`GetWorkWait`). A signal moves one
waiting worker to the point where it competes for the mutex again; a worker may also
wake by itself (`SpuriousWakeup`). `Begin` is the unprotected read of `work->conn`
through the pointer that `GetWork` handed out, `Finish` the return of
`socketaa_worker`. Failures: `SyncInit` (malloc or pthread initialisation failed: the
accept loop runs with a NULL sync, `SetWorkNoSync`), `SpawnEnd` at any moment
(pthread_create failed: the remaining workers are given up, possibly all),
`SetWorkRejected` (no room, or malloc failed), `SetWorkBeyond` (a store past the
array may crash, or act on the one more slot `work[WorkSize]`), `ServerReturns`
(accept or select failed, the process ends), `Killed` (SIGPIPE from a worker's send).
`Init` is the zeroed sync struct.
`queued`, `taken` and `done` are histories and guard nothing.

### SocketWorker and HttpWorker

`LoopTop` is the part of the while loop up to the select call; each outcome of the select,
with the recv or send that follows and its callbacks, is an action. Of a request only its
length and its kind ("get", "other", "bad") are kept: `HeaderLen` bytes make its header
complete. recv and send move any number of bytes that is possible; a send to a client that
shut down and then reset may instead end the process, since SIGPIPE is not handled
(`SendKilled`). The `workeraa_http` struct keeps the lengths and positions of both buffers,
the two header flags and the method; `HttpInit` returns the possible outcomes of its
allocation. `closes`, `orderly`, `failed` and `sent` are histories.

### Descriptors

`WorkerPool` names a connection by the number of its accept(); the code names it by a
descriptor, which is free again after a close. `fd` and `file` are the two directions
of that relation. `AcceptFd` is any accepting step of the server with the lowest free
number; a worker ends a connection by `Close`, by `CloseFailed` and `LateShutdown`
(send() failed: `socketaa_worker_check_send` closes, and shuts the same number down
afterwards), or without a close (`GiveUp`: select or malloc failed). `closed`,
`failed` and `cut` are histories.

### StringPos, StringBuffer and StringFind

A struct is the record `Struct`; `buf` is a block of the heap and `off` the distance of
the pointer from the start of the block, so that a link (`stringaa_set_substring`,
`stringaa_set_chars`) is a struct with `alloc = 0`. `buf_original`, `prev_link` and
`next_link` are set by nothing and left out. malloc returns any free block, or NULL
when there is none: leaks (`stringaa_realloc` and `stringaa_init` do not free) use the
heap up. When an ignored NULL lets characters go past a buffer the behaviour is
undefined and the model stops; so it does for a store to NULL or to a literal, which
ends the process. The history `overrun` tells why: "exhausted" when a malloc had
failed, "yes" when none had, which `InBounds` forbids. Bytes are kept, since
`AddAppends` is about them; what is uninitialised or freed reads as `Junk`.

`StringFind` has a step for each round of the loop: `Match`, `Mismatch` with its return
to the character after the start of the partial match, and `Empty`.

### UriGrammar, UriParser, UriResolve, UriEscape

Every parsing function is an operator from a position and the components set so far to
a success flag, a position and components; a failing function gives back the position
only where the code does, and components an abandoned alternative has set stay set.
A letter stands for its upper and lower case. `UriParser` compares one call with
`References`, a definition of RFC 2396 as sets of end positions that shares nothing
with the descent but the character classes. `EscapesClean` names the texts it fits: in
them an escape ends the text or has an unreserved character behind it.

`UriResolve` parses base and reference by the same grammar and has a step for each pass of
the two dot-segment loops (`uriaa_rfc2396_resolve.h:171-248`). The operators of a pass have
the names of `uriaa_remove_segment_point` and `uriaa_remove_segment_points`, which hold a
copy of each loop and are not modelled (section 7). malloc may fail where the code handles
it. `UriEscape` has a step for each character or escape read; bytes are numbers, and the
write position stops at the end of the buffer as `stringaa_next_write_pos` does.

### HttpRequest

`Receive` is another piece of the request, of any length; it starts an attempt. `Check` is
the test for two line ends, `RequestLine` and `RequestUri` the request line, `KnownHeader`,
`UnknownHeader` and `EmptyLine` a round of the header loop. The struct `http` is kept from
attempt to attempt, as in the code. The tables of header names are constants; the run takes
a name of each table, one of which is the beginning of an unknown one; `HeaderLine` asks
them in the order of `http11_request`. `NamesAssumption` is what `httpaa_arrays.h:73-205`
has: no name is there twice, and none holds a ":", a line end or a terminator.
`RightRequest` compares the struct with what `LineStarts`, `Spaces` and `Value` read off the
whole text without a parser.

## 3. Runs

| Run | Instance | Shows |
|---|---|---|
| `pool_first_lap` | 3 workers, 3 slots, 3 connections, 2 descriptors, fair | on the first lap the pool implements `WorkQueue` (`RefinesQueue`); `FifoOrder`, `OwnsStruct`, their strengthening `LapInv`; `OwnDescriptor`: no thread acts on another's descriptor; `WorkIsExecuted` |
| `pool_wrap` | 2 workers, 3 slots, 7 connections, fair | over several laps `CountedIsReadable` and `NoLostWakeup` still hold, with the inductive invariant `PoolInv`; `WorkDrains`: counted works are taken after wrapping too |
| `pool_skipped_slot` | 1 worker, 2 slots, 3 connections, fair | violation of `WorkIsExecuted` beyond the first lap |
| `socket` | 3 connections, header 2, buffer 3, response 2, fair | with a reused `workeraa_http`: `ClosedOnce`, `OwnResponse`, `BlindWait`, the invariant `SocketInv`, `FirstAnswered`, and `WorkerReturns` |
| `socket_empty_answer` | 2 connections | violation of `AnsweredInFull` by a worker's second connection |
| `string_owners` | 2 strings, 2 blocks of together at most 5 bytes, buffers up to 3 | `InBounds`, `OwnersApart`, `AddAppends` under every sequence of operations |
| `string_find` | texts up to 6, searched for texts up to 4, two characters | `FindsFirst`, `Terminates`, positions in both texts (`FindTypeOK`) |
| `uri_parse` | every text of up to 5 characters out of 10; hosts behind `//` and `//1.1.`; escapes behind three beginnings | `AcceptsReferences`, `AcceptsLongest`, `ComponentsTile`, `AuthorityTiles`, `HostsAreHosts` |
| `uri_resolve` | 5 bases, every path of up to 6 characters of `.`, `/`, `c`, other kinds of references | `PathIsReference`; `LoopsLeaveNoDots`, clean paths or not; `ResolveEnds`, indexes in the buffer (`TypeOK`) |
| `uri_escape_text` | texts up to 6 over 5 bytes, every single byte, escapes of every digit | `EscapeDecodes`, `UnescapesUnreserved`, positions in the buffer (`TypeOK`) |
| `http_request` | 3 methods, 5 targets, 2 versions, up to 2 header lines, a body, cut anywhere | `RightRequest`, `ParsesProper`, `ParserStops` |
| `http_put` | PUT requests | violation of `ParsesEveryMethod` |

Bounds. Three slots tell the first, an inner and the last slot apart; seven posts go around
the array more than twice, so that every combination of the two index branches, the skipped
slot 0 and the index n occur. Three workers let one sleep, one be on its way and one be
busy; with one descriptor less than connections a number is used twice. A request buffer of
3 with a header of 2 lets a header complete with room left, complete exactly, and overflow
by a body (a client sends up to 4 bytes); a response of 2 lets send be partial; three
connections let what the first leaves behind reach the second and what a failed second
leaves reach the third. With two strings, two blocks and buffers up to 3 a string can link,
grow twice and leak, and the heap runs out; the constraint `HeapBound` (5 bytes in both
blocks) keeps the run short and leaves room for a text of one character to move from a
buffer of two bytes to one of three while the old block is still held, the largest growth
there is. `MaxRead` = 1 bounds the position that `stringaa_is_chari` moves without a test:
inside the text and behind it are the two cases. What these bounds leave out is covered by
the theorems of `String_proofs`, which have none. The URI alphabets hold every character the
grammar tells apart; five characters reach every alternative (`a:/b`, `//a:1`, `a?#`),
longer ones are reached by prefixes. `CHECK_DEADLOCK FALSE` everywhere: a behaviour ends
when its bound on connections is used up, when the process has ended, or when the call has
returned.

Fairness. `WorkerPool!LiveSpec` is fair to each worker's `GetWork`, `Begin` and
`Finish`: a runnable thread is scheduled, and `Finish` because `socketaa_worker`
returns (`WorkerReturns`). `Descriptors!FdLiveSpec` is the same with the steps into
which `Finish` is divided. `SocketWorker!LiveSpec` is fair to `LoopTop` and to
`SelectReturns` as a whole: select returns at the latest after its timeout, with
whatever outcome. The loops of `StringFind` and `UriResolve` and the parser of
`HttpRequest` run without waiting for anybody: `LineSteps` and `RequestUri` are fair
(the latter by what it does to `pc`, which is possible exactly when it is: TLC need not
evaluate the grammar to see it), `Receive` is not. Nothing is assumed of clients,
of spurious wakeups or of accepts.

## 4. What the models say of the code

Three disagreements with comments or the project's README have a run of their own:

- The write index skips slot 0 when it wraps: `workeraa_work_set_next_write_index`
  (`workeraa_index_utils.h:165`) tests `write < read` again after having set the index
  to 0. From then on the slots and the count disagree: old connections are handed out
  again and new ones are lost (`pool_skipped_slot`).
- `is_header_send` is never reset (`workeraa_http.h:286`): a worker answers its first
  connection only; later ones are closed without a byte (`socket_empty_answer`).
  `is_header_recv` is not reset either, so their headers are never parsed.
- `http11_method` (`httpaa.h:545`) tries one method after the other without going back
  to the start of the token: `POST` has taken the P of `PUT` (`http_put`).

The passing properties say what holds *in spite of* the code's limits; where one has a
condition, a limit is the reason:

- pool: a full array whose first work has been taken accepts a work at index
  `work_size` (`workeraa_index_utils.h:298`, `SetWorkBeyond`), because the check resets
  a local copy only; and if both indices have reached `work_size` the pool refuses
  everything from then on (`:284`). Hence `CountedIsReadable` and `WorkDrains` speak of
  counted works, and the queue of the first lap (with the default array, 1024
  connections);
- descriptors: the shutdown after the close of a failed send
  (`socketaa_worker.h:169`) may hit a connection that was accepted in between; it can
  hit no other (last part of `OwnDescriptor`);
- HTTP worker: only GET sets the SEND flag (`workeraa_http.h:186`), other methods wait
  for the timeout;
- strings: `stringaa_realloc` (`stringaa.h:253`) moves the write position of a full
  string back by one also when it is not null-terminated, so that adding to a full link
  overwrites its last character: `AddAppends` says that this one character (`Kept`), and
  nothing else, is lost. Links are not told when the buffer goes (the comment at `:67-71`
  says they are): `AddAppends` asks for a readable string, and no property promises what
  a link reads. `stringaa_copy_chars_size` and `stringaa_add_chars_size` ignore a failed
  malloc (`:570`, `:639`): `InBounds` holds until then, `OwnersApart` always.
  `stringaa_is_chari` moves the read position without a test, so nothing bounds it;
- URI parser: the character behind an escape is not looked at (`uriaa_rfc2396.h:1018`), so
  that `/%41 x` is accepted whole. The comparisons with the grammar speak of texts where
  that character is unreserved or missing (`EscapesClean`); of all texts `AcceptsReferences`
  says that no other character can be foreign. `server` always succeeds, which hides
  `reg_name` (`AcceptsLongest` leaves out `//`); a relative reference like `a:` keeps the
  scheme of the absolute URI that was given up (`:162`), so `ComponentsTile` lets a scheme
  be set that the accepted text does not hold, and says nothing of a further component that
  is stale beside those that cover it (the query of `a:?x`); a label that ends the text may
  end in `-` (`HostsAreHosts`);
- resolution: before a segment like `..b` the start of the segment is not moved, and a
  later cut takes two (`uriaa_rfc2396_resolve.h:219`, `Clean`); the empty segment before
  the first `/` can be removed, so `/../g` becomes `g` (`InTree`); the composed URI
  lacks the last character of a merged path (`:345`, `ComposedPath`), which is the
  terminating character when the path ended in a segment `.` (`PathIsReference`) and may
  leave a dot segment at the end when it did not: `a:/` and `.c` give `a:/.`. An absolute
  path does not go through the loops: `/../c` is composed with its dots.
  `LoopsLeaveNoDots` speaks of merged paths, and of what stands before the composed
  path's end;
- escaping: `size * 3` leaves no place for the terminator (`uriaa_utils.h:177`,
  `EscapeDecodes` speaks of texts that fit); without its flag `uriaa_unescape` writes
  the second digit in place of the character (`:141`, `UnescapesUnreserved` speaks of
  the flag); a text that ends inside an escape returns what the escape before it left
  (`CutShort`);
- HTTP parser: two line ends start an attempt, not an empty line
  (`httpaa_utils.h:25`); `RightRequest` shows that the attempts on incomplete headers
  do no harm to target and headers (method, version and target components are not
  compared). The character behind an escape in the target is taken without a look, a
  space too (`GET /%41 a HTTP/1.1` has the target `/%41 a`): `BehindEscape`.

## 5. What is proved

For all `Workers` (finite), `WorkSize > 0` and `MaxAccepts`:

- `PoolInvariant`, `TypeCorrect`, `CountedWorkIsReadable`: `PoolInv` is inductive.
  `CountedIsReadable` is not: that a counted slot is not NULL after a wrap needs
  `Frontier` (all slots posted, or the writer on its first lap and the count bounded
  by the distance of the indices), and that the count is never more than the slots
  between the indices needs `RingOK`. `WriteKeepsRing` and `ReadKeepsRing` isolate
  the index arithmetic.
- `WakeupsAreNotLost`: `NoLostWakeup` is inductive given the types; the argument
  counts the workers on their way to the queue.
- `LapInvariant`, `FirstLapIsFifo`, `FirstLapOwnsStruct`, `FirstLapRefinesQueue`,
  under `MaxAccepts <= WorkSize`: `LapInv` ties the indices to the numbers of posts and
  takes (with the one exception of the post that fills the last slot) and the slots
  to the queue; every step then maps to a `WorkQueue` step or a stutter.
- `FirstLapOwnsDescriptor`, under the same assumption and for every number of
  descriptors: a behaviour of `Descriptors` is one of `WorkerPool`, so `LapInv` holds
  and gives every connection one worker. `OwnDescriptor` is not inductive: that a
  worker's connection has not been closed needs that only the worker that serves a
  connection, or has served it, closes it (`FdServe`), and that the late shutdown hits
  a *later* connection needs that a number refers to the last one that got it
  (`FdTable`).

For all buffer sizes, header and response lengths, and numbers of connections:

- `SocketInvariant`, `SocketTypeCorrect`, `EveryConnectionClosedOnce`,
  `BlindWaitOnlyAfterShutdown`, `OnlyOwnResponse`: `SocketInv` says that is_select
  means "still open", that a flag is left to act on unless the client has shut down,
  and that the response buffer holds this connection's response or nothing.
- `FirstConnectionAnswered`: on a worker's first connection bytes go only to a GET with
  a complete header, and the orderly close comes after all of them. `FirstInv` adds to
  `SocketInv` that is_header_recv means "these bytes parse", that a send is waited for
  only if the request wants one, and that is_header_send means the whole response has
  been built. It speaks of the first connection only, because is_header_send is never
  reset: for the second it is false (`socket_empty_answer`).

For any number of strings, any heap and any literal:

- `StringTypeCorrect`, `StringsInBounds`, `OwnersStayApart`: `StringInv` is the three
  properties together, none of which is inductive alone (a copy stays inside the block
  because the owner has all of it, which is the owners' part; that a block is freed once
  needs the types of what is freed), and that an uninitialised struct has no buffer,
  without which `stringaa_realloc`, which copies nothing for an uninitialised struct,
  would lose its text. `Sound` states it for
  one struct in the place of a string while the others are left alone; each library
  function has one lemma that it keeps `Sound`, and the operations are compositions.
- `AddCharsAppends`: the action property, through the three paths of
  `stringaa_add_chars_size` (room enough, realloc, first malloc). In a full string without
  terminator the first path is impossible, since the characters would not fit
  (`AddBytes`), and the second sets the write position back (`ReallocW`).

For all texts:

- `FindInvariant`, `FindTypeCorrect`, `FindIsCorrect`: the loop invariant `FindInv` says
  that no occurrence begins before the place of the search, that the partial match is
  one, and that what has been found is the first; the step back after a mismatch is where
  it could be lost.
- `EscapeTypeCorrect`, `EscapeIsCorrect`, `UnescapeIsCorrect`: for all texts of bytes.
  Where a character of the text belongs in the output is stated in closed form, by
  counting the escapes before it (`EscapedPlace`, `UndonePlace`), so the invariant is
  what the property says of the whole text, said of the part that has been read; the
  lemmas on counting say how the place moves with one more character.
- `CheckUrlParsed` (`UriGrammar_proofs`): the parser on any text leaves its position and all
  components in the text, changes only the components of the rules it tries, and what it
  accepts is a scheme, an authority, a path, a query and a fragment side by side
  (`SchemeIn`, `ReferenceIn`). Every character it passes over belongs to URIs or stands
  behind an escape, where the code does not look (`Passed`). The loops of the code are
  recursive functions that look beyond their argument. `LeastElement` (from the library's
  `WFMin`, which has no operator parameter) gives `DownwardInduction` on a *set* of
  positions, and with it `RecursionFromEnd`: such a function exists and has the value its
  definition says. Each parsing function then has one lemma of the form `Parsed`, resting on
  those it calls.
- `TypeCorrect`, `ComponentsCover`, `AuthorityCovered` (`UriParser_proofs`): the run's
  `TypeOK`, `ComponentsTile` and `AuthorityTiles` from `CheckUrlParsed`. What makes
  these hard is that alternatives leave their components behind: `Parsed` names
  for each rule the components it may touch, and the tiling follows for those only.
- `HostsRead`: `HostIs` says that a host that is set is a host name or an address, and is
  part of the invariant of every function (`...KeepsHost`), because `HostsAreHosts` speaks
  of hosts that an abandoned alternative has left too. That the labels of `hostname` make
  a name is a downward induction on the loop's position (`LabelsPassed`); that its last
  label begins with a letter is what reading it again as the toplabel gives.
- `ReferencesAccepted`, `LongestAccepted`, of texts in which each `%` begins an escape that
  ends the text or has an unreserved character behind it: every function is related to the
  grammar's rule for it by `Reads`: it succeeds at a position where the rule may end, has
  passed no delimiter that ends the rule, and in a text without `//` goes as far as the rule
  can (`Greedy` for functions that cannot fail). The loops skip the character behind an
  escape; `EscapesClean` makes it one that the rule would have taken (`SkipEscapedReads`).
  Of two alternatives the first that succeeds wins, so the other must not reach further:
  most exclude each other by the first character (`FirstCharacter`); for a scheme against a
  relative path, which may begin alike, the relative reference ends before the `:`
  (`RelativeBeforeColon`). A fragment needs that what comes before it stops at a `#`. In a
  text with `//` only the first half holds, since `server` hides `reg_name`. The second part
  of `AcceptsReferences`, of any text, is what `Passed` says from the start on.
- `TypeCorrect`, `PathHasNoDots`, `ScansProgress` (`UriResolve_proofs`): for every base and
  reference. `LoopsLeaveNoDots` follows from `BufferWithoutDots`, and that needs to know
  what the scans have passed: `FirstScan` (no segment "." before the one the loop is in) and
  `SecondScan` (no "." at all; a ".." only at the start or directly behind another "..";
  `..` chains are why the verdict needs to look at the beginning of the path only). A cut
  joins two pieces of the buffer, and the lemmas on `Cut` show that no new segment "."
  appears at the joint; `DotsOnlyAtEnd` is about the character that the composed path lacks.
  `ScansProgress` is the safety half of `ResolveEnds`: no pass leaves the buffer and the
  position as they were.
- `PathIsTheReference`: the loops of the code cut a buffer in place and begin again, the
  RFC splits, drops and joins segments; the theorem says that both give the same text.
  `Segments`, `Kept` and `Joined` are recursions along a sequence; `FoldExists` and
  `FoldsAgree` (from `AppendInduction`, over a *set* of sequences) give their values on
  `Append(s, c)`, hence `SegmentsOfTwo` (the segments of two texts joined at a `/`) and
  `SegmentsOfCut` (the segments of the buffer after a cut). The invariant `PathInv` says
  what the buffer keeps at each place: in the first loop `SameKept` (a cut takes a "."
  segment, which never was kept, `PointOut`); in the second `Normalising`: the segments
  before the one the scan is in are neither "." nor ".." (`NormalScan`), so that a cut takes
  a segment and the ".." behind it, and the rest is kept as before (`PointsOut`). Both
  hypotheses are needed here: with `Clean` the ".." behind a `/` is a whole segment
  (`NormalClean`); with `InTree` no ".." is kept, and since a ".." that is kept is never
  dropped again (`DotsStay`), the buffer never begins with one (`FirstNotUp`). At the end
  nothing is left to drop (`PlainKept`) and joining the segments gives the buffer
  (`JoinedSegments`). A last segment "." leaves its terminating character behind the path
  (`LeftOver`), which the second loop carries along.

- `TypeCorrect`, `ParsedRight` (`HttpRequest_proofs`): for every text, all tables of names
  that meet `NamesAssumption`, and every way of cutting the text into pieces. `HttpInv`
  has a part for each place of the parser. `LeftBehind` is why failed attempts do no
  harm: all attempts on one text find the target at the same place (`TargetAt`, behind
  the first space: the letters of a method hold none, `MethodFound`), so components left
  over lie behind it; and a header is left over only if its line stands there, which the
  attempt that succeeds reads again. `AtTarget` and `FirstLineGoesOn` say that no line
  has ended before the version has: in the target that rests on `Passed`, since a CR may
  stand behind an escape but an LF behind it may not. `AtLine` is the invariant of the
  header loop: the read position is the start of a line before the empty one, and each
  header has the value of its last line so far (`Stored`). `HeaderLineIs` says that the
  slot found is the one whose name stands there, which takes `NamesAssumption`.

Assumptions are the ASSUMEs of the modules only: `Workers` finite, `WorkSize > 0`,
`MaxAccepts` and `MaxFds` naturals (`WorkerPool`, `Descriptors`); buffer, header and
response lengths (`HttpWorker`, `SocketWorker`); the literal and NULL are no blocks, the
literal is not empty, bytes are strings (`StringBuffer`); the texts are sequences
(`StringFind`, `UriEscape`, where they are also not empty, `UriParser`, `UriResolve`,
`HttpRequest`), and `NamesAssumption` (`HttpRequest`). The first-lap theorems add
`MaxAccepts <= WorkSize` as a hypothesis of their own.

Model-checked only:

- the liveness properties (`WorkIsExecuted`, `WorkDrains`, `WorkerReturns`, `Terminates`,
  `ResolveEnds`, `ParserStops`, `ParsesProper`), which the prover does not handle, and the
  violations.

## 6. Plan

1. Done: pool, descriptors, socket and HTTP worker, string library, `stringaa_find`, URI
   parser, escaping and dot segments, request parser, with their proofs.
2. The standalone dot-segment functions on a request's file name, with the terminator they
   count as text (section 7).
3. A name table of full size for `HttpRequest`, to see names that are beginnings of
   each other (`Accept`, `Accept-Charset`) in one instance of TLC; the proof covers them.

## 7. Not modelled

- Socket client: opens one connection and returns. String mathematics: no program
  includes it and it does not compile. Network worker: empty functions.
- Opening the listening socket, Windows (`WSAStartup`), debug output.
- Failure of the response buffer's malloc (`stringaa_add_chars` then allocates it),
  the file names computed for GET (nothing uses them), `workeraa_http_free` (nothing
  calls it), `send() = 0` (not an outcome for a positive length on TCP).
- A failing `workeraa_work_check_read_index` in `workeraa_get_work` would be a
  stuttering step; `CountedWorkIsReadable` proves that it cannot happen.
- Failures of pthread_mutex_lock and unlock.
- HTTP: the grammar of single header values (`httpaa.h` from line 867 on) is called by
  nothing: the functions are unfinished, many with a `while (1)` loop without an exit.
  `http11_response_header` is called by nothing. `http11_message_body` does nothing.
- URI parser: `path` is called by nothing, `reg_name` is never reached. `uriaa_print`
  only prints.
- `uriaa_remove_segment_point` and `uriaa_remove_segment_points`
  (`uriaa_rfc2396_resolve.h:395-538`): copies of the two dot-segment loops for the file
  names of `httpaa_work.h`. They count the terminator as part of the text, only the second
  writes the shorter size back, and their test for a path that climbs has no effect on what
  they return.
- String library: comparison of strings and the printing and variadic helpers change
  nothing; `stringaa_get_char` is part of the actions that read.
