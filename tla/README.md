# libiocp in TLA+

A model of libiocp, the C++ library for network servers and clients on Windows I/O
completion ports: TLA+ modules, TLC configurations and proofs checked by TLAPS.
Line numbers are those of the sources under `src/`; `iocp_x.h` stands for
`src/inc/sglib/iocp/iocp_x.h`.

## The system

    listener / client --session_join--> session list (boss)
           |                                   ^ session_remove
           | NET_connected                     |
           v          send_finished, ...       |
     package queue <------------------- port threads <--- completion port
           |                                                     ^
           | get()                                               | completions
           v                                                     |
      iocp_loop: handlers ---- send(), recv(), quit() ----> kernel I/O
      (application)            delete session

| Component | State | Operations | What is hard |
|---|---|---|---|
| package queue `queueT` (`sglib_queueT.h:37-129`, `sglib_cond.h`) | `_queue`, `_count`, `_stop`, an auto-reset event | `put`, `get` (blocking or not), `quit`, `clear`, `init`, `size` | `wait_signal` unlocks, waits, locks again; the event merges signals; `get` resets it |
| session (`iocp_session.h`, `iocp_session_ioT.h`) | `_socket`, send and receive `OVERLAPPED`s with an operation, `_err`, buffers, `_debug_disconnected` | `send*`, `recv`, `quit`; `process_iocp` in port threads; `connected` ... `disconected` | no lock at all; the application deletes the object when the last package says so |
| session list (`iocp_session_boss`) | vector, `_cs` | `session_join`, `session_remove`, `sessions_close_sockets`, `sessions_clear` | joins against removals against closing, one of them without the lock |
| framing (`iocp_session_ioT.h:25-31, 94-372`), ring buffer (`iocp_buffer.h`) | head and trail, sizes still expected | `send_init/add/packages`, `recv`, partial sends and receives | pieces of any size, wrapping, full and empty look alike |
| completion port `iocp<>` (`iocp.h`) | port, semaphore, thread count | `open`, thread procedure, `close`, `notify_thread_quit` | who has ended when `close` returns |
| loop (`iocp_loop.h`) | current package, `_connect_count`, `_quiting` | `init`, `peek`, `tick`, `quit_loop` | uses sessions other threads still use |
| message queue singleton (`iocp_queue.h`, `sglib_refT.h`, `sglib_singletonT.h`) | reference count | `ref`, `deref`, `post_quit`, `destroy` | who holds it when it is destroyed |
| server (`iocp_server.h`), listener (`iocp_socket.h:8-117`) | listening socket, `_session_limit`, `_stop`, `_closed` | `open`, `listener_loop`, `close` | the order of `close` against listener, port threads and sessions |
| client (`iocp_client.h`), `peer_socket` | one port thread | `open`, `sessions_open`, `close` | its `close` runs while its thread may still be ending a session |
| bounded queues (`sglib_queueT.h:133-366`): the deque `queue_boundedT`, the ring `ringbufT` | as `queueT` with a capacity; `_first` and `_last` of the ring | `put`, `get`, `peek`, `quit`, `quit_thread_*`, `clear`, `reset`, `stop`, `init` | two manual-reset events, which one side sets and either side resets; a full ring and an empty one |
| threads (`thread/`) | state of a pool thread, events | `run`, `wait`, `thread_run` | lost starts |
| blocking socket (`sglib_socket.h`) | socket | `send`, `recv` loops | partial results |
| examples (`src/examples`) | the server's file, position and buffer; the client's files and counts | a file copy over packages, stop-and-wait | all sessions of the server share one `FILE` and one buffer; each program ends with its last session |

What makes them correct: the queue hands out every package once and in order and leaves
nobody asleep; a session announces its end once, last, and with no I/O behind it, and its
end does come; the list holds a session from its creation to its end; the framing neither
loses nor invents a byte; `close` returns, and when it has returned nobody uses what it
has closed; the package queue goes last; a bounded queue keeps its bound and wakes whoever can
go on; a copied file is the file.

## Modules

| Module | Models | Correspondence |
|---|---|---|
| `Mailbox` | what `queueT` promises: a FIFO that can be closed | no mutex, no event; `Serve(c)` fair |
| `QueueT` | `queueT`, `condition`, the auto-reset event | one action per critical section; `pc = "wait"` and `"woken"` are the two points inside `wait_signal` at which the mutex is free; `signaled` is the event |
| `Session` | sessions, the list, the port's queue, port threads, loop, joiner | a program counter per thread; a label for every statement another thread can see (listed at the head of the module); `q` is the package queue, a FIFO as `Mailbox` allows it |
| `MCSession` | applications: which calls a handler may make | `HalfDuplex`: at most one call per package, as both examples; `Persistent`: always one; `FullDuplex`: a send and a receive at a time |
| `Iocp` | one port object through several `open`/`close` | numbered handles; the fields `_iocp` and `_thread_semaphore` are read where the code reads them |
| `IoBuf` | `iobuf` | operators on a record; no state |
| `Framing` | one direction of a connection, on top of `IoBuf` | a byte is a pair of package and position; the kernel takes and brings any number of bytes |
| `Server` | `main()` of the server example to its end: server, listener, list, port, queue references, loop | composes the promises of the others: a session is one token (what `Session` shows of a half-duplex application), the queue a FIFO that refuses once stopped, the port a FIFO with its threads |
| `BoundedMailbox` | what the bounded queues promise: a FIFO with room for `Bound` items that can be closed, for each side or both | `Serve(t)` fair: a blocked thread is served or released |
| `BoundedQueue` | `queue_boundedT` and `ringbufT`; `Init` chooses one (`ring`) | one action per critical section, as in `QueueT`; `notFull`, `notEmpty` are the two events, which stay set when a waiter passes; `out` is the call that returned last |
| `FileCopy` | `client.cpp` and `server.cpp` with the client's `open`, `sessions_open`, loop and `close` | a session is a token on each side, `cl[s]` and `sv[s]`: its package, its outstanding call or its end; one action per handler, per completion, per statement of the client's `main` |
| `*Proofs` | theorems | see Proofs |

Definitions whose name has an underscore and a capital (`Put_NoSignal`, `Wait_NoWait`) are
faults: the action with one line of it wrong. No specification uses them; each breaks
one of the properties, which shows what the property depends on.

Abstractions worth knowing:

- `Session` keeps of the bytes whether a completion transferred some (`ok`), and how many
  complete packages the receive buffer holds (or `Bad`, a header that cannot be right). A package
  may be too large for the send buffer: `send()` is then refused (`LoopRefused`) and the handler may
  do something else.
  `Framing` has the bytes and no errors of the connection but one: `send_packages()` with nothing
  added issues a `WSASend` of no bytes, whose completion (`trans == 0`) ends the session, and nothing
  more is sent (`send_at = "failed"`).
- A `PostQueuedCompletionStatus` may fail, of `close()` in `Iocp` and `Server`, and of `quit()` in `Session`,
  which does not look at the result.
- `Iocp` opens a port that is not open (`OpenAgain`): `open()` itself does not look, and would lose the handle;
  each program calls it once.
- `Debug` is the build. The unoptimised one has the ASSERTs and reads `_err` back from
  memory at `if(WSA_IO_PENDING == _err)`; the optimised one compares the value it has just
  stored, as optimising compilers do (nothing is called in between), and has no ASSERTs.
- Using a deleted session is undefined behaviour: the step is taken as if the memory were
  still there, or (`Crash`) the process dies. `sessions_close_sockets` iterating over a
  vector that changes is treated the same way in `Server` (`died`).
- A session is never allocated at the address of a deleted one.
- `close_socket` is one step, although it tests and clears `_socket` without a lock.
- In `Server` a call refused at once is one that fails a little later in a port thread, the
  quit packets are posted in one step (`Iocp` takes them one by one), and the vector's
  iterator is an index.
- In `FileCopy` a package arrives in one step (`Framing` has the pieces), `fopen` returns the first
  free `FILE`, so that a closed one is used again, and `fclose` of a closed one hits whoever has
  it then (`misclosed`) or ends the program (`died`). Packages that are only logged are left out.
  The server's file exists and is not empty.
- A waiter of a manual-reset event that finds its condition false waits again and is let go at
  once: `BoundedQueue` has the spinning, and needs no fairness beyond that of a thread's steps.
- `clear` and `init` of the queues are called when no thread is inside `get` or `put`,
  as the header prescribes for `queueT` (`sglib_queueT.h:25-33`).

## Runs

| Run | Bounds | States | Shows |
|---|---|---|---|
| `queue` (`QueueT.cfg`) | 2 items, 1 getter, length 3 | 1,030 | types; `NoLostWakeup`; `QueueT` implements `Mailbox`, fairness included |
| `session_one` (`MCSession_one.cfg`) | 1 session, 2 workers, 2 packages per receive, `Persistent` | 130,103 | one activity at a time; `disconnected` is the last package; no I/O behind it; the session is in the list when removed; only the leaving thread uses a deleted session; a lost session ends, unless the packet of `quit()` could not be posted; a `quit()` whose packet was posted ends a session |
| `port` (`Iocp.cfg`) | 1 or 2 threads of a pool of 3, 2 opens, 2 packets | 48,402 | `close` returns; a single thread has ended by then and has released the semaphore `close` waits on |
| `framing` (`Framing.cfg`) | rings of 8 bytes, header 2, packages of 1, 5, 6 bytes, 3 packages, 5 bytes under way | 33,589 | what is received is what was sent, no byte is lost, every package arrives, for a sender that waits for the reply |
| `server` (`Server.cfg`) | 3 clients, limit 2, 1 port thread | 15,536 | `close` returns; no session is cleared away under a thread that removes it; the package queue is destroyed last |
| `bounded` (`BoundedQueue.cfg`) | 2 items, 2 putters, 2 getters, bound 2 | 163,990 | the bound and `_count`; `NoLostWakeup` with two threads on each side; both queues implement `BoundedMailbox`, fairness included |
| `copy` (`FileCopy.cfg`) | 2 sessions, 2 copies each, pieces of 2 bytes, files of 1 and 4 bytes, 1 fault | 474,687 | the copies are the file; the client's loop ends with its last session and not before; a session whose link holds gets its copies; the client ends |
| `session_free` | 1 session, 1 worker | violated | `NoUseAfterFree`: see Findings |
| `session_full_duplex` | 1 session, 1 worker, `FullDuplex` | violated | `DisconnectedOnce` |
| `session_debug` | 1 session, 1 worker, `Debug` | violated | `DisconnectedIsLast` |
| `port_two_threads` | 2 threads, 1 open | violated | `AllThreadsQuit` |
| `framing_streaming` | as `framing`, no waiting, 7 bytes under way | violated | `NoByteIsLost` |

Why the bounds are enough:

- Queue: with two items and a length of three a signal can be merged, and an element be left
  behind one that was taken; a single getter is the documented use (15-16). Safety is
  proved for any sizes.
- Session: sessions share nothing but the queues and `_cs`; the interesting races are between
  two workers, the loop and the joiner over one session. A batch of two packages leaves one
  in the buffer for the next `recv()`. Several sessions in the list are in `server`, and
  one activity per session is proved for any number of sessions and workers.
- Port: two opens make stale handles possible, a pool larger than the count lets a later
  thread start while an earlier one still ends.
- Framing: the packages of 5 and 6 bytes are one below the ring's limit with their header and
  one that `detect_add` refuses; three of them wrap both rings; five bytes under way cut headers
  and contents at every place. User buffers of 1 and 5 bytes give `recv_failed`.
- Server: the third client arrives when the limit has been reached, or replaces one whose
  association failed; all positions of listener, port thread and sessions against every
  statement of `close` are covered.

- Bounded queues: with two threads a side, both threads of one side wait while one of the other
  goes on, and one takes what both have been signalled for and resets the event; a bound of two
  tells "the last element" and "the last room" apart, and the ring of three slots wraps. Safety
  is proved for any sizes.
- File copy: two sessions read through one `FILE` and one buffer, and reuse each other's `FILE`s in
  the client; a file of four bytes is two pieces, one of a single byte is a lone last byte. One
  fault, a link lost or an `fopen` that fails, comes at any time; `FilesAreCopies` has two conditions
  and the run reaches states in which each is false and the copies are wrong. Two faults multiply the
  states by more than the time allows.

No run checks for deadlock except `queue` and `bounded`: connections may end, servers may be closed,
packages may stay unanswered, and the programs then rightly have nothing to do. Whether
something that must happen does happen is asked by the liveness properties.

Setting `Workers` of `Server.cfg` to two threads makes `RemoveFindsSession` and
`QueueOutlivesItsUsers` fail: the default server has `2 * processors + 2` threads, and
the finding about `close` below reaches these as well. One thread is what a server gets that
passes `iocp_threads = 1`.

### Fairness

- Threads are scheduled (weak fairness of each thread's steps): the port's, the loop's, the
  joiner's. A thread that is woken gets its critical section, since nobody keeps one forever.
- The kernel completes the I/O of a connection that is gone; on one that works nothing need ever
  arrive, so nothing is assumed of it.
- In `BoundedQueue` a thread that waits on a set event gets past it, and one that is past it gets its
  critical section. That takes no more: a thread that can be served stays so until it or another of
  its side goes on.
- In `FileCopy` something that can happen in one of the programs, or on a link that is up, happens in
  the end (one weak fairness for all of it; no link need be lost).
- `accept()` on a closed socket returns; no client need connect.
- Nobody is obliged to call `put`, `get`, `open` or `close`, to connect or to disconnect.
- In `Framing` TCP delivers: every byte given to it arrives eventually (the connection's errors
  are in `Session`), and the application calls `recv()` again.
- `LostSessionEnds` supposes an application that makes a call on every package (`Persistent`): a
  session with no I/O outstanding is told of nothing, and `server.cpp:129-143` leaves some so. After a
  `send()` that was refused `Persistent` calls `recv()` or `quit()`. When the packet of a `quit()` could not be
  posted (`QuitLost`) nothing is outstanding either and the session stays forever, whatever its connection
  does: `LostSessionEnds` excepts it, and `QuitEnds` speaks of packets that are in the port.

## Findings

1. `disconected()` queues `NET_disconnected`, on which the loop deletes the session, and then
   uses the session (`iocp_session.h:283-288`). Run `session_free`.
2. With a send and a receive at a time a session is announced `disconnected` twice, and deleted
   twice: `disconected()` sets `_socket` to 0 but does not look whether it was 0 already, contrary to
   252-258. Run `session_full_duplex`: the loop issues both, one is refused and the loop closes the
   socket; the other completes as failed, the port thread finds `_socket` 0 and puts no error package,
   but `disconnected` all the same. To return from `disconected()` when `_socket` is 0 would prevent this
   run. It would not make the application safe: a notification looks at `_socket` and then puts its
   package (98-101, 130-134), and `disconnected` may come in between, so that `DisconnectedIsLast` fails
   in this application as well, with one `disconnected` only. The comment (261-265) knows that and asks
   for a lock; one call per package excludes both.
3. `_err` is a member: where it is read back from memory (274-275 and 224-225 of
   `iocp_session_ioT.h`), a worker that meanwhile handles the failed completion makes the caller
   take a pending I/O for an error, and both call `disconected()`, in a half-duplex
   application. Run `session_debug`.
4. `iocp::close()` says "wait until all threads quit" and waits for one (`iocp.h:84-85`). Run
   `port_two_threads`.
5. A receive that fills the ring buffer to its last byte empties it: `receive()` offers all
   unused bytes and `head = trail` means empty. Run `framing_streaming`; the theorem
   `TrailMoveLength` has the exact condition.

Other disagreements met, without a run of their own:

- The client closes `pf` when the last copy ends and again when the session is deleted
  (`client.cpp:73-84`, `49`); in between another session may have got that `FILE`, and loses its copy.
  And it takes a last piece of one byte for the end of the file (`client.cpp:72`). Each is a condition of
  `FilesAreCopies`: without it `copy` fails.
- The server's loop ends with its last session, whoever is waiting to be accepted
  (`server.cpp:88`); the client notices (`ClientEnds`).
- The client's `close` walks through the list (`iocp_session.h:213`) while its thread may still be removing a
  session the loop has deleted: finding 1 again, `died` in `FileCopy`.
- `quit_thread_get` and `quit_thread_put` of `queue_boundedT` wake one side but refuse both, and
  `peek(remove)` leaves `notEmpty` set over an empty deque: getters then spin (nothing is lost).

## Proofs

All theorems hold for every value of the constants the named assumptions allow
(`QueueAssumption`, `SessionAssumption`, `IocpAssumption`, `BoundedQueueAssumption`, `ServerAssumption`,
`FileCopyAssumption`, `FramingAssumption`): sets of items, sessions, threads, any bounds. What a theorem assumes
beyond that is said with it. Each invariant below was checked by TLC before it was proved.

- `QueueTProofs`. `TypeCorrect`: `_count` is the length of `_queue`. `OneGetterNeverMissesASignal`:
  `NoLostWakeup` for a single getter; the assumption `OneConsumer` is needed, with two getters
  it is false. `RefinesMailbox`: every step is a step of `Mailbox` or a stutter. Types are an
  invariant by themselves, since `count` is part of them.
- `SessionProofs`. `TypesHold`. `TypeOK` is not inductive: a thread's session and note may be "none"
  in general but not where they are used. `TypeInv` says so.
  `OneActivityHolds`: without `Debug` and for an application that
  makes at most one call per package (none on an error) and at most one instead of a `send()` that was
  refused, a session never has two activities.
  An activity (`Activities(s)`) is whatever may still lead to a package: a package in the
  queue, I/O with the kernel, a packet in the port, a thread at work, a handler with calls to make.
  The argument is that of a token: each step leaves the activities of a session alone, drops
  one, or replaces one by one, and only `JoinNew` creates one, for a session that has none
  (`OnlyLiveAct`: only a live session has activities). The invariant `ActInv` adds that an error
  is announced exactly by threads that then close (`NotesOK`), without which an error package would
  count twice.
- `SessionEndProofs`. Under the same two conditions, how a session ends: `DisconnectedIsLastHolds`,
  `NoIoAfterDisconnectHolds`, `RemoveFindsSessionHolds`, and `FreedOnlyWhileLeavingHolds`, which bounds
  finding 1: a deleted session is used by nobody but the thread that has announced its end and
  is still in `disconected()`. `EndInv` adds to `ActInv` that an error package is followed by
  "disconnected", now or when its thread gets there (`ErrorsAnswered`); that the socket is closed
  before the package is put (`SocketClosed`); and where a session is while it is live: in the list,
  or with the joiner that is about to push it (`Listed`, `RemoversOK`). The two conditions are needed:
  findings 2 and 3 are what happens without them.
- `IocpProofs`. `TypesHold`; `OneThreadHasQuit`; `OneThreadNotifiesIt`. The invariant `Inv` follows the
  one thread and the one quit packet through the phases of `open` and `close`: serving with no
  quit packet in the port; ending with the packet in the port, or with the thread at its last
  statement, or ended; and the handles of opens to come untouched (`Fresh`).
- `FramingProofs`. First the ring: `UsedPieces`, `UnusedPieces`, `HeadMoveLength` and `TrailMoveLength` say
  that the pieces lie in it and add up, that moving the head frees exactly what was consumed,
  and that moving the trail adds what was received unless that fills the ring. The lemmas
  `FastCopyIs`, `SafeCopyIs`, `ScatterIs`, `HeadMoved` and `TrailMoved` say the same of its bytes: the i-th
  used byte is the i-th byte stored, over the end of the array or not.
  Then the stream: `TypesHold`, `GotWhatWasSentHolds` and `NoByteIsLostHolds`, for any sizes of
  rings, header and packages, any cut of the stream by the kernel on both sides. They assume
  `~Streaming`, which finding 5 shows to be needed, and `SendSize <= RecvSize`, as both buffers have
  one default (`iocp_session.h:163-168`): with it what is under way never fills the receive ring
  (`Receiver`). With a larger send buffer (`SendSize = 12` in `Framing.cfg`) TLC finds finding 5
  again. The invariant `FramingInv` uses that a round's bytes stay in the send buffer until the next round begins, so that a place in the stream is an index of that buffer: it is made of
  whole packages (`Whole`); the receive ring and then the wire are the part of it that ends at the
  head (`Along`); what has been taken before that ends where a package ends, and the next one is the one
  the application waits for (`Waits`). `NoByteIsLost` alone is not inductive: it does not say that the bytes
  behind a header are as many as the header says.
- `BoundedQueueProofs`. `TypesHold`; `NobodyMissesASignal`: `NoLostWakeup` for any number of threads, since
  a deque resets an event only when it makes the condition false and the ring never does;
  `RefinesBoundedMailbox`: every step of the deque and of the ring is a step of `BoundedMailbox` or a
  stutter. The invariant `Inv` adds that a ring that is not stopped has its array, that a
  waiting putter brings an item, and that a side that has been told finds its event set
  (`ToldOK`). For the ring the lemmas `AfterStore` and `AfterFetch` say where the slots of the contents
  lie when `_first` or `_last` moves on, over the end of the array or not.
- `FileCopyProofs`. `TypesHold`; `NobodyLeftBehindHolds`: the client's loop ends with its last session and
  not before, for any number of sessions; `FilesAreCopiesHolds`, for any number and size of files and
  pieces. `CopyInv` counts the sessions whose package "connected" has been handled and that have
  not gone; a session has one package of a kind in a queue at most. `Story` follows the data: either
  the server or the client or the link has the next step of a session (`Baton`), what is on its way
  (`Flight`) is the piece that comes next, or the end (`InFlight`), each `FILE` open for writing belongs
  to the one copy that names it (`Streams`), and finished copies stay as they are (`Contents`). The
  last two hold as long as nobody has closed another's `FILE` and no file ends in a single byte.
- `ServerProofs`. `TypesHold` for any number of threads; `RemoveFindsSessionHolds` and
  `QueueOutlivesItsUsersHolds` for one port thread (`Workers = {t}`) and any number of sessions, the
  condition the runs have, and a necessary one. `ServerInv` gives each session one place: with the
  listener, in I/O, in a packet, with a thread, in a package (`Tokens`); counts the owners of the package
  queue (`References`) and the sessions the loop knows of (`Counted`); and keeps a session that is served
  in the list until the thread that removes it has it (`List`). `OneThread` says that a port that has been
  closed has no thread left in it.

Only model-checked: liveness (`CloseReturns`, `LostSessionEnds`, `QuitEnds`, `AllArrive`, `Copied`,
`ClientEnds`, the fairness in `ImplementsMailbox` and `ImplementsBoundedMailbox`), which the prover
cannot do. Every invariant of a passing run has its theorem.

## Not modelled

- `thread_pool` and `thread::thread_run` with its events: nothing creates a pool; `run` and `wait` of a
  thread, which the server uses, are steps of `Server`.
- The blocking socket (`sglib_socket.h`): nothing includes it, and it does not compile.
- `open()` after `close()` of a server, and of a port that is open; `NET_quit` and `NET_noop` in the loop, which no program posts to a loop
  that still runs; a `get` of the loop that is stopped while the loop is in it.
- The destructors' assertions of the queues; `size()`, which only reads.
- A server or loop whose handlers call from another thread than the loop's.
- Failure of `QueueUserWorkItem` and `CreateSemaphore`, whose results the code ignores; the values of
  `set_keep_alive`.
- Strings, types, assertions, utilities: no state. The SDL variants of thread and mutex are not
  built where completion ports exist. Project files and binaries.

## Plan

Done: queue with its abstract specification and refinement proof; session; port; framing; server;
bounded queues with theirs; client and file copy; a theorem for each invariant of a passing run. Next:

1. An abstract specification of one session as its owner sees it (one package at a time, from
   "connected" to "disconnected"), with a proof that `Session` implements it from `ActInv` and `EndInv`:
   it is what `Server` and `FileCopy` compose.
2. `ThreadPool`, and `open()` after `close()`, when a program uses them.
