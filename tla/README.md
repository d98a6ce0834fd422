# A TLA+ verification of sftt

sftt (Simple and Security File Transport Tool) is a server `sfttd` and an interactive
client `sftt` that exchange files, list directories and send messages over TCP.  A
client can also address another logged-in client; the server then forwards the request
over a *task connection* that the other client keeps open.  The server moves its second
port to a random one every few seconds and tells its clients.

This directory models the parts of sftt whose correctness depends on the order in which
threads, processes and packets meet, checks the models with TLC and proves the main
properties with TLAPS for all values of the parameters.  Line numbers are those of the
commit the models were written from; `PROJECT.json` maps each definition to its lines.

## Inventory

| component | state | operations | interacts with |
|---|---|---|---|
| thread pool (`src/thread_pool.c`) | per worker two pipes, mailbox `f`, `arg`, `ret`, guard `state` | create, launch (any worker or a given one), wait, destroy, worker loop | used by server and client for all threads |
| read-write lock (`include/rwlock.h`) | `cnt` | read/write lock, trylock, unlock | `update_lock` of server and client |
| server channels (`src/server.c`) | `main_sock`, `second_sock`, `second_port`, `update_lock` | S2 `main_channel_loop`, S3 `second_channel_loop`, S4 `handle_client_session`, U `port_update_loop` | thread pool, lock, sessions, clients |
| session table (`src/server.c`, `include/session.h`) | 32 slots: status, main connection, list of task connections | `get_new_session`, `put_session`, append and reconnect of connections, choice of a task connection | S3, S4, U |
| request handlers (`src/server.c`, `src/req_resp.c`) | none of their own | pwd, cd, ll, get, put, directcmd, who, write, mp_stat, and their forwarded forms | session table, file transfer |
| client (`src/client.c`) | main connection, task connections, `need_reconnect`, `update_lock` | commands, connection manager, task handlers, port update, reconnection | server, thread pool |
| file transfer (`src/file_send.c`, `src/file_recv.c`) | position in a file | name, digest, content blocks, stop flag, in get and put direction | packet transport |
| packet transport (`src/net_trans.c`, `src/packet.c`) | position in the byte stream | send and receive of framed packets, blocking or not | sockets |
| serialisation (`src/serialize*.c`) | none | generated encoders and decoders | packet transport |
| memory pool (`src/mem_pool.c`) | list of nodes, statistics, list of purposes | malloc, realloc, free, statistics | everything |
| logger (`src/log.c`, `src/ratelimit.c`, `src/msg_queue.c`) | System V queue, rate limit window | add_log, logger process | server |
| server life cycle (`server/main.c`, `src/server.c`, `src/shm_space.c`) | status in shared memory | start, stop, restart, exit handler | processes |
| users (`src/user.c`, `src/db.c`), data structures, codecs, parsers | sequential | | |

What is hard here:

* *Concurrency.*  The mailbox of the thread pool and the session table are read and
  written without a lock; the order of the accesses is all that protects them.
  `update_lock` is taken by four kinds of threads, one of which goes on when it is
  refused.
* *Ordering.*  A port update replaces a socket, a port number and, later, the
  connections of all clients, while requests are being received and forwarded.
* *Failure.*  Threads may not be created, connections end at any time, one file of many
  cannot be read, a non-blocking socket delivers half a packet.
* *Limits.*  16 workers serve up to 32 sessions; statistics are copied into buffers
  whose size was computed earlier.

The full list, each at its line, is under `hazards` in `PROJECT.json`, with the
properties that would notice.  Where the code gives way to a hazard and no property can
hold of what is left, or where a property is stated without the case, a note says so.

What makes each component correct: the pool runs an accepted task exactly once, with its
own argument, and returns its value; the lock admits many readers or one writer; a port
that is announced is listened on, nobody is locked out for ever, and a task connection
carries one exchange at a time and is given back; a transferred file arrives complete and
both sides agree on when it ends; the answer to a command is read to its last packet and
no further; a packet carries what its sender's object held; a client whose server moves
loses neither its session nor an answer; the pool of memory never hands out a block twice
and its statistics add up.

## Modules

| module | what it is |
|---|---|
| `TaskPool` | abstract specification: slots that hold a task from assignment to return |
| `ThreadPool` | `src/thread_pool.c` at the grain of memory accesses and pipe operations |
| `ThreadPoolProofs` | theorems about it |
| `SharedLock` | abstract specification: many readers or one writer |
| `RWLock` | `include/rwlock.h` at the grain of loads and compare-exchanges |
| `RWLockProofs` | theorems about it |
| `ChannelUpdate` | the threads of `src/server.c` around `update_lock` and the task connections |
| `ChannelUpdateProofs` | theorems about it |
| `FileCopy` | abstract specification: the entries of a list are stored one by one, in order |
| `PutTransfer` | the put command: sender, the server's relay and receiver, packet by packet |
| `PutTransferProofs` | theorems about it |
| `ReqResp` | the layout of every message of `include/req_resp.h` and its XDR routine in `src/req_resp.c` |
| `Serialize` | the two codecs, their tables by packet type, and the generator of the raw one |
| `Transport` | `src/net_trans.c`: one direction of a connection, in the steps of `send` and `recv` |
| `TransportProofs` | theorems about it |
| `Commands` | the commands of a session other than put and get, with the answers of server and peer |
| `CommandsProofs` | theorems about it |
| `MemPool` | `src/mem_pool.c`, with `malloc` and `free` below it |
| `MemPoolProofs` | theorems about it |
| `Reconnect` | one client that follows the server's second port, both ends |
| `ReconnectProofs` | theorems about it |
| `MC...` | instances for TLC: symmetry sets, bounds |

Operators called `Mutant` in a comment are wrong variants of the action that follows.
No specification uses them; each shows that a property notices a plausible mistake.

### ThreadPool

State: `state`, `f`, `arg`, `ret` are the fields of `thread_instance`; `m2w` and `w2m`
count the bytes in the two pipes; `wpc`, `wf`, `warg` are the program counter and the
locals of each worker, `mpc`, `idx`, `task` those of the launcher.  `accepted`, `last` and
`calls` are history.  A task stands for a launch: function, argument and returned value
all carry its name, so that a mix-up is visible.  A process has one launching thread at a
time (the main thread starts the daemons, after which only the accept loop launches), so
the model has one launcher.  C11 release and acquire order on `state` and `f`, and the
pipe operations between them, make the sequentially consistent reading exact for the
other fields.

`pthread_create` reports failure by a positive number; `init_thread_pool` stops at it,
`create_thread_pool` tests `ret < 0` and returns the pool.  `CreateFault` is the set of
workers to which this, or a failing `pipe`, may happen.  The actions for it show the
consequences: a launch on the missing worker waits for ever (so this run may deadlock),
and `destroy_thread_pool` cancels a thread that never existed (state `crashed`).

### RWLock

`x[t]` is the local copy of `cnt`; `pc[t]` names the step.  `WeakCAS` lets the weak
compare-exchange fail spuriously.  Callers release what they took: the lock is shown
correct for such callers.

### ChannelUpdate

The threads are those of the design comment above `port_update_loop` (S2, S3, S4, U).
A call of the lock is one step, which `RWLock` justifies for callers that release what
they took, and `cnt` is kept as a number because S4 is not such a caller.  `conn[s]` is
the task connection of session `s` (a client may have five; one shows all the conflicts),
`peer[s]` the session whose connection handler `s` is using.  What a client sends is
chosen nondeterministically.  `busy` records that some trylock of an S4 was refused.

The four functions that forward (`handle_fwd_ll_req`, `handle_fwd_get_req`,
`handle_fwd_put_req`, `handle_write_req`) are given by their jumps: from which point of the
function control may go to which, with each early return and each way round the loop.
`s4_forward` takes a jump, `s4_put_peer` the exit that gives the connection back.
`UsedConnHasUser` says that no exit leaves a connection marked with nobody using it.  It
does not say that a handler gets to its exit: one that waits for a peer which never
answers keeps the connection, and nothing is assumed about when it goes on.

### PutTransfer

The sender (`send_files_by_put_req` and what it calls), the relay (`handle_fwd_put_req`)
and the receiver (`recv_files_from_put_req` with the packet loop around it, in
`server.c` for a put to the server and in `client.c` for a put to a peer) exchange
packets over one or two connections, `req[h]` and `resp[h]`.  All requests have the same
packet type, so the receiver knows a packet only by its place; `kind`, `off` and the
`to` of an answer record what was meant and are not read by any action except as the
content of the packet: a packet taken for a name that is none names a file outside the
list (`Junk`).  `disk[i]` counts the leading bytes of entry `i` that are the sender's,
which is what md5 comparison can see.  An action runs from one receive to the next:
between two receives a process touches nothing another one reads.

`InPlace`, `ToPeer`, `NonBlocking`, `PortUpdate` and `Fault` choose the circumstances.
`InPlace` is the default build (`CONFIG_SERIALIZE_RAW`) on a little-endian host: the sender
fills one `put_req` (`obj`), and each send reverses its integers.  `total_size` is assigned
before the name and again before the blocks, but not before the md5; `file_idx` is
incremented and `is_last` computed on what the last send left; the relay looks for STOP in
the object it has just sent on.  An `int` has two bytes in the model, of `Byte` values
each, and `IntMax` stands for 2^31 - 1: the size travels as a `u_int` and is read as an
`int`.

The socket of the server is always non-blocking in a put to it.  A peer's task socket is
non-blocking until the first port update and blocking after it, because
`handle_port_update_req` makes the main socket non-blocking instead of the new one;
that same line can hit a put that the client itself is sending (`nonblock`).  The server
announces a new port on every task connection, one that a put is using included
(`notify_client_after_updating`).  The packet loop of the peer follows it, and the model
ends there (`moved`); inside a put it is read as a `put_req`, of which all but the
first integer is what the memory behind the shorter object holds (`RecvUpdate`,
`Garbage`).

Source files do not change during a put and connections do not break.  There is one
announcement per put, after the relay has chosen the connection; that the update thread
and the relay may write to the socket between each other's header and content is left out,
and so is the crash when a block read from such memory claims to be larger than the object.

### ReqResp, Serialize, Transport

`ReqResp` and `Serialize` have no state.  A layout is the sequence of a struct's leaves
with their widths; `xdr_X` lists what the XDR routine visits, `X_raw` what the raw
encoder passes through `htons` or `htonl`.  The three are generated files, kept in the
repository and modelled one by one, so that `LayoutsAgree` can compare them with each
other, with the two tables and with what the generator `xdr/gen_serialize_raw.c` writes.

`Transport` extends them by a sender that fills in one object and sends it several times,
a stream that is counted in bytes, and the receiver.  `mem` keeps for each field whether
its bytes lie in the order of the host: the raw encoder converts the object *of the
caller*, in place, and no one converts it back; `age` counts the sendings of each field
since it was assigned, for `ResentAlternate`.  `errno` is sticky, and `rte_errno` is
copied from it only after the header, as in the code.  The header is written by `memcpy`,
without conversion: between hosts of different order it is not understood, and `Whole`
leaves that out.  A header and a content are two bytes each, so that both can be cut.

### Commands

The client's main thread, the session handler of the server and the task handler of a
peer, over four FIFO connections.  The client does not look at the type of what it
receives, so a surplus packet would answer the next command; the model marks that as
`confused`.  A list is `total` items, `Batch` in each packet.  `InPlace` says whether
sending converts the object, and `Commands` then takes from `Transport` what an unassigned
field holds in the next packet.  `cwd` is the working directory of the server *process*:
`other_session_cd` is the `chdir` of any other session.

### MemPool

`nodes` is the list, newest first, `heap` the C heap (external), `held` what the threads
own.  `sftt_packet_serialize` gives the pool's buffer to `free()`: its address may come
back from `malloc()` while an old node still lists it, in use.  What is done under the
mutex is one step; `mp_realloc` and `get_mp_stat_detail` take several, `get_mp_stat`
reads one counter at a time.  The callers are taken to be disciplined: they free and
reallocate what they hold and use the address `mp_realloc` returns, which `sds_resize` (the
trace) does not.  `SizeFrom[i]` is the sum of the sizes from node `i` on.

### Reconnect

Connections are numbered as they are made; `ssock`, `tsock` are the sockets in the
session, `sock` those in the client.  The task handlers hear of a new port, reconnect
themselves and set `need_reconnect`; the next command reconnects the main connection:
connect, send, wait a second, close the old socket, clear the flag.  Failing sends abort
the process (`assert` in `net_trans.c`).  The code protects the handover by time, not by
a handshake: one second for the server to take over, `PORT_UPDATE_INTERVAL` between two
updates.  `quick`, chosen in `Init`, restricts a behaviour to schedules in which these
are enough; the properties say which of them need it.

## Runs

| run | bounds | what it checks |
|---|---|---|
| `thread_pool` | 2 workers, 3 launches, the last worker may be missing | safety, refinement of `TaskPool`, that a launch on an existing worker returns, and that destruction ends if the tasks return.  3 launches on 2 workers reuse a worker while the other is busy and while both are |
| `rwlock` | 3 threads, spurious failures | all functions of the lock: exclusion, refinement of `SharedLock`, and that someone who waits implies someone gets in.  3 threads are two that race and one that spoils both |
| `channel_update` | 2 sessions (which forward to each other and to themselves), 2 ports to move to | what holds of the lock and the announced port until a trylock is refused, and of the task connections always; `MaxDebt` bounds how far `cnt` falls below 0, each unit being one surplus release |
| `channel_answer` | 2 sessions, 1 port to move to | violated, see below |
| `put_peer` | 3 entries of 0, 1 and 3 bytes in blocks of 2, absent, different or the same on the receiver | the XDR build, blocking sockets, the relay in between: both ends agree on every packet and every answer, everything arrives, the relay ends, and `FileCopy` is implemented |
| `put_fault` | 2 entries of 0, 5 and 8 bytes in blocks of 5, an `int` of at most 7, bytes of 4 values, 5 or 15 read behind an object | the default build: reversed integers, whole blocks, negative sizes, failing calls, non-blocking sockets and a port update announced in the middle of the put: whatever goes wrong, no wrong file is accepted and the command returns |
| `put_direct` | 2 entries | violated, see below |
| `transport` | every packet type, lists of 2, 2 packets, 5 bytes of socket buffer | both codecs, three pairs of hosts, three kinds of link, a stream cut between packets, between header and content, or anywhere: the descriptions agree, a packet carries what the object held, an object sent again is right in the fields that it should be, and where the receiver can cope it stays in step and gets everything |
| `commands` | 2 commands, 5 items, 2 in a packet | every command after every other: prompt and answer stay together, listings are complete, client and session agree on the directory, and every command that is answered at all returns.  5 items are an empty, a part-filled, a full and several packets |
| `commands_in_place` | the same, 1 command | violated, see below |
| `mem_pool` | 2 threads, 2 addresses, 2 sizes, 3 nodes | no block has two owners or is too small, the books balance, and an undisturbed report is right.  3 nodes on 2 addresses make one address appear twice in the list |
| `reconnect` | 1 task connection, 2 port updates, 3 commands | quick and slow schedules: no answer goes to the wrong command, a quick reconnection loses neither session nor port, and a command returns or the session has gone.  The second update can fall into every step of the reconnection for the first |

3 entries give a first, a middle and a last one (only the last carries STOP), sizes 0, 1
and 3 an empty file, one of one block and one of several.  In `put_fault` 5 is a whole
block and 8 is past `IntMax`; reversed, the total of the md5 packet is then larger or
smaller than the file or negative.  Its two properties were also checked in the default
build with a blocking receiver, with and without faults and updates, and `transport` with
three packets (5 minutes).  `Reconnect` was also run with 2 task connections, 1 update and
2 commands.  The type invariants of `PutTransfer`, `Transport`, `Commands`, `MemPool` and
`Reconnect` hold in these instances too; they are stated for the proofs and belong to
no run.

### Disagreements with comments, help and tests

* `channel_answer`: `handle_client_session` releases `update_lock` after each receive
  even when its trylock was refused.  When the surplus release comes after U stored 0,
  `cnt` stays at -1 although nobody holds the lock: `main_channel_loop` and
  `second_channel_loop` spin for ever and no client is answered.  The window is the
  second for which S4 sleeps after the refusal; U finishes well within it.
* `put_direct`: in a put to the server the receiver finds no md5 packet yet on its
  non-blocking socket and gives the file up; the md5 is then taken for the name of a new
  put, answered RESP_OK, and the sender reads that as "file not changed".  The put
  reports success and what was sent is not there (an older file may be), which the test
  `test/funcs/put.c` ("Check file md5 between client random file and server gotten
  file") says it is.
* `commands_in_place`: `handle_ll_req` assigns `total` once and sends the object once per
  packet.  With the default codec on a little-endian host the second packet carries the
  byte-reversed total and the listing ends early or never.  The run `commands` is the
  same model with a codec that leaves the object alone: there listings are complete.

Facts about the code that the models rest on or show, and that no comment denies:

* A path that is neither file nor directory, and a message (`write`), are not answered; a
  relayed listing ends only with STOP, and without one the session's handler stays
  in `handle_fwd_ll_req` for good (`Answered` in `Commands` names these cases).
* `while (!feof(fp))` sends an empty block after a file that is a whole number of
  blocks; the receiver takes it for the next name.  `put_peer` has no such sizes,
  `put_fault` has.
* `get_peer_task_conn_by_session` does not look at `is_updating`, which the design
  comment of `port_update_loop` has the forwarding threads check.
* A task handler that follows a port update makes the *main* socket non-blocking: a command
  waiting on it returns without its answer, which the next command may then read
  (`gaveup` in `NoStrayAnswer`).
* If the server moves on while a client is still reconnecting, `make_connect` fails and
  the next send aborts the client; if the server has not taken the new connection over
  within a second, the session ends (`SessionSurvives` needs `quick`).
* `notify_client_after_updating` sends one object to all task connections: with the raw
  codec every second one is told the reversed port.  `Reconnect` leaves this to `Transport`.

* `ll` of a single file: the server answers `total` 1 with the first entry filled in and
  `this_nr` 0, and the client, which shows `this_nr` entries, shows nothing
  (`FileNotShown` in `Commands`).
* The put in the default build, `InPlace`: the md5 packet carries the reversed `total_size`,
  so the receiver goes on reading blocks where the file has ended (or stops before): the
  name and md5 of the next file are written into the first one, and the put reports
  success.  With `InPlace = TRUE` and everything else as in `put_peer` TLC finds `AllStored`
  and `PacketsUnderstood` violated.  The md5 check still refuses every wrong file
  (`NoSilentCorruption`).  The relay never sees STOP and never leaves `handle_fwd_put_req`
  (theorem `RelayHeld`): the peer's task connection stays in use.

`put_peer` is therefore the put in the XDR build: to a peer, after a port update, no
file a whole number of blocks.  In it the relay is still left waiting after a failure or
when the last file was unchanged, because no STOP is sent then; `RelayReturns` names these
two exceptions.

`LockRightUntilBusy` and `AnnouncedPortListensUntilBusy` state precisely what remains
true: up to the first refusal the protocol is right.  `PeerConnExclusive` and
`UsedConnHasUser` do not depend on the lock and hold throughout.

### Fairness

* Threads are scheduled: weak fairness of every worker and of the launcher
  (`FairSpec`).  That tasks return is not assumed, since the daemons of the server never
  do; it is the hypothesis of `DestroyEnds`.
* `RWLock`: weak fairness of a thread inside the lock's code, and strong fairness of a
  successful exchange as such: spurious failures do not go on for ever.  Nothing is
  assumed about when a holder releases.
* `ChannelUpdate`: a thread that polls the lock every microsecond meets it free if it is
  free again and again, hence strong fairness for S2 and S3; weak fairness for S4 and for
  U once it has the lock.  Nothing is assumed about a handler that forwards: it waits for
  a peer.
* `PutTransfer`: sender, relay and receiver are running threads and TCP delivers what was
  sent: weak fairness of each.  A port update need not happen.
* `Transport`, `Commands`: sender, network and receiver; client, server and peer: weak
  fairness of each, because each is a thread that does nothing else.
* `Reconnect`: weak fairness of the accept loop with its handlers, of the session, of a
  command under way, of each task handler and of each notification.  The user and the
  timer of U may stop.

## Proofs

All theorems hold for every value of the constants that satisfies the named assumptions
(a positive pool size; a finite set of threads, sessions or purposes; the first second
port is not the main port; socket buffers that hold a packet), so for lists, pools,
buffers and schedules of any size.  Two modules have a further hypothesis.  In
`CommandsProofs` it is `InPlace = FALSE`, the XDR build: with the raw codec its properties
are false, which the run `commands_in_place` shows.  In `PutTransferProofs` all
results but `AcceptedIsWhole`, the types and `RelayHeld` assume `Orderly`, which includes
the XDR codec, see there.

Each inductive invariant was first checked by TLC on the instance of its run.  What a
recursive function computes cannot be proved by the library's induction theorems here;
three devices take their place.  `LeastNat` (every set of numbers has a least element,
from the well-foundedness of the finite subsets) serves for induction in
`MemPoolProofs`.  `NatSet` and `SeqSet` in `TransportProofs` are the induction rules with
a set in the place of the predicate, from the least element of the set of exceptions.  In
`CommandsProofs` the number of items before each packet is not computed but claimed to
exist.

* `ThreadPoolProofs`: the inductive invariant puts each worker in one of four modes.
  `Idle`: no command is known to it and its mailbox holds what the launcher has filled in
  so far.  `Woken`: it has read the command byte and the launcher waits.  `Busy`: it has
  acknowledged, and `f`, `arg`, the locals and the call count follow its program counter.
  `Ahead`: it has even finished before the launcher read the acknowledgement.  The
  modes are needed because the guard alone says too little: it still reads `WAIT` after
  the command byte was taken.  `LauncherInv` and `HistoryInv` tie the launcher and
  the history to the modes.  From it follow the safety properties, the action property on
  cancellation and the refinement of `TaskPool`.  The modes also say that the launcher never
  blocks on a worker that blocks as well (`LauncherMoves`): between the command byte and
  the acknowledgement, and while the guard is not `WAIT`, the worker can take its next step.
* `RWLockProofs`: the invariant is `CntCountsHolders` with `LoadsAreSafe`: an exchange can
  succeed only from the value that was tested, so a stale load is harmless.
* `ChannelUpdateProofs`: `SocketInv` follows U through the replacement, `HandlerInv` says
  that until a refusal exactly the handlers that receive hold the lock, `PeerInv` ties
  task connections to their users: a connection is marked as used only while the handler
  that took it is at a point of its forwarding function, and the jumps of the four
  functions lead from such a point to another, or to the exit that clears the mark.

* `MemPoolProofs`: once `sftt_packet_serialize` has passed a block to `free()` an
  address can occur in several nodes.  The invariant says that the first node of an
  address is the one that counts: a free node, and the node of a block that a thread
  holds, is the first of its address and as large as the block there.  `OneHolder` says
  that threads do not share a block, `Books` that the counters are those of the list,
  with its total size as a sum from the end of the list, which `list_add` extends at the
  front.  `ThreadRight` gives the meaning of a thread's locals between two steps of
  `mp_realloc`, `get_mp_stat` and `get_mp_stat_detail`.
* `ReconnectProofs`: `Tokens` says where the one command is: nowhere, on its way on the
  client's socket, with the session handler, or answered on that socket; it needs that
  no other connection the session can come to read has anything in it.  `Quick` follows
  the sockets of both ends in the schedules where the waiting times suffice: at most the
  newest connection is yet to be taken over, and the one before is open until then.
* `CommandsProofs`: the command the client waits for is in one of seven phases (sent, in
  the middle of `cd`, one answer under way, a list under way, an empty output, forwarded,
  answered by nobody).  For a list, `Track` says that the packets under way lead from
  what the client has shown to what the sender has left, over both connections of a
  forwarded listing.  In each phase but the last somebody has a packet to read or to send
  (`AnswerArrives`); this needs in addition that a command not yet read is later than the
  one the relay is busy with (`Later`), and what the last phase says of the command.
* `PutTransferProofs`: comparing md5 values is not enough for `NoSilentCorruption`: the
  md5 could be that of another file of the list, or an accepted file could be written to
  again.  The invariant is about the requests under way on both hops, as one stream: its
  names come in the order of the list and an md5 directly follows the name of its file.
  So the receiver, wherever it is, compares a file with its own md5 or with something
  that is none, and never returns to a file it accepted.  The relay keeps the stream:
  it refuses a request only outside a transfer (`RelayRight`), when the stream is that
  one request.  Failing calls, negative and reversed sizes, non-blocking sockets and the
  announcement of a new port are all included.

  `PacketsUnderstood`, `AllStored` and the refinement of `FileCopy` need the two ends to
  stay in step, and so the hypothesis `Orderly`: a codec that leaves the object alone,
  blocking sockets, no port update, no failing call, and sizes that fit an `int` and are
  not positive multiples of the block size.  These are the conditions of `put_peer`. 
  Without them the ends do get out of step: `put_direct` shows `AllStored` violated on a
  non-blocking socket, and a file of whole blocks is followed by an empty block that is
  taken for a name.  `OrderlyInv` adds to the first invariant where everybody is
  (`InStep`): either the receiver waits for what the sender will send next (`Ready`), or
  one answer is under way that the sender waits for (`Answered`), or the requests under
  way form a `Chain`, consecutive blocks of one file and at most the name after its last
  one, that begins where the receiver is (`Expected`) and ends where the sender is
  (`Sent`).  In each case the receiver has exactly the entries before the one in hand
  (`Ordered`), which gives the refinement.  The relay is invisible here: requests and
  answers are taken over both hops.

  `RelayInv` makes the relay visible again.  `RelayWaits`: it waits for an answer
  exactly while the peer owes it one.  `RelayAt`: once the sender has ended, the last
  request, under way to the relay or the one it dealt with last, carries the stop mark,
  unless the last file was unchanged.  So nobody waits for somebody who waits
  (`PutMoves`), and the relay leaves `handle_fwd_put_req` if the last entry was sent
  (`RelayStops`).  If the last file is unchanged its md5 is the last request and carries
  no mark: `RelayStays` proves that the relay then waits for a request nobody will send,
  which is why `RelayReturns` is stated without that case.  In the default build no
  request ends the relay, whatever the list (`RelayHeld`).
* `TransportProofs`: by the tables of `Serialize` every XDR routine visits the fields of
  its struct in order and every raw decoder converts what its encoder did (`XdrTable`,
  `RawTable`, for arrays of any length), hence reading undoes writing on equal hosts
  (`RoundTrip`).  `ObjectAged` says which fields of the object are right by how often
  they were sent; that gives `ResentAlternate` for any number of sendings
  (`ResentHalfRight`), from the hypothesis that each encoder converts every field once. 
  TLC checks that for arrays of two; for any length it would need that the index strings
  of `ReqResp` differ, which nothing states of `ToString`.  `StreamRight` counts the
  bytes by the sender's place in the packet, `TakenRight` and `PlaceRight` by the
  receiver's.  The same counts show that full buffers and incomplete packets do not
  block both ends (`PacketsMove`); `ExitRight` adds that the receiver leaves its loop
  only when everything has arrived or the sender died.

  `LayoutsAgree` (theorem `CodecsAgree`) compares the raw routines with the output of
  their generator, which goes through a struct leaf by leaf, for every length of the
  two arrays of structs.  `FlattenIs` says what `FlattenSeq` computes; by induction
  on the sequence the output for a concatenation is the concatenation of the outputs
  (`EncodeConcat`), a nested struct is converted as it is alone (`EncodeSub`), and an
  array element after element (`EncodeArray`).  With one rule for each way a struct is
  put together (`Generated...`) these give the 49 structs (`RawLayouts`), then the
  entries of the two tables.

Only model-checked, and why:

* liveness under fairness (`LaunchReturns`, `DestroyEnds`, `SomeoneGetsIn`, `PutEnds`,
  `RelayReturns`, `Delivery`, `CommandReturns`, `AnswerOrEnd`): outside the prover's reach.
  What can go wrong is that everybody waits or that somebody goes round in circles.  The
  first is excluded for every size by `LauncherMoves`, `PutMoves`, `RelayStops`,
  `AnswerArrives` and `PacketsMove`; the second, and `SomeoneGetsIn` and `AnswerOrEnd`
  altogether, is left to TLC.

## Not modelled

* The get direction of the file transfer and its relay.  It has the hazards of put, and
  three more: the sender goes on after a file that failed while the receiver has given
  up; files may change between the size and the content; a read error makes the sender
  send empty blocks for ever.
* Broken connections during a transfer (`recv_sftt_packet` returns 0, which one of its
  callers takes for a packet).
* The single stores of `put_session`: `ChannelUpdate` gives a slot back in one step.
* Login, the connection manager of the client, and the command line.
* `mp_destroy`, which runs at exit, and the thread that writes statistics to a file.
* The logger (a System V queue to another process, with a rate limit), and start, stop
  and restart of the server through signals and shared memory.
* The containers, `sds`, the Huffman code, the cipher, MD5, option and path parsing:
  sequential functions of their input, for unit tests.
* The wrappers around SQLite, the file system and the terminal (I/O), test drivers and the
  other code generators.
