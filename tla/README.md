# lushan in TLA+

lushan is a key-value server that speaks the memcached text protocol. It serves
read-only dictionaries that are mounted and replaced while it runs, and calls
modules loaded from shared libraries. A transfer script sends new dictionaries
to the hosts, and a supervisor script on each host mounts them and keeps the
server running. This directory holds a model of it, the configurations TLC
checks it with, and theorems TLAPS proves about it. Paths below are relative to
the repository's root, so `src/hdict.c` is the C file.

## The system

| Component | State | Operations | Hard parts |
|---|---|---|---|
| dictionary table, `src/hdict.c` | open and close list, hash chains, reference counts, counters, one mutex | `hdb_reopen`, `hdb_close`, `hdb_ref`, `hdb_deref` by workers; `hdb_mgr` by its own thread | replacing what is being read, freeing outside the mutex, a batch of 100, races of opens |
| dictionary files, `src/hdict.c`, `tools/lushan_line_maker.cc` | `dat`, sorted `idx`, `bit` filter | writing; `hdict_open`, `hdict_seek`, `hdict_read` | word widths, boundaries, equal keys, filter and index of one size |
| connections, `src/lushan.c` | conn structures with a state machine, pool of closed ones, event registrations | `drive_machine`, `event_handler`, `notify_handler`, `conn_new`, `conn_close` by the I/O thread | partial reads and writes, pipelining, reuse of structures, events that must be registered exactly when needed |
| queues and workers, `src/lushan.c` | `REQ` with its condition variable, `RSP`, the notify pipe and its lock | `cq_push`, `cq_pop`, `cq_peek`, `worker` | a conn structure has no lock: its fields belong to whoever holds it; the pipe may be full |
| replies of `get` and `gets`, `src/lushan.c`, `src/lutil.c` | output buffer | packing, growing | slack for headers and END, failed reads |
| statistics, `src/lushan.c` | counters under `stats_lock`, `num_qry` without | counting, `stats`, `stats reset` | counts of one request at different times |
| modules, `src/hmod.c` | table like that of dictionaries, `dlopen` handles | `hmods_reopen`, `hmods_close`, `hmods_ref`, `hmods_deref`, `hmods_mgr` | what two versions of one library share |
| startup, `src/lushan.c` | | options, `open` and `dlopen` lines of the init file | a version that cannot be opened |
| supervisor, `bin/lushan.sh` | link directory, `choice.flg`, `done.flg`, upload directory, `lushan.work`, `lushan.stop` | restart, pick the newest upload, open it | stopped between any two commands |
| transfer, `transfer/bin/transfer.py` | temporary directory, lock file, flag files on the hosts | copy, flag | a failure between hosts, two runs at a time |
| redis proxy, `contrib/lproxy/lproxy.cc` | queue of connections to redis | redis first, then the dictionary | broken connections, the selected database |
| url, log, configuration, net helpers, echo module, other writers, llib, php page | | | see "Not modelled" |

They interact through calls and two queues. The I/O thread reads requests,
answers a few itself, and pushes the rest on `REQ`; a worker pops one, calls
the dictionary table (and the modules, which may call it too), fills the
connection's buffer, pushes it on `RSP` and writes a byte to the notify pipe,
which wakes the I/O thread to write the reply. The manager threads free
retired dictionaries and modules. Outside the process the transfer script
leaves dictionaries and flags in an upload directory, and the supervisor moves
them in place and sends `open`.

What makes the parts correct:

- tables: nothing freed is reachable; the counts are the readers; the open list
  and the chains agree; a number is never unavailable because it is replaced;
  what is retired is freed, but not before its readers are gone; a library is
  mapped as long as its code runs, and no longer than its modules
- files: a hit is the value of the key, a miss is its absence; no read outside
  the index; every search ends
- connections, queues, workers: one owner at each moment; a byte in the pipe
  for each reply in `RSP`; replies in the order of the requests; every request
  answered or its connection closed; pool and counters agree with what is open
- replies and statistics: no reply leaves its buffer; the counters add up
- proxy: connections are neither shared nor lost; an answer is for the number
  asked
- deployment: only complete versions are opened, newer ones replace older ones,
  a restart finds what was served, what is flagged is mounted

## Modules

| Module | What it is |
|---|---|
| `Lists` | unlinking from the sys/queue.h lists, as sequences |
| `Hdb` | the dictionary table |
| `MountTable` | what the table promises: the abstract specification `Hdb` implements |
| `HdbUninit` | `Hdb` as `hdb_init` really leaves it, with chain heads not initialised |
| `HdictSeek` | the line maker's files and `hdict_seek` |
| `Server` | connections, queues, notify pipe, workers |
| `Replies` | what a worker packs and counts |
| `Hmods` | the table of modules: extends `Hdb` with the libraries |
| `Lproxy` | the redis proxy: extends `Hmods` |
| `Supervisor` | `lushan.sh`, and the server's reading of its init file |
| `Transfer` | `transfer.py`: extends `Supervisor` through the upload directory |
| `MCHdb`, `MCHdbUninit`, `MCServer`, `MCReplies`, `MCLproxy`, `MCTransfer` | instances for TLC |
| `ListProofs` | what linking and unlinking do to the elements of a list |
| `HdbProofs` | the invariants of `Hdb`; `Hdb` implements `MountTable` |
| `HdictSeekProofs` | the search is right |
| `ServerProofs` | the invariants of `Server`; replies in the order of the requests |
| `RepliesProofs` | no reply overruns, `num_qry` is honest, the counters add up |
| `HmodsProofs` | `Hmods` implements `Hdb`; the invariants of the libraries |
| `LproxyProofs` | `Lproxy` implements `Hmods`; the invariants of the proxy |
| `DeployProofs` | the invariants of `Transfer` with `Supervisor` |

### Hdb

The variables have the names of the fields. A dictionary is the address
(`Handle`) of its `hdict_t`; `alive` is what is allocated, and addresses are
reused after a free, so a stale pointer would show. A worker is `ready`,
`opening` (between `hdict_open` and the lock in `hdb_reopen`, holding the
dictionary it made) or `using` (between `hdb_ref` and `hdb_deref`).

A critical section of a worker is straight-line code under `hdb->mutex`, hence
one step; `hdict_open`, which runs without it, is a step before.
`Mount` and `Replace` are the two outcomes of the loop in `hdb_reopen`. The
manager is finer: the unlocked look at the close list, the lock, one step per
element of the walk, the unlock, one step per `hdict_close`. Workers are kept
out while it walks (`MutexFree`). `next` is an index, which removing the
element at it leaves pointing at the following one, as the saved pointer does.

`hdb_info` only reads under the mutex and changes nothing. `randomkey` is a
`Ref` and a `Deref`.

### MountTable

Each number has a mounted version or none; readers pin what is mounted; a
version that leaves is retired and reclaimed when not pinned. `Hdb` maps to
it by `AllMounted` (what `hdb_ref` would find), `AllPinned`, `Opening` and
`AllRetired` (the close list and the manager's batch): a replacement is one
abstract step although three structures change, and freeing happens outside
the lock.

### HdictSeek

`ReadLine` and `WriteIdx` are the line maker; `Seek` starts a search, `Filter`,
`GoLeft`, `GoRight`, `Hit` and `Miss` are the statements of `hdict_seek`.
`WORD`, `OFFS` and `LENS` stand for 2^32, 2^40 and 2^24: `mid` is computed
modulo `WORD`, and a place in `dat` is packed in `pos` and unpacked. Equal keys
may be sorted in any order. The size of the filter is an `int` (`int`, `bit_num`):
with many lines (2^24 in the code) it is negative or zero and the line maker dies
(`WriteDies`), with more it is positive again and too small, and `hdict_open`, which
compares the size of the file with that of the index, does not take the filter
(`filtered`). `SeekAssumption` names what the code takes for granted: no more than
2^31 entries, or the sum in `mid` wraps, and values below 16 MB, or `pos` loses a
part of the length. That `dat` stays below `OFFS` is a bound in `ReadLine`. `hdict_read` is only what `Found` needs of it: whether
the bytes asked for are in `dat`.

### Server

| Variable | Code |
|---|---|
| `client` | the other end of a socket: `wire` is what is sent and not read yet, `eof` that it hung up |
| `conn` | the fields of a `conn`; `event` is what libevent has registered, `ev_flags` what the code believes; `answered` counts replies written, for the properties |
| `structs`, `freeconns`, `freetotal` | allocated structures and the pool |
| `io` | the I/O thread: in the event loop, in `drive_machine` for `c`, between `cq_push` and the end of `try_read_command` (`consume`), or between `read` and `cq_peek` in `notify_handler` (`peek`) |
| `REQ`, `RSP`, `pipe`, `notify_lock` | as in the code |
| `worker` | before the test in `cq_pop`, waiting in it, at work, before `cq_push(&RSP)`, before the lock, holding it |

A unit of input is a line, or for `gets` a header and a body; units arrive in
any grouping, so a read may end between any two. What the commands compute is
abstract here: a worker's `Work` stands for all of them and only says how the
reply gets into the buffer. `gets` appends at `wbytes`, the others start afresh.
The kinds are chosen for the paths they take: `get` and `stats` are forwarded,
`version` and the malformed ones are answered by the I/O thread, `gets_nomod`
names a module that is not mounted, `quit` closes, `stop` ends the process.
Frames of the binary port take the path of `get`.

Failures in the model: `event_add` and `event_del` failing, no memory for the
input buffer or the pool, the client hanging up at any time, a socket that takes
part of a reply or nothing, a pipe that is full, a request that waited too
long. `pthread_cond_signal` wakes one waiter; a woken worker competes with the
others for the queue.

`curr_conns` counts the two listeners, as the code does: `Accounting` says it is
2 plus what is open. `stats` prints it less one (`src/lushan.c:848`, `1338`,
`1345`), so it reports one client more than there are.

### Replies

Inside `Work` of `Server`: each worker fills the buffer of a connection of its
own, which `OneOwner` justifies. Lengths stand for contents. `Get` and
`NextToken` scan a request, `ReadNumQry` and `WriteNumQry` are the unlocked
`num_qry++`, `SeekHit`, `Pack`, `ReadFails` and `PackFails` the ways a record
gets into the reply or not, `lpack_ascii` what a module packs, `Footer` END, and
`StatsReset` comes between any two. `NewSize` is the rounding up to whole
buffers; growing may fail, and a size beyond `INT_MAX` is refused.
`lpack_header`, `lpack_append` and `lpack_footer` write in three calls what
`lpack_ascii` writes in one. `peak` is the end of the last write: an overrun
would leave it beyond `wsize`.

### Hmods

`src/hmod.c` repeats the lists, chains, counts and manager of `src/hdict.c`
function by function, so `Hmods` extends `Hdb`, and adds what is new: `dlopen`
maps a file once and counts who has it open (`dl`), a module has a `handle`,
and its `xdata` is what its open function made and its close function frees.
An open is four steps (`Calloc`, `Dlopen`, `OpenFun`, or `OpenError` from each)
before the table's lock.

### Lproxy

`hmodule_open` makes a context with an empty queue for the module being opened.
A worker between `hmods_ref` and `hmods_deref` runs `hmodule_handle`: it takes a
connection from the module's queue or makes one, selects the database, asks, gives
the connection back and, without an answer, asks the dictionary. There is one key;
what redis and the dictionaries have of it is a set of numbers. redis may
restart, which breaks every connection; a connection that met an error, and one
made in vain, stays broken, and hiredis keeps answering from the error.

### Supervisor

One dictionary number on one host. State is in the file system: directories
`none`, `part` or `whole`, flags, the link, `lushan.work` and `lushan.stop`.
Versions are numbered by the time of their `done.flg`, which `mv` and `rsync`
keep. Every command of the script that changes a file is a step; script and
server may die between any two, and inside `rm -fr`. The script removes
`lushan.work` when it ends (`End`); one that is killed leaves it, and nothing
starts again before the operator removes it (`OperatorCleans`). `Load` is the
server reading its init file. `mv` is a rename: both directories are on one
file system.

A death between `mv` (`bin/lushan.sh:126`) and `touch` (`:139`) leaves a
version that is flagged done in `HDB_PATH` and not chosen. It is not picked up by itself: the
next scan that finds an upload lists it along. An upload that was chosen before the death is found
by the next start. The script removes the old version even if the new one could
not be opened in all its tries; then the next start opens the new one.

### Transfer

One run for each version of one file. Runs share the file's temporary
directory and its lock. `HERE` is the host whose supervisor is modelled, the
others are copies and flags; a host in `Local` is written 127.0.0.1 and gets a
move instead of a copy. The result of that move is not looked at
(`transfer/bin/transfer.py:181`), and flags go to the other hosts all the same.
Everything may fail: hadoop, `rsync`, each copy, each flag. `AllCopiedFirst` is what
`README.md:173` says: no flag before all hosts have the version.
`RemoteCopiedFirst` is the part of it the code ensures, for the hosts that `rsync`
sends to.

A version is known by its run, and numbered as the runs start. The supervisor
numbers versions by the time of their `done.flg`; the two orders are one when runs
do not overlap. Properties that need the order are checked with `MaxRunning` 1;
that the supervisor alone goes forward is proved for flags that arrive in any
order.

How many runs are at work at a time is up to whoever schedules them
(`MaxRunning`): with two, not even `RemoteCopiedFirst` holds (see below).

## Runs

| Run | Bounds | What it shows |
|---|---|---|
| `hdb` | 3 addresses, 2 workers, numbers 1 and 3 in one bucket of 2, batch of 1 | all safety properties of the table, its inductive invariant, `RetiredFreed`, and `MountTable` with fairness |
| `hdb_uninit` | 2 addresses, 1 worker, one bad bucket | `Stable` fails |
| `seek` | up to 5 lines over 3 keys, filter of 2 bits a key, `WORD` 10 | correctness and end of the search, sizes of the filter that overflow |
| `server_safety` | 2 structures, 2 workers, 1 request a session, 2 sessions, all kinds | ownership, notify balance, pool and counters, and their inductive invariant; nothing unanswered when all threads are idle |
| `server_pipeline` | 1 structure, 2 pipelined requests a session, 2 sessions, replies in up to 2 writes | order of replies, clean hand-over; a request already buffered is served |
| `server_dropped` | 1 structure | `AlwaysHandedBack` fails |
| `replies` | buffer 16, slack 12, values of 0, 19 and 20 (the limit), `INT_MAX` 63, counters modulo 2, 2 and 1 tokens, 2 lookups | no overrun, room for END, counters |
| `modules` | 3 addresses, 2 workers, 1 library, 2 connections, numbers 0 to 2 of which 2 has no database, 1 restart of redis | libraries and connections outlive their users; answers |
| `redis` | 1 address, 2 workers, 2 connections, 1 restart | `RedisFirst` fails |
| `deploy` | 2 versions, 3 hosts of which one is local, 2 tries, 2 deaths, 1 run at a time | complete versions, forward only, restart, flags |
| `transfer_local` | 1 version, 2 hosts of which one is local, 1 run at a time | `AllCopiedFirst` fails |
| `transfer_overlap` | 2 versions, 2 hosts, 2 runs at a time | `AllCopiedFirst` fails |

Why the bounds are enough. Two workers make two concurrent opens of one
number, or an open while the other reads; three addresses let a number be
replaced while the version before is still read and a third is being opened; two
numbers in one bucket make a chain with a collision; with a batch of one it is
full before the close list is empty. In `seek`, `WORD` is exactly twice the
longest index, the tightest that the assumption allows; filters of up to two lines
fit the `int`, keys collide in them, and those of three, four and five lines are
negative and zero. A size that is positive again needs a longer index; the
theorems cover it. Two workers and two connections fill a pipe of one byte and find `REQ`
empty and full; `FreeTotal` 1 makes the pool overflow when both connections
close; the second session of a structure meets what the first left in it. In
`replies`, header, CRLF and END together are exactly the slack, values at the
limit make a reply grow twice, and `INT_MAX` is in reach. In `modules` the same
library is opened again while its module is in use and while it is being
freed, and both workers can be in the proxy when redis restarts. In `deploy`
the second version comes while the first is at any stage, and script and server
die one after the other or one of them twice.

The longest runs take one to three minutes: `modules` has 2.2 million distinct
states, `replies` 1.2 million, `seek` 0.6, `server_safety` half a million,
`deploy` 0.3. In `seek` deadlock is not checked: a line maker that has died stops.
Symmetry over addresses, connections, libraries and workers is used in safety
runs only.

### Fairness

- `Hdb`: the manager keeps running (`WF`). A worker finishes the command it is
  in, and it gets the mutex although the manager takes it again and again,
  because the manager sleeps a second between passes with the mutex free (`SF`).
- `HdictSeek`: the loop keeps running.
- `Server`: `drive_machine`, the notify handler and the workers keep running
  (`WF`); the event loop comes to a connection that stays ready (`WF`;
  libevent serves all that is ready in each round). A socket that is reported
  writable again and again takes bytes at last (`SF` of `WriteSome`): the client
  reads its replies. Nothing is assumed of clients otherwise: they need not
  send, nor hang up. `Answered` excludes connections that `gets_nomod` dropped
  and a server that was stopped. It is checked with one structure. That two
  connections and a full pipe make no thread wait for another for ever is checked
  as safety: `server_safety` looks for deadlocks, and `NothingStuck` says that when
  every thread is idle, all that was sent is answered.
- `Supervisor`: the script goes on to its next command, since each returns and
  the waits have a limit, and the server loads its init file (`WF` of both).
  Transfers need not go on at all, and nothing has to die.

## What the violated properties say

- `Stable`: `hdb_init` (`src/hdict.c:270`) initialises a local array that hides
  `hdb->htab`, and `main` keeps `hdb` on its stack. Whether the heads are NULL is
  up to what the stack held. `HdbUninit` lets a head be garbage and the first
  lookup of a number that is not mounted follow it. The rest of the project
  describes the table as initialised. `hmods_init` has the same lines.
- `AlwaysHandedBack`: a `gets` for a module that is not mounted leaves the
  worker's loop with `continue` (`src/lushan.c:972`). The connection is then
  registered nowhere; its client waits for ever and the structure is lost.
  `OnlyModuleMissLoses` shows that this is the only way to lose one.
- `RedisFirst`: `README.md:68` says that a request asks redis first and is
  answered from there if redis has the key. A connection whose command failed, or
  that could not be made, goes back to the queue (`contrib/lproxy/lproxy.cc:202`),
  and every request that takes it later is answered from the dictionary, though
  redis is up.
  `GoodConnectionFirst` shows that this is the only reason.
- `AllCopiedFirst` in `transfer_local`: `README.md:173` says that `done.flg` is
  sent to each replica when all copies have been made. The copy for 127.0.0.1 is a
  move whose result is not looked at (`transfer/bin/transfer.py:181`): it fails, and
  the other hosts get their flag while this one has nothing.
- `AllCopiedFirst` in `transfer_overlap`, where no host is local: a run empties the
  temporary directory (`transfer/bin/transfer.py:97`) before it asks for the lock,
  so a second run takes away what the first is sending, which then flags copies of
  an emptied directory. With one run at a time `RemoteCopiedFirst` holds (`deploy`):
  the local move and overlapping runs are the only reasons.

## Proofs

Proved for all values of the constants, from the assumptions named in the
modules: `HdbAssumption` (numbers are naturals, finitely many workers, at least one
bucket, a batch of at least one), `HmodsAssumption` (finitely many addresses),
`LproxyAssumption` (what redis holds is in its databases), `SeekAssumption`,
`ServerAssumption` (finitely many connections and workers, positive sizes),
`RepliesAssumption` (finitely many workers, a header with CRLF and END fits in the
slack, a line in the first buffer), `SupervisorAssumption` and `TransferAssumption`
(the bounds are naturals, and the host whose supervisor is modelled is a remote
one). `DeployProofs` says in each theorem whether it takes runs of `transfer.py`
to be one at a time. `SeekAssumption` says nothing of the filter's size, which may
overflow.

`HdbProofs`: `IInv` is inductive. The properties alone are not: that a freed
dictionary is not reachable needs that whatever the manager takes has no reader
(`RefExact`), which needs that readers are only on linked dictionaries
(`WorkersOK`), that a dictionary is in one place at a time (`OwnedOnce`), and,
because `hdb_ref` searches chains and `hdb_close` the list, that these agree
(`ChainsMatch`, `OnePerId`). There is one lemma per action that changes the
table. Theorems: `InductiveInvariant`, and from it each invariant of the run
`hdb` (`NoUseAfterFreeHolds`, `OwnedOnceHolds`, `RefExactHolds`,
`ChainsMatchHolds`, `OnePerIdHolds`, `CountsExactHolds`, `BatchFitsHolds`) and
`RetiredOnlyDrainsHolds`.

For the refinement, each action is a step of `MountTable` or leaves its variables
alone; what is mounted is the chain entry, which the invariant makes unique.
Theorems: `ImplementsTableSafety`, and `OnlyCloseUnmountsHolds` from it.

`HdictSeekProofs`: `SeekInv` says that the files match the source, and that all
entries left of `low` are smaller and all from `high` on are greater than the
key, and that a filter that is taken, its size as an `int`, has a bit for each key.
With the assumption on the size the sum never wraps, so `mid` is inside.
`ValuesInside` adds that each value lies in `dat`, so that what a hit returns can
be read. That `pos` unpacks to what was packed is a lemma of its own. Theorems:
`SeekInvariant`, `ProbeInsideHolds`, `FoundHolds`.

`ServerProofs`: the places a connection can be in are the event loop,
`drive_machine`, `consume`, the two queues and each worker, as sets `Apart` and
`Owned`; every step moves one connection from one place to another. `IInv` adds
to `OneOwner`, `OnlyModuleMissLoses`, `NotifyBalance` and `Accounting` what they
rest on: a thread has a connection in hand exactly at the steps that use it, and
the command it gave away is still whole in the buffer (`HandsFull`); `ev_flags`
is what libevent has, unless the connection is closing (`FlagsTrue`: without it
`update_event` would skip a registration and lose the connection); what is to be
closed is closed before anything else (`ClosesAtOnce`). The steps of
`drive_machine` that keep their connection share one lemma (`Serves`).
`OrderInv` adds that what an open connection has in its buffer and on its wire
follows, one request after the other, the one it is at: that carries
`RepliesInOrder` and `CleanHandoff`. `NotStuck` adds that a queue with requests
has a worker that does not wait, that a connection registered for reading has no
whole request in its buffer, and that one that was given away is not registered.
When every thread is idle the queues are empty by `Awake` and `NotifyBalance`, an
open connection is registered by `OnlyModuleMissLoses`, nothing of it is in the
buffer or on the wire, and by `OrderInv` the request it is at is the last one sent.
Theorems: `ServerInvariant` and one for each of the four properties,
`OrderInvariant`, `RepliesInOrderHolds`, `CleanHandoffHolds` and, with at least
one worker, `NothingStuckHolds`.

`RepliesProofs`: the arithmetic of `NewSize` (the lemma that rounding up gives
room) carries `RoomForEnd`, and that carries `NoOverrun`; nothing bounds the
number of records or their lengths but `INT_MAX`. `StatsAddUp` compares counters
that wrap round; `StatsInv` says the same as a difference that is a multiple of
`WORD`, which every step that counts carries along (`IncSame`), and `SameMod` turns
it back. Theorems: `RoomForEndHolds`, `NoOverrunHolds`, `NumQryHonestHolds`,
`StatsAddUpHolds`.

`HmodsProofs`: with the loader's variables left out, each action is one of
`Hdb` (`HmodsImplementsTable`), so the invariants of the table come from
`HdbProofs`; `LoaderInvariant` adds which module is at which stage. That the
count of `dlopen` is the number of holders is a fact about cardinalities, used
step by step. Theorems: those two, `ModuleUsableHolds`, `LibrariesCountedHolds`.

`LproxyProofs`: in the same way `LproxyImplementsHmods`, hence `ProxyUsable` and
`ProxyLibrariesCounted`. `ProxyInv` says where a worker is in `hmodule_handle`
and what it holds there (`ControlInv`), who has each connection (`OwnedInv`), and
what an answer already given or being fetched is worth (`AnswerInv`: a worker
past `SELECT` has its number selected, unless redis refused it or the
connection is broken). Theorems: `ProxyInvariant`, `ConnectionsOwnedHolds`,
`AnswersItsNumberHolds`, `GoodConnectionFirstHolds`, and `ProxyKeepsTable`, which
puts the refinements together: the modules' table under the proxy implements
`MountTable`.

`DeployProofs`: `ScriptInv` says which version the script has in hand at each of
its commands and that everything it left behind is older than what comes next;
`OnlyForward` follows. Both are theorems about the supervisor alone, with
`Uploading` beside its steps: the upload directory may change in any way at any
time, so nothing is said about who flags a version or when it arrives. To the
composition with `Transfer` they carry over because each step of a run is such a
change (`DeployStep`). The other theorems need that a flagged
version is whole until a newer one that is whole makes it obsolete (`ListedWhole`
with `NewerWhole`). `WholeInv` adds what that rests on: runs are at work in the
order of their versions (`RunsInOrder`), a version that is not flagged yet is
flagged nowhere on the host (`FlaggedOnce`), and what a run sends, and has sent,
is whole (`SendsWhole`). Theorems: `ScriptInvariant` and `OnlyForwardHolds` for any uploads;
`WholeInvariant`, `OpensWholeHolds`, `RemoteCopiedFirstHolds` and
`RestartKeepsUpHolds` if `MaxRunning = 1`. That hypothesis is about whoever
schedules `transfer.py`, not about this code, and cannot be left out:
`transfer_overlap` refutes the copies' order without it. The newest of a listing is
`Max` of a set of versions; that it is one of them (`MaxInside`) follows
from the inclusion order on subsets of a finite set, which is well founded:
induction over the bound is out of the prover's reach.

Every invariant and every action property that a passing run checks is a theorem.
Only model-checked is what the prover does not do, liveness under fairness:
`RetiredFreed`, the fairness of `ImplementsTable`, `SeekEnds`, `Answered`,
`ServedAgain` and `FlaggedIsChosen`.

## Not modelled

- `hdict_open` reading its files (`HdictOpenFail` stands for all its failures),
  `hdict_randomkey` and the meta file, which only read. A line maker that fails
  stops and reports it; what it has written by then is not looked at again.
- Lengths in a `gets` header that are negative: `parse_gets_header` tests the upper
  limit only (`src/lushan.c:332`).
- The layout of the binary protocol's replies; framing is in `Server`.
- `hdb_info` and `hmods_info`, which only read under the mutex; the counters
  `timeouts` and `ialloc_failed`, single increments of one thread.
- Option parsing, daemon mode and the failures of `main` before the event loop,
  each of which ends the server (`Init` of `Server` is what it has set up when it
  gets there). Strictness (`-s`, documented in
  the usage text at `src/lushan.c:1111`) cannot be switched on: `getopt` is not told of it.
- Two supervisor scripts started at once: they test `lushan.work` and then touch
  it.
- `bin/lushan.sh` and `transfer.py` as to their configuration and their calls of
  hadoop, `rsync` and `ssh`, which succeed, fail or stop half-way in the model.
- `src/url.c`, `src/lnet.c`, `src/lconf.c`, the echo module and the php page:
  sequential input or output without state. `src/llog.c`: rotation is one
  rename under a mutex, and no other component depends on it.
- `contrib/llib` (the server does not use it, and a part is third-party code) and
  the other writers of the file format, in Python and Java.

Hazards that no property covers, each at the limit of what a model can say of
it: values past the file format's limit in the line maker
(`tools/lushan_line_maker.cc:100`, excluded by `SeekAssumption`), failed library
calls in `hdict_open` (`src/hdict.c:150`), and a failed read that is answered with an
unfilled buffer (`src/lutil.c:91`).
