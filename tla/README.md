# A verification development for miniftpd

TLA+ models of miniftpd (`src/miniftpd`, an FTP server in C), the TLC runs that
check them on small instances, and TLAPS proofs. There is no separate
documentation in the repository: the reference is the code, its comments, its
assertions and `ftp.conf`. Line numbers below are those of `src/miniftpd`.

## 1. Inventory

| Part | Files | State it keeps | Operations | Status |
|---|---|---|---|---|
| Listener | `main.c`, `ftp_assist.c`, `accept_timeout` | `clientcount`, `num_of_clients`, `ip_to_clients`, `pid_to_ip`, one `session_t`, `errno` | accept, count, fork, register; `handle_sigchld`; the child's `limit_num_clients` | modelled (`Server`) |
| Hash table | `hash.c` | array of buckets, doubly linked nodes | add, lookup, update through a pointer, free, clear | modelled (`HashTable`, `AssocMap`) |
| Session | `session.c`, `ftp_proto.c`, `ftp_nobody.c`, `priv_sock.c`, `priv_command.c`, part of `trans_data.c` and `command_map.c` | `p_addr`, `listen_fd`, `data_fd`, the socketpair | command loop of proto, request loop of nobody, PORT and PASV set-up, hand-over of the data connection | modelled (`Session`) |
| Timers | `trans_ctrl.c` | installed SIGALRM handler, running alarm, `is_translating_data`; start of the current interval | install, arm, the two handlers; `limit_curr_rate` | modelled (`Session`, `RateLimit`) |
| Transfer | `trans_data.c:336-614` | file offset, `nleft`, `restart_pos`, record locks, the files themselves | `upload_file`, `download_file` | modelled (`Transfer`; connection and clean-up in `Session`) |
| Control commands | `command_map.c` | `user_uid`, ids and working directory of the process, `rnfr_name`, the directory tree | the 41 command names of `ctrl_cmds` and their replies | modelled (`Control`; PORT, PASV and the data connection in `Session`, REST in `Transfer`) |
| I/O helpers | `sysutil.c` | none | `readline`, `readn`, `writen`, timeouts, locks, `send_fd` | partly: `readline` in `CommandLine`, locks in `Transfer`, the others by their effect where the models call them |
| Strings | `strutil.c` | none | trim, split, upper case, numbers | partly (`CommandLine`, `Config`) |
| Configuration | `parse_conf.c`, `configure.c` | the `tunable_*` values | read `ftp.conf` | modelled (`Config`); the other models take tunables as CONSTANTS |
| Directory listing | `trans_data.c:54-226` | a static buffer | LIST, NLST | partly: the loop in `Control`, the buffer in `Listing`, the connection in `Session`; the layout is not modelled |
| `test_ls.c`, `ftp_nodoby.c`, headers, Makefile | | | | not part of the program, or nothing to model |

How they interact. The listener forks one process per client, which checks the
limits on its copy of the counters and then forks again: the parent becomes
**nobody**, which keeps the right to bind port 20, the child becomes **proto**,
which talks to the client. They share a socketpair. The listener only hears of a
client again when nobody exits: SIGCHLD runs `handle_sigchld`, which takes the
counters down through the two hash tables. nobody has inherited that handler.
SIGALRM interrupts proto to end idle sessions. Sessions share the file system
and nothing else: directories without any lock, files under record locks.

Which behaviour is hard. The signal handlers share unprotected state with the
code they interrupt: counters, hash lists, `errno`, session flags. Two
processes per session can each die at any step of a protocol without framing.
All sessions compete for one data port. `PROJECT.json` lists the hazards at
their lines with the properties that watch them.

What would make each part correct; where the code falls short of it, section 5
says how:

- Listener: counters that are never below the truth, limits that hold although
  each child decides on a copy, no forgotten zombie, no failed assertion.
- Hash table: it is a map, at every moment at which the handler can look at it,
  and freed memory is not used.
- Session: the two ends always agree on what comes next in the socketpair,
  nothing of one command is left for the next, no process outlives the other,
  the data port comes back, every request ends.
- Timers: a transfer in progress is not cut, an idle session and an idle
  transfer are; a limited transfer is never ahead of its rate.
- Transfer: whatever other sessions do to the same names and files, an upload is
  alone at the end of its file and a download delivers what the file held when
  it began; no lock outlives its transfer; "complete" means complete, as far as
  the `int` that counts the bytes can tell.
- Control: one final reply per command; of the calls whose failure ends the
  session, those that depend on what the command itself has just done or read
  (`lstat` of a listed entry, `getcwd` after `mkdir`) fail only for what another
  session did meanwhile. Other failures do end a session for what it did itself:
  a missing home, an unreadable directory, RETR of a missing file, a path too
  long for `tmp[1024]`.
- Helpers: the command executed is the line read, however it arrived, if its
  words fit their fields; each tunable has the value its last line denotes.

## 2. Modules

### Server

One process with two flows of control. The variable `pc` is the next step of
the accept loop (`server_begin`), `inHandler` says that `handle_sigchld` runs; a
handler starts between any two main steps and main steps wait until it is over.
`++num_of_clients` and the update in `add_ip_to_hash` are a load into `reg` and
a store, because the handler can run between them. `handle_sigchld` cannot be
interrupted by the main flow, so one turn of its loop (`Reap`) is one step.
`child` holds the forked processes with the copy of `curr_clients` and
`curr_ip_clients` they were forked with and how far they are (`limit`,
`session`, refused, `zombie`). The hash tables are partial functions here.

| Actions | Code |
|---|---|
| `AcceptClient`, `AcceptFails`, `AfterEintr` | `accept_timeout`, with the `errno == EINTR` retry and `addr` left alone on failure |
| `AddLoad`, `AddStore`, `IpNew`, `IpLoad`, `IpStore` | `add_clients_to_hash`, `add_ip_to_hash` (before the timeout test, as in `main.c:69`) |
| `NoClient`, `CountClient` | the test of `peerfd` and `errno`, `++clientcount` |
| `Fork`, `ForkFails`, `Register` | `main.c:79-94` |
| `Deliver`, `Reap`, `HandlerReturns` | SIGCHLD and `handle_sigchld` |
| `Limit`, `Exit` | `limit_num_clients` and the end of the child |

A pid can be used again once it has been waited for. An accept is taken only
while every counter is below `CountBound` (the bound of the model); below it no
unsigned increment wraps, which is all the proofs use it for.

### AssocMap and HashTable

`AssocMap` is the promise of `hash.h`: a map, in which an added key hides an
older value. `HashTable` has the array of buckets, a heap of nodes, and
`hash_add_entry` cut at each access of shared memory: the test of `*buck`, the
read of `head`, the three stores. The handler's operations are single steps.
`FreeInterrupts` tells the two uses apart: the handler reads and updates
`ip_to_clients` (FALSE), and also frees entries of `pid_to_ip` (TRUE). `broken`
is set when freed memory is used; nothing happens afterwards. The refinement
maps `map[k]` to the values of `k` along its bucket, so an add takes effect at
the one store that links the node.

With `FreeInterrupts = TRUE` the code has a flaw: the handler can free the first
node of the very bucket that is being extended, which the add has read as
`head` (two pids that are equal modulo 256). The model takes these steps, and
the properties say what becomes of the table. If it happens before
`head->prev = node`, the add writes to the freed node, or through NULL when the
bucket was emptied. If it happens after it, the handler takes the new node for
the previous one of the node it frees: the rest of the list hangs on to the new
node, and the bucket's pointer dangles until `*buck = node` makes all well
again, unless a lookup follows it first. `First(b)` is the first node in this
sense. `NoFreedUse` says that freed memory is used in this situation
(`HeadGone`) only, `ListsSound` that no other pointer dangles, and
`ImplementsMap` holds up to the use of freed memory. `MCHashTable` has
`CallerSpec`, in which no key is added twice, as the two callers in
`ftp_assist.c` see to it.

### Session

proto and nobody are two program counters per session. The socketpair is a
queue in each direction of messages with a kind (a command, a string, an int, a
result byte, a descriptor): the kind is what the reader must expect, because the
stream has no framing of its own. Each `priv_sock_send_*` and `recv_*` between
two waits is a step; consecutive sends with nothing in between are one.
`dataFd`, `pAddr`, `isTrans`, `handler`, `alarm` and `listening` are the fields
and timers of the code. SIGALRM (`Alarm`) interrupts proto before any step.
A process that is gone reads as end of stream, and kills a writer (SIGPIPE is
not ignored, `main.c:41`). `PortBusy` is the rule of `bind` with SO_REUSEADDR:
it fails while some socket listens on the port.

The client chooses every command, every connection and every stall. Commands
that change nothing here are one command, NOOP. NLST is a LIST, APPE a STOR.

Assumed: `setegid`, `seteuid` and `capset` in nobody succeed, so does
`get_local_ip`; SIGCHLD reaches nobody only for its own child; the pid of proto
does not happen to be a stale key of the inherited `pid_to_ip`.

### Contents, FileStore and Transfer

`Contents` has the effect of `ftruncate`, `write` and `read` on a sequence of
bytes. `FileStore` is the promise: one `put` per file at a time, alone, only
appending; a `get` hands out, piece by piece, what the file held when the get
began. `Transfer` is the code: several proto processes on names (`dir`), inodes
(`content`) and record locks. An open file keeps its inode although its name is
deleted, renamed or given to a new file.

| Actions | Code |
|---|---|
| `OpenUpload`, `LockWrite`, `PlaceDevice`, `Place`, `Receive`, `EndUpload` | `upload_file`: `open(O_CREAT)`, `F_SETLK`, the test for a regular file and its early return, truncation and offset, the loop, unlock |
| `OpenDownload`, `LockRead`, `Stat`, `SendByte`, `SendFails`, `CloseDownload` | `download_file`: `F_SETLKW`, `fstat` and `lseek`, the `sendfile` loop with its `int nleft`, unlock |
| `Rest`, `Delete`, `Rename` | `do_rest`, `do_dele`, `do_rnto` |
| `Die` | ERR_EXIT, a signal, QUIT: the kernel releases the locks |

The loops move one byte per step, since `read`, `write` and `sendfile` may all
be partial. `ToInt` is the conversion to `int`, with `IntMod` in the place of
2^32. `Job` maps a session to what `FileStore` knows of it.

### Control

The replies and the directory tree, with several sessions on one tree. A handler
is one step unless another session can be noticed inside it: between `mkdir` and
`getcwd` of `do_mkd` (`MkdGetcwd`), and before each `lstat` of a listing
(`ListEntry`). `due` counts the final replies (all but 1xx) a client still waits
for, `disturbed` that another session has changed the tree since the present
command began; both are history. The working directory is the path of directories
from the top, because it can be removed under the process. `Reply` is a command
that changes nothing, `End` one that ends the session; the other actions
carry the names of their handlers. How a session ended is kept in `pc`: `quit`,
`data` (no data connection), `crash` (`strcmp` of the NULL that `crypt` returns
for a locked account), or the call before ERR_EXIT (`Errors`). Of these `chdir`,
`opendir`, `fstat` and `lseek` may fail at any time; `lstat` and `getcwd` fail
with the tree. `getcwd` into `tmp[1024]` also fails when the path is too long,
which it is below a name of `LongNames`. A path
is a single name relative to the working directory (or an absolute one in
`Mkd`). `Wanted` is the number of final replies a handler has by its own text: one,
but none for the handlers with an empty body, and two for RETR of something that
is no regular file, where `download_file` answers 550 and goes on. Of PASS it
matters that only root can read the shadow passwords (`ReadsShadow`), which is a
fact of the environment; whether a password is right is its choice.

### CommandLine, RateLimit, Listing, Config

Four small machines that share nothing; `MCHelpers` runs one of them per behaviour.

- `CommandLine`: `readline` over the peeked stream of a client whose bytes
  arrive in any portions, `str_trim_crlf`, `str_split` with the `strncpy` that
  writes no end, the search of `ctrl_cmds`, `clean_command`. `comm` and `args`
  have `MaxField` bytes each, one behind the other, and `str_split` copies into
  them without a bound: a word of `MaxField` bytes or more runs on into `args`,
  and arguments of that length end in `overrun`, where the fields of `session_t`
  behind `args` have been overwritten and the model stops.
- `RateLimit`: `limit_curr_rate` with `nano_sleep`. A tick is the time one byte
  takes at the configured rate; the clock can be set back at any moment. A
  download (`Download`) leaves its loop after the block that makes `nleft` 0
  without a call of `limit_curr_rate` (`trans_data.c:581`): `last`.
- `Listing`: `statbuf_get_perms` and the static buffer it never resets.
- `Config`: `parseconf_load_file` and `parseconf_load_setting`, with the decimal
  or octal reading of numbers into an `unsigned`; a decimal one saturates at
  `LongMax`. A value of `MaxValue` (128) bytes overruns its buffer: `overrun`.

## 3. Runs

| Run | Instance | Shows |
|---|---|---|
| `server` | 3 pids, 3 addresses, max_clients 2, max_per_ip 1, counters up to 3 | `NeverUndercounts`, `PerIpLimit`, `ClientLimit`, `CountFound`, `NoZombieForgotten`, types; `ZombiesReaped` under fairness of the handler |
| `hash` | 3 keys in 2 buckets, 3 nodes, a handler that frees any entry at any point of an add | `ListsSound`, `NoFreedUse`, types; `ImplementsMap`: every step is one of `AssocMap` or a stutter |
| `session` | 2 sessions, all timers on, every failure, symmetric | `FramesMatch`, `Quiescent`, `NoHalfSession`, `DataFdReleased`, `FileNotTimedOut`, types |
| `session_live` | 1 session, idle timer only, accept without a timeout, fair | `HandshakeEnds`, `PortFreed` |
| `transfer` | 2 sessions, 2 names, 2 inodes, 1 device, files up to 4 bytes, REST -1 or 1, an `int` of 3 values, symmetric | `NoLockLeft`, `WriterAlone`, `CompleteIsWhole`, `RemainingExact`, types; `ImplementsStore`: the transfers are a `FileStore` |
| `control` | 2 sessions, root as the only account, 2 names (one too long for `getcwd`), 2 directories, 1 file, symmetric | `OneAnswer`, types; `FailsByOthers`: no `lstat` or `getcwd` fails but for what another session did, or a long path |
| `helpers` | lines of 5 bytes in streams of 6, fields of 3; a download in portions of 1, 2, 4 in 0, 1 or 3 ticks, begun until 8 bytes are moved; 72 modes; files of 3 lines | `StreamCut`, `CommandIsLine`, `RateKept`, `ShowsAll`, `LastSettingWins` |
| `server_race` | 2 pids | `PidFound` fails: fork, exit, SIGCHLD, before `add_pid_ip_to_hash` |
| `server_full` | max_clients 1 | `FullMeansFull` fails: the second client is refused after the first has left |
| `server_errno` | 2 pids | `OnlyErrorsStop` fails: the handler's ECHILD replaces ETIMEDOUT |
| `session_idle` | 1 session, fair | `IdleSessionDropped` fails after a refused upload |
| `transfer_rest` | 1 session, files up to 2 bytes, fair | `EveryDownloadEnds` fails after REST: `nleft` counts from the size, not from the offset |

Why the bounds are enough. In `server`, three processes of three addresses are
one more than the larger limit, three of one address two more than the smaller;
there is room for a lost update while two children exit together, for a leaked
count followed by a client of the same address, and for a pid that is used
again. In `hash`, two of three keys collide, so a list has a first, a middle and
a last node, and a third node comes while one is being added; every node can be
recycled, and each of them freed at each point of an add. In `session`, two
sessions are what it takes to compete for the port;
within one session the protocol carries one request at a time (`Quiescent`
itself), so queues never exceed one request. `session_live` has one session:
another one can only make `bind` fail, which a second PASV of the same session
and a failing `connect` do as well. In `transfer`, a conflict takes two
sessions; two names and two inodes let a file be deleted, replaced or renamed
away under a transfer that goes on, and let its inode be used again; four bytes
are more than an offset of 1 and more than the three values of an `int`, so
that a download of four bytes ends after one with 226, as one of 2^32+1 bytes
does: `CompleteIsWhole` says which sizes are safe.
In `control`, two directories can be one inside the other, and both be removed
while a session works there. Another account than root would only lose steps
(a second PASS) and could reach no other tree, directory or reply. In `helpers`, a stream of six bytes is longer than
a line and holds several; a line has room for a word and for arguments of more
than a field of three. `UintMod` 64 is below the values 75 and octal 143 (99),
`LongMax` 127 below 200, and one value fills its buffer. The proofs of
section 4 cover every size of all of these but `session_live` and the liveness
of `server`.

Most runs take seconds (`hash` has 47 899 states, `control` 91 428); `transfer`,
with 1.1 million states, takes about two minutes.

Fairness. `Server!FairSpec`: the kernel delivers a pending SIGCHLD and a
running handler goes on. `Session!FairSpec`: each process that can take a step
by itself is scheduled, an alarm that runs goes off, `connect` returns, and so
does `accept` when it has a timeout. Nothing is assumed of the client, nor of a
read lock held by somebody else, so the `Open*`, `Finish*` and `Accepted`
actions have no fairness. `PortFreed` needs SIGCHLD in nobody: with no accept
timeout it is the (aborting) handler that ends it. `HandshakeEnds` must hold
without the alarm too: after a refused upload, with `connect_timeout` 0, the
installed handler does nothing. It leaves out a failing `getsockname`:
`privop_pasv_listen` then answers nothing, and only an idle alarm can end
proto's wait. `Transfer!FairSpec`: the loop of a download goes on while the
client reads; even so it does not end, which is what `transfer_rest` shows.

The runs that are expected to fail use the smallest instance that shows it.
Deadlock is checked nowhere, because each system may stop: a listener is dead or
at its bound, a session ends, a file is read to its end, and nothing is said of
a table after freed memory was used. That they get on is what the liveness
properties are for.

## 4. Proofs

Each component has its proofs in a module of its own. In all of them an
inductive invariant `IInv` is stated, shown to hold initially and to be
preserved action by action, and the properties follow from it. Constants are
arbitrary up to the named assumption of the module.

**`ServerProofs`** (`ServerAssumption`: the pids are finite, the tunables are
naturals, `CountBound` does not exceed the largest unsigned): `TypeCorrect`,
`CountsEnough`, `PerIpLimited`, `ClientsLimited`, `CountAlwaysFound`,
`NoneForgotten`. None of them is inductive. `IInv` adds:

- `NumInv`, `IpInv`: the counters cover the children *and* the client whose
  increment is done but whose process is not forked yet; while an increment is
  between load and store, the register is at least the counter. Hence a
  decrement of the handler in between is lost upwards, never downwards.
- `PidInv`: a key of `pid_to_ip` is an unreaped child with its own address, so
  the handler takes down the count the child belongs to, which is positive by
  `IpInv`. This is `CountFound`.
- `IpRank`, `NumRank`: of the children of an address at most `k` were told a
  count up to `k`. A new child is told a count larger than the number of
  children there are (by `IpInv`, and `clientcount` never decreases), so it adds
  to the set only for `k` above that number. With `k` the limit and `Admitted`
  (a session was told a count within the limits) this gives both limits.

There is one lemma per kind of step: `QuietStep` (nothing forked or reaped),
`ForkStep`, `ReapStep`, `StageStep`. `FiniteKids`, `AddedKid` and `DroppedKid`
give the sizes of the sets.

**`SessionProofs`** (`SessionAssumption`: the tunables are booleans), for any
set of sessions and any setting of the timers: `TypeCorrect`, `FramesAgree`,
`ExchangeOver`, `NeverHalf`, `ConnectionClosed`, `TransferUncut`. What one end
may read next depends on where the other end is and on what is still in both
queues, so the invariant `Protocol` enumerates the joint positions: both
processes alive (`Both`), nobody gone first, proto gone first, both gone; in the
last three the queues say how much of the exchange was under way. `Flags` ties
`data_fd`, `is_translating_data` and the installed handler to proto's position.
A step of one session leaves the others alone, so each action is proved for one
session.

**`TransferProofs`** (`TransferAssumption`: names, regular files and devices are
told apart, lengths are naturals), for any number of sessions, files, names, any
REST arguments and any width of an `int`: `TypeCorrect`, `LocksReturned`,
`UploadAlone`, `DownloadWhole` (what was sent is the size of the file up to a
multiple of the values of an `int`), `Remaining`, and `StoreImplemented`, the
refinement of `FileStore`. `LockInv` says that a session between its lock and
its unlock holds the record lock of the inode it has open, and that a write lock
excludes every other lock; from it nobody changes the contents under a
download, which is what `ReaderCounts` (`nleft` is the size less what was sent,
as an `int`) and the refinement need. `WriterAtEnd` makes an upload an append,
and `Bounded` makes the truncation one that `FileStore` allows.

**`ControlProofs`** (`ControlAssumption`: nodes and accounts are told apart):
`TypeCorrect`, `AnswersInStep`, and `FailsDisturbed`, which is the action
property `FailsByOthers`. `Owes` is `OneAnswer` with what is due in the middle of
a command; `Finds` says that what a command has found in the tree is still there
unless `disturbed`.

**`HashTableProofs`** (`HashAssumption`: keys are naturals, there is a bucket,
NULL is no node), for any keys, values, nodes and number of buckets, and for a
handler that may free any entry at any point of an add: `TypeCorrect`,
`ListsStaySound`, `NothingFreedUsed` and `TableImplemented`. `ReadersHarmless`
says more of `ip_to_clients`, where `FreeInterrupts` is FALSE: `head` is the
first node (`HeadIsFirst`), and freed memory is never used. `ListsSound` is not
inductive. `AddInv` adds what an interrupted `hash_add_entry` knows: its node is
allocated and unreachable, `node->next` is `head` or what a free of `head` has
left, and the bucket is still empty or not as tested. `FirstPrev` adds that a
first node has no previous one, unless it already points back to the node about
to be linked. A step leads from `IInv` to `IInv`, or, when freed memory is used,
to `Frozen`, in which `HeadGone` says why, and where nothing moves any more;
`IInv \/ Frozen` is what is inductive. The handler's `hash_free_entry` finds both
neighbours allocated, or NULL, at every point of an add (`FreeFinds`), and
`FreeStep` shows that it leaves sound lists in the sense of `First`.

The walks of the code (`NodeOf`) and of the refinement mapping (`Stack`) are
recursive functions. `ListsSound` has no cycle in a form to reason with: every
non-empty set of linked nodes has a member whose `next` is outside. A fact about
a walk is then proved by looking at the set of nodes where it fails
(`WalkFinds`, `NodeOfValues`), and each operation by what it does to the values
along a bucket: `LinkAdds`, `UpdateReplaces`, `FreeTakes`, `StackKept`, and
`BreakHides` for the step that uses freed memory. `MapStep`
puts them together.

**`RecursionLemmas`** holds what these and the next two modules share:
the lemmas `RecursionDefines` (a recursion along a function that leads out of a
set defines a function), `CountsUp`, `UpTo`, least and greatest elements, and `FlattenSeq`.

**`CommandLineProofs`** (`LineAssumption`: LF, CR and the space are three bytes,
the buffer holds more than one and not more than two fields, the commands of the
table fit into one), for any bytes, commands, buffer size and
arrival of the bytes: `StreamIsCut`, `CommandFollowsLine`. The invariant adds
that a line being read has no line feed and is short of the buffer (`Pending`),
that a line being executed is the last one returned (`Complete`), and that
`clean_command` has left empty buffers (`Emptied`), without which the missing
end of `strncpy` would show. `TakenIs`, `TrimIs` and `SplitIs` say what the
searches over a line return, `LongIsNone` that a word too long for `comm` is in
no table.

**`HelperProofs`**:

- `RateHolds`, for all but the last block of a download (`RateAssumption`:
  portions, delays, setbacks and `Floor` are naturals). The bytes whose pause is over must fit into the time *and* into the
  time at which the present interval began by a clock that is `behind`: without
  the second conjunct a clock set back could hide a portion.
- `EntriesShowAll` (`ListAssumption`: a mode is a record with sets of classes).
- `NumberIsDenoted` and `LastSettingHolds` (`ConfAssumption`: a name is in one
  table and has a default, a value is a sequence of numbers, an `unsigned` has a
  value). A loop that multiplies and adds computes the sum of the digits at
  their places (`SameSum`); the octal one may reduce at each digit, because
  `RemainderStep` shows that what a shift drops does not come back; the decimal
  one is limited to `LongMax` at its end, as the reference is.

Every invariant and every refinement the passing runs check is stated by a
theorem. Only model-checked: liveness (`ZombiesReaped`, `HandshakeEnds`,
`PortFreed`), which the prover does not reach, and the violations.

## 5. What the code does not keep

The violated properties above are listed in `PROJECT.json` under `findings`,
each with the comment, assertion or setting it contradicts. Four more statements
are refuted by TLC and kept as definitions, without a run of their own:

- `Server!CountIsExact`: a timed out accept counts a client for the address left
  in `addr`, and a failed fork leaves its count, so the counters can be too high
  for ever.
- `HashTable!HeadIsFirst` (`hash.c:54`), with the constants of `hash`, under
  `Spec` and under `CallerSpec` of `MCHashTable`: the handler frees the node an
  interrupted add has read as `head`, in eight states. What follows from it is
  described by `NoFreedUse` and `ListsSound`.
- `Session!NobodyPidFound`: nobody runs the inherited handler when proto exits
  and aborts on its assertion.
- `Session!StalledTransferDropped`: the handler of the data connection re-arms
  whether or not the transfer advanced.

## 6. Not modelled, and what remains

- The environment: a lock that fails for lack of resources (ENOLCK), EDEADLK
  between sessions other than on a device, a clock set forward, more than one
  disk or a full one (a failed write is `EndUpload`).
- Descriptors that early returns leave open; only their locks are modelled.
- File permissions as state: in `Control` they may refuse a command, but they do
  not change during one. That root alone reads the shadow file is assumed.
- What the program does after it has written behind a buffer (`overrun` of
  `CommandLine` and `Config`) or used freed memory (`broken` of `HashTable`).
- `chdir("sess->args")` at the end of `do_pass`, which fails unless the home has
  a directory of that very name; `lock_file_read` that fails before a RETR of a
  regular file.
- Data: the wording of replies, the date, size, owner and link target of a
  listing, paths of more than one component, negative numbers in `ftp.conf`,
  keys and lines there that are longer than their buffers.
- Helpers without state: `get_local_ip`, `read_timeout`, `write_timeout`,
  `readn` and `writen` as such (their callers take them as whole), `str_to_longlong`,
  which nothing calls, and `print_conf`.
- `test_ls.c`, `ftp_nodoby.c`, the common macros and the build.

What would come next: an abstract session (idle, negotiating, connected,
transferring, closed) that `Session` implements, the replies of PORT, PASV and
the transfers there; an exact account of leaked counts in `Server`, as an
invariant with a history of what was leaked.
