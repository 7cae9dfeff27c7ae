# Verification of the op-sys laboratory programs

TLA+ models of the concurrent programs of this repository, model-checked with TLC
and, where it pays, proved with TLAPS. The repository is a set of independent C
programs, one directory per laboratory of an operating systems course; they share
no code, so each gets its own module.

## Inventory

| part | state | operations | interaction | hard behaviour |
|---|---|---|---|---|
| lab6 barbershop (POSIX, System V) | shared segment: status word, pid in the chair, queue of pids; one semaphore; locals of each process | `sem_take`, `sem_return`, `enqueue`, `dequeue`, the barber's loop, `arrive_at_barbershop`, `init_barbershop`, `clean_up` | processes poll shared memory under the semaphore | interleavings, silent drop of `enqueue`, unsynchronised initialisation, death of processes, restarts |
| lab7 producers and consumers, mutexes | cyclic array of pointers, two indices, N+2 mutexes, two conditions, `done_producing` | `produce`, `consume`, `wait_threads` | threads, condition variables | lost wakeups, unsynchronised reads, wrap-around, termination |
| lab7 producers and consumers, semaphores | the same array, N+3 semaphores | `produce`, `consume`, `wait_threads` | threads, counting semaphores, polling | out-of-order copies, conservation of free slots, termination |
| lab5 message queues (POSIX, System V) | server: `clients_data`, `client_count`, `active`, its queue; client: `session_num`, its queue | REGISTER, MIRROR, TIME, END, QUIT, exit handlers | bounded message queues, signals | clients that die, END racing requests, table compaction |
| lab4 `sigusr` | counters in parent and child, pending signals, masks | `parent_process`, `child_process`, the handlers | signals | coalescing, `sigsuspend` race, exit status |
| lab4 `sigint_sigtstp` | `child_pid`, `is_stopped` | `stop_resume`, `pkill` | signals, `fork` | signal between `fork` and assignment, unreaped children |
| lab4, lab3 batch job interpreters | current line, children, pipes | tokenize, fork, exec, wait | processes, pipes | failing `exec`, number of waits, array limits |
| lab3, lab2 directory search | directory stream, children | `deep_search_files` | one process per directory | reporting of failures |
| lab2 system and library I/O | records of a file | generate, sort, copy | none | short reads and writes, failure inside a swap |
| lab1 small programs | none that lasts | insertion sort, digit lists, Fibonacci | none | carries, empty inputs |

What makes each of them correct: a client of the barbershop is never forgotten,
never in two places, served in order and counted once; a line of the ring is
consumed once, whole, in order, and all threads return; a registered client gets
the answers to its requests and the server outlives its clients; every signal sent
is answered; every job of a file is run and every failure reported; sorting keeps
the records of the file.

## Plan

Modelled and checked: lab6 (`SleepingBarber` abstract, `Barbershop` and
`BarbershopVariants` detailed), lab7 (`BoundedBuffer` abstract, `MutexRing`,
`SemRing`), lab5 (`RequestService` abstract, `PosixServer`, `SysvServer`), lab4's
signals (`SigUsr`, `Sigs`), the interpreters of lab3 and lab4 (`Interpreters`), lab2's
record files (`RecordFile`). Proved: every safety and every action property that a run
checks, for every value of the constants, apart from the two that speak of `ENABLED`.

Left is what the models leave out: barbers that meet the semaphore of an earlier one,
System V keys that coincide, the splitting of lines into tokens.

## lab6: the barbershop

`Barbershop` models `POSIX/barber.c`, `POSIX/client_spawner.c` and `POSIX/common.h`.
The variables `status`, `total_clients`, `waiting_room_size`, `curr_client` and `q`
are the fields of `struct barbershop`; `sem` is the named semaphore; `pc[p]` is the
place where process p takes the semaphore next: `loop` for the barber, `arrive`,
`invite` and `shave` for the head of a client's for loop and its two polling loops.
`given` is a history variable: the calls of `shave` with each client in the chair.

A critical section is two steps: `sem_take`, and the body together with
`sem_return`. Nobody else reads or writes the segment in between, so the body is
one action (`BarberTurn`, `Enter`, `SitDown`, `PollShaven`), but a process may die
in between (`sig_handler` for the barber, `ClientKilled` for a client, which has no
handler), which leaves the semaphore at zero as `sem_close` and the death of a
process do. A death inside the body is not modelled apart from that: after it no
process gets the semaphore again, so nobody sees what was half written. The
exception is `init_barbershop`, which takes no semaphore and is one step: until its
last write, `waiting_room_size`, every client finds the zeroed room full and writes
nothing, and the other fields are given the values they have. `printf`, the clock
and failures of system calls that only end the process are left out. A client is taken
to come for at least one shave.

`BarbershopVariants` adds the System V variant, whose barber, clients and queue are
the same code (`diff` shows nothing else): the semaphore is created with the value 0
and returned once before the segment is written (`OpenSemaphore`), and `clean_up`
removes it, so that the next `semop` of every client fails and ends it
(`SemopFails`), unless the identifier is 0, which `clean_up` takes for no semaphore.
`variant` chooses the program, `semaphore` is the life of the semaphore. The run
checks this module, in which the POSIX variant is `Barbershop` as it stands; the
theorems hold of `Spec`, `Barbershop` alone, and of `VariantSpec`, both variants.

`SleepingBarber` is what the shop promises, with no semaphore and no polling:
arrive, be called in order of arrival, get up, queue again or leave. The refinement
reads `waiting` from the first `total_clients` entries of `q`, the chair from
`status` and `curr_client`, and the shaves from the client's own counter.

| run | instance | shows |
|---|---|---|
| `barbershop` | both variants, 3 clients, 2 chairs, array of 3, 2 shaves each, every process mortal, `VariantSpec` | `TypeOK`, `NobodyForgotten`, `OnePlacePerClient`, `ShavesAgree`, `LeavesEarlyOnlyWhenFull`, `ImplementsSleepingBarber`; unless somebody is killed, `EveryClientLeaves`; `ClientsGoWithBarber` |

Two clients fill the room before the barber calls, so the third is turned away on
arrival; with one in the chair the other two fill it, so the one that gets up is
turned away on its second visit; two shaves are what a second visit needs. Clients
that have left and deaths make the processes stop, so the run does not check for
deadlock: the liveness properties say more.

Fairness: every process keeps running (WF on the bodies), and one that keeps
waiting on a semaphore that is returned again and again gets it (SF on the takes).
`sem_wait` promises no order, but a scheduler that lets every waiter run, and the
first-in first-out wake-up of the kernel, give this; with less, a client may be
starved by others that poll.

## lab7: producers and consumers

`BoundedBuffer` is a first-in first-out queue of at most N lines. `MutexRing` models
`mutex/main.c` and `SemRing` models `unnamed_semaphore/main.c`: `next_line` is the
position of the `FILE`, `shared_resource`, `curr_prod`, `curr_cons` and
`done_producing` are the globals of those names, `pc[t]` is where thread t is in
`produce`, `consume` or `main`, `line` and `curr_index` are its locals; the text of a
line is its number, NULL is 0. `put` and `got` are history variables: the lines in
the order in which they entered and left the array. A step lasts from one lock,
wait, broadcast, semaphore operation or unsynchronised access that another thread
can observe to the next; unlocks and posts, which never block, are joined to the
step before them. A mutex holds its owner, a condition the set of threads blocked
in it; `pthread_cond_wait` releases and blocks in one step, as it promises, and may
return spuriously. `found_len` and the messages do not feed back into the state and
are left out, as is the creation of threads (they may simply not run yet); `clean_up`
empties the array when no thread is left. In `MutexRing` the run starts any
non-empty set of the consumers. SIGINT and SIGALRM end the program at
any step (`sig_handler`, when `Signals`).

| run | instance | shows |
|---|---|---|
| `mutex_ring` | 2 producers, 1 or 2 consumers, 2 slots, 4 lines, signals, spurious wakeups | `OnePlacePerLine`, `SlotExclusive`, `StuckOnlyInWaits`; with one consumer `ImplementsBuffer` |
| `mutex_termination` | 1 producer, 1 consumer, 1 slot, 1 line | `Termination` is violated |
| `sem_ring` | 2 producers, 2 consumers, 2 slots, 4 lines, signals, messages on and off, `FairSpec` | `SlotExclusive`, `FreeSlotsCounted`, `ImplementsBuffer`; `EndsWithMessages`: main returns with messages on, and never with messages off |

Four lines in two slots make both indices wrap around twice, with a producer
blocked on the full array; two threads of each kind are what overtaking, double
claims and handing over a mutex need. The programs stop when main returns or a
signal arrives, and the mutex variant also stops in the states described below, so
these runs do not check for deadlock; `StuckOnlyInWaits` says what a stop may look
like, and the liveness properties look for it in the semaphore variant. Fairness: threads
keep running, and a mutex or semaphore that is released again and again is obtained
in the end; spurious wakeups and signals are never required to happen.

What the runs show of termination (the comment above both `wait_threads` is "wait
for all threads to finish"):

* mutex: a thread tests a slot holding its own side's mutex, and the other side
  changes the slot and broadcasts without it. A broadcast between the test and
  `pthread_cond_wait` is lost. In `mutex_termination` the broadcast that follows
  `done_producing` is lost and main joins the consumer for ever; with more lines
  producer and consumer can end up waiting for each other in the same way.
* semaphores: a consumer's `return` is inside the `if (full_info)` of its message, so
  without messages no consumer returns, and main joins them for ever. `EndsWithMessages`
  says exactly that: in the end main has returned and the messages are on, or they are
  off, every line has been consumed and main is in its second loop of joins, for good.
  This contradicts the comment as the lost broadcast does, and is recorded as a finding.

Two more behaviours are allowed by the models and contradicted by no text of the
repository: with two consumers the mutex variant can claim a slot twice, after which
`curr_cons` is ahead of the lines and the order of lines is lost (hence
`ImplementsBuffer` is checked with one consumer only); and in both variants a
consumer may read an empty slot, then `done_producing` set meanwhile, and leave the
last lines in the array for `clean_up` to free.

## lab5: the message queue servers

`PosixServer` models `POSIX/server.c` and `POSIX/client.c`, `SysvServer` the System V
pair. `active`, `clients_data`, `client_count` and `session_num` are the variables of
those names; `server_queue` is the public queue, `queue[c]` the private queue of
client c, and `linked` (`exists`) the clients whose queue's name (queue) exists.
`server_pc` is where the server is: `loop` before it receives, `handle` with a
message in hand (`msg`), `reply` before the send that ends a handler, `closing` in its
exit handler, `gone`. `client_pc[c]` is the type of the message the client is about
to send, the answer it waits for (`session`, `mirrored`, `told`), `prompt`, or where it
is in its exit handler. Sends and receives are the steps at which a process can
block; between them a handler is one step, and SIGINT may arrive between any two
steps.

What the system does, as the code relies on it: a POSIX queue lives on, unlinked,
for those who have it open, so a dead server's queue can be filled; a System V queue
is removed for everybody, and calls that wait for it fail. `signal` keeps SIGINT
blocked while its handler runs. A SIGINT that meets an `exit` called from `main`
makes the handler call `exit` again, which the C library answers by skipping the
handler already begun: the process ends `cut`, cleaning up unfinished.

The strings are abstracted: the content of a REGISTER answer is its number
(`session`), that of a MIRROR or TIME answer only says which request it answers.
One life of the server is modelled. The System V keys are taken to differ. The error
exits of the POSIX server after an `mq_close` that fails are left out: it only closes
descriptors that it has open.

`RequestService` is what both promise: one question at a time per client, at most
one answer, its own, only members answered, nobody refused while there is a free
place, and a member leaves after all it asked has been handled. The refinement reads
the questions from the public queue and the server's hand, the answers from the
hand and the private queues, the members from the table.

| run | instance | shows |
|---|---|---|
| `posix_server` | 3 clients (symmetric), table of 2, queues of 2, 1 request each, clients interruptible | `RepliesNeverBlock`, `WaitersAreRegistered`, `PlacesOnlyShrink`, `LeftoversExplained`, `ErrorExitsExplained`, `ImplementsService` |
| `posix_server_ends` | 2 clients, 2 requests each, server interruptible, `FairSpec` | `OrphansAreUnregistered`, `RequestsBeforeEndAnswered`, `ClientsEndWithServer` |
| `sysv_server` | 3 clients, table of 2, queues of 2, 1 request each, server and one client interruptible, `FairSpec` | `ErrorExitsExplained`, `OrphansExplained`, `ImplementsService`, `RequestsBeforeEndAnswered` |

Three clients and two places give a refusal, a place freed by QUIT and taken again,
and compaction under a waiting client; two messages per queue let senders block,
before and after the death of the server. `Lines` bounds the requests a client
types; the code's 5 places and 9 messages (7 for System V) only delay the same
cases. Clients stop at the prompt, at the end of their input, and orphans wait for
ever, so these runs do not check for deadlock; what a client may be left waiting for
is what `OrphansAreUnregistered`, `OrphansExplained` and `ClientsEndWithServer` say.

`RequestsBeforeEndAnswered` asks that the answer be in the client's queue. In the POSIX
pair it is excused only if a user interrupts the server, or a client before the server
begins to close (`user_interrupted`): the SIGINTs that `close_queue` sends come after the
last answer, so a server that stopped at END and signalled its clients would break it.

Fairness: processes keep running, and a sender blocked on a queue that is read again
and again gets its turn (the kernel serves them in order). Starting a client,
typing and Ctrl-C are never required.

What the properties bound, because the code does it and no text contradicts it:

* A POSIX client interrupted while it registers either makes the server exit (its
  queue is gone when the REGISTER is handled) or stays in the table for good.
* A System V client interrupted with a request on its way makes the server exit,
  and every client that ever registered keeps its place: there is no QUIT.
* Two live POSIX clients may hold the same session number, since `handle_quit`
  compacts the table; the number is only displayed.
* A client whose REGISTER meets the end of the server waits for ever, and an exit
  handler may block on its QUIT if the queue nobody reads has filled up.

## lab4: signals

`SigUsr` models `sigusr/user_sigs.c` for its three types. `pending` holds the signals
pending for parent and child: a standard signal at most once, a real-time signal as
often as it was sent. `frames` is the stack of the child's handlers: `sa_mask` is
empty, so every signal but the one being handled interrupts a handler, also before
its first statement. `sent_to_child`, `received_by_child` and `received_by_parent` are
the counters of the code. `kill` to a child that has not set its handlers kills it;
the second of sleep that makes this unlikely is not assumed. Until it is killed or
exits the child sleeps, so its only steps are deliveries and parts of a handler.

| run | instance | shows |
|---|---|---|
| `sigusr` | types 1 to 3, 4 signals, Ctrl-C at any step | `InStep` (type 2), `SignalsAccounted` (type 3), `StuckExplained` |
| `sigusr_ends` | types 1 to 3, 1 signal, `FairSpec` | `TerminatesAfterSIGUSR2` is violated |

Four signals are enough for a handler to be interrupted by every other signal and for
a standard signal to coalesce. `SignalsAccounted` holds in every state in which
neither process has ended, with several SIGRTMINs queued and SIGRTMAX in the middle of
the handler of one. When SIGRTMAX has been counted it says what becomes of all L
signals: they are received, on their way back, in the interrupted handler, or pending
behind it. The last two are never sent back, since the handler of SIGRTMAX exits: all
four may be lost so, although `README.md:39` wants them sent back. This is a finding
too. The program may stop, in the states that `StuckExplained` names: the parent of
type 2 in a `sigsuspend` that begins after the answer came, or a child left by its
parent. The latter is what `sigusr_ends` shows: no handler asks for SA_RESTART, so an
answer that arrives in `waitpid` ends it; `status` is still 0, the parent exits, and
the child then finds that the sender of SIGUSR2 is not its parent and ignores it.
`README.md:39` says it terminates itself. Fairness: both processes keep running;
Ctrl-C is never required.

`Sigs` models `sigint_sigtstp/sigs.c`. `at` is where main is between its first `fork` and its
loop around `waitpid`, `frames` its handlers, of which each may interrupt the other,
`child[c]` what the child of the c-th `fork` is, which copy of `child_pid` it has,
whether it has main's handlers and whether SIGINT is blocked in it. Ctrl-C and Ctrl-Z
go to main and its children at once, as a terminal sends them, or to main alone.
`fork` and `execl` may fail; -1 and 0 mean to `kill` what they mean to the kernel.

| run | instance | shows |
|---|---|---|
| `lab4` | 5 signals at any step | `OneDate` |
| `sigs_passes_on` | 3 signals at any step | `SignalsPassedOn` is violated |

Two SIGTSTPs start a second child, two more a third, and the fifth signal may fall
anywhere among them. `README.md:35` wants the signals passed on to `date.sh`.
`sigs_passes_on` shows that a SIGINT sent to main between the `fork` of `stop_resume` and
the assignment of `child_pid` is not: `pkill` kills the child of before and exits, and
the new `date.sh` runs on. There are three more ways for a `date.sh` to outlive main,
which no text speaks of, and `SurvivorExplained`, which is proved, says that these are
all: one that is forked by a `stop_resume` that interrupted `pkill` has SIGINT blocked,
and survives if `pkill` had killed already; a SIGINT to main alone may come before its
handler is set; and a `waitpid` that is interrupted before the first child ended leaves
`cstat` without a value, which may be the -1 that ends main.

## lab3 and lab4: the batch job interpreters

`Interpreters` models `cmd_interpreter.c` and `cmd_interpreter_extd.c`; `extended` says
which. `script` is the file, `offset` the file offset that parent and children share,
`buffered` the lines the parent's stream has read ahead, `process[p]` the child for the
p-th program of the line, `waits` the calls of `wait`. A program is given by how it
ends (`Kinds`): by itself, well or not, with its input, when nobody reads its output,
or by failing to start. Who holds the ends of a pipe is `holds_pipes`, `no_reader` and
`no_writer`. `fclose_seeks` is a property of the C library: whether the `fclose` of a
child moves the shared offset back by what its copy of the buffer had left. A `fork`
that fails makes lab3 test an uninitialised status, which is a free choice. What `Sigs`
has a name for is called otherwise here (`BatchSpec`, `process`), so that `Lab4_proof`
can be about both.

| run | instance | shows |
|---|---|---|
| `lab4` | both programs, scripts of up to 4 lines, 7 kinds of lines with up to 3 programs, a buffer of 3 lines, fairness of `FairBatchSpec` | `InOrder`, `OneLineAtATime`, `EveryLineEnds` |

Four lines and a buffer of three give a second read at the shared offset, two failing
programs in one buffer and a file that is run for ever; three programs give a chain
of pipes that must fall over from its end, an empty program between bars gives more
calls of `wait` than children. Lines are chosen such that the first program needs no
input and the last ends by itself, as the terminal is not modelled. The interpreter
ends, so deadlock is not checked. Fairness: the parent and every child keep running,
and a program ends once it can.

The run `lab4` checks the interpreters and `Sigs` together, which share nothing: in `MCLab4`
`program` says which of them runs, the other does not begin, so its states are those of
the one and those of the other.

`InOrder` bounds what no text of the repository speaks of: where `fclose` seeks, lab4
runs lines again that were read ahead when a program could not be executed.

## lab2: record files

`RecordFile` models `system_vs_lib_io`: one call of `generate`, `sort` or `copy` in either
variant. A record is its first byte (the sort key) and the rest (`body`, the number of
the record, so that records can be told apart); `file` is the file being written,
`original` what it or the source held, `unflushed` what a stream still has in its
buffer, `record` the two buffers of the sort, `faults` a history variable that counts
failed calls. A write may be cut short after the first byte; what the functions make
of the result of each call is `copy_failed`, `generate_failed` and `sort_failed`, which
differ as they do in the code. The model stops when the program has ended.

| run | instance | shows |
|---|---|---|
| `record_file` | files of up to 4 records, 3 keys, 3 records asked for, up to 2 faults, all commands and argument errors | `LostPerFault`, `SortedStably`, `CopyIsPrefix` |

Files shorter and longer than the records asked for, equal keys, and a second fault
in the recovery from the first are the cases. With more records asked for than there
are, the system variant compares and writes what its buffers last held: records are
doubled, none is lost. Files hold whole records and nobody else uses them.

## Proofs

Each component has its proofs in the module of its name with `_proof`, but for `Sigs` and
`Interpreters`, which share `Lab4_proof`, and both shops, which share `Barbershop_proof`.
They assume
only what the component assumes of its constants, `ConstantsAssumption` (in `SigUsr` and
`Sigs` a bound that is a natural number): there may be any number of clients or
threads, slots, seats, lines, messages or signals. All are laid out alike. `IInv` is
the inductive invariant; there is one lemma for each action, under it one step for
each conjunct of `IInv` the action can disturb; `NextPreserves` combines them and
`Invariance` is `Spec => []IInv` (in `RecordFile_proof` the conjuncts about types, the sort
and the copy each have their own lemmas for the actions: a copy does not disturb a sort).
The theorems after it read a property off `IInv`. A
refinement has the same shape: one lemma per action says which abstract action it is
or that it leaves the abstract state alone.

| module | theorem | property | for every number of |
|---|---|---|---|
| `Barbershop_proof` | `TypeCorrect`, `NobodyIsForgotten`, `OnePlaceOnly`, `BarberAlwaysHasReason`, `ShavesAlwaysAgree` | `TypeOK`, `NobodyForgotten`, `OnePlacePerClient`, `BarberHasReason`, `ShavesAgree` | clients, seats, shaves, in both variants |
| | `OnlyFullRoomTurnsAway` | `LeavesEarlyOnlyWhenFull` (of every step) | |
| | `Refinement` | `ImplementsSleepingBarber` | |
| `SemRing_proof` | `Typing`, `OneThreadPerSlot`, `FreeSlotsExact` | `TypeOK`, `SlotExclusive`, `FreeSlotsCounted` | threads, slots, lines |
| | `Refinement` | `ImplementsBuffer` | |
| `MutexRing_proof` | `Typing`, `OneThreadPerSlot`, `NoLineLostOrDoubled` | `TypeOK`, `SlotExclusive`, `OnePlacePerLine` | threads, slots, lines |
| | `LocksNeverBlock` | `NoLockCycle` | |
| | `Refinement` | `ImplementsBuffer` (one consumer) | producers, slots, lines |
| `PosixServer_proof` | `Typing`, `AnswersFindRoom`, `WaitersKept`, `PlacesMoveDown`, `LeftoverEntries`, `ErrorExits`, `Orphans` | `TypeOK`, `RepliesNeverBlock`, `WaitersAreRegistered`, `PlacesOnlyShrink`, `LeftoversExplained`, `ErrorExitsExplained`, `OrphansAreUnregistered` | clients, places, messages, requests |
| | `Refinement` | `ImplementsService` | |
| `SysvServer_proof` | `Typing`, `ErrorExits`, `Orphans` | `TypeOK`, `ErrorExitsExplained`, `OrphansExplained` | the same |
| | `Refinement` | `ImplementsService` | |
| `SigUsr_proof` | `Typing`, `AnsweredBeforeNext`, `EverySignalCounted`, `StopsAreKnown` | `TypeOK`, `InStep`, `SignalsAccounted`, `KnownStop` | signals |
| `Lab4_proof` | `Typing`, `NeverTwoDates`, `Survivors` | `TypeOK`, `OneDate`, `SurvivorExplained` | signals |
| | `LinesInOrder`, `OneLineRuns` | `InOrder`, `OneLineAtATime` (of every step) | lines, programs on a line, lines in a buffer |
| `RecordFile_proof` | `LossBounded`, `Sorted`, `CopiedInOrder` | `LostPerFault`, `SortedStably`, `CopyIsPrefix` | keys, records, failing calls |

Why each invariant is as strong as it is:

* `Barbershop_proof`. What each process knows of the segment from the place where it
  polls: the semaphore is free, has one holder, or is System V's that nobody has
  returned yet (`SemInv`), and until then nobody has passed it (`CreatedInv`); before `init_barbershop`
  nothing has been written (`InitInv`); a client's locals have fixed values at each
  place (`LocalInv`); the one in the chair is the only one that polls for the end of a
  shave, and an invited one is still waiting or dead (`ChairInv`); every pid in the
  queue belongs to a client that waits or died waiting, and a sleeping barber has an
  empty queue (`QueueInv`). The last conjunct is why a client on its second visit
  never finds the barber asleep and never queues twice; `client_status = "WAITING"` on
  the first visit is why `enqueue` never drops a client that goes on to poll. The
  refinement adds that `q`, read from 0 to `total_clients-1`, is the customers' queue:
  `enqueue` appends to it and `dequeue`, which moves every entry down, takes its head.
  A step of `VariantSpec` is a step of `Barbershop`, the first return of the semaphore
  or a `semop` that fails because it is gone, so each lemma has those two cases more.
* `SemRing_proof`. The n-th line that is put passes through slot (n-1) % N and is the
  n-th that is got. `TurnsInv` says that each binary semaphore has admitted one thread
  or none; `CountInv` that free slots, lines in the array and a consumer on its way to
  the post add up to N; `ProducersInv` that a producer works on a slot of its own,
  empty until it stores there, although it gave back its turn long before. Without the
  last, a slow producer could be overtaken all round the array. The lemmas on
  remainders at its beginning, which `MutexRing_proof` needs too, say that N successive
  lines have different slots and that the index follows the count.
* `MutexRing_proof`. `LocksInv` says from where to where each mutex is held; `StoreInv`
  that the slot a producer has tested stays empty until it stores, since only holders
  of `prod_mutex` fill slots: this, not the condition variables, is what keeps lines
  from being overwritten, so `NoLineLostOrDoubled` holds with any number of consumers
  and with spurious and lost wakeups. `FifoInv`, which slots are full, holds with one
  consumer only; with two, a slot can be claimed twice (see lab7), so the order is
  proved for one. `NoLockCycle` says that if no guard of any thread holds, all wait for
  a broadcast or are gone and no mutex is held: `prod_mutex` and `cons_mutex` are
  always taken before the mutex of a slot, and never while one is held.
* `PosixServer_proof`. A client has at most one question under way (`OneQuestion`): in
  the public queue, in the server's hands, or as an answer in its own queue. What the
  question is says whether the client is in the table and what number it knows
  (`RequestsInv`, `AnswersInv`), what its place says the rest (`PlaceInv`). Nothing of
  this survives a client that could ask after its QUIT, hence `QuitLast`; `Below` is
  the part of `PlacesOnlyShrink` that concerns a number still on its way; `SignalInv`
  says whom the closing server has signalled so far.
* `SysvServer_proof`. The same with queues that disappear. Nobody leaves the table, so
  the session numbers need not be followed; `WaitInv` instead says where the question of
  every waiting client is until the server is gone, which gives `OrphansExplained`.
* `SigUsr_proof`. `Balance` is the books of type 2 while both processes are in their loops:
  the signal sent is pending, in the child's handler or counted there, the one counted is
  in the handler, pending for the parent or received. Standard signals do not queue; that
  none is dropped is because at most one is under way, which is `InStep` again, so the
  two are proved together. `OneSignal` is why the handler is not interrupted there,
  `StartInv` why nothing is counted before. The books of type 3, `Accounts`, are kept
  beside `IInv` until the processes end, with any number of signals queued and handlers
  interrupted: `Once` says that no signal has two handlers, `SentLast` that there is one
  SIGRTMAX and nothing is sent after it, `LastComesLast` that SIGRTMAX is delivered, the
  lower signal going first, only when no SIGRTMIN is pending or one is in its handler,
  and that no SIGRTMIN interrupts the handler of SIGRTMAX. `WhileRunning` balances the
  counts, and at the step in which SIGRTMAX is counted it becomes `AtExit`, which stays
  true whatever happens to the parent.
* `Lab4_proof`, signals. A running `date.sh` is the one `child_pid` names, or one that a SIGTSTP
  handler has forked while main still counts as stopped (`DateInv`). `HearsInv`,
  `NestInv` and `PkillInv` say which children a SIGINT under way will reach, after
  either handler has interrupted the other.
* `Lab4_proof`, interpreters. `StreamInv` says that the lines read ahead are those that
  follow the line being run, and that the offset is behind the last of them, or before
  that if a child has moved it: enough for `InOrder`, and for exit status 0 to mean that
  the last line ran even then. `ProcessesInv` counts: as many children are reaped as
  `wait` was called, unless there were none left, so that after one call for every
  program, empty ones included, none is left (`OneLineAtATime`). `EndInv` is why lab3
  needs no exception: the child that moves the offset is the one whose status ends main.
* `RecordFile_proof`. What counts is not the file but the file once the stream's buffer
  is written (`Flushed`), together with the record that is in memory only between the
  two writes of a swap: `KeptInv` bounds what is missing from these by the failed calls.
  `SwapInv` says that the records compared are the file's and that the buffer holds at
  most one. If nothing has failed, `InsertInv` is the invariant of insertion sort with
  the unfinished swap carried out (`View`): the first i+1 records are those of the source,
  in order but for the one that moves down, and the rest is untouched. `Copied` says
  that the file and the buffer hold the first records of the source, without a gap
  between them, also after a write that was cut short.

`LocksNeverBlock` and `StopsAreKnown` are what can be proved of `StuckOnlyInWaits` and
`StuckExplained`: they state the guards of the actions where the properties that TLC
checks say `ENABLED`.

Only model-checked, and why: liveness (`EveryClientLeaves`, `ClientsGoWithBarber`,
`EndsWithMessages`, `RequestsBeforeEndAnswered`, `ClientsEndWithServer`, `EveryLineEnds`), and
`StuckOnlyInWaits` and `StuckExplained` as they stand. The prover has no fairness and no
`ENABLED`.

## Not modelled

* lab3 and lab2 directory search: read only, one process at a time. A failure in a
  child's directory is not reported, as the child ignores the result of its search,
  and where stdout is not a terminal a file may be printed twice, as `fork` copies its
  buffer.
* lab1: pure sequential programs written to be timed.
* The splitting of a line into tokens by the interpreters.
* Barbers that find a semaphore left by another, restarts of the servers of lab5,
  coinciding System V keys.
* Formatting, timing, the Makefiles, the text files read by lab7 and the dates of the
  directory searches.
