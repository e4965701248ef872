# Verification of the CS 392 systems-programming programs

The repository is a set of C programs written for a course on systems programming: a
chat server and client, programs that add numbers with processes or threads, a
threaded sieve, a shell, permission finders, a quicksort, a linked list and a dozen
small exercises.  Each is a program of its own; what they share is the operating
system.  This directory holds TLA+ specifications of those whose behaviour depends
on interleavings, failures, signals and limits, the TLC configurations that check
them on small instances, and proofs, checked by TLAPS, of what matters most for all
instances.

Sections: [1 inventory](#1-inventory), [2 the models](#2-the-models), [3
runs](#3-runs-bounds-and-what-they-show), [4 fairness](#4-fairness), [5
proofs](#5-proofs), [6 disagreements](#6-where-the-code-disagrees-with-its-text), [7
left out](#7-what-is-left-out), [8 plan](#8-plan).

## 1. Inventory

Paths are relative to the repository.  Only the chat server and client talk to each
other, over TCP; every other component interacts with its own children, threads, and
instances only.

| component | sources | state | operations | what is hard | what makes it correct |
|---|---|---|---|---|---|
| chat server | `Homework/chatclient/chatserver/chatserver.c` | slot arrays `client_sockets`, `usernames`, counter `num_connections`, buffer `inbuf`, flag `running`, the descriptor table | select loop, accept and name of a newcomer, relay, disconnect, cleanup, SIGINT | peers that hang up or are reset between two calls; descriptors closed and reused within one pass; SIGINT at any point; glued TCP data | tables agree; recv never waits; everyone is told everything once, in one order; users are served |
| chat client | `Homework/chatclient/chatclient.c` | user name, buffers, connection | connect, welcome, name, select on stdin and socket, bye | server's bye glued to a text, end of input, signals | everything received is shown; leaves on bye or end of input |
| shared-memory sum | `Labs/lab11/mpsumarray.c`, `semaphore.c` | a System V segment with `*sum`, a semaphore with SEM_UNDO, two children | create, attach, fork, P, add, V, wait, print, delete | instances share the `ftok` key; EINTR, EIDRM; failing forks; killed children | the printed sum is what the children added; all end; nothing is left behind |
| threaded sum | `Labs/lab9/mtsumarray.c` | `sum`, mutex, two threads | create, add a part, join, print, destroy | unlock and lock are swapped; the cleanup is inside the join loop | the printed sum is a sum of parts; the array is freed once |
| threaded sieve | `Homework/mtsieve/mtsieve.c` | options, segments, `total_count`, mutex, threads | parse and check options, assign segments, sieve, count, join, print | boundaries of segments and loops, overflow near INT_MAX, threads that cannot be created | every number of the range is examined once and every part is counted |
| minishell | `Homework/minishell/minishell.c` | `argv` buffers, `file`, the line, children not waited for | read, parse, cd, exit, fork, exec, two waits, SIGINT | buffers lost between lines, a flag never reset, signals in read or wait, end of input | a line runs one command, and the shell comes back to the prompt |
| spfind | `Homework/Sorted Permission/spfind.c` | three processes, their descriptors, two pipes | options, pipe, fork, close, dup2, exec, copy, wait, count | a write end left open keeps a reader waiting; fork, dup2 or exec fails for one process; SIGPIPE | every process ends; what is shown and counted is pfind's listing |
| pfind | `Homework/PermissionFinder/*.c`, `Labs/lab5/permstat.c` | argv, one frame of directory and stat data per call | options, check the permission string, open, lstat, recurse, print | entries that vanish between readdir and lstat; argv reordered by getopt | exactly the files with these permissions are listed |
| quicksort | `Homework/quicksort/*.c` | table of lines, array, ranges still to sort | options, read, convert, partition, recurse, print | bounds of the table and the array, overlong lines, values that do not compare | a sorted permutation of the file |
| linked list | `Labs/lab3/*` | next and prev of nodes, head, tail | insert sorted, print, free | a new head, equal data, a last node | the list holds what was inserted, both ways |
| head | `Labs/lab4/head.c` | block, count of lines, position | parse the count, copy blocks | a line that ends in another block, short reads, terminators in the file, read errors | the first n lines are written |
| snooze | `Labs/lab8/snooze.c` | the signal flag, seconds | sleep, SIGINT | a signal between the test and `sleep()` | the time reported is the time slept |
| nforks | `Labs/lab6/nforks.c` | children | fork, wait, report | forks that fail | every child is waited for |
| findserver | `Labs/lab10/findserver.c` | port, socket | connect, receive with a timeout | a slow server, a leaked socket | the port reported is the first that answers |
| junk, cpumodel, lab2, lab12 | `Homework/junk/junk.sh`, labs 7, 2, 12 | none worth the name | independent commands, single loops | little | — |

## 2. The models

| module | models |
|---|---|
| `ChatServer` | the server, its kernel's view of the connections, and peers that may say anything |
| `ChatRoom` | the abstract specification: a room of named users in which one thing happens at a time, without slots, sockets or signals |
| `ChatStreams` | extends `ChatServer` with what users can conclude from the messages they get, and the refinement mapping to `ChatRoom` |
| `ChatClient` | extends both: the client program in the place of the peers, and its user |
| `MpSum` | any number of instances of mpsumarray in one directory, and semaphore.c |
| `MtSum` | mtsumarray from the creation of the threads on |
| `Sieve` | mtsieve: options, segments, threads, and the arithmetic of the sieve |
| `MiniShell` | the shell, its children, and SIGINT |
| `Pfind` | pfind: getopt's reordering, permission strings, the recursive walk over a tree that loses entries |
| `SortedPfind` | extends `Pfind`: spfind, its two children, their descriptors and the pipes between them |
| `LinkedList`, `QuickSort`, `HeadLines`, `Snooze`, `NForks`, `FindServer` | one program each that keeps to itself |
| `Exercises` | composes these six: a behaviour runs one of them, the others stand still |
| `OneProgram` | composes `Exercises`, `MtSum`, `MiniShell` and `MpSum` in the same way |
| `MC*` | values of the constants for TLC, and symmetry |
| `*Proofs` | theorems and proofs about the module they extend: `ChatRoomProofs` about `ChatStreams` and `ChatClient`, by way of `ChatServerProofs`; the others about the module, or the exercises, of their name |

Operators whose comment begins with "Mutation" are not part of a specification: each
is a variant of the definition after it with a plausible bug, and shows that the
property it belongs to can fail (`PROJECT.json`, "mutants").

**ChatServer.** Variables have the names of the C globals; `fds` is the process's
descriptor table (which connection each number stands for), `sockset` the `fd_set`
that `select()` leaves behind, `idx` the loop variable of main's pass over the
slots, `pc` the call the server is at.  `chan[c]` is the kernel's state of a
connection: it decides whether `recv()` returns data, 0 or ECONNRESET and whether a
`send()` succeeds, fails or raises SIGPIPE.  A step runs from one call at which the
server can wait, or at which a step of someone else can be noticed, to the next:
`SelectReturns`, `Welcome` (accept, welcome message), `NameReceived` (with the slot
search and the "joined" broadcast of `handle_server_socket`), one action for each
outcome of `handle_client_socket`'s `recv()` (`ClientText`, `ClientBye`,
`ClientClosed`, `ClientError`, which contain the broadcast or `disconnect_client`),
`SayBye` and `CloseAll` of `cleanup`.  Text is a sequence of the chunks a peer sent;
`Receive` returns any nonempty prefix of what has arrived, so texts may be glued or
split as TCP does.  Peers (`Connect`, `Say`, `HangUp`, `ResetArrives`) and `Sigint`
interleave with all of this.

**ChatRoom.** The room's state is who is in it under which name, who is at the door,
what everybody was told, and whom nobody can tell anything any more; its actions are
entering, being turned back, talking, leaving and the farewell.  `ChatStreams` maps
slots, `fds`, `backlog` and `pc` to it (`Room == INSTANCE ChatRoom WITH ...`):
`sends` of one broadcast are one step of the room although they reach some peers
whose reset has arrived and others not, and most steps of the server, the passes
over the slots among them, are stutters.

**ChatClient.** Each connection gets a client process with program point `cpc`:
`EnterChat` (connect), `GetWelcome`, `SendName`, then the loop of main.  One round
handles standard input first (`HandleLine`, `HandleEmptyLine`, `HandleEndOfInput`),
then the socket if `select()` reported it too (`socket`), which is why a client can
send to a server that is gone (`Lost`, `BrokenPipe`).  Input without its newline
(`BeginLine`) keeps the client in `get_string`'s inner loop of `read()` until the user
ends the line (`FinishLine`), however long the server has been gone; what `select()`
had reported before is kept (`drain`, `drainThenSocket`).  Whatever a client does to the
connection is a peer's step of `ChatServer` (`Connect`, `Say`, `HangUp`), and the
server's steps leave the clients alone.

**MpSum.** Each instance runs main (`SemGet` ... `FreeSem`); its two children run
`sum_array` (`Lock`, `Load`, `Store`, `Unlock`, `Exit`).  `*sum += partial_sum` is a
load and a store.  The keyed objects are the kernel's: `semOfKey`/`shmOfKey` say
what the shared key stands for, `semadj` what SEM_UNDO gives back when a child exits
or is killed, `shmGone` which segments carry IPC_RMID (a segment lives until it is
detached).  The number in `*sum` is kept as the set of children whose part it
includes, so that a lost update is visible even when the numbers agree, and nothing
depends on the array.

**MtSum.** `sum_array` in the order the code has it: loop, unlock, load, store,
lock.  Unlocking an unlocked mutex is undefined by POSIX; the model has what the GNU
C library does with a default mutex (the word becomes free, the user count goes
down, `pthread_mutex_destroy` returns EBUSY unless the count is zero). `partial_sum`
starts with any value of `Garbage`.

**Sieve.** `Option` is one round of the getopt loop with its `flag +=`, `Complaint`
the chain of checks, `Accept` and `Segment` the assignment of segments, `Create` and
`Join` the two loops, and `Counted` ... `Unlock` a thread.  The two crossing-out
passes are the pure operators `low_primes` and `high_primes`, with the code's own
bounds and first index; `LastIndex` is the largest value of the loop's `j`, which
decides between `Counted` and `Segfault`.

**MiniShell.** A line is its kind (`./` or not), first word and word count: that is
all the shell's control looks at.  `argv` is the set of entries that still point to
a buffer.  `Parse` is one call of `string_to_args` and the dispatch on the first
word. `file` (`fileFlag`) is never reset, as in the code.  The two waits of one command are
`Reap`, `NoChild` and `WaitInterrupted` at `wait1` and `wait2`.

**Pfind.** `Getopt` takes the words of the command line one by one as glibc's `getopt`
does: `flag`, an option that waits for its argument, whether "--" was met (all that
follows is plain), and the two groups `Permuted` puts
behind each other, because main then reads `argv[2]` and `argv[4]`.  The walk is one
frame per call of `stat_check` (`Opendir`, `ReadEntry`, `Closedir`); `Vanish` removes
entries between any two calls.  `Sb` is what `lstat()` leaves in `sb`: for a missing
entry the entry before's mode, or whatever the memory held.  A mode is the set of its
bits; `permission_string` turns it into nine characters.

**SortedPfind.** `fds[p]` says what each descriptor of process `p` is: the terminal
or an end of a pipe.  `Fork` copies it, `Redirects` closes and `dup2`s, `Exits`
drops it.  `InOrder` is sort's order: the lines at the places of a bijection that
sorts them.  A read of an empty pipe returns 0 and a write raises SIGPIPE when no
process has the other end (`Held`): whether everybody comes to an end depends on
every single `close()`.  `FinderWalks` is a step of `Pfind`; what it prints leaves
through stdio's buffer (`sent`).  The initial states include pfind on its own.

**LinkedList, QuickSort, HeadLines, Snooze, NForks, FindServer.** Pointers are node
numbers and `next`, `prev` functions of them.  `calls` is the stack of ranges that
`quicksort_helper` has still to sort; `Scan` is a round of `lomuto`'s loop; an array
element is a string of small numbers, or a number as a string of one.  A file of
`head` is a sequence of ordinary characters, newlines and terminators, and each
`HeadBlock` a `read()` of any length up to BUFSIZE.  `Snooze` counts in half
seconds, so that a second can be cut short.  `NForks` lets each fork fail;
`FindServer` gives each port a behaviour.  `Exercises` runs one of them per
behaviour, the others standing still.

**OneProgram.** These six, mtsumarray, the minishell and instances of mpsumarray neither
talk to each other nor share anything, so a behaviour runs one of them while the others
rest in a state in which an earlier run of theirs ended (`MtRests`, `ShellRests`,
`MpRests`).  What holds of every program holds of the composition and the other way
round; only mpsumarray among them can disturb itself, which is what `mp_two` is for.

## 3. Runs, bounds and what they show

| run | instance | shows |
|---|---|---|
| `chat_room` | 3 peers, 2 slots, 3 descriptors; one peer says one text after its name | the tables agree; recv of a slot never waits; only a hang-up before the name leaks a descriptor; names come from their own connection; users can compute exactly who is present; the server implements the room |
| `chat_clients` | 2 clients, 2 slots, a name and two chunks of one user | lines get from keyboard to screen once and in order, repeated only at the end of input; clients end with the server unless their user never ends a line, and leavers lose their slot; users and queue are served; a requested shutdown happens at the next event |
| `chat_sigpipe` | 2 peers, 2 slots | violation: a broadcast to a reset peer kills the server; the shortest behaviour does it with cleanup's own "bye" |
| `mp_two` | 2 instances, all faults | nobody is stuck for ever, nothing is left behind |
| `mp_two_mutex` | 2 instances, no faults | violation: the key is shared, and one instance's SETVAL lets a second child of the other in |
| `mt_mutex` | array of 3 | violation: both threads at `sum += partial_sum` |
| `sieve` | 10 option values, 3 options, 2 processors | options, segments, arithmetic, threads, termination |
| `spfind` | 3 entries in 2 directories, pipes of one line, 8 different words, up to 4 of them | which search is made, what is listed, missed and counted, and that all processes end |
| `one_program` | list: 5 insertions; sort: files of 4 lines; head: texts of 5 characters; snooze: naps of 3 s; nforks: 3 forks; findserver: 4 ports; mtsumarray: an array of 3, two garbage values; minishell: 2 programs, 3 lines, 3 SIGINTs, 2 children; mpsumarray: 1 instance, forks that fail, children that are killed | what the list, the sorted output, the copied lines and the reports are; what mtsumarray prints and how it ends despite the swapped lock; which lines crash the minishell, which children it forgets, and its return to the prompt; that mpsumarray's children exclude each other and its sum is theirs; that all the programs end |
| `list_order` | as `one_program`'s list | violation: an equal value is counted and not inserted |
| `sort_room` | as `one_program`'s sort | violation: the fifth of 32 promised strings overruns the table |
| `snooze_slept` | as `one_program`'s snooze | violation: a second that was cut short is reported as slept |

Why these bounds are enough:

- *Chat.* Two slots and three peers are the least with which a slot is full, a
  newcomer is refused, and a slot is emptied by one handler while others of the
  same pass are still to come (`accept()` precedes the handlers, so the descriptor
  closed by one can be taken by another connection in a later pass only); a user hears of two others, one
  after the other.  One chunk is a name only, two a name and a text, which TCP may
  glue together; three, two lines, or one line and its repetition.  `accept()` may
  fail at any time, and must once the descriptors are used up.  `chat_room` uses the
  symmetry of the two peers that only have a name; `chat_clients`, which checks
  liveness, uses none, and has 300,741 states (about three minutes).  A client begins a
  line only while the bound lets it be sent (`BeginLine`).
- *MpSum.* The code always forks two children; a third instance would add no new kind of interference, since each
  resets or removes an object whose creator is one other instance.
- *MtSum.* The program always has two threads, and each part has at most two
  elements; the garbage values 0 and 7 make a wrong start visible in what is printed.
- *Sieve.* `INT_MAX` is 336 in the run so that TLC can reach the overflow; the
  values include 0 and 1 (refused), squares of primes at the end of a range (4, 9,
  25, 49), 313 and 334 (primes with two digits '3', and the neighbourhood of
  INT_MAX).  Two processors allow four threads, so ranges have fewer, as many and
  more numbers than threads.  Three options include each option once and every
  repetition that `flag` confuses.
- *MiniShell.* Shorter and longer lines need two word counts besides the empty line;
  three lines allow "short, something, long"; three SIGINTs can spoil both waits of
  one command and one of the next; a child left behind and a new one need two pids.
- *Pfind, SortedPfind.* Three entries are a directory with something in it and
  something beside it: the stat data of one can be used for another, in the same
  directory and across a call.  The permissions of two of them differ in a bit that
  `perms[]` does not name.  A pipe of one line makes both writers wait.  The words
  are each option, "--", the arguments, a wrong permission string and an argument that
  is attached to its option; every line of up to four of them, and one too long, is
  tried.
- *LinkedList.* After five insertions of three values a second new head, an equal
  value at each place and a ring have all happened.
- *QuickSort.* `MAX_ELEMENTS` is 32, hence four slots: files of up to four lines fit
  exactly, and long lines, cut into pieces of `MAX_STRLEN` 2, overrun the table.
- *HeadLines.* Blocks of two characters, or less, cut texts of five in every way;
  `INT_MAX` is 15, and the counts go past it.
- *Snooze, NForks, FindServer.* Three seconds, forks and four ports let the first,
  a middle and the last one be the one that differs.
- *OneProgram.* The bounds of its programs; 442,085 states, a little over a minute.

Deadlock checking is off in every run, because every one of the programs ends: that
it ends where it should, and does not stop elsewhere, is what the liveness properties
say, and in `mp_two` `SomeoneCanRun`.  In `chat_room`, without liveness properties, the
server may end while a peer says nothing.

## 4. Fairness

- *ChatServer, ChatClient*: weak fairness of the server and of each client,
  processes the kernel schedules; no user has to enter anything, nor to end a line he
  began (the exception of `ClientsEnd`), and signals, kills, resets and interrupted
  calls are never forced.  One silent connection stops
  everybody, because the server waits for the name in a blocking `recv()` (line
  201); the clients of these runs send it, or end, so with them users and queue
  are served.  `UsersAreServed` and `QueueIsServed` therefore say nothing of a newcomer
  that stays silent.
- *MpSum*: weak fairness of "some process step".  No process loops, so this is
  enough for termination; being killed or stopped is never forced.
- *MtSum, Sieve*: weak fairness of main and of each thread.  Failing creations are
  disjuncts of main.
- *MiniShell*: weak fairness of the shell's own steps and of each child, that is,
  programs end.  No fairness of input, end of input or SIGINT: the shell may wait in
  `read()` for ever.
- *SortedPfind*: weak fairness of each of the three processes; nobody has to remove
  entries.
- *Exercises*: weak fairness of the program that runs, of nforks' children, which
  sleep for a bounded time, and none of SIGINT.
- *OneProgram*: the fairness of each of its programs.

## 5. Proofs

Each theorem holds for every value of the constants that satisfies the module's
`ASSUME`.  Each follows the same argument: an inductive invariant, proved for `Init`
and for every action (one step per action, one below it per conjunct), then PTL.

| theorem | inductive invariant | why it is needed |
|---|---|---|
| `TypeCorrect`, `SlotsAlwaysAgree`, `NewcomerHasRoom` (`ChatServerProofs`) | `TablesInv` | `SlotsAgree` alone says nothing of the newcomer, and its slot is only found because the counter was below the limit when it was accepted and no slot is taken while its name is waited for (`NewcomerFits`); `accept` needs a nonempty queue |
| `RecvNeverBlocks` (`ChatServerProofs`) | `TablesInv /\ ReadInv` | a connection has one owner (`OwnedOnce`), `sockset` is made of slots' descriptors and so never holds the newcomer's (`SetOfSlots`), and what was readable and not handled yet stays so (`StillReadable`) although others are closed meanwhile |
| `ServerImplementsRoom` (`ChatRoomProofs`) | `TablesInv /\ ReadInv`, from which `RoomInv` | which step of the room a step of the server is depends on the tables: a connection has one slot (`OwnedOnce`) and the name in the room is the one at its slot (`NamesBySlot`), so that taking or clearing one slot changes one user. Every action, passes over the slots and signals among them, maps to a step of the room or a stutter |
| `PresenceAlwaysExact` (`ChatRoomProofs`) | `StreamsInv`, on top of `RoomInv` | a user's conclusion is right only if its welcome was: while its name is waited for, the newcomer has been told exactly the roster, and nobody enters or leaves meanwhile; who has not come yet has been told nothing |
| `OnlyHangUpsEverLeak` (`ChatRoomProofs`) | `LeakInv`, on top of `TablesInv` | a descriptor without a slot belongs to the newcomer or to a connection that was hung up before its name: `new_socket` is -1 outside the wait for the name, and a newcomer was told at most the welcome |
| `NamesAlwaysReceived` (`ChatRoomProofs`) | `NamesInv` | that what lies unread in a connection is by its own peer (`ChunksOwn`) |
| `EachLineAlwaysOnce` (`ChatRoomProofs`) | `RelayInv`, on top of `StreamsInv`, and `LinesInv` | the server's half: the chunks of a user that were read are those before the unread ones (`ChunksNumbered`), every prefix of every stream relays some of them without a gap (`PrefixesSteady`), and whoever can be told is up to date since it was first told something (`UpToDate`), so that the next text continues it; a newcomer has been told, and has said, nothing yet (`Fresh`). The client's half: each line sent is the last one or the next, and `outbuf` holds the last one unless that was lost (`LinesInv`). `ChatRefinesServer` brings the first half to the second: the client's calls are the steps of a peer |
| `Exclusion`, `NoUpdateLost` (`MpSumProofs`) | `MpInv`, assuming `Alone` | the value of the semaphore and the undo amounts match who is between P and V (`OneToken`, `UndoIsHeld`); whoever stores read the current sum (`SumIsAdded`).  `Alone` (one instance, no child stopped and continued) is necessary: without it `mp_two_mutex` is a counterexample |
| `NothingEverLeftBehind` (`MpSumProofs`) | `LeftInv` | needs no `Alone`: a semaphore set or a segment exists only while the key stands for it and the instance that created it has still to try to remove it (`SemKey`, `ShmKey`), and a segment marked as removed only until everybody has detached |
| `MtTypeCorrect`, `NoUpdateLostInPrint` (`MtSumProofs`) | `MtInv` | the user count is minus the number of threads between unlock and lock (`UsersCounted`), so a count of zero at the destruction means that the additions did not overlap (`SerialSum`) |
| `SieveTypeCorrect`, `OptionsChecked`, `SegmentsPartition`, `EveryPartCounted` (`SieveProofs`) | `SieveInv` | the loop invariant gives every segment's bounds in closed form (`SegmentAt`), with as many longer ones as `extra` was; a mutex holder's register is the current total (`MutexInv`) |
| `SegmentsAlwaysSieved` (`SieveProofs`) | `SieveInv` | that the counts are right is arithmetic: a number that is not prime has a prime divisor no greater than its root (`LeastDivisor`), which `low_primes` does not cross out because it crosses out multiples only (`CrossedAreMultiples`), and the first multiple in a segment is passed over only if it is that prime (`FirstIsMultiple`); the loop of `hasThrees` counts digits, of which there are at most ten (`TenDigits`: an int has 32 bits) |
| `TotalAlwaysRight` (`SieveProofs`) | `SieveInv` | the parts of segments that adjoin add up to the part of both (`PartsAddUp`, by induction over the segments) |
| `KilledOnlyAtTheLimit` (`SieveProofs`) | `KilledInv`, on top of `SieveInv` | the overflow is of a segment's bounds, which `SieveInv` gives in closed form: the segments end at `e`, so `e` is then within a prime's step of the limit, and nothing is done after it |
| `CrashesIffLonger` (`MiniShellProofs`) | `ArgvInv` | the entries of `argv` below the shortest line so far have their buffers and the one at its word count has none: that pins down which word the shell dies at. It says nothing of the entries behind it |
| `PromptsWithoutChild` (`MiniShellProofs`) | `ChildrenInv` | the children alive are at most those missed so far, and one more before the first wait and after one that was cut short by a signal (`Expected`) |
| `TotalAlwaysTheListing` (`SortedPfindProofs`) | `SpInv` | follows each line: while sort reads, what pfind sent is what sort holds and what the first pipe holds; afterwards what the user saw, the second pipe and what sort still holds are the listing in order (`SorterDone`).  That sort, or the parent, saw the end of its input means that a process ended, because every live process keeps the end it works with (`EndsHeld`).  Nothing is assumed of the order |
| `ListingAlwaysExact` (`SortedPfindProofs`) | `WalkInv` and `FinderInv`, on top of `SpInv` | follows the set `Done` of the entries read so far: what a directory still open has to read was not read yet (so nothing is listed twice), and an entry of a directory that was read and not reported was read, has vanished, or will be read by a call under way (`ReadInv`). At the end no call is, and an entry that was not read is below others that were not, up to one that was reported, because no set of entries is closed under taking the directory above (`TreeAssumption`). That last step replaces an induction over the depth of the tree |
| `SearchAlwaysAsAsked` (`SortedPfindProofs`) | `WordsInv` and `FinderInv`, on top of `SpInv` | until `main` has begun the words are words (spfind's own reordering included: `PermutedIs`), so that getopt can be followed through the at most four it takes (`GetoptUnfolds`, `WordTaken`): each argument adds one or two and stands behind its option, so `main`, which goes on with three or more (or with none, the exception), finds option, argument, option, argument, in this order and none moved (`OptionsInOrder`); `-p` in front it refuses. An action property; of the words nothing is assumed but that they are sequences |
| `PrevAlwaysDescends` (`ExerciseProofs`) | `ListInv` | when a node is linked behind another its data is known to be greater only because the loop went past what is not (`LoopPair`), and it can become the tail only because the head is never above the tail (`HeadBelowTail`); `free_list()` descends (`FreedDescend`), hence it ends and frees nothing twice.  Nothing is needed of `next`, which may lose nodes or run in a ring |
| `ListAlwaysAsExpected` (`ExerciseProofs`) | `ShapeInv`, on top of `ListInv` | until an insertion departs from what its comment promises (`Departs`: equal data, or a new head of more than one node) the list is in strict order, so that there is one place for a node (`PlaceIs`) and the loop stops at it (`AtPair`); nodes that are not in it yet have no links (`Unlinked`), which is why the ends stay ends.  What the other insertions do is `list_order`'s |
| `HeadAlwaysExact` (`ExerciseProofs`) | `HeadInv` | head has written the text up to some place `e` (`WroteUpTo`) and counted the lines that end there, fewer if a terminator hid some; while lines are wanted `e` is all it read, afterwards a newline.  Counts in a block and in the text differ by what came before it (`LinesOfPart`, by induction), and there is one n-th newline (`LineEndIs`) |
| `SortedAlwaysAtExit`, `LomutoStaysInArray`, `SortOnlyPermutes` (`ExerciseProofs`) | `SortInv` and `ReadInv` | reading: the table and the pieces of what is still to be read are together the pieces of the file (`ReadInv`); from then on each element is there as often as it was read, since each exchange is of two places in the array (`SortOnlyPermutes`, an action property).  Order: the ranges still to be sorted lie in the array one behind the other (`StackInOrder`), so an exchange within the first one keeps elements of different ranges in order (`Separated`); inside the loop the elements up to `s` are less than the pivot and those after it are not (`PivotSplits`) |
| `SnoozeAlwaysReports`, `ForksAlwaysReaped`, `NoServerPassedOver` (`ExerciseProofs`) | `SnoozeInv`, `ForksInv`, `FindInv` | snooze's half seconds against its count, with the sleep that is under way; the children announced and the failed waits together are the rounds of nforks' loop, so no child that was spawned is left when it ends (`ForksReport`, which no run checks); every port below findserver's refused |

`SortedAtExit` claims that any two elements that are `Ordered` stand in their order,
whatever else the array holds.  Of these `OrderIsStrict` proves that the comparisons of strings, of ints and of doubles are strict
orders, from the definition of `StrLess`.  That leaves not-a-number, which `dbl_cmp` puts
before every other element and every other element before it, so that it may end up
anywhere.  The order of the others survives it: such a pivot has all the others on one
side, and as one of the others it separates none of them.  `LomutoStaysInArray` and `SortOnlyPermutes` assume nothing of the comparison.  Of the file it is assumed that its
characters are numbers (`SortAssumption`: codes).

Type invariants (`TypeCorrect`, `MtTypeCorrect`, `SieveTypeCorrect`) are proved and
no longer part of a run.

Every other property of the passing runs is the statement of a theorem.  Only
model-checked:

- liveness (`UsersAreServed`, `QueueIsServed`, `StopsAtNextEvent`, `ClientsEnd`,
  `LeaversLoseSlot`, `Terminates`, `EndsOrHangs`, `BackToPrompt`, `EverybodyEnds`,
  `AllEnd`) and `SomeoneCanRun`, which is about ENABLED: outside what the prover does.

What a recursive function computes is proved by induction over a set:
`InductionOnSets` says that a set with 0 and the successor of each number in it
contains every number, and follows from the least element of its complement
(`LeastNatural`, from the library's `NatLessThanWellFounded` and `WFMin`).  A
recursive function is `CHOOSE h : h = [x \in S |-> ...]` to the prover, so that such an `h`
exists is proved first (`CrossingEnds`, `CountingEnds`, `ListsExist`, `GlueExists`,
`NumberIs`, `PiecesExist`).

## 6. Where the code disagrees with its text

The six violation runs (`PROJECT.json`, "findings"):

- `chat_sigpipe`: a failed send is meant to be a warning (chatserver.c:66), but a
  send to a peer whose reset has arrived raises SIGPIPE, which nothing catches.  In
  the shortest behaviour the `recv()` of the only client's name fails with ECONNRESET,
  SIGINT stops the server, and cleanup's "bye" kills it before it closes anything.
- `mp_two_mutex`: "ensuring mutual exclusion" (mpsumarray.c:49-50) fails when two
  instances run in one directory: one child holds the semaphore, the other instance's
  SETVAL sets it back to 1, and the holder's sibling enters.
- `mt_mutex`: "increment ... after aquiring the lock" (mtsumarray.c:51): unlock
  comes before the addition and lock after it, so both threads are at line 69 at once.
- `list_order`: "in non-decreasing order", an equal value "AFTER the node(s) already
  in the list" (linked_list.h:19-23): a value equal to the last is counted and
  not inserted.
- `sort_room`: room "for at least MAX_ELEMENTS strings" (sort.c:71-72), but
  `malloc(MAX_ELEMENTS)` counts bytes: an eighth of them and one more overrun it.
- `snooze_slept`: "print how long it actually slept" (snooze.c:25-26): the
  second that SIGINT cut short is counted.

Other surprises, which the models have and these properties or definitions show:

- A client that hangs up before its name leaks its descriptor (`OnlyHangUpsLeak`:
  nothing else does); after enough of them, or for any other reason, `accept()`
  fails, and main gives up instead of going on (`AcceptFails`).
- A recv of the name that fails (reset, or SIGINT) adds the client with the name
  left in `inbuf` (`NamesAreReceived`).
- SIGINT between the test of `running` and `select()` is only noticed at the next
  event (`StopsAtNextEvent`).
- The client sends its last line again each time a read of standard input returns 0
  (`HandleEndOfInput`; `EachLineOnce` counts the repetitions), does not recognise a
  bye of the server that is glued to a message and then reports a lost connection
  (`ByeAlone`; it ends all the same, `ClientsEnd`), may be killed by SIGPIPE
  (`BrokenPipe`), and after a line without a newline sees nothing of the server until
  its user enters one (`BeginLine`).
- mpsumarray does not look at P's result: a stopped and continued child (EINTR), and
  one whose semaphore set was removed, adds without the semaphore; that is also why
  it never gets stuck (`SomeoneCanRun`).  A failed fork leaves half a sum that is
  printed as success.
- mtsumarray prints after the first join, so it may print one part only
  (`PrintedIsFirstOrBoth`), starts from an uninitialised `partial_sum`
  (`MtInit`, `Garbage`), and may hang on the mutex the second thread exited with
  (`EndsOrHangs`).
- mtsieve adds option flags up, so a repeated option may be called missing (`Option`, `Complaint`); the index of its crossing-out loop overflows only for
  ranges within a root of INT_MAX (`SafeBelowRoot`).
- minishell loses a buffer with each word count it meets, and dies at a later longer
  line (`CrashIffLonger`); after the first `./` line every command is looked up in
  the current directory (`FileAfter`, `IsFound`); at end of input it runs the
  first word of the line before again, for ever (`EndOfInput`).
- pfind judges an entry whose `lstat()` failed by the entry before, or by
  uninitialised memory, also in a directory that may be read but not searched
  (`ListingIsExact` has the error message as its exception); a directory that
  vanishes ends the search with failure (`RealpathFails`).  Four plain words, options
  left over at the end and attached arguments pass its tests, and it then searches
  what stands at `argv[2]` (`SearchAsAsked`); with two or three words it passes a
  null pointer, or the environment, to `strlen` (`Main`).
- spfind tests `argv[4]` before it counts the words, so a short command line kills it
  (`Options`).  It does not look at how its children ended: when sort could not be
  run it reports 0 matches and success, and a search that failed half way counts
  what it had found (`TotalIsTheListing`).
- sort: a line longer than MAX_STRLEN characters loses the next one, and the rest
  becomes a line of its own (`PiecesOf`); "not a number" may end up anywhere
  (`SortedAtExit` speaks of the others).
- The list: a new head cuts off all but the last node (`InsertHead`), and a value equal
  to one in the middle makes a ring that `print_list` follows for ever
  (`InsertAfterEqual`, the exception `Ring` of `AllEnd`).

Disagreements of the same kind that no run of its own shows; the properties of these
programs claim less than the text does there:

- head is to "display the first n lines", or the whole file (head.c:138-140):
  newlines behind a terminator are not counted, so more may be written, and a file with
  fewer lines than asked for gets a newline that it does not have.  `HeadIsExact` is
  exact for texts without a terminator that have the lines, and otherwise says that
  nothing is missing.  When `read()` fails, on a directory for instance, head may loop
  for ever, because -1 is kept in a `size_t` (`HeadReadFails`).
- nforks is to wait for the children "actually spawned" (nforks.c:105-106); it waits
  once per fork tried, and so reports a failed `wait()` for each failed fork.
- findserver is to report a server if "data is received" and to try the next port
  otherwise (findserver.c:78-85): it gives up at a server slower than 250
  microseconds, and reports one whose connection ends without data.  `FindReport` says
  only that no port was skipped and no connection left open.

## 7. What is left out

- *Chat server*: start-up (arguments, socket, bind, listen), logging, buffer lengths
  (numbers of bytes, `sprintf` into `outbuf`), a reader so slow that `send()`
  blocks, EINTR in `accept()`, and the EINTR branch at line 260, which
  `RecvNeverWaits` shows cannot be taken.
- *Chat client*: the arguments, `socket()` or `connect()` failing, the prompt for
  the name (which repeats for ever at the end of input), a user called "bye", a
  message cut by the end of `inbuf` (it shows in two pieces), and the text of an
  overlong or unterminated line, which is cut or mixed with the line before (that the
  client waits for the newline is modelled).
- *mpsumarray*: failures of `malloc`, `ftok`, `semget` and `shmget` for lack of
  resources; the array and the arithmetic of the sums.
- *mtsumarray*: parsing, filling and displaying the array, failures of `malloc` and
  `pthread_mutex_init`; what the second thread reads from the array after main freed
  it, which reaches no output.
- *mtsieve*: wording, failures of `malloc` and `pthread_mutex_init`; an overflowing
  index is taken to end the process, as unoptimised code does.
- *minishell*: the prompt, `getcwd` and `sigaction` failing, lines of 100 words or
  more, and the byte written before `stinput` at end of input.
- *pfind, spfind*: entries that appear during the walk, paths longer than PATH_MAX,
  other spellings of a path than the one word `Start`, failing `malloc`, and write
  errors of the terminal.  `Labs/lab5/permstat.c` has the same loop over the
  permission bits with a leading dash, and no terminator in its buffer of ten.
- *quicksort*: negative numbers and overflow of `atoi`, and the depth of the
  recursion, which is the length of an array that is sorted already.
- *head, nforks, snooze, findserver*: the parsing of options other than head's count,
  header lines, and ports as strings.
- *junk* (a script of independent `mv` and `rm` calls), *cpumodel* (one pass of
  `fgets`), *lab2* and *lab12* (single loops over a string or an array) keep no
  state of their own between two steps.

## 8. Plan

1. `ChatBuffers`: the lengths at the limits of `inbuf` and `outbuf`
   (chatserver.c:263), a hazard of `PROJECT.json` without a property; the other two
   (chatserver.c:201, minishell.c:94) have none because nothing in the repository
   promises what they would break.
2. The arguments of chatserver and chatclient, and a reader too slow for `send()`.
