# Serie in TLA+

Serie (`c_core/`) listens to the kernel's proc connector and keeps a live
picture of the machine's processes: a hash table of process records and a tree
of parents and children, refreshed from `/proc` and flushed to a log. This
directory models the C program, checks the models with TLC and proves theorems
about them with TLAPS.

## 1. The system

| part | code | state | operations |
|---|---|---|---|
| process table | `ser_proc.c:4-79` | `buckets` of list nodes, each owns a `proc` | `proc_tabl_init`, `proc_inse`, `proc_look`, `proc_dele`, `proc_tabl_dest` |
| process tree | `ser_proc.c:81-109` | `pare`, `firs_chil`, `next_sibl` in each `proc` | `atta_chil`, `deta_chil` |
| record loading | `ser_proc.c:111-132`, `ser_prfs.c` | the `proc` that is being filled | `proc_load`, `prfs_look` = `prfs_stat`, `prfs_status`, `prfs_fd` |
| event handlers | `ser_proc_conn.c:89-292` | the locals of the handler that runs | `sock_reci`, `read_even`, `even_fork`, `even_exec`, `even_exit`, `re_pare`, `even_comm/uid/gid` |
| socket set-up | `ser_proc_conn.c:5-87` | the descriptor | `sock_crea`, `sock_regi`, `sock_unre`, `sock_send` |
| logger | `ser_logg.c` | the text buffer of one flush | `logg_proc_parse`, `logg_mem_writ`, `logg_time_reso` |
| main loop | `tests/main.c:176-251` | `running`, `logg_run`, the timer | `timer_setup`, `sigint_hand`, `test_proc_conn` |
| JSON library | `cJSON.c`, `cJSON.h` | trees of items, the printer's and the parser's buffers | create, add, detach, replace, delete, parse, print, minify, compare, duplicate |
| python prototype | `py_proto/serie.py` | `processes` | the polling scanner the C code replaced |
| first C scanner | `old_serie.c` | a growing array of pids | `lookup` |

**How they interact.** The main loop calls `sock_reci`, which takes one netlink
message and dispatches its event. The handlers are the only writers of the table
and of the tree. The table owns the records (`proc_dest` is called by
`proc_dele`, `proc_tabl_dest`, and by a handler whose record never got in); the
tree only points at them. The program is sequential; what runs concurrently is
the kernel, which goes on forking, exiting and reaping between any two reads of
`/proc`, while the events wait in the socket's queue. Two signals interrupt the
program anywhere and set a flag each; the loop looks at them once a turn. When the
timer's flag is set, the logger walks the table, makes a cJSON object of each record,
prints it into one buffer and appends that to a file.

**What is hard.** An event describes the past and `/proc` the present, so a
handler mixes both: the parent of a fork may be gone, the adopter of an orphan
may itself have exited with its exit event still queued, an attribute event may
be older than the value a refresh has stored. The dead stay in the table, so a
pid that is used again has several records. Every read and every allocation can
fail half way through a handler. The queue can overflow. A refresh releases what the
last one stored by a count that is already overwritten. The logger gives up single
records while its buffer has to stay whole. cJSON computes sizes apart from what it
then writes, moves pointers that stand for two things, and frees half-built trees.
PROJECT.json lists these hazards at the lines where they bite, each with the properties that watch it.

**What makes each part correct.**
- *Tree*: the walk of `deta_chil` never runs off the list and never loses a
  sibling; pointers and lists say the same thing.
- *Table*: a lookup finds the newest record of a pid, deletion removes exactly
  one record, and every record is freed once.
- *Handlers, whatever happens* (lost events, pids used again, no memory): one
  owner per record, no pointer to a freed record, a consistent tree, unique keys,
  the dead are roots.
- *Handlers, when events are not lost and pids not used again*: after all events
  are handled the live records are of processes that live (one case apart, section 3), and
  those that hang under the record of a running process hang under their parent; attributes
  agree; the dead stay dead; nobody is attached to a record known to be dead. (A live record may
  be without a parent, or stay under one that died without a parent of its own.)
- *Progress*: every handler ends, every event is handled, unless a process lives on for ever without
  its first thread; as long as handlers end, SIGINT ends the program and the flushes go on.
- *Descriptor paths*: what the first look frees is what it stored; what is logged after a look that
  succeeded exists.
- *Program*: nothing is used before it is acquired or after it is released; the sockets and the
  table are released on every way out, the timer on those behind the loop.
- *Logger*: the buffer is the lines of the records that were not given up, the file gets
  all of them or nothing, the times are the wall clock's.
- *cJSON*: the lists are linked both ways and each item has one owner; a text is parsed
  to its value or refused; what is printed is the value's text; no byte outside a buffer
  is read or written; a failing allocation leaves nothing behind, but for the reference of
  `cJSON.c:2147`.

## 2. The modules

| module | models | role |
|---|---|---|
| `ProcRec` | `proc *` | addresses and `NULL`, shared by all |
| `ProcForest` | what the tree promises | abstract: a list of children per record; used as the tree of `Serie` |
| `ProcTree` | `atta_chil`, `deta_chil` on pointers | refines `ProcForest`; the loop of `deta_chil` is a step per iteration |
| `ProcTreeProof` | - | theorems about `ProcTree` |
| `ProcTable` | the hash table and the heap | operators, used by `Serie` and by `ProcTableSpec` |
| `ProcMap` | what the table promises | abstract: a history of records per pid, as a set of ordered pairs |
| `ProcTableSpec` | the table driven by its callers | refines `ProcMap` |
| `Kernel` | processes, events, `/proc` | external, from how the handlers use it |
| `Serie` | the handlers and the receive loop | composes `ProcForest`, `ProcTable` and `Kernel` |
| `ProcProof` | - | theorems about the operations of `ProcForest` and `ProcTable` that the handlers call |
| `ProcTableSpecProof` | - | theorems about `ProcTableSpec` |
| `KernelProof` | - | theorems about the processes and the event queue |
| `SerieProof` | - | theorems about the tracker, first whatever happens, then when no event is lost and no pid is used again |
| `PrfsFd` | the memory of `fd_paths` | state and operations, composed in `Program` |
| `TimeReso` | the clock arithmetic of the logger | operators |
| `Logger` | one flush, allocation by allocation | state and operations, composed in `Program` |
| `Main` | set-up, loop, signals and shutdown | state and operations, composed in `Program` |
| `Program` | the program from start to end | composes `Main`, `Logger`, `PrfsFd` |
| `ProgramProof` | - | theorems about the program, its logger and its clocks |
| `SeqLemmas` | - | lemmas on numbers and sequences that the proofs share |
| `CJSONTree` | what the tree operations of cJSON promise | abstract: a list of children per item |
| `CJSONList` | child lists, names, references, memory | refines `CJSONTree` |
| `CJSONListProof` | - | theorems about `CJSONList`: invariants, refinement, answers |
| `CJSONParse` | the recursive descent | operators, driven by an author of documents |
| `CJSONText` | string literals, read and written | operators, driven by an author of literals |
| `CJSONPrint` | the printer and its growing buffer | a state machine, a step per piece of text |
| `CJSONMinify` | minifying in place | operators on every small text |
| `CJSONCompare` | comparing and copying | operators on pairs of values |
| `MC*` | - | instances for TLC |

**ProcTree.** `pare`, `firs_chil`, `next_sibl` are the three pointers as functions
of the record. `deta_head` is the branch for the first child; `deta_walk`,
`deta_next`, `deta_miss` and `deta_unlink` are entry, iteration and the two exits
of the loop, with `call` holding its arguments and `curr`. Calls are those that
the program makes: a child that is attached is detached (`Serie` guarantees it:
its property `ForestSpec`), and the loop is entered only with a parent that has
children. `ParentHasKids` says the second always holds for
`deta_chil(c->pare, c)`.

**ProcTable.** `heap` maps an address to its `struct proc` or `Free`; a bucket is
the sequence of records along its `next` pointers. The nodes themselves have no
other content and are not modelled. `pid & (PROC_BUCK_NODES - 1)` is `%` because
pids are not negative and the number is a power of two.

**Serie.** A handler is cut where the kernel can move in between: at every read of
`/proc`. `fr` holds its locals. `pc` is `recv` between two events; `stat`, `status`
and `fd` are the three reads of `prfs_look`; `load` is `even_fork` before the child
is loaded, `link` the point after a `proc_load`, `loop` and `repare` the loop of
`even_exit`. `ret` says which caller `prfs_look` returns to. `even_fork`,
`even_exec`, `even_exit`, `even_attr` are what runs from the receipt of the event
to the first read; `fork_pare`, `fork_load`, `fork_chil`, `exit_loop`, `re_pare` and
`re_pare_load` are the stretches between later reads. Early returns go to `Idle`,
with the rollback of the code in the same step. A record's `attr` are the name and
the ids; `exit_code`, `state`, `tgid` are written next to fields that are modelled
and read by nobody but the logger.

**Kernel.** `task` is the process table of the machine, `evq` the receive queue of
`QMax` events (an event that finds it full is lost), `clock` the time of the last
event. As in the kernel, an exiting process gives its children away before its exit
event is sent. Threads are ids like processes: the connector reports a new thread as a
child of its process's parent, a thread that exits is gone at once and leaves its children
to another thread, `/proc` names a process (`tgid`) as parent where the event named a
thread, and a process whose first thread has exited stays in `/proc` until all are gone.

**Program.** `Main` has a `pc` whose values are the next call of `test_proc_conn`, and an
action for each call; a call that can fail has a disjunct for it, with the `close` of the
error path in the same step. `SigInt` and `SigUsr1` are `sigint_hand`, and may run between
any two steps; before `sigaction` SIGINT ends the program. `PrfsFd` follows one record: the
slots of its array hold a path, NULL, or what `malloc` left there, and `prfs_clean_fd(i)`
frees the first `i`. `Logger` has the state of `logg_proc_parse`: `todo` is what the two
loops have not reached, `mem` and `cap` are the buffer's content and size, `live` counts
JSON trees and printed texts. `Program` joins them at the points where the code does: `Look`
and `proc_inse` while the loop is in `sock_reci`, `FlushBegins` to `FlushEnds` while it is in
`logg_proc_parse`, `Destroy` in `proc_tabl_dest`. Whether the handlers come to an end is not
asked here but in `Serie`, where a run shows that they need not: `Spec` grants no fairness to the
return from `sock_reci`, and `HandlersReturn` is a premise of `Stops` and of `FlushesGoOn`. `Up` stops
the model where the C program's behaviour is undefined:
after the untested `malloc(1)` and after a wrong `free`.

**CJSONList.** The heap is a record `h`: the live items, their fields, the number of allocated
names, and whether something was freed that must not be. An operation of the library is an
operator that returns the heap it leaves and its answer; the actions are the public functions,
with what the caller then holds (`held`) or what nobody can reach any more (`lost`). The caller
keeps the rules of `cJSON.h`: it adds only items it holds, never below themselves, and does not
change a list through a reference. `IsTree` is the refinement: the children of an item are
the chain from its `child` pointer, a reference has none.

**CJSONParse, CJSONText, CJSONMinify, CJSONCompare.** One-shot calls are operators translated from the
functions, with an explicit parser state `b` (offset, depth, allocations left, blocks held, a
flag for a read outside the text). What a call is held to is built next to it, independent of the code: in
`CJSONParse` the actions type documents of RFC 8259 token by token, and `doc` is the value the
author meant; in `CJSONText` each piece carries its meaning; `CJSONMinify` has a lexer, and
`CJSONCompare` the equality of JSON values. **CJSONPrint** is a state machine: `todo` is what
the calls still on the stack will write, a piece names how many bytes it asks `ensure` for, which
characters it stores and how far it moves `offset`, and `update_offset` looks for the terminator.

## 3. The runs

| run | instance | what it asks |
|---|---|---|
| `tree` | 4 records | `deta_chil` finds and returns; the pointers refine `ProcForest` |
| `table` | 4 records, 3 pids, 2 buckets, 4 birth times | ownership, lookups of the youngest, exact deletion; the buckets refine `ProcMap` |
| `robust` | 4 records, 3 pids, 5 events, queue of 2, pids used again, a subreaper, threads, failing opens and allocations | ownership, no dangling pointer, consistent tree, unique keys, dead roots; the handlers keep the tree's contract (`ForestSpec`) |
| `agree` | 4 records, 4 pids, 4 events, none lost, subreaper, threads, failing opens and allocations | acyclic tree; when all is handled, live records are of processes that live, and who hangs under a running process is its child or its thread's; death is final, and without threads nobody is put under the dead |
| `attrs` | 3 records, 3 pids, 2 attributes, 2 values, 4 events; files that are there can be opened | attributes agree |
| `live` | 3 records, 4 pids, 4 events, subreaper, threads, failing opens and allocations | every handler ends and every event is handled |
| `program` | 2 records with texts of 2 and 1 bytes, 2 looks at one of them, descriptor tables of 0, 1 and 3, seconds of 3 nanoseconds | acquiring and releasing, paths, buffer and file, times, SIGINT and flushes |
| `lists` | 5 items, at most 3 of them while there are names (2) or references; arrays of every number of items | links, ownership, lookups, places; the lists refine `CJSONTree` |
| `json` | texts of 8 tokens, literals of 3 pieces, texts of 6 bytes, values of 2 levels and some of 3, limits of 2 levels in parsing and in copying, buffers of 0 to 48 bytes in each mode | parsing, literals, minifying, printing, comparing and copying |

Why the bounds are enough: four records are a parent, two children and one that is
neither, so that a child can be unlinked from the head, the middle and the end;
three pids with init are a child, a grandchild and an adopter; two buckets make two
of three pids collide; five events allow fork, fork, exit, exit and a fork that
uses a pid again. In `agree`, where no pid is, the three other pids and four events allow a child, a
grandchild, a great-grandchild and the exit of the one between, whose child goes to the subreaper; two orphans
of one process; and a thread that makes a child, and the exit of it or of the first thread. More
events, and the process that `Threaded` leaves out below, are covered by the theorems of section 4, which set no
bound. Descriptor tables of 0, 1 and 3 are the one that is gone, the smaller and the
larger one on a refresh, with a path in front of and behind the failing one; two records are
needed for one that is given up beside one that is not; three nanoseconds make every borrow and
carry happen. Five items are an array of three (first, middle, last), an outer list and an item to put in;
names and references add nothing that needs more than an object, its member and one more. Eight
tokens are an object in an array with a member, or three levels past the limit of two with
something behind; each piece of a literal stands at a boundary of UTF-16 or UTF-8, and three are a
pair and a neighbour; the values of three levels are one more than is copied, with and without a
sibling that was copied before the limit is met; the print buffers lie on both sides of every length the values have, and
`INT_MAX` is small so that growing meets it. `Val` is one value where attributes are not asked about. Symmetry
over `Rec` is used only in runs without liveness properties.

**Bounds and their names.** `MaxClock`: events the kernel emits, `QMax`: the queue,
`MaxTime`: birth times in `ProcTableSpec`, clock values in `TimeReso`; `MaxLooks`: calls of
`prfs_look`; `Few`: live items in `CJSONList` while there are names or references; `MaxLen`,
`MaxBlanks`, `MaxPieces`, `MaxBytes`: the texts of `MCCJSON`; `Rec`: addresses (when all are in use,
`calloc` fails, as `CanFail` says).

**Fairness.** `WF_vars(Step)` in `Serie`: the program is one thread that is never
blocked while an event waits (the socket is non-blocking), so it goes on. Nothing is
assumed of the processes: they may stop at any time. `DrainsAfterGroups` speaks of the
time after the kernel has emitted its last event, which `MaxClock` brings about, and needs
that no process lives on for ever without its first thread; without that premise
(`Drains`) it fails, see below. `WF_vars(Walk)` in `ProcTree`: a running call goes on. `WF_vars(pc # "sock_reci" /\ Step)` in
`Program`: no call of the loop waits, the socket is non-blocking. The handlers are excepted, since the
loop of `even_exit` may spin (`leader`), and nothing is assumed of signals; so `Stops` and `FlushesGoOn`
have the premise that handlers return (`HandlersReturn`), and `FlushesGoOn` also the ticking timer.

**What the agreement properties assume.** `DeathIsFinal`, `Acyclic`, `TreeAgrees` and `AttrAgrees`
are claims about a world in which no pid is used again (`~Recycle`) and the queue has room for
every event (`MaxClock <= QMax`). With pids used again the code keeps none of them, and with lost
events only `Acyclic`, which is proved for that case too (section 4): a record can only be
told from an older one by events it may not have seen. `robust` states what is left then. Two
parts are narrower, because of threads:
- the last part of `DeathIsFinal`, that nobody is put under the dead, is about states without
  threads: the process of a dead first thread is a parent that `/proc` rightly names;
- the first part of `TreeAgrees`, that a living record is of a process that runs, leaves out
  processes that have had several threads (`Threaded`). `re_pare` may load the record of an adopter
  whose first thread has exited, and whose exit event was handled when there was no record
  to mark: the process is still in `/proc`, and when it goes nothing tells the tracker. Its record stays alive for good.

**The properties, run by run.** A property with several parts says so in its comment.
- `table`: `NodesOwnRecords`, `NewestFound` (a lookup answers the record with the latest birth),
  `DeleteExact`, `ImplementsMap`.
- `program`: `HeldThenReleased` (sockets, timer, table), `PathsExact` (the first look frees
  what it stored; what is printed after a look that succeeded exists), `BufferInStep`, `TimesExact`, `FlushWhole`,
  `Stops`, `FlushesGoOn`.
- `lists`: `MemoryInStep` (frees, names, pointers of siblings and owners), `WellFormed` (both links, one owner),
  `AnswersExact` (what a lookup finds, which place a call changes), `IsTree`.
- `json`: `ParseExact`, `ParseClean` (no leak, no read outside), `LiteralExact` (meaning, size,
  round trip), `MinifyExact` (content, in place), `PrintExact` (bounds, text, preallocated
  size), `CompareExact` (equality, symmetry), `DuplicateWhole`.

### Where the code and its documents disagree

Three runs expect a violation.

| run | the document | what the run shows |
|---|---|---|
| `birth_ppid` | docs/d13.md:34-37, `ser_proc.h:21`: `birth_ppid` is the creator, captured once | it is set to -1 after the first read, and the next refresh stores the parent of that time, perhaps the adopter |
| `leader` | docs/d13.md:62, docs/d17.md:25: exit handling is done, the loop then looks at its flags | when the first thread of a process exits before the others, `/proc` still names the dead record as the parent of its children and the loop of `even_exit` spins |
| `refresh` | docs/d13.md:52: `prfs_look()` is now safe to call multiple times on the same proc | `prfs_status` overwrites `fd_coun` before `prfs_fd` frees the old paths by it: slots are freed that hold no path |

The models show more of what the code does and no run asks about:
- `even_exit` returns at `ser_proc_conn.c:238` for a record without a parent in the tree, with its
  children still under it (docs/d13.md:23-25 speaks of all children);
- a process whose first thread had exited before `re_pare` loaded its record stays alive in the table
  after its last thread is gone (`ser_proc_conn.c:211-228`; `Threaded`, see above);
- the exit of a process that was never loaded rewrites the death of the previous owner of its pid;
- a running child is not tracked when its parent was reaped before the fork event was handled;
- the timer is left held when `calloc` or `proc_tabl_init` fails (`tests/main.c:224-233`), and by a SIGINT
  before the handler is installed everything is;
- a record whose refresh failed after `fd_coun` was overwritten is printed with that count
  (`ser_prfs.c:155`, `ser_logg.c:46`); `PathsExact` is about records whose last look succeeded;
- a tick that arrives during a flush is wiped out by the reset behind it (`tests/main.c:242`);
- `fputs` is not looked at, so a full disk leaves an unfinished line (`ser_logg.c:137`);
- `minify_string` takes the second half of an escaped backslash for the escape of a quote that
  follows (`cJSON.c:2916`); `MinifyExact` leaves such texts out;
- `cJSON_AddItemReferenceToObject` loses the reference whose key it cannot copy (`cJSON.c:2147`); `WellFormed`
  allows for that one;
- the case sensitive search ends at a child without a name (`cJSON.c:1961`); `AnswersExact` asks about it
  where every child has one;
- a reference keeps its child pointer when the children are deleted with the item they belong to;
  `MemoryInStep` leaves that pointer out, and the caller of the model does not follow it;
- a control character that stands in a literal as it is, is read for itself, where RFC 8259 refuses
  it; `LiteralExact` follows the code;
- an object with two members of one name is not equal to its own copy (`cJSON.c:3161`);
  `CompareExact` is about objects whose names differ.

## 4. The proofs

All theorems hold for every value of the constants, from their named assumptions: `NULL` is
no record, there is a bucket, an unallocated address holds no record (`FreeIsNoProc`,
`FreeIsNoKey`), pids are numbers, `KernelConstants` (pids are positive, init is a pid, the names
of the attributes), and in `ProgramProof` those of `PrfsFd`, `TimeReso` and `Logger`: a
descriptor table has a number of entries, a second at least one nanosecond, a printed record at
least one character, and the record that is looked at is a record. `CJSONListProof` has those of `CJSONList`: NULL is
no item and no name, there are finitely many items, and `tolower` maps names to names. Some theorems have hypotheses of their own:
`~Recycle` in `TreeAcyclic`, and `~Recycle` with `MaxClock <= QMax` in `TreeAgreement`, `AttrAgreement` and
`DeathFinal`; `AttrAgreement` also has `~AllocMayFail`, as a refresh that cannot open a file leaves the
attribute it should have read. `agree` and `attrs` are instances that satisfy them.

**`ProcTreeProof`: the pointers.** `ParentHasKids`, `WalkFinds` and `NoSharing` are not inductive:
that the walk still finds its child, or that the record it unlinks is in one place only, depends
on the whole list the walk has yet to visit, and reachability along `next_sibl` is not a
formula without induction. The invariant `Inv` therefore says that the pointers spell out
some lists: there is a `k \in [Rec -> Seq(Rec)]` such that `firs_chil` and `next_sibl` are
what `k` prescribes (`Described`), the lists of `k` hold exactly the children, once each
(`Exact`), and the cursor of a running call stands before its child (`Cursor`). `StepLists` has
for each action a witness for the new `k`: the old one, or with an element put in front or left
out. `TypeCorrect`, `ParentsHaveKids`, `WalksFind` and `SuccessorsUnique` follow.
`TreeIsForest` is the refinement of `ProcForest`. Its mapping is a recursive function, whose
value TLAPS cannot compute by induction; `AlongUnfolds` shows that the recursion has a solution,
by giving one (the rest of the list a record stands in), and `AlongSpells` that this is what it
returns, from a counterexample as near as possible to the end of its list. So the chains are the `k` of
the invariant, and `StepLists` says that they step as the forest does.

**`ProcProof`: the tree and the table the handlers see.** `AttachConsistent` and `DetachConsistent`
show for one call that the lists and the parent pointers still agree; `ForestConsistent` is the
invariant. `LookupAnswers` and `InsertionAdds` say what `proc_look` and `proc_inse` do in any state in
which nodes own their records.

**`ProcTableSpecProof`: the table on its own.** The inductive invariant of the
table driven by its callers is `TableInv`: ownership, `NothingLost` (every allocated record is in a
node), and that keys differ, which `DeletionIsExact` needs since `proc_dele` stops at the first match. `TableIsMap` is the refinement of
`ProcMap`, one lemma per operation: `history` is mapped to the pairs of records of a pid of which
one stands before the other in the bucket, so an insertion at the head adds the pairs of the new record
with all others, and unlinking takes out the pairs of one record and keeps the order of the rest.
`LookupNewest` says in those terms what a lookup finds, and `AgesFall`, the last part of the invariant, that
this order is that of the births; `NewestIsFound` follows.

**`KernelProof`: the environment.** `KernelKeepsTypes` is what the tracker's proofs need of it, with one
step per action of the processes; `EmitKeeps` shows once for all of them that an event is queued
with a later time than those before it, or dropped. `ProcessesAge` is about ages, `KernelAgrees` about what the
queue still tells; see below.

**`SerieProof`: the tracker.** The invariants of `robust` are not inductive: that `prfs_fail` frees
the record it should, or that `re_pare` attaches a record that has no parent, depends on which handler is
running and on what it did before its reads of `/proc`. `IInv` adds `FrameOK`, which says for each
`pc` and `ret` what the handler's locals hold (the record being filled is allocated and is in no
node while it is loaded; an orphan between its detaching and its new parent has none and is
not dead), and `Owners`, `Ownership` without the set of allocated records. The proof has a lemma per
action; `HeapStep` (the tree is left alone), `TreeStep`, `InsertStep` and `LinkStep` hold what actions
share. `OneOwner`, `NothingDangles`, `TreeConsistent` and `DeadAreRoots` follow from `Invariance`;
`ForestImplemented` is the refinement: the tracker, with its own `kids` and `pare`, implements `ForestSpec`.

`KeysUnique` needs time. `KeyInv` says that the births in the table lie before every event still
queued (`BirthsPast`), also before the fork that is being handled and whose child is not in yet
(`ForkTime`), and that a record loaded as a parent or reaper, whose birth time stays 0, has a pid
of which the table has no record (`LoadedIsNew`): two records of birth time 0 cannot meet. Lost events and
pids used again do not matter to it, because the queue only ever moves forward (`QueueMoves`).

`TreeAcyclic` needs an order in which parents come before children, and the tracker has none: `/proc`
runs ahead of the events, a record's `ppid` may be the adopter or the creator, and a parent is
loaded when its child is. `AgeInv` says that there is an `age \in [Pid -> Nat]` such that every parent
of a process, every parent a queued fork reports, every `ppid` of a record, every edge of the tree
and every pair a handler holds names an older process first. A fork gives the child an age above all others, and
an exit gives children to a thread of the same age, to a subreaper above or to init (`ProcessesAge`).
`~Recycle` is needed since a pid used again is both young and old; that no event is lost is not.

The end of `SerieProof`: **the tracker agrees with the processes.** `TreeAgrees` and `AttrAgrees` are about states in which
every event is handled, and no such state follows from the one before: what is wrong with a record
in between is what some event in the queue, or the handler that runs, will still put right. So the
invariant `Agreeing` says of every record what that is.
- It takes the queue as the set of its events, which `EventsOrdered` orders by time. `Known(p)`: p's fork is not
  pending; `Going(p)`: p runs or its exit is pending; `Related(b, a)`: as long as both run, b is a thread of
  a's parent; `Settles(e, p, a)`: the handler of e makes attribute a of p right.
- `TaskInv` and `QueueInv` are about the processes alone: who is told of runs or has an exit pending that
  is the last to tell of it, a fork comes first, parents' forks come before their children's, a fork names the
  child's parent, and an attribute event carries the present value or another follows
  (`KernelAgrees`). `Lasting` is what a step of the processes leaves as it was, however many of
  them happen between two reads of a handler.
- `RecordsOK`: a dead record's process is not going on; a living one's is, or is `Threaded`, and each attribute
  is right, is to be read by the running handler, or is settled by a pending event. `KinOK`: a child in
  the tree is going on and is related to its parent there. `HandlerOK`: the same of the pids that the
  handler holds, since it read them before other things happened: `Bond` is what `re_pare`
  knows of the parent that `/proc` named. `PidsUnique`: a pid has one record.

There is a lemma per handler and per read; `ProcessesAgree` is the step in which the processes move
under the handler. With an empty queue and no handler running the repairs are all made
(`QuietAgrees`), which gives `TreeAgreement` and `AttrAgreement`. `DeathFinal`, an action property, needs the same
invariant: a handler writes a record only of a process that is going on, and the dead are not.
The proof of `TreeAgreement` did not close for the property as first stated, where every living
record was of a running process; the case it left is the one of `Threaded`, and TLC has a behaviour with it.

**`ProgramProof`: the program around it.** `ReleaseInv` has three parts. `Stages` says what is held at each
value of `pc`, from which `EverythingReleased` follows on every way out; `Turns`
that no look at a process is half done outside `sock_reci` and no flush goes on outside its place in
the loop; `PathsInv` relates the slots of the descriptor array to the count (`PathsAreExact`).
`FlushInv` says of a running flush that what is not in `todo` is done, that the buffer is the
written lines and a terminator, and how many JSON trees and texts are alive at each `at`.
`BufferStaysInStep` and `FlushIsWhole` follow. They speak of `Lines`, a recursive function over the records;
`LinesRecursion` shows that it unfolds and `LinesAgree` that a record given up later does not change
the lines before it, both from a least counterexample (`MinExists`). `AddExact` and `SubExact` say that sums and
differences of clock values are normal and exact; `ResoIsExact` composes them as `logg_time_reso` does,
for every length of a second.

**`CJSONListProof`: the lists of cJSON.** Neither `WellFormed` nor `MemoryInStep` is inductive. That a call keeps a list linked
depends on what its chain looks like from end to end, and that `cJSON_Delete` frees nothing twice on how all lists
hang together; and chains are recursive functions. So, as in `ProcTreeProof`, the invariant
`Owners` says that the pointers are what some lists prescribe, here as numbers: there are an owner `own[i]`
and a place `pos[i]` for each item and a length `len[a]` for each list, such that
- `Ranked`: the items of `a` stand at the places 1 to `len[a]`, one at each;
- `Linked`: `child` is the item at place 1 and `next` the one a place further;
- `Backed`: `prev` is the item a place before, and of the first the last;
- `Loose`: an item without an owner points to no sibling;

and that the names are counted right (`Names`) and the items without an owner are those in the caller's hands and
those it lost. `ChildrenSpelled` shows that the walk along `next` spells the list, from a counterexample nearest to the
child pointer; `DoomedBelow` that deleting an item without an owner frees what is owned below it and no more, and
`FreedOnce` that it reaches nothing along two ways. `PutShapes`, `CutShapes` and `SwapShapes` have the new owners, places and
lengths when an item goes in, comes out or takes another's place; the lemmas after them say that the writes of each
call amount to one of these. `cJSON_CreateIntArray` links any number of items in a loop, and its chain in `CJSONList` is a recursive
function: `ChainUnfolds` shows that it unfolds and `ChainLinks` what k turns have made, from a least counterexample. `Backed` has a
parameter for it: the list whose first item has no way back yet when an allocation fails and the half-made array is deleted
(`HalfMade`). `NextKeeps` is the step, `CJSONListWellFormed` and `CJSONListMemory` follow.

The refinement (`CJSONTreeImplemented`) is about the tree of the heap, `KidsOf(heap)`: the children each item owns.
`CJSONTree` deletes what is below an item, and an item must not be put below itself, which the code does not test and
`MayAdd` asks of the caller; `Owners` does not exclude a ring of lists that own one another. So there is a second invariant,
`ItemsHang`: every non-empty set of items has one that is the child of none of the set. `BelowLeast` shows that what
`cJSON_Delete` reaches from an item is the least set closed under children, and `KidsDetermined` that owners and places determine the tree.
The lemmas between them say of each call that it changes the tree in one way: it puts an item in (`PutIn`), takes one out
(`TakenFrom`), exchanges two (`Swapped`), removes all that is below an item (`Pruned`) or makes new items (`Beside`; the loop of the array call adds one item
a turn, `LinkedKids`). Each
change keeps `Hangs`, and is one action of `CJSONTree`; `NextSteps` has a case for each call, with those that fail as
stutters. `CJSONListAnswers` reads the places off the tree in the same way (`OwnersPlace`), and the look-ups off the walk along the list:
it stops at the first item with the name (`OwnersLookup`).

Each invariant but one was an invariant of a TLC run on the instance of its component before it was proved; `Owners`,
with three functions to guess, is beyond TLC, which checks its two consequences.

**Only model-checked**, and why:
- liveness (`WalkReturns`, `DrainsAfterGroups`, `Stops`, `FlushesGoOn`): the prover has no fairness;
- the properties of `json`: parsing, printing and comparing are RECURSIVE operators on their data,
  which the prover cannot reason about.

## 5. Not modelled

- The bytes of the netlink messages; the parsing of `/proc`: the values read are modelled, the
  text is not; a process that vanishes between `fopen` and `fgets` is one that vanished before
  `fopen`.
- The JSON text of a record: in `Logger` it is an opaque text of some length. A clock that cannot
  be read, and a file that is written in part.
- The exec of a process with several threads, where the id of the first thread changes
  hands.
- `gid` has the same code as `uid` and is represented by it. Event types the code
  ignores are not sent. A subreaper farther up than the parent is left out.
- cJSON: the conversion of numbers to and from text, `cJSON_SetValuestring`,
  `cJSON_SetNumberHelper`, `cJSON_InitHooks`, raw items, the byte order mark, the error pointer,
  and the accessors that read one field.
- `py_proto/serie.py`, a separate polling program that the tracker replaced, and `old_serie.c`,
  which nothing builds.

## 6. The plan

1. *(done)* the tracker: `ProcForest`, `ProcTree`, `ProcTable`, `ProcMap`, `Kernel`, `Serie`.
2. *(done)* the program around it: `PrfsFd`, `TimeReso`, `Logger`, `Main`, `Program`.
3. *(done)* the library under it: `CJSONTree` and the six modules on cJSON.
4. *(done)* proofs about the tree, the table, the processes, the tracker's memory, keys, ages and
   agreement, the program, and the lists of cJSON, with the refinements of `ProcForest`, `ProcMap` and `CJSONTree`.
5. Left: the parts of section 5 that have a state of
   their own (raw items and the setters of cJSON, the exec of a process with threads).
