# Pippy: specifications, model checks and proofs

Pippy is Python 1.5.2 ported to Palm OS. This directory holds TLA+
specifications of the parts of it that are hard to get right and hard to test,
the TLC configurations that check them on small instances, and theorems about
them that TLAPS proves for every value of the constants. Paths below are
relative to the repository.

`PROJECT.json` lists, for every definition that models code, the lines it
stands for; every hazard with the properties that cover it; and, for every
property of a passing run, a plausible bug (a *mutant*, defined in the module
next to what it changes) that makes TLC report the property violated.

## 1. The system

The program is one address space. Asynchronous contexts (signal handlers, I/O
completion routines) interrupt the interpreter; destructors and callbacks
re-enter it in the middle of C functions; on Palm OS, part of the data lives in
databases of the operating system that outlive the process and are written only
through system calls.

| Component | State it keeps | Operations | What is hard, what must hold |
|---|---|---|---|
| Pending calls (`Python/ceval.c` 205-301, 598-614) | ring `pendingcalls`, `pendingfirst`, `pendinglast`; `things_to_do`; two statics `busy` | `Py_AddPendingCall`, `Py_MakePendingCalls`, check in the loop | lock-free, two sides, nesting registrations: no call lost, torn, reordered; no lost wakeup |
| Signals (`Modules/signalmodule.c`) | `Handlers[].tripped`, `is_tripped` | `signal_handler`, `PyErr_CheckSignals`, `PyOS_InterruptOccurred`, `signal.signal` | signals during the scan, scans nested in handlers, handlers that fail: none forgotten, none handled twice |
| Dictionaries (`Objects/dictobject.c`) | `ma_table`, `ma_size`, `ma_fill`, `ma_used` | get, set, delete, clear, update, resize | open addressing with dummies: lookups end, no key lost; failing allocations; destructors that come back |
| Storage of tables (`Objects/dictobject.c`, `PALMDM_DICT_OBJECTS`) | `db_index` of each dictionary | resize, write, clear, deallocate | two kinds of memory told apart by one field; nested destructors: none freed twice, used after, or leaked |
| Scratch database (`Palm/PalmGlue/dbmem.c`) | `stringdb_ref`, the database itself | init, fini, create, delete entry | survives a reset; every system call may fail |
| Immortal objects (`Objects/stringobject.c` 2238-2343, `dbmem_addPy*`, `Python/marshal.c`) | copies in records with the reference count `PALMDM_REFCNT` | intern, copy code, `Py_INCREF`/`Py_DECREF` | copies refer only to what stays; failing copies |
| palmdm (`Modules/palmdmmodule.c`) | databases, records, buffers, locks | open, query, release, close, dealloc | order of release and close; locks on error paths |
| Interpreter lock and thread states (`Python/ceval.c` 111-200, 626-640; `Python/pystate.c`; `Modules/threadmodule.c`) | `interpreter_lock`, current thread state | save, restore, switch, bootstrap | one thread runs; the state goes with the lock |
| Import lock (`Python/import.c` 160-200) | lock, owner, level | `lock_import`, `unlock_import` | re-entrant; order against the interpreter lock |
| `Lib/Queue.py`, `Lib/threading.py` | `mutex`, `esema`, `fsema`, list; waiters | put, get; wait, notify | baton passing of locks; no deadlock, no lost item |
| Frozen module loader (`Palm/PalmGlue/frozen_importer.c`) | cache of records, locks | initialise, clean up | locks balance; list after it is freed |
| Network (`Modules/palmnetmodule.c`, sockets, select) | `AppNetOpen` | open, close, fini | reference counted by the system; partial failure |
| Interactive application (`Palm/Interactive`), events and forms | events, list of handlers | event loop, evaluation, interrupt check | events read while a program runs; handlers replaced while they run: every callback there and counted, every event freed once |
| Compiler (`Python/compile.c`) | `struct compiling`: code, level of the value stack, blocks, line table | `com_*` on the nodes of the tree | counted by hand: stack size, jumps, blocks, lines |
| Byte code interpreter (`Python/ceval.c` 594-2075, `Objects/frameobject.c`) | value stack, block stack, exception of the frame and of the thread | one instruction after the other, unwinding | what a `finally` interrupted goes on; stacks of fixed size that nothing tests |
| Start and end, tokenizer and parser, other objects, serialisation, allocator, other modules and library, tools | | | sequential or third-party; see section 7 |

Interactions: `signal_handler` registers `PyErr_CheckSignals` in the ring of
pending calls and the interpreter loop calls it from there; a failing pending
call reaches the loop as an exception. Dictionaries take tables from `malloc`
or the scratch database; dropping a value runs destructors, which use
dictionaries. `python_init` and `python_finalize` open and delete the scratch
database around the life of the interpreter. Interned strings are kept in a
dictionary and their copies in the scratch database.
Threads hand the interpreter lock on in the loop, around blocking calls and
while they wait for the import lock. `Lib/Queue.py` and `Lib/threading.py` are
Python code that switches between any two statements; both are built of the
locks of `Modules/threadmodule.c`. Handlers of forms are called by Palm OS from
`FrmDispatchEvent`, that is from the application's loop or from inside a call
of another handler. Buffers on records keep pointing to memory that the record
object unlocks. The compiler tells the interpreter how much stack a frame needs
and how many blocks it nests, and the interpreter relies on it.

## 2. The modules

| Module | What it is |
|---|---|
| `CallQueue` | abstract: a queue with a limit or without; what is taken came in, in that order; implemented by the ring and by `Lib/Queue.py` |
| `PendingCalls`, `Ceval_proofs` | the ring, one access to shared memory per step; its theorems and those of `EvalLoop` and `LineTable` |
| `Signals`, `Signals_proofs` | signals over a ring reduced to a count and the `busy` that a full ring leaves set; its theorems |
| `DictSpec` | abstract: a finite map that does not change during a resize |
| `DictTable`, `DictTable_proofs` | the hash table; its theorems |
| `DictProbe`, `ProbeCycle` | the probe sequence of `lookdict` as operators; the walk of it, step by step |
| `DbMem` | the life of the scratch database: actions that `DictStorage` and `Immortals` compose |
| `DictStorage`, `DictStorage_proofs` | who owns which table, on top of `DbMem`; its theorems |
| `Immortals` | reference counts and copies in records, on top of `DbMem`; theorems in `References_proofs` |
| `FrozenModules` | the search for precompiled modules and its locks; theorems in `References_proofs` |
| `Threads`, `Threads_proofs` | the interpreter lock, thread states, the import lock; its theorems |
| `SyncQueue`, `SyncQueue_proofs` | `Lib/Queue.py`, one statement per step; its theorems |
| `Conditions`, `Conditions_proofs` | `Lib/threading.py`: RLock, condition, semaphore, event; its theorems |
| `PalmRecords` | databases, records and buffers as a program uses them; theorems in `References_proofs` |
| `FormHandlers` | handlers of forms, wrapped events, dispatching; theorems in `References_proofs` |
| `References_proofs` | what is referred to is there and what is taken is returned: theorems of the four modules above that count or lock what they refer to |
| `CodeObjects` | what compiler and interpreter share: the limit on blocks, the code object |
| `StackShapes` | what each instruction does to the kinds of values on the stacks; code executed on those kinds alone |
| `Compiling` | the compiler: operators from a `struct compiling` to the next |
| `EvalLoop` | one call of the interpreter on the code of a function, an instruction a step; the compiler is a parameter (`Compiled`), which the run makes `jcompile` |
| `LineTable` | the table of line numbers, written and read one pair of bytes a step |
| `Statements` | abstract: what a function means, over its tree; the properties of the two above |
| `BlockTrees`, `ExpressionTrees` | the functions that are compiled and executed: nested statements, nested expressions |
| `MCKeys` | the keys of the instances of `DictTable`, their hashes and probes |
| `MCPendingCalls`, `MCWakeups`, `MCLocks`, `MCDict`, `MCLookup`, `MCDestructors`, `MCImmortals`, `MCPalm`, `MCFunctions` | TLC instances |

`MCLookup`, `MCImmortals`, `MCDestructors`, `MCLocks`, `MCWakeups` and
`MCFunctions` put two specifications side by side. A variable chosen at the start says which of them
moves, and fairness is stated of that one only; the other stays where it is, so
each is checked on its own and no property relates them.

### PendingCalls

The variables have the names of the code; `addbusy` and `makebusy` are the two
statics called `busy`. Each registrar has a point `at` in `Py_AddPendingCall`
and its local `i`, the main thread a point `main`. A step is one access, so an
access of one side may fall between any two of the other. `accepted` and
`executed` are histories. A pending call that runs interpreter code comes back
to the loop (`CheckThings` with `running > 0`), where the static `busy` of
`Py_MakePendingCalls` stops it.

Registrars nest, as interrupts do: `nest` is a stack, only the innermost moves.
That is the race (1) of the comment at lines 223-228, "nested asynchronous
registry calls", against which the comment says that the code is not safe. The
model says something else of it: the run `pending` and the theorems find nothing
lost, torn or reordered, because the inner registration is refused, or is
complete before the outer one sets `busy`. With the constant `Parallel` the
registrars are threads beside each other ("any thread can schedule pending
calls", line 219); then two of them pass the test of `busy` together and an
accepted call is lost (`pending_threads`). Section 4 compares both with the
comment.

### Signals

`scans` is the stack of calls of `PyErr_CheckSignals`, each with its `i`; `pc`
is where the innermost is. The steps are the accesses to `Handlers[].tripped`
and `is_tripped`. The ring is the number of calls in it, `calls`, which is sound
because `PendingCalls` shows that none it accepts is lost and because every call
that signals register is the same one; and `busy`, which a registration that
finds the ring full leaves set (finding 1), so that all later ones are refused.
The histories are `overrun`, the signals that came when a scan had passed their
number, and `late`, whether one came with `busy` set. `TrippedIsHandled` speaks
of executions in which neither happens.

### DictTable

A key stands for a class of equal objects, so that the pointer test, the hash
test and `PyObject_Compare` are one comparison; hashes may collide. `Probe` is
a parameter with one assumption, that the probes visit every slot; `ProbeCycle`
checks that the code's probes do. The loops of `dictresize` and `dict_update`
go one iteration per step, the rest of each operation is one step. During an
update a value that is dropped may run a destructor that uses the dictionary
(`Reenters`, `hook`); after `PyDict_Clear` in that place the update indexes a
NULL table, which the model shows as `phase = "crash"`. Such a destructor may
start any operation but another update. A comparison that itself changes the
dictionary is not modelled.

### DbMem and DictStorage

Contents are abstracted away. A dictionary has a `table`, which is a record, a
block of the heap or NULL, and a `db_index`. `ClearStarts` and `DeallocStarts`
take the table out of the dictionary, `FreeCleared` frees it; between the two
any destructor may run, so the calls form the stack `active`. `FreeTable` frees
a table the way its `db_index` says; freeing or writing memory of the other
kind sets `fault`, and a program with `fault` does not go on. `misled` is a
history of the dictionaries that findings 3 and 4 happened to: those whose
`db_index` was changed while a table remained that only the old value told the
place of. `IndexTellsTheTable` says of all others what their `db_index` is, and
`OwnedOnce` speaks of executions without them (`Intact`). A record is its
unique id (the indices of the code are found from it). Every call of the data
manager may fail, the device may be reset at any time, and the database stays.

### Immortals

Objects are places on the heap and records. `ob_refcnt` and `contents` are
theirs, `refs` counts the references a program has, and `Holds` tells what an
object refers to. `Count` is `Py_INCREF` and `Py_DECREF` with the test against
`PALMDM_REFCNT`; an object that comes to 0 is in `dying` until `_Py_Dealloc`,
which releases what it holds. `PyString_InternInPlace` has its four outcomes:
already interned, copied, copied but not entered, no record. Reading a code
object goes in the steps of `marshal`: `ReadCode`, `CopyTuple`, `CopyCode`,
`EndLoad`, with a failure in each copy; `load` is where it is. One tuple stands
for the three of a code object, and one name for its other fields. `surplus` is
a history of the counts that no reference stands for any more.

### FrozenModules

`dbNames` and `resNames` are what the database and the resources contain;
`all` is the list `_frozen_record`s are cached in, `cached` tells which of the
two was read, `code` what was found for each entry of the table, and `modLocks`
how often each piece of memory is locked. `search_datamanager` and
`search_resources` differ only in their source and are one operator `Search`
with a parameter. One session per launch is modelled.

### Threads

Each thread has a point `pc` and the `goal` it gave up the lock for. With the
interpreter lock held, what a thread does is one step; between releasing and
taking it (`releasing`, `away`, `wanting`, `taken`, `deleting`) every access is
a step of its own. `SwapOut`, `ReleaseLock`, `AcquireLock`, `SwapIn` serve the
loop (`ceval.c:630`), the pair of `PyEval_SaveThread` and
`PyEval_RestoreThread`, and `PyEval_AcquireThread`/`PyEval_ReleaseThread`;
`FatalUnless` is the check each of them makes. `lock_import` has three cases.
`NewState` and `DeleteState` run without the lock, as in `t_bootstrap`.

`Py_Finalize` swaps the state of the main thread out and keeps the lock; then
the states are deleted one by one (`zapthreads` reads the head of the list,
`ZapState` deletes that state), `TestRemaining` looks whether the list is empty
and `FreeInterpreter` frees it. Threads that begin or end may link or unlink
their states between any two of these steps; then `touched` is set. A state
that is no longer in the list, or in the list of an interpreter that is freed,
is looked for in memory that may hold anything, so `DeleteState` and `ZapState`
are fatal or not in that case. `NoFatalError` is `fatal => touched`, and nothing
happens after a fatal error. A failure of `PyThreadState_New` for lack of memory
and the destructors that `PyInterpreterState_Clear` runs are not modelled.

### SyncQueue

The three locks are the set `locked`; `at` is the statement each thread comes
to. `put` and `get` are the same code with the roles of `esema` and `fsema`
exchanged, so the operators `Own`, `Other`, `AtOwn`, `AtOther` say which lock
and which test, and one action models the statement of both. An exception from
`_put` or `_get` (`ChangeRaises`) leaves the locks as they are, as the code
does. `error` is set when a lock that is not locked is released.

### Conditions

`block`, `owner` and `count` are the RLock; `waiters` is the list, in which a
lock is named by the thread it belongs to, and `open` the waiter locks that are
unlocked. `notify` goes statement by statement: `slice` is the copy it takes of
the list, then each lock is released (`ReleaseWaiter`) and removed (`Delist`),
as `list.remove` does it (first occurrence, nothing if it is not there, which
is the `except ValueError`). A wait with a timeout is polling: `TimesOut` may
happen at any moment before the lock is released, `RemoveWaiter` then takes the
lock out without holding the condition. The semaphore and the event are the
users of `Use`-like actions; which of the three is made is the variable `kind`.

### PalmRecords

Objects have counts, `mine` is what the program refers to, `doomed` what is
being deallocated. `queryrecord` locks a handle and makes a record object with
a buffer, `release` unlocks, `Derive` and `MakeBuffer` make buffers on the base
of another (`Root`). `leaked` and `unowned` are histories of what a failure or
a drop leaves with nobody to give it back; `crashed` is set when a closed
database is handed to the data manager, and nothing happens afterwards.

### FormHandlers

`running` is the stack of calls: a handler that runs, a destructor, or a
replacement of a handler in progress (`StartReplace`, then whatever the
destructor of the old one does, then `FinishReplace`). A wrapper has the event
`evOf` and a count; `WrapForCall` gives the wrapper of each dispatch the count
it has in the code, with the references that are never given up. `broken` is
set where the code would use memory that is gone: the release of a handler that
was replaced twice, a callback after `Py_Finalize`, and a wrapper left behind by
an earlier dispatch whose event has been freed (`UseFreedEvent`). That the
result of a handler is never given up (`palmformmodule.c:199-213`) is left out:
nothing in the model refers to it.

### Compiling, EvalLoop, Statements

`Compiling` translates `com_node` and everything below it: c is
`struct compiling`, `code` its bytes (an instruction at the address it has in
the code, its two argument bytes after it), and errors are counted as
`c_errors` counts them. Operators that differ only in the instruction they emit
are one (`BINARY`, `UNARY`, `LOAD_NAME` for all kinds of variables); calls with
keywords, slices, chained comparisons, unpacking, `exec`, `import`, functions
and classes are there.

`EvalLoop` starts a frame on the code of one of `Programs` (the constant
`Compiled` gives it; `jcompile` in the run) and executes it. `CodeObjects` has
what both use, the size of the stack of blocks and `PyCode_New`. An
operation on objects (`ObjectOp`) takes and gives values, or fails; `log` keeps
what was executed and how it came out. A jump on the truth of an object is one
of them (`JumpIf`): the object is asked, the answer is `true` or `false` or an
exception, and an object that is asked twice, as by `if a and b`, need not
answer the same. `Unwind` is the end of the loop
(`on_error`): for `break`, `return` and exceptions, up to the block that
handles them. `exc_type` and `f_exc_type` are what `set_exc_info` and
`reset_exc_info` exchange.

`Statements` gives the same tree a meaning without code, stacks or blocks:
`Exec` goes through the statements and takes the outcome of each operation from
the log. `CodeMeansProgram` compares the two in every state, so the code asks
for the operations the program asks for, in that order, and ends as it should.

`StackShapes` executes code without objects: a shape is an address, the kinds of
the values on the stack (an object, or what `finally` tells its kinds of ends by)
and the blocks, and `Steps` has the next shape for each outcome of an
instruction. A stack map is a set of shapes that fit (`Fits`: there is room, and
nothing is taken that the block did not get) and whose steps stay in it.
`CodeHasStackMap` computes the shapes that a function reaches when it begins;
they are finitely many however long the function runs.

### LineTable

`Compiling` writes the line table of the functions of its run in one go. Here
the start of a line (`com_set_lineno`: `BeginLine`), the loop in it that writes
pairs, and instructions (`com_addbyte`: `EmitCode`) come in any order that the
calls allow, and `PyCode_Addr2Line` (`Addr2Line`) goes through the pairs. A
module begins with line 0, the line of the root of its tree. `c_lines` is a
history of the line each byte was emitted for, `begins` of where each pair goes
on from, `exact` tells whether the two things happened that the format cannot
express (findings 10 and 11).

## 3. The runs

Two workers are enough: the longest runs take two to three minutes. That of
the compiler checks a few thousand functions, each from initial states of its own.

| Run | Instance | What it shows |
|---|---|---|
| `pending` | 3 slots, 2 registrars, 2 calls, at most 3 accepted before the last start | `OneRegistrarInside`, `NothingLost`, `NoLostWakeup`; under fairness the ring implements `CallQueue` (`ImplementsQueue`, a refinement with liveness) and `RegistrationReturns` |
| `pending_wedge` | as above, at most 4 | finding 1 (violation) |
| `pending_threads` | 3 slots, 2 registrars that are threads beside each other | `NothingLost` is violated (finding 14) |
| `dict_safety` | 4 keys of which three collide, 2 values, sizes 4 to 32; beside it the increments of every table up to 2^14 slots (every hash up to 128 slots) | `OneNullKey`, `LookupIsRight`, refinement of `DictSpec` (`ImplementsMap`); `FullCycle` |
| `dict_alloc` | 4 keys, failing allocations | finding 2 (violation) |
| `dict_reentry` | 3 keys, 2 values, failing allocations, destructors that use the table while it changes | `NoKeyIsLost` |
| `destructors` | 2 dictionaries, 3 records, 3 blocks, calls 3 deep, failing `malloc`, destructors that use a dictionary being cleared, resets; beside it 2 forms, 2 callbacks, 2 wrappers, 1 event, calls 3 deep | `OwnedOnce` (and nothing leaks), `IndexTellsTheTable`; `HandlersAreThere`, `EventsAreFreedOnce` |
| `locks` | 3 threads, imports nested twice, `Py_Finalize` state by state; beside it 3 threads at a queue (one only gets, one may raise), no limit, 1 and 2 places, 3 puts | `OneRuns` (and none after the end), `NoFatalError`, `OneImporter`, under fairness `ImportGoesOn`; `ReleasesAreMatched`, `LocksTellTheLimits`, refinement of `CallQueue` with the size of the queue as its limit (`ImplementsFIFO`), under fairness `PutReturns` |
| `wakeups` | 2 signals that come twice each, a ring of 2 calls that they can fill, scans 3 deep; beside it 3 threads, RLock 2 deep, value up to 2, all three kinds | `OnlyOverrunsAreForgotten`, `HandledOncePerArrival`, under fairness `TrippedIsHandled`; `MonitorHolds`, `WaitersAreListed`, `OnlyTimeoutsWasteANotify`, `NoReleaseIsLost`, under fairness `EventWakesAll` |
| `palm` | 2 databases, 2 record objects, 3 buffers, 2 handles, each locked at most twice; symmetry | `ValidIsLocked`, `EverythingIsReturned` (objects and locks) |
| `immortals` | 4 places on the heap, 3 records, 1 text, `PALMDM_REFCNT` = 3, 2 references of the program; symmetry. Beside it a table of 3 modules, all databases and resources of at most 2 entries | `ReferencesAreCounted`; `ModulesKeepTheirCode` (found wherever it is, and locked) |
| `compiler` | loops, `if` and both kinds of `try` two deep in a loop with `else`, with every way to leave a statement in every place; towers three deep; room for three blocks; all outcomes of at most 12 operations, questions for the truth of an object included. Each kind of expression as first and last operand of each other, each simple statement at the top and within a loop and a `finally`, classes; 24 operations. Beside it a table of lines up to 3 for 4 bytes of code, with bytes that count to 1 | `CodeMeansProgram`, `StacksFit` (values and blocks), `CodeHasStackMap`, `CaughtIsRestored`, `LinesAreFound`; `LinesAreRight` |

Why the bounds suffice.

* The ring of three slots wraps, is full with two calls and empty again; two
  registrars are what it takes for one to interrupt the other. Scans three deep
  have one in the middle, and two signals one on each side of it.
* Four keys in tables of 4 and 8 slots fill a table to two thirds, make it
  resize in both directions and leave dummies in front of live keys. Two
  dictionaries and three nested calls allow a dictionary to be filled, resized
  and cleared again inside its own clearing, while the other is cleared or
  deallocated; three tables of each kind are one for each dictionary and one
  that a call is about to free.
* Three threads: one has a lock, one waits for it, and a third comes between
  the release and the acquisition; the same three make one waiter that times
  out while a second is notified by a third.
* Queues of one place are full and empty with one item; those of two are
  neither in between.
* A ring of two calls is full after two of the four signals that may come, and
  the other two come with `busy` set or not, before or after a call was taken.
* `PALMDM_REFCNT` is 3 and the references of the program go to 2, so a count
  reaches it with the help of a reference from another object. Four places hold
  a string, a tuple, a code object and one more string; three records hold
  their copies.
* Two records with two record objects allow each buffer to outlive its record
  object, and three buffers a chain of derivations.
* Two forms and two callbacks allow a handler to be replaced by itself, by that
  of another form and from its own destructor.
* A statement of the compiler is compiled from its parts without a look at what
  they are, except for the kinds of targets, constant tests and the innermost
  block; so every pair of kinds, one in the other, shows each such choice, and a
  third level (the loop or the function around them) what the pair leaves behind
  on the stacks. Twelve operations, the questions for truth counted, are two
  rounds of the loop and its `else` in most of the functions; `CodeHasStackMap`
  does not depend on their number. Room for three blocks (`CO_MAXBLOCKS`, 5 in
  the code) makes the towers meet the limit. A byte of the line table holds
  less than 64 (`ByteRange`, 256 in the code), which changes the
  length a line must have to be too long and nothing else; functions with a line that is
  too long, one that is just short enough, and a header over two lines are among
  those that are compiled.
* With bytes that count to 1, an increment of the address takes up to four pairs
  and one of the line up to two. `MaxPairs` stops lines, not the pairs of a line
  that has begun.

The safety properties of all runs are also proved without these bounds
(section 5), except for `FullCycle` and, of `compiler`, `CodeMeansProgram`,
`LinesAreFound` and `CodeHasStackMap`, on which the proof of `StacksFit` builds.

Bounded histories (`MaxRegistry`, `MaxArrivals`, `MaxPuts`) only stop new
registrations, arrivals or puts; what is under way goes on.
`CHECK_DEADLOCK FALSE` is set where the system may really stop: a getter of an
empty queue and a thread at a condition may wait for ever, a bounded history
ends, a program that has used a closed database or freed memory has crashed, a
session of modules or of handlers ends. In `locks` deadlock is checked for the
threads of the interpreter; the threads at the queue may all be waiting.

Fairness.

* `PendingCalls`: strong fairness of a registrar, because an interrupted
  handler goes on when the later ones have returned, and weak fairness of the
  interpreter loop; strong fairness of the return of a pending call, whose steps
  alternate with looks at `things_to_do` by the interpreter it runs.
* `Signals`: weak fairness of the scan, strong fairness of the end of a Python
  handler (it may be interrupted by other scans, but it ends) and of
  `RunPendingCall` (the loop comes to its pending calls again and again, every
  ten instructions or when `things_to_do` is set). Nothing is assumed of
  arrivals.
* `Threads`: weak fairness of the loop's periodic release of the lock and of
  every step of a thread without the lock; strong fairness of taking either
  lock, which is the assumption that the scheduler of the system passes over no
  thread for ever; strong fairness of the end of an import, inner and outermost
  (the code of a module ends, although other threads may run meanwhile).
* `SyncQueue`: weak fairness of the statements between the locks, strong
  fairness of the acquisitions, and a getter that never stops.
* `Conditions`: weak fairness of the statements, strong fairness of the lock of
  the condition. The property speaks of an event that is finally set and not
  cleared any more. The waiters of an event hold the lock only for the
  statements of `threading.py`, so no assumption about programs is needed.

## 4. What was found

With a run that shows it:

1. A registration that finds the ring full returns with `busy` still set
   (`Python/ceval.c:261`); nothing clears it, so every later registration is
   refused too. Signals that come after that stay tripped until something else
   calls `PyErr_CheckSignals` (`late` in `TrippedIsHandled`).
2. When resizes fail, `PyDict_SetItem` refuses only when the table is completely
   full (`Objects/dictobject.c:480`); the last NULL key is used up and a lookup
   of an absent key never ends.

As the exact condition of a property or theorem:

3. `dictresize` sets `db_index` to 0 before it knows whether `malloc` succeeded
   (`Objects/dictobject.c:349`); the table that remains may be a record.
   The dictionary is then `misled`.
4. `PyDict_Clear` reads `db_index` after the destructors have run
   (`Objects/dictobject.c:581`); one that stores into the dictionary makes it
   remove the wrong table. `IndexTellsTheTable` says that this and finding 3 are
   the only ways in which `db_index` comes to be wrong, and that memory stays
   intact until one of them happens.
5. `PyErr_CheckSignals` clears `is_tripped` at the end of its scan
   (`Modules/signalmodule.c:645`), over signals that came behind it; those wait
   until some other signal arrives. `OnlyOverrunsAreForgotten` says that these
   are the only ones.
6. A code object of which a tuple or the whole cannot be copied stays with NULL
   in place of the tuple or is lost without an exception
   (`Palm/PalmGlue/dbmem.c:222`, `Python/marshal.c:660`); so it always is when
   the scratch database could not be opened. A record whose `DmWrite` failed
   stays (`dbmem.c:136`). `surplus` counts what is lost.
7. palmdm: `queryrecord` and, in a database opened for writing, `release` hand a
   closed database to the data manager (`Modules/palmdmmodule.c:359`, `:237`);
   a record object that is dropped without `release`, and a failed
   `queryrecord`, leave the record locked (`:74`, `:371`); functions of
   `palmappsmodule.c` (97-132) keep references to buffers, and `_get_memptr`
   (line 33) does not ask whether a buffer is still valid.
   `LocksAreReturned` (in `EverythingIsReturned`) accounts for every one of these
   locks.
8. Forms: every dispatch leaves behind a wrapper and its arguments
   (`Modules/palmformmodule.c:190-199`), which is all that keeps an event from
   being freed twice; the destructor of a handler that is being replaced must
   not set a handler for the same form (`:151`), or the old one is released
   twice; a wrapper left behind may dispatch its event when that is freed; the
   result of a handler is never given up (`:199-213`); `_cleanup` (`:463`)
   skips the last handler and leaves the list dangling, and `StopApp` finalises
   Python before it closes the forms (`Palm/Interactive/PythonGUI.c:206-210`).
9. Frozen modules: the entries of the cache are freed, the list that points to
   them is kept (`Palm/PalmGlue/frozen_importer.c:79`), so that a second session
   in one launch would search freed memory; resources, which are cached later,
   are found before the records of the database (`:136`).

10. The first pair of the line table for a line with more than 255 bytes of code
    has the whole increment of the line, so the end of that line is reported as
    the next (`Python/compile.c:606`).
11. The header of a loop whose sequence is a call over several lines makes the
    line go back; the negative increment becomes a byte, and what follows is
    reported 256 lines too far (`compile.c:2406`). These two are what
    `LinesAreFound` excludes (`LinesAreShort`, `LinesAscend`), and without either
    condition TLC finds it violated. They show in tracebacks under `-O`, where
    the line is looked up (`Python/traceback.c:246`).

In the model, without a property:

12. A class statement leaves the level of the stack one higher: `com_classdef`
    pops two of three (`compile.c:2844`). Frames become larger than needed; too
    small they never are (`StacksFit`).
13. `com_backpatch` does not ask whether a distance fits in two bytes
    (`compile.c:663`); a jump over more than 64 KB goes elsewhere. `ArgRange` is
    that width; the functions of the run are shorter.

Two more are exact conditions of a property, or are reached in the model without
one, and have no number: `t_bootstrap` links and unlinks the state of its thread
without the interpreter lock, so a thread that begins or ends while
`Py_Finalize` deletes the states reaches a `Py_FatalError` or works on freed
memory (`Python/pystate.c:101-103`, "the threads are all really dead (XXX famous
last words)", 115-124, 202-212), which is what `touched` in `NoFatalError` stands
for; and `dict_update` goes on with a table of NULL when a destructor clears the
dictionary in the middle of it (`Objects/dictobject.c:876-881`,
`phase = "crash"`).

Where the comments of the code and the model disagree:

14. The comment at `Python/ceval.c:219-228` says "any thread can schedule pending
    calls", names two races, "(1) nested asynchronous registry calls; (2) registry
    calls made while pending calls are being processed", and says that the code
    is safe against (2) but not against (1); lines 253-254 repeat that for (1).
    The run `pending_threads` shows that two threads that register in parallel,
    which is neither (1) nor (2), lose an accepted call: the test of `busy` (line
    255) and its setting (257) are two accesses. For (1), taken as a registration
    that is interrupted by another which runs to its return, the run `pending`
    and the theorems `NothingIsLost` and `RegistrationIsExclusive` show the
    opposite of the comment: an inner registration that comes before line 257 is
    complete when the outer one reads `pendinglast`, and one that comes after
    it is refused, which its caller is told. So the comment denies more than it has to for
    (1) and promises more than the code keeps for threads. (A processor
    that reorders the accesses is not modelled.)

Noted in passing, not modelled: the comment at `Objects/dictobject.c:113` asks
for prime table sizes, the sizes are powers of two; the comment at line 117
speaks of a half filled table, the code resizes at two thirds;
`AppNetOpen` stays 0 when an interface failed, and the reference to the net
library is never given back (`Modules/palmnetmodule.c:204`); the interrupt
checker drops the events it reads (`PythonGUI.c:79`).

## 5. What is proved

All theorems but one are of the form `Spec => []P` (some under a condition on
the constants) or `Spec => Abstract!Spec`, and are proved by TLAPS (SMT, Zenon,
PTL). They rest on the named assumptions on constants, which TLC evaluates in
every run. Every component proves its type invariant; the runs do not check
those separately, except where they are a conjunct of a property.
`CallsDoNotNest` and `CountersAreRight` hold by the same invariants and have no
run of their own.

The assumptions are what the code or its tools guarantee: constants that stand
for different things differ, the heap, the records and the objects of an
instance are finite, `PALMDM_REFCNT` is more than 1 (it is 32767), the table of
frozen modules has each name once (`make_resource.py` writes one entry for each
module), and the probes of a hash visit the whole table. The last is not left to
belief: `CycleVisitsAll` reduces it to what `FullCycle` checks.

* **Ceval_proofs.** `TypeCorrectness` and `CallsDoNotNest` for any ring size and
  any registrars, nested or in parallel; `NothingIsLost`, `WakeupIsNeverLost`,
  `RegistrationIsExclusive` for any ring size and any number of nested
  registrars (`~Parallel`; finding 14 is the other case). `NothingLost` is not inductive: the
  invariant (`IInv`) adds what each point of `Py_AddPendingCall` and
  `Py_MakePendingCalls` knows (inside the critical section `i` is `pendinglast`,
  the slot holds the `func`, then the `arg`), that registrars below the
  innermost one on the stack stand where an interrupt found them, and that
  at most one of them is inside. Wrapping is expressed without `%`
  (`SlotOf`, `Used`) and one lemma connects it with `Next_`. `RingIsQueue`, under
  the same condition and with the same invariant: the ring refines `CallQueue` (its safety part; what waits
  is the sequence of the slots in use); only `Publish` and `Advance` are steps of
  the queue, and the accesses before and between them do not show.
* **Ceval_proofs, about `EvalLoop`.** `CaughtStays`: the property
  `CaughtIsRestored` for any functions, any number of operations and any code,
  of this compiler or not. `CaughtInv` says where the exception is that the
  frame found: still with the thread while the frame has kept none, and from
  the first catch on in the frame, which never keeps another. `StacksAlwaysFit`:
  if the code of every function has a stack map (`MapsExist`), a frame fits
  (`StacksFit`) for any number of operations, whatever fails and however often
  its loops go round. `StacksFit` is not inductive, since nothing that fits now
  tells what the next instructions take. `ShapeInv` says that the shape
  of the frame is in the stack map; a lemma for each kind of instruction shows
  that what `EvalLoop` does to values, `StackShapes` does to their kinds, and the
  one for the end of the loop follows the blocks that are unwound
  (the innermost that handles the end is found by `WellFoundedInduction`). `MapsExist` is `CodeHasStackMap` for
  each function of the instance.
* **Ceval_proofs, about `LineTable`.** `LinesAreRightAlways`, for any size of
  bytes, any lines and any code. `LineInv` says that each pair goes on from where
  the one before it went on to (`TableInv`), what is left to write of the
  table (`LastInv`), that all code from where a pair goes on to the next
  such address has its line (`RightInv`), and that the reader is at such a place
  (`ReadInv`).
* **Signals_proofs.** `TypeCorrectness`, `OnlyOverrunsAreLost`,
  `NothingIsHandledTwice`, for any number of signals and any depth of scans. The
  invariant (`SignalsInv`) says that a tripped signal that is not in `overrun`
  keeps `is_tripped` set and is still ahead of every scan of the stack, and that
  a tripped signal has come at least once more than it was handled.
* **DictTable_proofs.** `TypeCorrectness`, `KeysStayReachable`,
  `CountersAreRight`: whatever allocations fail and whatever destructors do.
  `LookupsAlwaysStop` and `LookupsAreRight`: if allocations succeed and no
  destructor re-enters, the table keeps a NULL key, so a lookup ends and
  answers what the table holds. The first three follow from `TableInv`, in which
  the phases say what a resize or an update still has to do. The second pair
  needs `RoomInv` too, a count of the room that a resize leaves for all the
  reinsertions and updates to come; lemmas about
  the cardinality of `InUse` and `Active` under one changed slot carry it.
  `TableIsMap` is the refinement of `DictSpec` (`ImplementsMap`), whatever
  fails. `MapInv` adds `OldInv` to `TableInv`: what a resize has still to move
  has each key once and none that the new table has. Then the pairs of both
  tables together are a map (`MapIn`), each operation sets, removes or clears in
  it, and moving an entry changes nothing. `CycleVisitsAll` is about the probes:
  a walk that closes after size - 1 steps and not before, in which each
  increment tells the one before it, has no increment twice (else take the first
  that it repeats; the one before is repeated too), so it has all of them
  (pigeonhole), and from any other increment the walk is the same, turned.
  Hence one hash of each size is enough for `FullCycle`.
* **DictStorage_proofs.** `TypeCorrectness`, `TablesHaveOneOwner` (nothing is
  freed while it is used, and nothing is forgotten, until a dictionary is misled)
  and `IndexIsRight` (`IndexTellsTheTable`), for any number of dictionaries and
  any nesting, whatever fails and whatever destructors use. `MemoryStaysIntact`:
  where `malloc` does not fail and destructors do not use a dictionary that is
  being cleared, no dictionary is ever misled, so no entry is written and no
  table freed the wrong way.
  The invariant adds to the ownership which session states have records
  (`SessionInv`) and what the calls on the stack are about to free (`CallInv`),
  and splits the rest into who owns a table, what `db_index` tells, what is
  allocated and when memory is intact (`OwnInv`, `TellInv`, `LeakInv`,
  `FaultInv`).
* **Threads_proofs.** `TypeCorrect`, `OneRunsAlways`, `NoFatalErrorAlways`,
  `OneImporterAlways`, for any number of threads. No
  property is inductive alone: `LockInv` says that exactly one thread is inside
  a held lock, that without a lock there is one thread only, and that from
  `Py_Finalize` on the lock, if there is one, stays held by the main thread, which never runs
  again; `StateInv` says which threads have their state in the list as long as
  no state was touched since then, which is what the checks of
  `PyThreadState_Delete` and "remaining threads" need; `ImportInv` says that one thread at most is in imports or on its way
  back from acquiring the import lock, which keeps it locked in the time
  before its owner is noted.
* **SyncQueue_proofs.** `ReleasesMatch`, `LocksAreRight`, and the refinement
  `QueueIsFIFO`, for any number of threads and any limits. `SemaInv` gives
  exactly one reason for each locked `esema` or `fsema`, as long as no exception
  has left one: an operation has it, the queue is at its limit, or the queue
  has just left the limit and the thread that noted `was_empty` or `was_full`
  is about to release it. The refinement has the size of the queue as the `limit`
  of the abstract one (none if it is 0). `put` never looks whether there is room
  when it appends; that there is follows from `SemaInv`, because it has `fsema`.
* **Conditions_proofs.** `MonitorIsHeld`, `WaitersStayListed`,
  `NotifiesReachWaiters`, `ReleasesAreNotLost`, for any finite set of threads.
  `DepthInv` says where the count of the RLock is while its owner waits.
  `ListInv`, `OpenInv` and `SliceInv` must be proved together: a thread is in
  the list until a notify or its own timeout removes it, a thread in the slice
  of a notify that is not yet released still waits or has just given up, and a
  thread in the list that is released already is the one being removed. For the
  semaphore, `WakeInv` compares the value with the threads that are on their
  way to test it together with the releases that are about to wake one: while
  somebody sleeps, the value is no greater. Each step of a release or a wakeup
  keeps that number or changes it with the value; a lemma counts a set with one
  element more. General lemmas on lists (`Removing`, `Appending`, `Choosing`,
  `Shortening`) say what `list.remove` and slices do to a list without
  repetitions.
* **References_proofs.** Four parts of the port that count by hand, for any
  number of objects, records, calls and nestings. Most of what they count is the
  cardinality of a set of places that refer to an object; two lemmas say what
  becomes of it when one place changes (`OneMember`) and when the value at
  one place does (`OneValue`), and each step is one or a few such changes.
  * `PalmRecords`: `WhatIsTakenIsReturned` (`EverythingIsReturned`) and
    `ValidBuffersAreLocked` (`ValidIsLocked`). `PalmInv` adds who owns what: a
    record object has a buffer of its own from its creation to its end
    (`RecordsOwnBuffers`), and a buffer is on memory that a record object has
    locked or that a drop has left locked, directly or through a base that is
    no further than one step away (`BuffersHaveRoots`).
  * `FormHandlers`: `HandlersAreNeverStale` (`HandlersAreThere`) and
    `NoEventIsFreedTwice` (`EventsAreFreedOnce`). `HandlerInv` counts the
    references of the list and of the calls in progress, and says that a handler
    that is being replaced is still in the list. `WrapperInv` gives each event
    that is not yet freed one owner that is alive, and to each wrapper of a
    dispatch the references that are never given up: the proof rests on that
    leak.
  * `Immortals`: `NothingReferredIsFreed` (`ReferencesAreCounted`). `ImmInv`
    says besides the counts that what an object refers to is there as long as
    it is, even while it is being deallocated (`ObjectsAreThere`), that `marshal`
    has hold of a code object and its tuple between its steps (`LoadIsOfCode`),
    that a text is interned once (`InternedAreOne`), and that there is nothing
    outside a session (`NothingOutsideASession`).
  * `FrozenModules`: `FrozenCodeStays` (`ModulesKeepTheirCode`). `FrozenInv` says
    how far the search has come (`SearchInOrder`), that every entry before that
    point has the code of its name if there is one (`CodeIsFound`), that the
    cache has one entry for each place of the sources that were read and locks
    each once (`CacheIsThere`), and after `cleanupCache` what stays locked is what
    was found (`CodeStaysLocked`).

## 6. What is only model-checked

Liveness (the fairness part of `ImplementsQueue`, `RegistrationReturns`,
`TrippedIsHandled`, `ImportGoesOn`, `PutReturns`, `EventWakesAll`): out of
reach of the prover. `FullCycle`: arithmetic on bits, finitely many polynomials;
the larger polynomials of the code are not checked (what follows from it is
proved, `CycleVisitsAll`). `CodeMeansProgram`, `LinesAreFound` and
`CodeHasStackMap`: compiler and meaning are recursive over trees, and a statement
about every tree needs an induction over data. So what is proved of the stacks is
proved for every execution, and that the code made from a tree has a stack map is
checked for each function of the run.

## 7. What is not modelled

* A signal handler in parallel with the scan on another thread: the Palm build
  has no threads. Accesses to memory that a processor reorders.
* Comparisons of keys that change the dictionary (`dictobject.c:227`),
  `PyDict_Next` under changes, a destructor that starts a second `dict_update`.
* The wrap-around of unique ids, a full database (it is a failing creation),
  the contents of records and buffers.
* `Thread` objects of `Lib/threading.py` (start, join, the table of active
  threads), the assertion of `notify` that its caller owns the lock, and
  `PyThreadState_New` without memory; the destructors that
  `PyInterpreterState_Clear` runs at the end.
* A second session of frozen modules in one launch, and a cache of them without
  memory (finding 9 says what the code does).
* A failing `PyCode_New` and the interning it does inside; the marshalling of
  anything but code objects.
* The net library: the code keeps one flag against a count that the library
  keeps for all applications; a model would be a model of the library. Sockets
  and select hand their arguments to the operating system.
* The event loop and the evaluation of lines in the interactive application:
  calls of Palm OS in one fixed order. Its dispatching and its shutdown are in
  `FormHandlers`.
* The tokenizer and the parser, the scopes of variables (`optimize`), parameters
  that are tuples, the top of a module or of an evaluated expression; what the
  instructions do to objects, tracing, profiling and calls within a call.
* Serialisation and the other objects: sequential transformations that tests
  compare well. Modules for
  other platforms (more than half of the source), the C library and the
  allocator: third-party code. The tools: scripts on the desktop.

The mapped lines are a small part of the repository for this reason: most of it
is the CPython 1.5.2 distribution with its modules for other systems, which
have no state of their own to interact with. The port's own state and the parts
of the interpreter where callers, threads and interrupts meet are modelled.

## 8. What is left

In this order:

1. `Thread` objects on top of `Conditions`: start, join and the table of active
   threads.
2. Comparisons that change a dictionary: `lookdict` in steps.
3. `optimize` and `com_global_stmt`: which variables are local; a stack of frames
   in `EvalLoop`, so that `CaughtIsRestored` composes over calls.
