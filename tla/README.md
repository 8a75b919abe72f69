# Verification of klisp

klisp is an interpreter of the Kernel language in C: operatives and
applicatives, first-class environments, guarded continuations, a stop-the-world
collector, and POSIX threads under a global interpreter lock.  This directory
models its logic in TLA+, checks the models with TLC on small instances, and
proves theorems about them with TLAPS.  Paths below are under `src/`.

## 1. Inventory

| component | state it keeps | operations | hard because of |
|---|---|---|---|
| threads, GIL (`kgthreads.c`, `kstate.c`, `klimits.h`) | per thread status, registers (`next_func`, `next_value`, `curr_cont`), `gil_count`, `joincond`; global `gil`, `thread_table` | make-thread, thread-join, thread-yield, run loop with `setjmp` | interleaving; errors that leave C code by `longjmp`; a joiner racing the end; threads that are never referred to |
| mutexes, condition variables (`kmutex.c`, `kcondvar.c`) | owner and count beside a pthread mutex; pthread condition | lock, trylock, unlock, wait, signal, broadcast | the GIL is released between the two halves of the state |
| continuations (`kcontinuation.c`, `kgcontinuations.c`, `kstate.c`) | parent links, inner/outer flags, guard lists | call/cc, continuation->applicative, guard-dynamic-extent, abnormal pass | arbitrary passes between captured continuations; interceptors that pass on |
| dynamic variables (`kgkd_vars.c`, `kghelpers.c`) | one (flag . value) pair per key, for all threads | bind, access, unbind on return, exit, entry | re-entry; sharing |
| static variables (`kgks_vars.c`) | keyed bindings in environments | bind, access | several parents |
| promises (`kgpromises.c`, `kpromise.c`) | node (expression . environment), shared by linking | $lazy, $delay, memoize, force | a force nested in, or concurrent with, a force |
| allocator, collector, interning (`kmem.c`, `kgc.c`, `kstring.c`, `ksymbol.c`, `kkeyword.c`) | heap, table of strings and symbols, threshold, rooted objects | allocate, collect, resize, intern | a collection inside any constructor, an allocation inside a collection |
| evaluator, combiners, control (`keval.c`, `kgcombiners.c`, `kgcontrol.c`) | continuations | eval, combine, $vau, map, for-each, $sequence | operands evaluated through continuations that can be entered again |
| environments (`kenvironment.c`, `kgenvironments.c`, `kgenv_mut.c`) | bindings, parents, keyed parents | lookup, $define!, $set!, $provide! | depth-first search over shared parents, matching of parameter trees |
| tables (`ktable.c`, `kgtables.c`) | nodes with collision chains, array part | get, set, next, resize | collisions, rehash, dead keys |
| ports (`kport.c`, `kgports.c`) | open flag, FILE or buffer with offset | open, close, read, write | GIL released during each operation of the OS |
| reader and writer (`ktoken.c`, `kread.c`, `kwrite.c`) | stacks in the thread state, marks in objects | read, write | cyclic structure, errors half-way |
| pairs, lists, equality (`kgpairs_lists.c`, `kgpair_mut.c`, `kgequalp.c`) | marks in pairs | metrics, copies, append!, encycle!, equal? | cycles |
| libraries (`kglibraries.c`) | registry of names, marks in symbols | make, register, unregister, provide, import | bodies that change the registry and are entered again |
| numbers (`kgnumbers.c`, `kinteger.c`, `krational.c`, `kreal.c`; `imath.c`, `imrat.c` are vendored, and changed here) | strict arithmetic, a dynamic variable | arithmetic, comparison, rounding, division, conversions | fixints that overflow, carries and estimated digits, signs and halves, one representation for each number |
| strings, vectors, bytevectors (`kgstrings.c`, `kgvectors.c`, `kgbytevectors.c`) | contents, immutability | copies, fills, conversions, comparisons | bounds, overlaps, the shared empty objects |
| standalone interpreter (`klisp.c`, `krepl.c`) | status of the script | runs its arguments, the read-eval-print loop | errors inside the error report |

They interact through the registers of the thread state (a C function leaves the
next function, its value, environment and continuation there and returns to the
loop in `klispT_run`), through continuations, which hold the rest of every
computation, and through the heap, shared by all threads under the GIL.

What makes each correct: a thread has the GIL exactly once in Kernel code, and
what it promises about mutexes, condition variables and joining is that of
POSIX; no pass gets past a guard; code sees the dynamic variables of its own
extent; a promise has one value; nothing in use is freed and interned objects
are unique; lists, tables and environments compute what the report of the
language says, and leave no marks behind; a port is not used once closed; what
is written reads back.

## 2. Plan

1. Done: `KThreads` (abstract `KMonitor`, `KThreadsProofs`), `KContinuations`,
   `KDynVars` (over `KContinuations`, `KDynVarsProofs`), `KPromises` (abstract `KDetermined`,
   `KPromisesProofs`), `KGC` (`KGCProofs`), `KReadWrite`, `KPorts` (`KPortsProofs`),
   `KTable` (abstract `KMap`, `KTableProofs`), `KEnvironments` (`KEnvironmentsProofs`).
2. Done: `KTraversals` (evaluation, combiners, control, and the list operations that
   call the program), `KHeap`, `KLists`, `KArrays` (pairs, lists, equality, vectors,
   strings, bytevectors), `KBigints`, `KRationals`, `KReals`, `KNumbers`,
   `KNumbersLaws` (numbers), `KLibraries`.
3. Open: the registry of `KLibraries` could be proved once its recursive definitions, of
   the clauses of imports, are in a module of their own.

## 3. Modules

### KThreads, KMonitor
One process per thread state (`klisp_State`); `pc[t]` says where in the C code it
is between two steps at which another thread can act: taking the GIL, giving it
up, a pthread call.  A step is what the code does under the GIL between two such
points.  `gil`, `gilCount`, `status`, `owner`, `count`, the pthread mutexes and
queues, and the thread table are the variables; the outcome of a thread
(`next_value` and status) is published when it ends.  `next_func` is reduced to
what the thread does next: its program, an error, the root continuation, or
nothing.  A program is any sequence of the operations, with any mutex, condition
variable or thread, and may apply the continuations of other threads if
`SharesContinuations`.  `guard[t]` says whose guards enclose its continuation,
for the error flag is a variable of the C function that made those guards.  The
main thread may run again (`klisp.c` runs each argument with `klispT_run`) or
close the state, after which the process exits.

`KMonitor` is what the Kernel program was promised: a recursive mutex has one
holder and a count; `wait` gives it up and queues in one step; and a signalled
thread takes it back with the count it had.  `KThreads` maps to it by `Place`: a
thread between giving up ownership and the pthread call already waits, one
between the pthread call and the record of ownership already holds.

### KContinuations, KDynVars
A continuation is the sequence of its frames from the root, so that extents are
prefixes.  A frame is plain, or the outer or inner frame of a guarded extent
with its guards.  The actions are a program that extends, returns, captures,
guards or passes to a held continuation, and the interceptors in between:
`create_interception_list` is translated for a path out of the source and into
the destination; an interceptor's code may itself divert.  Ghost `bound` in
`KDynVars`' frames records what a binder bound, for the properties only.

### KPromises, KDetermined
`node[p]` is the pair a promise holds, `content` what is in it; a frame of a
thread is an evaluation under way for a promise (`do_handle_result`).
Continuations are captured and entered again.  The branch that memoizes does not
call a continuation, so the loop calls the same function again and the value is
then delivered by the first branch: two steps, `Determine` and `Discard`, as in
the code.  `KDetermined` is one write-once cell per promise, of which `force`
returns the content.

### KGC
`calls` is the C stack; a step runs to the next call or return.  Constructors
(`New`, and `Name` for symbols and keywords that first need their string) call
the allocator, which may call the collector, which may resize the table, which
allocates.  Marking leaves the least set closed under references that holds
`roots` (registers, stacks and all reachable from them) and `rooted` (the stack of
rooted objects).  Every object
and every entry of the table has size 1.  Immutable bytevectors are interned as
strings are and stand under the kind `"string"`.

### KReadWrite
The heap is `car`, `cdr` and `mark`.  The two recursive walks over it (the marks
set before and cleared after writing) are one step each, for they call nothing
that gives up the GIL; a turn of `kwrite_fsm` is a step, and after it the GIL is
free if the port is a file.  The text is a sequence of tokens, which the same
thread then reads: as it is with a comment put in anywhere, twice with comments
between as the list of a file, or cut short.  `states` is the reader's stack; a
state and the data pushed with it are one record, and a datum is an index into
`made`, the objects the reader has made.  In the stack of the code a list in
progress also carries its first pair and source info; here the first pair is the
datum of the frame below.

### KPorts
A port is its kind, direction and open flag; `FILE[p]` is the stream of the C
library beside it, and `rest[p]` what is still to be read of it.  An operation is
checked and started in one step (`Start`), then is a sequence of calls, each of
which gets, peeks, puts or flushes: in memory at once, on a file with the GIL
released (`Unlock`, `OS`, `Lock`).  `op` and `want` stand for the C stack.
`frames[t]` are the extents of `with-input-from-file` (which bind the current
port) and `call-with-input-file` and their like: left by return, which closes the
port, by an error or a continuation, which do not, and entered again by a
continuation.  What a string or bytevector port is written to is `buf` up to
`off`.  The collector closes the files of the ports it frees.  What a file holds
once it is closed, and the line and column of a port, are left out.

### KTable, KMap
A table is its array part, its nodes and the position below which free nodes are
looked for.  A step is one insertion or assignment, or the resize that makes room
for one; `work` holds the insertions still to be done (those of resize, which
come first, and those of the operation), and `moving` how many of them are still
in the end of the array that resize gives up.  `hash` is a constant, for the
addresses and hashes of objects are arbitrary; fixints hash to themselves.  A
deleted key keeps its node, without a value; the collector makes its key `Dead`.
`KMap` is a function from keys to values, to which `Contents` maps a table: what
it holds, or will hold when `work` is done, so a resize is a stutter.  The sizes of
hash parts come from `twoto`, a recursive function, for the proofs.

### KEnvironments
An environment is its parents, the keyed environments copied from them, its own
key if it has one, and the symbols bound in it; a lookup, with the stack of the
code, finds the environment where a symbol is bound.  The program is what it can
evaluate: any operation with any environment it has had (`known`).  An operative
that evaluates an operand leaves a frame in `cc`, which then takes the value: any
object the program may have made of what it has, or what the frame before it
passes (`passed`).  A `$let*` of two bindings stands for longer ones.  Values other
than environments are all `Datum`; the body and the expressions of an operative
are whatever the program does next.  Guards are in `KContinuations`, so a
continuation entered again (`Reenter`) is not intercepted here.

### KTraversals
The operations that call the program once for each element of a list: evaluation
of operands, `map`, `for-each`, `filter`, `assoc`, `member?`, `reduce`, `$and?`,
`$or?`, `$cond`, `$when`, `$unless`, `$sequence` and bodies.  A step is one C
function run by the loop of `klispT_run`: `next` is what it leaves in the registers
(a function to call, a value to pass, a call of the program), `cc` the
continuation, a sequence of frames, each a C function with its `xparams`.  A job
is an operation with the shapes of its lists (pairs before the cycle, pairs in it).
The program returns any value that the operation can tell apart, captures
continuations, enters them again in any order, and changes the cars of its lists.
What an operation copies is a value of its frames; what it changes (the
results of `map`, the copy of `reduce`) is in `heap`, shared by all
continuations, as in the code.  Ghost `Path` is the sequence of values returned on the
current continuation, and `Verdict(Path)` what the operation must do next after
them, defined without frames or marks.

### KHeap, KLists, KArrays
A heap is a sequence of objects (pairs, vectors, strings, bytevectors, symbols), each
with its content, whether it is mutable and its mark; a value is a
tuple that begins with its type.  An action is one C function: no other step can
come in between, so what can go wrong is in its walks.  They are translated with
their marks (`Walk`, `unmark_list`), with the copy that `copy_es_immutable_h`
leaves in the marks, and with `equal?`'s classes of pairs, merged before their parts
are compared.  `MCLists` gives each group of operations the heaps that matter to it.
The verdicts say what the manual says of each operation on the graph as it was,
through reachability and the sequences of pairs from a list on.  `KArrays` has the three kinds of
arrays at once, with `kind` as the parameter by which the code has three files; it
keeps the order of the checks, the interned immutable objects and the empty
object each kind has.

### KLibraries
A library is its exported symbols in order and their bindings, in an environment
of its own; the registry is a list with the last registered first.  The program's
continuation has a frame for each `$provide-library!` and `$register-library!`
under way; what these evaluate does all that programs do, may be kept and entered again.
An import is one step: the check of the clauses, their extraction with the list of
symbols and the environment the code carries along (`mls`, `menv`), and the bindings.
`SetOf` is the set of bindings that `libraries.texi` gives a clause.

### KBigints, KRationals, KReals, KNumbers, KNumbersLaws
`KBigints` is IMath digit by digit, with digits of `DigitBit` bits: sums and
differences with carry and borrow, schoolbook and Karatsuba products, squares, the
division with its normalisation and estimated digits, shifts, gcd, powers and
conversions; the state of a buffer above its used digits is left out.  `KRationals` is
`imrat.c` over it and what `kinteger.c` and `krational.c` add (division in two roundings, the
simplest rational, what a program writes).  `KReals` has doubles as fractions rounded to
`Precision` bits, to the nearest and ties to even (external: the machine's
arithmetic), and how they are made exact and printed.  `KNumbers` is the dispatch on
types of `kgnumbers.c`: one step is one call of an applicative, in strict
arithmetic or not.  `KNumbersLaws` says what numbers these represent and what each
call must return.

## 4. Runs

| run | instance | shows |
|---|---|---|
| `threads` | 3 threads, 1 mutex, 1 condition variable, count to 2, joins and errors | types, `GilOnce`, `OwnerAgrees`, `NoLostWakeup`, joiners are woken, running threads are roots, outcomes are final, and the monitors implement `KMonitor` |
| `threads_live` | main and one thread | a finite program ends or stands still for its own reasons |
| `guards` | one thread, depth 9, 2 extents of guards or bindings, 1 captured continuation, 2 values | `ExitsIntercepted`, `EntriesIntercepted`, `InnermostExtentRules` (with the types of the keys) |
| `promises` | 2 threads, 2 promises, a captured continuation | `SameValueForever`, `Implements` |
| `readwrite` | all graphs of 3 pairs and a string, one thread | `RoundTrip`, `LeavesNothing` |
| `ports` | 2 threads, 2 ports and the standard ones, 1 extent, 1 variable, 1 captured continuation | `FilesFollowPorts`, `OpenWhileUsed`, `ReadInOrder` (with what buffers hold, and that the end seen is of this port) |
| `table` | keys 0 to 3 and two symbols that collide in 1 or 2 nodes, 1 value; 2 library names, 3 symbols, 2 frames, 1 captured continuation, all import clauses of two keywords and all pairs of those of one | `Implements`, `BrentInvariant` (with no key twice, and what resize moves), `LibrariesAsReported` |
| `environments` | 4 environments and captured continuations, of them 2 made at the start, 1 symbol, 1 key, 2 frames | `LookupIsDepthFirst` (keyed ones too), `GroundProtected`, `FreshScope` |
| `gc` | 4 blocks, 2 contents, symbols and keywords, 6 calls deep | `NoDangling`, `TableOK` (with the number and the buckets of its entries) |
| `traversals` | lists of up to 3 pairs with all metrics, two lists for `map` and `for-each`, 3 returns, 2 captured continuations, 2 entries, 1 change | `CallsFollowPath`, `ResultFollowsPath`, `TailContexts` |
| `lists` | 3 pairs in all structures, arrays of up to 3 elements, numbers -1 to 5 with fixints up to 3 | `ListsAsReported`, `NoMarksLeft`, `ArraysAsReported`, `EqualIsStructural`, `ImmutableForever` |
| `numbers` | digits and fixints of 4 bits, doubles of 6, some 45 operands and lists of them, radixes 2, 10, 16 | `ResultsAreExact`, `Canonical`, `DivModLaw`, `ComparesValues`, `ReadsBack` |

The `table` run has two systems that share nothing, hash tables and the registry of
libraries; each of its behaviours is of one of them (`scene`).

Where the code disagrees with its comments or manual, a configuration that is no
run of PROJECT.json shows the counterexample (`tlc -config X.cfg M`):

| configuration | module, property | shows |
|---|---|---|
| `MCThreadsErrors.cfg` | `MCThreads`, `ErrorsAreMarked` | the error flag of another thread is set, or none: it is a local of the function that made the guards (`kgthreads.c:42`, `55-57`) |
| `MCGCRecursion.cfg` | `MCGC`, `NoRecursiveGC` | the collector calls itself when it shrinks the table, which `kmem.c:81` says is prevented |
| `MCTableRehash.cfg` | `MCTable`, `Returns` | the array part is counted from 1 (`ktable.c:229`, `252`) and used from 0 (`:139`, `:473`), so an insertion can grow the table for ever |
| `MCTable.cfg` with this invariant | `MCTable`, `NoSymbolMarked` | an export clause that is no list is an error that leaves the symbols before it marked (`kglibraries.c:263`); then they count as repeated in every library |
| `MCTable.cfg` with this invariant | `MCTable`, `ImportsTheSet` | `(#:only (#:except l a) a)` imports `a`: symbols are looked for in the environment of the inner clause, not in what is left of its list (`kglibraries.c:510`, `568`) |
| `MCTraversalsMap.cfg` | `MCTraversals`, `MapListsItsCalls` | a continuation captured in a call of `map` and left aside, when entered again, finds the results of the other path in the list (`kgcombiners.c:244-262`: the copy is made at the end, after the damage) |
| `MCNumbers.cfg` with this invariant | `MCNumbers`, `DivisionIsExact` | the quotient estimate takes one digit where it needs two when the leading digits are equal (`imath.c:3228`, changed from IMath): the C library gives `0x1fffffffe` for `0x800000000000000000000000 / 0x8000000000000001` |
| `MCListsOverlap.cfg` | `MCLists`, `CopiesThePart` | `copy-partial!` of overlapping parts is a `memcpy` (`kgvectors.c:382`) where `vectors.texi:121-131` copies as if by way of a third vector |

Others have no configuration, for a step or two show them:
- a dynamic variable is one pair for all threads (`kghelpers.c:1670`): a thread
  reads what another has bound, though `keyed_vars.texi:39-44` has it depend on
  its own dynamic extent; with two `Threads`, `InnermostExtentRules` fails;
- the writer keeps its labels in the marks of the pairs while it releases the GIL
  for each token (`kwrite.c:58-60`, `388-400`): another thread that writes the
  same pairs takes them for its own, and its text does not read back, though
  `ports.texi:251-253` promises that shared structure is preserved; with two
  `Threads`, `RoundTrip` of `KReadWrite` fails;
- a port can be closed while another thread has its `FILE` in the operating
  system, for the check that it is open is made once, under the GIL
  (`kgports.c:297`, `ktoken.c:181`): with two `PortUsers`, `OpenWhileUsed` fails;
- `peek-char` reads a character, with the GIL released, and puts it back, so
  another thread may read the next one in between (`ktoken.c:265-268`), where
  `ports.texi:363-365` has the position of the port unchanged: with two
  `PortUsers`, `ReadInOrder` fails;
- a promise linked to another takes over its node, but another force of the
  promise that is under way can give it a third node; then those it shared the
  first with are not determined with it (`kgpromises.c:48-51`, "so that when obj
  determines a value, prom also does");
- a keyed environment that is one of several parents is passed over, for only its
  own keyed ancestors are copied from it (`kenvironment.c:63-65`, unlike `:56`),
  where `keyed_vars.texi:68-73` has a keyed variable found by a depth-first search of
  the ancestors; `LookupIsDepthFirst` says so of them when there is none;
- `$let` and `$bindings->environment` make the environment before they evaluate
  the expressions (`kgenvironments.c:255`, `681`), where `environments.texi` has it
  made after; a continuation captured by one of these and entered again binds
  once more in the environment of the first time, so `FreshScope` is stated for
  when none has been captured;
- a mismatch of a parameter tree leaves bound what was matched before it
  (`kghelpers.c:1200-1243`), and a parent that is not an environment leaves the
  list of parents marked (`kghelpers.c:558-561`);
- `load` leaves its file to the collector to close (`kgports.c:710-711` says it
  is closed there);
- `make-thread` sets the status of its caller to `STARTING`, not that of the new
  thread (`kgthreads.c:156`);
- a thread that could not be created stays in the thread table
  (`kgthreads.c:160-168`), though the comment there leaves it to the collector;
- `$delay` is bound with `add_applicative` (`kgpromises.c:149`), so its operand is
  evaluated at once, where `promises.texi:91-95` has it stand for `($lazy (memoize
  <expr>))`;
- an error in the middle of a datum leaves the writer's marks in it, where the
  comment says that "all cleaning is done in throw" (`kwrite.c:44-45`);
- `reduce` of a cyclic list writes the results of the precycle into its copy, so a
  continuation of it entered again starts from what the other path has left
  (`kgpairs_lists.c:948-983`); `CallsFollowPath` excludes it by `SharesCopy`;
- `make-environment` leaves marks (above), so `kcheck_mark_balance` of `KLists`, the
  assertion of the code for all operations, fails, and `NoMarksLeft` excludes it;
- an empty result of a vector, string or bytevector operation is the immutable empty
  object where the manual says that the result is always mutable;
- numbers: `div-and-mod` of a negative rational that is a multiple of the divisor is off
  by one (`kbigrat_div_mod`, `numbers.texi:189-200`); of doubles with a negative quotient
  the rest is out of range; the quotient of rationals is a big integer
  read as a big rational (undefined: `ReadAsBigrat`); a digit of all ones is cast
  to a signed one on the way from a double to a big integer; `real->exact` of 0.25 is 1/3
  (`numbers.texi:342-355`); the simplest rational between two equal ones, and so `rationalize`
  by 0, is not reduced to an integer (`Canonical` excludes just these by `KnownToBreak`); `*` and `/` go on after `#real` in strict arithmetic where `+` fails;
  `exp` and `sqrt` of an infinity read the value of a double; `string->number` takes
  `"/2"`, `".5"`, `"+"` and `""` for numbers, and `"#E1/2"` for an inexact one; a double that is
  printed may read back as the one next to it, for the reader
  computes with doubles (`ReadsBack` is stated for the digits written);
- libraries: a clause whose first element is no keyword is compared as one, and
  `(#:only)` takes the car of the empty list (`kglibraries.c:265`, `467`).

Bounds.  Three threads are enough for two that contend and one that signals or
joins; a third mutex or condition variable adds nothing, for no handler touches
two mutexes, or two condition variables.  Two guarded extents and one held continuation give all
shapes of a pass: out, in, both, and into a sibling.  Two promises can be linked
to each other and to themselves; longer chains are covered by the proof.  Three pairs
make a cycle with a tail, a shared tail and a pair shared by both its fields; a
string is what is shared and has no parts.  Two ports beside the standard ones
make a thread switch between ports and between open and closed ones, and a text
of two characters has an order; only one thread uses ports (`PortUsers`), for two
that use the same port disturb each other, as said above, while the other collects
at every point at which the GIL is free.  Keys 0 to 3 fill array parts of 1, 2 and
4 slots, which shrink again, with a key at each boundary; two symbols and the
integers collide in hash parts of 1, 2, 4 and 8 nodes, and one value is enough,
for a deleted key has none.  Two libraries that share a symbol, with different
values, make every conflict of imports, and two keywords around a name every clause
that undoes, or depends on, another.  Two environments beside the
ground and the standard one make a keyed ancestor behind another, a parent that shares an
ancestor with the next one, and a `$let` within a `$let`; a continuation takes the
place of one of them.  A parameter tree of one symbol matches, or not, a list of
none or one.  With four blocks the table grows twice and shrinks again,
and a symbol with its string and source info fits.  Lists of three pairs have all
metrics with a precycle and a cycle of one and two, and two lists of cycles of two and
three need a common multiple; two captured continuations give two paths that
overtake each other.  Three pairs and two operands share, cross and enclose each other in all
ways, and `equal?` merges classes of more than two; arrays of three elements overlap on either side.  With digits
of 4 bits, numbers of up to three digits have carries, estimates that are one and two too
large, and common divisors of two digits; the operands lie on both sides of each limit of
a digit, a fixint and an exponent, and Karatsuba's threshold is as low as its code allows.  Other bounds (`MaxDepth`,
`MaxHeld`, `MaxFrames`, `MaxWritten`, `MaxForces`, `MaxCount`, `MaxCalls`, `MaxTree`, `MaxObjects`, `MaxPath`, `MaxCaptured`, `MaxEntries`, `MaxSets`, those in `Scenes`) are guards of the actions they
limit; `MaxCount` is the code's `KMUTEX_MAX_COUNT`, and at `MaxCalls` the C stack
is full.

`CHECK_DEADLOCK FALSE` is given where the modelled program may stop: threads may
deadlock one another through mutexes they choose, a program may end, and bounded
models run out of frames; a run of `lists` or `numbers` ends after its calls.

Fairness.  `FairSpec` of `KThreads` is weak fairness of each thread's own step,
for the operating system runs every runnable thread.  Which thread gets a lock,
and spurious wakeups, are left free.  `OnlyProgramDeadlocks` is stated under
`FiniteProgram`, that the program calls no operation for ever.

## 5. Proofs

`KThreadsProofs` proves one inductive invariant, `IInv`: types; `GilOnce`;
`OwnerAgrees`; the queues of condition variables; joiners and roots; and, what
makes these inductive, what the locals of each program counter are, what an
unmade thread looks like, and what an ended one has published.  From it follow
`TypeCorrect`, `GilSafety`, `MutexSafety`, `WaitSafety`, `JoinSafety`,
`RootSafety`, `OutcomeFinal` and `Refinement` (every step of `KThreads` is a step
of `KMonitor` or leaves its variables unchanged), for any sets of threads,
mutexes, condition variables and values, and any `MaxCount`.

`KPromisesProofs` proves `TypeCorrect` by an invariant of which promises, nodes and
frames exist, `Refinement` (every step is a step of `KDetermined` or a stutter),
and from the two `ForcesAgree`, for any threads, promises, values and bounds.

`KEnvironmentsProofs` proves `GroundSafety`: whatever an operation can take an
environment from (what the program has had, what is passed, the frames of all
continuations), the ground environment is not there.  The invariant `IInv` says so of
each of them; a step preserves it because every environment it evaluates or binds in
is one of these or new.  It assumes no more than that `Datum` is no environment.
`ScopeSafety` (`FreshScope`) adds (`SInv`) that the environment of a `$let` under way is
in one frame only, and hidden: the program does not have it, nothing passed holds it, it is
no parent, and it is empty.  `LookupSafety` (`LookupIsDepthFirst`) adds (`LInv`) how keyed
ancestors follow from parents, of which `make_environment` makes none, one or two (a longer
list is not modelled).  That a search with a stack finds what a recursive
one does is then a theorem about graphs (`SearchIsFirst`, `NearestIsFirst` of `Lemmas`), by
induction over the age of the nodes: the functions that the recursive definitions
choose exist (`SearchExists`, `FoundExists`), and any of them agree.

`KGCProofs` proves `UseSafety` (`NoDangling`) and `TableSafety` (`TableOK`), for any
finite memory in which `Free` is no object.  The invariant `IInv` is that all objects,
the roots and the rooted objects refer to what is allocated; that what an object under
construction refers to is in a root, and that it is itself rooted once made if its
constructor calls on; that a name the constructor looks for is not yet interned when
the C function has seen that it is absent, whatever is allocated in between; that
every interned object is in the bucket of its hash, once, and the count is their
number; and that the table is too small only until the constructor's call of `resize`
returns.

`KPortsProofs` proves `FileSafety` (`FilesFollowPorts`) for any number of threads that
use ports: whatever the program, its extents and continuations and the registers of
threads refer to is a port that lives, and a stream follows its port.  For
`UseSafety` (`OpenWhileUsed`) and `ReadSafety` (`ReadInOrder`) it assumes `OneUser`, that
one thread uses ports, for with two the code breaks both, as said in section 4;
other threads may still collect at any point.  `UserInv` adds what is between two
steps of that thread: only it is in a call, on a port that is open and in its
registers; the text is what was taken, the character the system has
returned, and the rest; a buffer is written up to its offset.  That doubling a buffer
reaches the size needed is an induction over numbers, from the library's theorem
that a set of them has a least element (`LeastNat`, `NatSetInduction` of `Lemmas`, the
module of what several proofs rest on and the library does not have).

`KDynVarsProofs` proves `ContinuationTypes`, `ExitSafety` and `EntrySafety`
(`ExitsIntercepted`, `EntriesIntercepted`) for any number of threads, any depth and any
guards.  The invariant `IInv` says that there is a set of continuations, those in use
with their ancestors and the destinations of their passes, in which every frame fits
the continuation it is the child of (`Good`).  For a pass under way, from an outer
continuation to its destination, that is `Pending`: every exit guard still to be left
that selects the destination has its interceptor in the list, after those of the
extents inside; every entry guard still to be entered that selects all sources has its
own, before those inside; and what an interceptor runs in is on the way (`OnPath`).
The list has this when it is made (`PendingAtFirst`, by induction along the loop of
`create_interception_list`), and its tail has it for the continuation the head runs in
(`PendingNext`), however long the program stays there.  `BindingSafety`
(`InnermostExtentRules`) assumes `OneThread`, for the key is shared by all threads.  In the
middle of a pass the key is that of no extent the pass is in: at the outer continuation of a
binding it holds what the extent the pass is going to was given (`Put`), so
what the invariant says of the key (`KeyFits`) depends on the destination, and holds at the
end because the guards of a binding select everything (`BindingSelects`).
`ContinuationsAssumption` has that threads are no numbers, for both
number guards.

`KTableProofs` proves `TableSafety` (`BrentInvariant`) and `TableIsMap` (`Implements`:
every step of a table is a step of `KMap` or leaves the map as it is), for any keys, any
hashes and any first size; it assumes of the constants that fixints are naturals and
hashes too, and that the marks of free and dead keys are no keys or values.
`BrentInvariant` is not inductive, for when `newkey` moves the colliding node it goes
through the chain from its main position to the one before it.  The invariant `IInv` has
what that rests on: the chains of the hash part are without cycles, and no two nodes have
one successor; every key is in one node, which its main position `Reaches`; a free node is in
no chain, and before `lastfree`; a key of a node in use is no index of the
array; and while a resize has `moving` pairs to put back, as many nodes are free (`Room`).  `Reaches` is
stated with closed sets of nodes, so the effect on it of the three ways to put a key
(`HereKeeps`, `ChainKeeps`, `MoveKeeps`) needs no induction along the chain.  The rest is
counting: `computesizes` never gives the array more keys than it gives room
(`SizesOf`, `GrowSizes`), what a resize takes out of the old parts and what a traversal
meets are the bindings, once each (`VanishingLists`, `RehashedLists`, `TraversalLists`), and the
last insertion of a key in `work` is what the table will hold (`FinalAppend`).
That the functions found by recursion (the powers of two, the search along a chain,
the walk of a traversal) exist and are what they should be is proved by induction
over the naturals (`TwotoIs`, `SearchForExists`, `WalkExists`).

Only model-checked: liveness (`OnlyProgramDeadlocks`), for the prover has no
fairness; `KReadWrite`,
whose reachability is recursive; and that insertions end (`Returns`, false: section 4).  `KTraversals`,
`KLists`, `KArrays`, the modules of numbers and the clauses of `KLibraries` are
recursive throughout, over lists, digits and clauses, and induction over data is out of
the prover's reach: TLC compares them with reference definitions over all inputs of
the bounded sets.

## 6. Not modelled

- `kgffi.c`: marshalling into foreign code, without state of the interpreter's.
- `kgencapsulations.c`, `kground.c`: a comparison of identities, and tables of names.
- Transcendental functions, and the flags of the floating-point unit around them: the C
  library computes them.
- How tokens other than numbers and labels are spelled, source info, and the text of
  messages: data no property is about.
- `load`, `require`, modules and the file-system operations of `kgports.c`, the
  error report of `klisp.c` (which returns with the GIL held when a file cannot be
  opened, `klisp.c:296`) and the read-eval-print loop: sequences of operations
  that are modelled, each of which leaves the state to its continuation.
- The incremental mode of the collector and weak tables: nothing in the program turns
  them on.
- `klisp_close` frees the states of threads that still run (`kstate.c:464`): it is the last
  step of `KThreads`, and no document says what becomes of them.
