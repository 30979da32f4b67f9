# Rholang in TLA+

Models, model-checking runs and machine-checked proofs of the Rholang
repository: a compiler front end for a small language with structs, and the
garbage-collecting runtime its programs are meant to run on.  On the runtime's
side the models go from single memory accesses of the marker's deques up to a heap
that is collected over and over; on the compiler's side from lexemes to basic
blocks, with a reference semantics that both ends are compared with.

## 1. The system

### 1.1 Components

| component | source | state it keeps | operations |
|---|---|---|---|
| work-stealing deque | `runtime/work_stealing_queue.hpp` | `top`, `bottom`, the ring `buffer` | `push`, `pop` (owner), `steal` (anyone), `empty` |
| scan and mark | `runtime/runtime.cpp:52-164` | global root queue and its mutex, 12 deques, mark bits, `active_workers`, `marking_done` | `scan`, `mark`, `mark_worker` |
| runtime interface, sweep | `runtime/runtime.cpp:29-50,166-194` | shadow stack, allocator | `allocate`, `push_frame`, `pop_frame`, `sweep`, `collect` |
| bin allocator | `runtime/bin.*` | mappings, free list, cell headers of one size | `allocate`, `deallocate`, `extend`, `foreach_cell` |
| free-list allocator | `runtime/fla.*` | mappings, one ordered free list | `allocate` (first fit, split), `deallocate` (insert, coalesce), `extend`, `foreach_cell` |
| main allocator | `runtime/main_alloc.*` | eight bins and the free list | `allocate`, `deallocate`, `get_bin` |
| lexer | `compiler/frontend/lex` | position in the text | `lex` |
| parser | `compiler/frontend/parse` | position in the tokens | recursive descent, precedence climbing |
| semantic analysis | `compiler/frontend/sema.cpp`, `scopedmap.hpp` | scopes, current function and struct | type checks, null inference |
| translation | `compiler/frontend/ast2ir.cpp`, `compiler/ir/builder.cpp`, `bb.cpp` | current function and block, named values | statements and expressions to basic blocks |
| IR tables | `compiler/ir/*` | interned types, constants | lookup or insert |
| driver, pretty printers, fuzzer | `driver`, `*/prettyprint.cpp`, `compiler-fuzzing` | none that outlives a call | text in, text out |

### 1.2 How they interact

`collect()` stops the only mutator: it runs `scan`, `mark` and `sweep` in the
mutator's own thread.  `scan` copies the roots of every frame on the shadow
stack into the global queue.  `mark` starts the workers and joins them.  A worker
finds an object in its own deque, in another's, or in the global queue; it sets
the mark bit with a compare-exchange in the object's header and, if it was
first, pushes the object's children.  `sweep` walks the cells of all allocators
in parallel and gives back those that are allocated and not marked, clearing the
marks of the others.  The allocators share the `Header` in front of every cell
with the marker.  The compiler's phases form a pipeline without feedback: the
driver calls lexer, parser, semantic analysis and translation in this order.
The compiler does not yet emit calls to the runtime.

### 1.3 What is hard, and what makes each part correct

* **Deque.** Owner and thieves share two indices without a lock.  Correct: no
  pushed task is lost, none is returned twice, and the whole is a sequence whose
  operations are atomic.  (The second is not true of this code; section 4.1.)
* **Mark.** Work moves between a hand, twelve deques and a queue while the
  workers decide by a counter that there is none left; workers time out of their
  wait and rejoin.  Correct: at the join everything reachable is marked, nothing
  unreachable is, no queue holds anything, and tracing makes progress.
* **Sweep, allocators.** A walk over memory whose shape changes as it is walked.
  Correct: cells tile their mapping, a cell is free or allocated and never both,
  every allocated cell is visited, free neighbours are joined.
* **Lexer, parser, semantic analysis.** Sequential; correct: however a program is
  spaced, its lexemes are the same; parsing terminates and
  gives operators their precedence, accepted programs are well-typed and every
  name means what the scope rules say.  (None of this holds of every program;
  section 4.2.)
* **Translation.** The builder's "current block" moves under nested statements.
  Correct: every block ends in exactly one terminator and every jump goes to a
  block of the function.

`PROJECT.json` lists the hazards of the code by line, those no property covers
yet included, with what is planned for them.

## 2. Modules

| module | what it is |
|---|---|
| `TaskDeque` | abstract specification of one deque: a sequence, atomic operations |
| `WorkStealingDeque` | the ring buffer, one action per memory access; implements `TaskDeque` |
| `WorkStealingDequeProofs`, `WorkStealingDequeRefinement` | theorems about `WorkStealingDeque`, checked by TLAPS |
| `AtomicMarking` | abstract specification of a collection's marking: one step |
| `Marking` | `scan`, `mark`, `mark_worker` over deques that behave as `TaskDeque`; implements `AtomicMarking` |
| `MarkingProofs` | theorems about `Marking`, checked by TLAPS |
| `BlockAllocator` | abstract specification of an allocator: disjoint blocks that stay put |
| `FreeListAllocator` | the large-object allocator and the sweep over its cells; implements `BlockAllocator` |
| `FreeListAllocatorLemmas`, `FreeListAllocatorProofs` | what its functions do to a heap, and theorems about it, checked by TLAPS |
| `ManagedHeap` | abstract specification of the runtime: objects stay while the program can reach them |
| `Heap` | bins, main allocator, frames and repeated collections; implements `ManagedHeap` |
| `HeapProofs` | theorems about `Heap`, checked by TLAPS |
| `CollectionProofs` | theorems that link `Marking` to the marking step of `Heap`, checked by TLAPS |
| `Ast` | lexemes, types and syntax trees, the data between the compiler's phases |
| `Lexer`, `Parser`, `Sema` | the lexer, the parser and the semantic analysis, as functions on that data |
| `Builder`, `Translator` | the builder of basic blocks and the translation that drives it |
| `BuilderProofs` | what the builder keeps whoever drives it, checked by TLAPS |
| `Driver` | the phases in their order, declaration by declaration: the compiler as a state machine |
| `Language` | what programs mean: how they are written, typed and run, and how basic blocks run |
| `Compiler` | the compiler's properties, `Driver` measured against `Language` |
| `MCWorkStealingDeque`, `MCMarking`, `MCHeap`, `MCCompiler` | instances for TLC (`FreeListAllocator` needs none) |

They build on each other as follows.  `WorkStealingDeque` is proved to behave as
`TaskDeque`, and `Marking` to use its deques as `TaskDeque` allows; `Marking` is proved to
implement the one step of `AtomicMarking`, which `collect` of `Heap` is proved to be;
`Heap` is proved to behave as `ManagedHeap`.  `FreeListAllocator` is proved to keep its
blocks apart, as `BlockAllocator` promises, which is what `Heap` assumes of the large
allocator when it treats its cells as given: that a set of cells may stand for a list of
blocks is the one link that is an argument of this text and not a theorem.  The compiler
stands apart, since it emits no calls to the runtime.

### 2.1 `WorkStealingDeque`

`top`, `bottom` and `buffer` are the class's fields.  `own` and `thief` hold the
program counter and the locals `b`, `t`, `item` of the thread inside a call.
Every load, store and compare-exchange that another thread can tell apart is a
step; the load of `bottom` in `push` and `pop` is merged with the access next to
it, because only the owner writes `bottom`.  The owner chooses freely between
`push` and `pop`, the thieves steal whenever they like.

The memory is that of x86.  `stores` is the owner's store buffer: what it stores to
a slot or to `bottom` is appended there, the owner itself sees it at once (`Latest`),
and `Drain` brings the oldest store to memory at any later time.  The fence of line 26 and
the compare-exchange of line 32 wait until the buffer is empty (`Fence`).  The thieves
have no buffer, as they write nothing but by compare-exchange.  Without the fence
(`FenceMissing`, a mutant) TLC finds a task that is returned twice.  Tasks are numbered by the
order in which they are pushed, so the model can count how often each was returned
(`handed`).

`TaskDeque` is what a caller may rely on.  The refinement maps the ring to the
slots from `top` to `bottom`, as the memory has them; while the owner has retracted `bottom` and not yet
decided, the retracted slot still counts (`Window`).  A push takes effect when
its store to `bottom` reaches the memory, a steal at its compare-exchange, a pop when `top` is read
or, for the last task, at the compare-exchange.  The action `PopLose` of the
abstract specification is a defect of the code made explicit: when a thief wins
the last task, `compare_exchange_strong` has overwritten `t` and line 37 stores
one more than the new `top`, so that the deque claims a slot nobody filled.

### 2.2 `Marking`

The model is one collection.  `heap` gives every object its words; a word is a
reference if the `RefMap` says so, and may hold a pointer all the same if it does
not (an integer field with an unlucky value).  `shadow_stack` is a sequence of
frames, each a sequence of root slots; they may be null.  `Heaps` and `Stacks`
are the instances `Init` chooses from; the mutator is stopped, so neither changes.

| code | action |
|---|---|
| `scan` 54-59 | `ScanFrame`, one frame a step, single-threaded |
| `mark` 63-68, 69-70 | `Start`, `Join` |
| loop test 78 | `LoopTest` |
| `pop` 81 | `Pop`, `PopEmpty`; for the last task `PopLast` and then `PopLastWin` or `PopLastLose` |
| stealing 83-90 | `Steal` from any victim, itself included; `StealNothing` when all attempts failed |
| global queue 92-98 | `TakeGlobal`, `GlobalEmpty` |
| mark bit 100-106 | `Mark` |
| slots 107-122 | `SkipSlot`, `PushChild`, `Spill` (overflow), `Scanned` |
| counter 127-129 | `Leave` |
| checks 132-143 | `CheckGlobal`, `CheckDeque` one deque at a time |
| 145-152 | `Finish`, `Rejoin` |
| wait 155-162 | `WaitOver`, `Rejoin` |

`spent[w]` is what the ring slots of deque w may hold, `ghost[w]` says that the
oldest task of deque w is one `PopLose` made up.  Drawing a null pointer, from the
global queue or from a made-up slot, is finding nothing, as in the code.

`Traced` is what the collection has to find: what the roots lead to, a search that does
not go on from an object in `old`, since `mark_worker` takes a marked object to be traced.  `Findable`
is the same from the roots and the pointers in the rings.  `AtomicMarking` says
what all of it comes to: the marks change once, by `Traced` and any part of what else is
`Findable`, and the pointers in the rings by those that are pushed.  Any part, because a
made-up task may be drawn after the other workers have looked into every queue, so that
what hangs from it is marked or not.  The refinement shows the old marks and rings until
the workers are joined; from then on the marks as they are, and as the rings `Carried`:
the pointers that were there and those of the children of what has been marked.
`QueuesAreRemainders` says that the real rings and queues hold no others.

What is abstracted:

* A deque operation is one step, except `pop` on the last task, whose race with the
  thieves is two.  `DequesAreTaskDeques` checks that what the workers do with each
  deque is what `WorkStealingDeque` was shown to implement.
* A failing steal has no effect and the twelve attempts are any number of them.
* `empty()` reads two indices while others move them.  `CheckDeque` may answer
  either way whenever the deque is empty, or holds one task, and its owner is
  popping.  The proof below does not depend on the answers.
* In the overflow loop one waiting copy of the child is kept in the global queue;
  the code adds one more every time round.  A second copy is only ever drawn, found
  marked, and dropped.
* The bitmap of the `RefMap` is a flag on the word; a null `ref_map` is an object
  without references.
* `Init` is the state in which `scan` is called, for the first time or after other
  collections: `marking_done` is still true, and what these have left behind is chosen
  from `Stale` (pointers in the ring slots), `LeftTasks` and `LeftRoots` (contents of a
  deque and of the global queue) and `LeftMarks` (objects that are marked already, of
  which `old` keeps a record).  `LeftAssumption` asks no more of it than what
  `QueuesAreRemainders` says a collection leaves.  An object in `Stale` is taken to be
  still allocated; what marking freed memory does is not modelled.
* Atomics are sequentially consistent.  The counter uses weaker orders in places, but
  on x86, which `WorkStealingDeque` models, a read-modify-write is never relaxed: setting
  a mark, the counter's updates and every mutex empty a worker's store buffer.
  Memories weaker than that of x86 are not modelled.

### 2.3 `FreeListAllocator`

`hdr` gives the header (`size`, `allocated`, `mark`) of every cell by its address;
its domain is the set of cells.  `free` is the linked list from `free_head` as a
sequence, `listed` the one from `map_head`; `maps` holds every mapping ever made,
listed or not.  `find`, `split_if_possible`, `coalesce_with_next` and `extend` are
the functions of the code on a pair of headers and free list; `allocate` and
`deallocate` are one action each, split in two only by whether `extend` is needed.
`Inserted` and `Released` are `deallocate` before and after the cell is joined to its
left neighbour: the walk of `foreach_cell` goes on by the size it finds in the header
of the cell it has just given back, which is the first of the two.

`Mark(S)` stands for `scan` and `mark`: it sets the bits of any set of allocated
cells.  `SweepCell`, `SweepNextMapping`, `SweepOver` and `Return` are the walk of
`Runtime::sweep` over this allocator, one visited cell a step.

`mmap` is external: it returns pages that are not mapped yet, below all earlier
mappings if `TopDown`, as Linux does; it is taken not to fail.  A header is lost
from `hdr` when its cell is joined to another: nobody reads it again but the walk, as
described.  The pointer that shares its place with `next` is left out: the list is
only ever followed through free cells, and the object's map only read in allocated
ones.

### 2.4 `Heap`

A cell is named by allocator, mapping and place in it.  `hdr` is its header, `free`
and `maps` are each allocator's lists from `free_head` and `map_head`, `pages` counts the
mappings made.  `stack`, `refs` and `fresh` are the program's side: the roots of its
frames, the one reference each object may hold, and the object it was given last and
has not stored yet.  `rings` is what the ring slots of the marker's deques may hold: every
pointer that a collection has pushed, since nothing ever clears a slot.  `todo` is where each
thread of a sweep has got to, and `seen` remembers what the marking before it might have found.

| code | definition |
|---|---|
| `Runtime::allocate`, `MainAllocator::allocate`, `get_bin` | `allocate`, `BinFor` |
| `Bin::allocate`, `extend`, `init_mapping` | `AllocateFromList`, `AllocateExtending`, `extend`, `init_mapping` |
| `push_frame`, `pop_frame`, stores to fields | `Program`, the actions of `ManagedHeap` |
| `collect`: `scan` and `mark` | `collect`, which also starts the walks |
| `sweep`, one thread per allocator, one cell a step | `sweep(i)` |
| `MainAllocator::deallocate`, `Bin::deallocate` | `deallocate`, `BinOf` |

The choice of an allocator is modelled twice, as in the code: by the requested size on
the way in, and by the `size` field of the header on the way out, so that `OwnBin` and
`CellsAccounted` speak about whether the two agree.  `init_mapping` leaves the last cell
of a mapping out of the free list, as the loop of `bin.cpp:25` does.  `WithMapping`
drops the first mapping of the large allocator when a second one is made, as
`fla.cpp:33` does.  `collect` takes an object that is already marked to be traced and
does not look at its references, as `mark_worker` does; that is what makes a mark left
over from an earlier collection dangerous.

It marks what the frames lead to and, besides, any part (`strays`) of what the pointers in
`rings` lead to, since a lost race for a last task hands out a slot nobody has filled
(section 4.1).  In the first collection `rings` is empty and the marking exact; from the second
one on garbage may be marked and kept.  Such a pointer may be that of a cell that was given back
since.  Its mark is set like any other, and no sweep clears it, as a sweep looks at allocated cells only:
it is there until `Runtime::allocate` clears it when the cell is handed out (`HandOut`).

What is abstracted:

* Marking is one step, what `Marking` shows it to be if no root is null
  (`CollectionProofs`); roots are objects here.
* A pointer in a ring that leads to a free cell ends there.  In the program the link of the free
  list lies where the cell's reference map would, so that what a marker reads next is undefined;
  and in the large allocator the cell may have been cut or joined to another.
* The program is stopped while a collection runs: `collect` runs in the mutator's
  thread.  Sweeping threads interleave with each other only.
* The cells of the large allocator are given: a mapping is `LargeCells` cells, and any
  free one may serve a request.  Cutting and joining is `FreeListAllocator`'s subject.
* An object holds one reference.  A freed object's slots mean nothing, and are set
  to null, so that states differing in them only are not told apart.  The
  program initialises the slots of a new object: what they hold before is null.
* `mmap` does not fail; `Pages`, `MaxMappings` and `MaxFrames` bound the model.

### 2.5 The compiler

`Ast` holds lexemes, types and nodes as records; a node's type pointer starts as
`NoType`, the null pointer.  A lexeme is a token and, for identifiers and numbers, what
it says.  Each phase is a function of its input, so it is an operator; what it does to
the compiler's state is what it returns.  Every operator returns an outcome with its
value: `ok`; `error`, an error message to the user; `crash`, a failed assert, a null
dereference or an exception nobody catches; `diverge`, a loop that never ends.

* `Lexer`: from a text to its lexemes.  A text is a sequence of characters, in which
  what is read in one go, a word or a number, is one element.  `skipBlanks` skips blanks and
  one comment, but not the end of the line behind it.
* `Parser`: one operator per production, from the lexemes left to a node and the
  lexemes after it.  `ExprLoop` is the reduction loop of `parser.cpp:479-526` with
  its stacks of operands and operators; `PrefixOps` is the loop at line 658, which
  never advances its iterator.
* `Sema`: one operator per visit, on a node and a context of scopes, current function
  and declarations.  Where the code compares types through pointers one of which may
  be null, the library's assertions decide whether that stops the program or is an
  unequal comparison; `c.ub` is that choice, made afresh for every declaration.
* `Builder`, `Translator`: the state of the translation is one record, with the
  blocks made so far, the current block and the named values; visits take and
  return it.  The asserts in the constructors of instructions and in the builder
  are kept, as outcomes.
* `Driver`: `main`.  Structs, functions and globals are kept in hash maps, so the
  order in which the declarations are visited is unspecified; `VisitMethod`,
  `VisitGlobal`, `VisitFunction` and `TranslateFunction` take any declaration the loops
  may come to next (a struct's methods are visited together).

`Language` is independent of how the compiler works.  `WriteProgram` writes a syntax tree
down with as few parentheses as possible, and `Dense`, `Spaced` and `Commented` make a
text of it, so that the programs can be listed as trees.  `Typed` is a typing relation, strict or, with
the second parameter FALSE, only as far as the compiler claims to look.  `Invoke` runs a
source program, with parameters and variables in memory; `CallIr` runs basic blocks.
Fields of a struct initialiser are evaluated in the order of their declaration.

`Compiler` states the properties.  Each has a premise that names the programs it
speaks about, and the premises are as exact as was possible: where a property fails
for a construct, the construct is described by what it is (`Handled`, `TranslatedTyped`,
`KeepsValues`) and, in `LexesBack`, `ParsesBack` and `FlowTranslatedExactly`, the property also says
that the compiler fails just there.  Section 4.2 lists these constructs.

## 3. Runs

| run | instance | what it shows |
|---|---|---|
| `work_stealing_deque` | owner with store buffer, 2 thieves (interchangeable), ring of 4, indices to 5 | every step of the ring is a step of `TaskDeque`; no task is lost; a task is returned twice only after a lost race; `bottom` goes at most one below zero |
| `marking` | 2 workers, ring of 4, two heaps of 4 objects, stacks with 0, 1 and 3 roots, deques that begin empty or with a made-up null, one object marked to begin with or none, no pointers in the rings | seen from outside the marking is one step: exactly what a search finds is marked; queues are dry at the join, all of it is marked some day |
| `marking_full_deques` | 3 workers, rings that hold three tasks, an object with four children; a pointer of an earlier collection in the rings and in the global queue | the same verdict when a child overflows into the global queue and with two workers to come and go; no garbage is marked but what hangs from that pointer, and any part of it is what the one step may mark; what is left in rings and queues is what a collection may begin with; the deques are used as `TaskDeque` allows; `MarkingInv`, the inductive invariant, holds |
| `null_roots` | 2 workers, a frame with one object and two nulls | finding, section 4.1 |
| `stale_slots` | 2 workers, one stale pointer | finding, section 4.1 |
| `full_deques_livelock` | 2 workers, rings that hold one task | finding, section 4.1 |
| `free_list_allocator` | 3 pages of 12 bytes, headers of 2, requests of 0, 7 and 9 bytes | cells tile their mappings, the free list holds the free ones in the order of their addresses, neighbours are joined, the sweep stays on cells and gives back what it should, requests are served, blocks in use are aligned and left alone |
| `free_list_leak` | the same | finding, section 4.1 |
| `heap` | bins for sizes 1 and 2 and the large allocator; two mappings for the first bin, one for the others, any three of these four; requests of 0, 2 and 3; one frame | the runtime implements `ManagedHeap`; a sweep leaves only what hung from a frame or from a pointer in a ring; no cell is lost or in two places; no mark outlives its collection on an object; sweeping threads keep apart |
| `stale_marks` | the large allocator may make two mappings | finding, section 4.1 |
| `compiler` | about 2000 programs in six families, every order of their declarations, arguments 0 to 2 | texts are read back and parsed back to their trees; accepted when well typed and only then; given well-formed blocks with typed instructions; and compute what the source means; no program makes the builder lose a block or jump out of a function |
| `conditional` | four functions with one `if` | finding, section 4.2 |

**Bounds of the runtime.** A ring of 4 and indices to 5 is the smallest instance in
which pushes wrap round onto slots thieves still look at, and in which the deque can
be full.  Two thieves are needed for a thief to lose against another thief; a third
adds no new kind of race.  The heaps have what tracing finds hard: an object reached
by two paths, a cycle, a self-reference, a null field, a number that looks like
a pointer, garbage that points at live objects.  With two workers one can be
checking while the other rejoins; with three, one can be checking while two come
and go.  The object marked to begin with lies between the root and another object,
which is then reached by a second path or not at all.  In the second run the root left in the
global queue is garbage that hangs together with more garbage, one part of it by a
number that is no pointer, so that a marker that went too far would show.  What
remains beyond the bounds is covered by the proofs, which have none.

The allocator's sizes are scaled down: a request is rounded up (0 to 2), fills a
page exactly once it is rounded (7 to 8), or needs two pages (9), and a page holds
one or two cells, two pages up to five, so that a cell is split, taken whole, and
joined on either side and on both.  Three pages allow two or three mappings, the
older of which are no longer listed.  They come at falling addresses, as Linux places
them; in another order `ListOrdered` and `Joined` fail, and the other properties are proved
for any order.

In `heap` a bin's mapping has two cells, one of which is never linked.  The first bin makes
two mappings, so that a walk crosses from one to the next and a list holds cells of
both; cells are freed and handed out again, and collections follow each other
without bound.  `MaxMappings` takes any three of the four mappings, so that up to three
objects exist at once: enough for an object that is reached only through another, for garbage that
refers to it, and for a pointer in a ring whose cell is garbage, free or in use again when a collection follows it.  `HeapProofs` covers any number
of bins, cells, mappings and frames.

**Bounds of the compiler.** `MCPrograms` lists programs as trees, each family aimed
at a part of the compiler: all nestings of two or three binary operators (`Expressional`);
conditionals and loops inside each other with every way for a branch to end
(`Controlled`); 40 expressions, right and wrong, in eight places that expect a type,
with a struct, a method, a function and a global in sight (`Typing`); every two of
eight statements with effects on an object reached by two paths (`Effective`);
declarations that repeat, hide or call one another (`Declarative`); prefix operators
(`Prefixed`).  All are written with blanks only where they are needed, the last two families
also with blanks everywhere, over several lines and with comments.  Programs are small, but each phase works by recursion over the tree,
and the defects met so far (section 4.2) needed two levels of nesting at most.  `Fuel`
bounds a run of a program; `SameResult` speaks of runs that end.

**Deadlock** is checked for the free-list allocator.  It is not for the marking, which
ends at the join, nor for the compiler, which ends in a verdict, nor for the deque, whose
model stops when its indices reach `MaxIndex`, nor for the heap (where a
collection can always start, so nothing would be learnt).

**Fairness.** `FairSpec` of `Marking` assumes weak fairness of the collecting thread and of
each worker: a thread that can run is eventually scheduled.  A worker can always run
until it stops (its mutexes are held for one step and its wait has a timeout), so
this is what any preemptive scheduler gives.  Nothing is assumed about the random
choice of victims.  Under this assumption `EventuallyMarked` holds, but
`<>done` does not: two workers can keep leaving just after the other has rejoined.
The code relies on its waits being long compared with a look at the queues.

**Mutants.** For every property of a passing run `PROJECT.json` names a changed
definition under which TLC finds it violated: a guard dropped, a limit off by one, a
reset forgotten, a fence left out, a size read too early.  They stand next to the
definitions they change (`PushCheckNoLimit`, `FenceMissing`, `MapsReplaced`, ...) and are
used nowhere else.

## 4. What the models found

### 4.1 Runtime

* `null_roots`: `scan` queues null root slots.  A worker that draws one believes
  the queue empty and counts itself out.  Two such workers can let the marking
  end while one of them, woken by its timeout, has just taken the last root.
  The children of that root stay unmarked and are swept although reachable.
* `stale_slots`: after a lost race for a last task the deque claims one slot nobody
  pushed.  If that slot holds a pointer from an earlier collection, garbage is
  marked and survives (or, had it been swept, freed memory is written to).
* `full_deques_livelock`: `while (!push(child))` waits for a thief.  If none comes,
  the worker queues copies of the child for ever and what hangs from the tasks
  in its own deque is never traced.
* `free_list_leak`: `extend` links a new mapping to the successor of the old head and
  then replaces the head, so the old mapping drops out of the list.  Its cells
  are never swept or counted by `empty` again.
* `stale_marks`: what follows for a live object.  The mark of an object in such a
  mapping is never cleared.  The next collection takes it to be traced already, does not look
  at what it refers to, and frees that while the program can reach it.

### 4.2 Compiler

* `conditional`: an `if` without `else` whose body falls through in the block it began in
  dereferences the tail block of an else branch that was never made
  (`ast2ir.cpp:209`).

The premises of the properties name the other constructs that go wrong.  TLC
showed each of them before it entered a premise.

* At the end of a line with a comment the lexer throws: it skips blanks in front of a
  comment but not behind it (`lexer.cpp:73-77`), and it runs outside the `try` of
  `main`.  Only a comment at the very end of a file is harmless (`LexesBack`).
* A term with a prefix operator never parses: the loop at `parser.cpp:658` does not
  advance (`ParsesBack`: such programs, and only they, diverge).
* A variable initialised with null is not entered in its scope (`sema.cpp:430`), and a
  method that calls one that happens to be visited later is rejected or crashes, by the
  order of a hash map (`sema.cpp:460`; `ValidAccepted`).
* The two sides of an assignment are not compared, null may be returned for any type,
  the name of a function passes as a value (`sema.cpp:372`; `AcceptedValid` uses
  the lax form of `Typed`).
* `&&` and `||` yield the address of their slot (`ast2ir.cpp:404`), and the jump behind
  a right operand that is itself one goes to a block the builder has left
  (`ast2ir.cpp:373`); nested statements move the builder away from the block the code
  asks for its terminator (`ast2ir.cpp:206`).  `Shape` computes from a statement
  whether its blocks come out right; `FlowTranslatedExactly` says it is exact.
* A member of a local variable is looked up at the variable's slot and not in the
  object (`ast2ir.cpp:111`); assigning to a parameter stores through its value;
  scopes are not closed, so a variable that hides another goes on hiding it
  (`ast2ir.cpp:184`); globals are never given their value (`KeepsValues`).

## 5. Proofs

Each module is described with what it needs beyond the assumptions on the constants, and
with its argument.  Where an invariant had to be strengthened to become inductive, TLC
checked the stronger one on the run's instance before it was proved.

### 5.1 The deque

`WorkStealingDequeProofs` and `WorkStealingDequeRefinement` prove, for any capacity, any
number of thieves and any bound on the indices:

| theorem | statement | needs |
|---|---|---|
| `Invariance` | `Spec => []DequeInv` | nothing |
| `TypeCorrect` | `Spec => []TypeOK` | nothing |
| `NothingLost` | `Spec => []NoTaskLost` | nothing |
| `RepeatsBounded` | `Spec => []RepeatsAreLostRaces` | nothing |
| `Refinement` | `Spec => ImplementsTaskDeque` | nothing |

The proofs use that the capacity is at least one.  The static assertion of the code, that
it is a power of two, is an assumption too, but no proof rests on it.

**The argument.**  All of it is about what the store buffer can hold.  The owner's stores alternate
between a slot and the `bottom` that publishes it; in front there may be one `bottom` left by
the pop before, at the end the `bottom` a pop has just retracted and waits to see
drained.  `StoresInv` says so by counting from the end of the buffer, which gives the
index and the task of every buffered store; `FirstInv` says what the oldest one will do
when it drains.  `IndexInv` bounds the ring as the owner sees it: less than `Capacity`
slots from `top` to `End`, so that no two of them share a place (`SlotsDiffer`).  Without
it a push would overwrite a task.  `ThiefInv` is the reason a compare-exchange suffices: a
thief whose `t` is still `top` holds what the slot holds, although it read it long ago,
because nobody writes that slot before `top` moves on.  `OwnInv` says the same for the owner's
pop of a last task.

`NoTaskLost` and `RepeatsAreLostRaces` need the history besides.  `HistoryInv` counts each
task where it can be, handed out or in a slot of the owner's window.  A step can do four
things to that window (`Kinds`): nothing, take a task out and return it, put a new
one in, or claim the next slot after a lost race, whatever it holds.  Only the last adds to what
is in excess of one, by one task, and it is counted in `phantoms`.

In `Refinement` the window that thieves see is mapped to the sequence.  The step with most to
show is `Drain`: a store to a slot changes nothing that anybody may look at, one that publishes
is a `Push`, one that retracts to the last task is `PopLast`, the one of line 37 after a
lost race is `PopLose`.  For each one has to know how many pushes the buffer still
holds back (`PublishedTo`), which is what `spent` is mapped to.

### 5.2 Marking

`MarkingProofs` proves, for any heap, shadow stack, number of workers and deque
capacity, and whatever earlier collections left in queues and marks:

| theorem | statement | needs |
|---|---|---|
| `TypeCorrect` | `Spec => []TypeOK` | nothing |
| `Invariance` | `Spec => []MarkingInv` | no null roots |
| `DoneIsSound` | `Spec => []DoneMeansMarked` | no null roots |
| `MarkingIsComplete` | `Spec => []NothingMissed` | no null roots |
| `MarkingIsExact` | `Spec => []OnlyTracedMarked` | no pointers of earlier collections in the rings |
| `GarbageIsBounded` | `Spec => []GarbageBounded` | nothing |
| `QueuesRunDry` | `Spec => []QueuesDryAfterJoin` | both |
| `RemaindersCovered` | `Spec => []QueuesAreRemainders` | no null roots |
| `DequesRefine` | `Spec => DequesAreTaskDeques` | nothing |
| `MarkingIsAtomic` | `Spec => ImplementsAtomicMarking` | no null roots |

The two assumptions are the ones whose failure `null_roots` and `stale_slots`
show; the theorems say that they are the only ones.  In particular a made-up task
never makes the marker lose an object, and the emptiness checks of lines 132-143
are not needed for that.  Without the second assumption `GarbageIsBounded` still limits
the damage, and together with `NothingMissed` it is all that `MarkingIsAtomic` needs, as the one step may
mark a part of what the rings lead to.  `RemaindersCovered` closes the circle: what a collection leaves in its queues
satisfies what the theorems ask of the queues it begins with, and what it adds to the rings
are pointers to objects, so that each theorem is one about the n-th collection.  Only
`MarkingIsExact` and `QueuesRunDry` are not: from the second collection on the rings do
hold pointers of the first, which is what `stale_slots` shows.

**The argument.** `TypeOK` alone is not inductive: that the counter never goes
below zero needs `ActiveInv`, which says that it equals the number of workers that
search or trace (while `done` is unset).  `NothingMissed` follows from `VerdictInv`:
a worker that checks, or the flag, implies that everything in `Traced` is marked.
That is established by the one step that brings the counter to zero
(`LastLeaves`): at that step no worker but the leaving one is counted, so nobody
has an object in hand (`InHand`); deques of uncounted workers hold nothing pushed
(`IdleInv`: only the owner pushes, and it left its deque empty); and the global
queue is empty (`GlobalInv`: while it holds something, some counted worker has
yet to look at it.  This is where null roots break the argument).  So nothing is
pending, and `GreyInv`, the tricolour invariant, gives the rest: what was queued from the
stack or hangs from an object marked in this collection is marked or pending.  Hence `marked` holds
the roots and is closed under the children of all but the `old` objects, and so contains `Traced`.  `HandInv` and `DequeInv`
are what the others need about program counters and about made-up tasks, which are
always the oldest of their deque.

The helper lemmas (the ends and ranges of sequences, what each deque step does to
the pushed tasks, what is in whose hand) are stated once and cited.  `GarbageIsBounded` and
`MarkingIsExact` use an invariant of their own, `ReachInv`, over a base that does not need the
roots: everything in hand, in a deque, a ring or the global queue is in `Findable`.  With no
pointers in the rings that is `Traced`.

`QueuesRunDry` adds `DryInv`: once a worker is at the emptiness checks, or one has been
through them, the global queue holds nothing, no deque holds anything that was pushed,
and nobody is at a slot whose child it might push.  The counter's step to zero
establishes it (`LastAlone`).  From then on waiting workers still come and go, steal, and may
draw the object of a made-up slot, but they find it marked (`DryHand`): it was pushed in this
collection, so it is in `Traced` (`ReachInv`), and all of that is marked (`VerdictInv`).  This is
where both assumptions are needed: a pointer of an earlier collection need not be reached otherwise, and
would have its children queued after everyone has looked.

`DequesRefine` goes through the actions of one worker and asks what they do to each deque: its
own is used as the owner of a `TaskDeque` uses it (`OwnerMoves`), any other as a thief does or
not at all.  That a made-up task is drawn like any other, and that `pop` on the last
task may lose to a steal between its two steps, are cases of `TaskDeque` and need no premise.

`RemaindersCovered` rests on `RingInv`: a deque holds fewer tasks than slots, all of them values its
ring may hold.  `NextMoves` says that a step changes a deque by one of the moves of `TaskDeque` or
not at all, and `RingStep` that each of these keeps a ring in order.  That null is found at the old end
only is part of `DequeInv`.  `CarriedInv` has the pointers: what is in a ring is in `Carried`, because
the child that is pushed is one of an object marked in this collection, and so is what is in the global queue
once the verdict is in: until then roots may be there, which are in no ring.

In `MarkingIsAtomic` every step but `Join` is a stutter, as the old marks are shown until
then; `Join` adds what `NothingMissed` and `GarbageBounded` say is there.  What needs an
invariant is that nothing comes after it: `Stopped`, no worker is left that could set another mark.

### 5.3 The free-list allocator

`FreeListAllocatorLemmas` and `FreeListAllocatorProofs` prove, for any number of pages and any
sizes of page, alignment, headers and requests:

| theorem | statement | needs |
|---|---|---|
| `Invariance` | `Spec => []Inv` | nothing |
| `TypeCorrect` | `Spec => []TypeOK` | nothing |
| `CellsTile` | `Spec => []Tiled` | nothing |
| `ListExact` | `Spec => []FreeListExact` | nothing |
| `ListSorted` | `Spec => []ListOrdered` | mappings come at falling addresses |
| `NeighboursJoined` | `Spec => []Joined` | the same |
| `WalkStaysOnCells` | `Spec => []WalkOnCells` | nothing |
| `SweepsExactly` | `Spec => []SweepExact` | nothing |
| `RequestsServed` | `Spec => AllocateServes` | nothing |
| `BlocksNeverOverlap` | `Spec => []BlocksApart` | nothing |
| `Refinement` | `Spec => ImplementsBlockAllocator` | nothing |

The proofs use `UnitsAssumption`: the headers' sizes and the page's are multiples of the
alignment, and a page has room for a mapping's header and one smallest cell.  The code's
headers are structs aligned as `max_align_t`, its page is 1024 of the system's
(`main_alloc.cpp:12`), its smallest cell holds a pointer (`header.hpp:36`).  The premise of `ListSorted` and
`NeighboursJoined` is needed because `insert`
keeps the list ordered by address only while a new mapping's cell, which is pushed in
front, lies below all the others; in an order of mappings that breaks it, neighbours are left apart, and
nothing else goes wrong, as the other theorems say.

**The argument.**  A heap is the record of headers and free list that the functions of
`fla.cpp` work on.  `GoodHeap` says that the headers are well formed, the cells tile the
mappings and the list holds the free cells, each once; `Tidy` that the list is ordered and
no two free cells are neighbours, which the invariant `Inv` has only under `TopDown`.  The lemmas show of one function after another that it keeps a
heap good and, if it was, tidy, and what it does to the cells in use: `ExtendGood`,
`SplitGood`, `TakenGood` for `allocate`, `ListedGood`, `JoinGood`, `InsertedGood` and
`ReleasedGood` for `deallocate`.  That the list's functions insert and remove just one
place is stated once for sequences (`InsertAtRange`, `RemoveAtSorted`, ...), that what is
cut off a cell is aligned and not empty rests on the arithmetic of `align_up` (`AlignUp`,
`AlignUpLeast`), and that `extend` maps enough for the request on `PagesEnough`.

`Inv` adds the collector's side.  `StateInv` has the defect of line 33 in it: at most one mapping is in the
list, so a sweep walks one.  `MarksInv` describes a sweep half done: the cells of that
mapping behind the walk are unmarked and, if in use, live, those ahead are marked exactly if
live.  `WalkInv` says that the walk stands on a cell or at the end.  The hard step is
`SweepCell`, which reads the size of a cell after giving it back: `InsertedGood` shows that
the cell still has its header then, although its right neighbour may have been joined
to it, and that joining it to the left one afterwards takes away no cell from there on.

### 5.4 The heap

`HeapProofs` proves, for any number of bins, cells in a mapping, mappings, requested
sizes and frames:

| theorem | statement | needs |
|---|---|---|
| `CellsCorrect` | `Spec => []CellsAccounted` | nothing |
| `ThreadsApart` | `Spec => OwnBin` | nothing |
| `NothingLeftMarked` | `Spec => []MarksClear` | large allocator makes at most one mapping |
| `LiveNeverFreed` | `Spec => []LiveAllocated` | the same |
| `FreesGarbage` | `Spec => GarbageFreed`, and what is left is what can be reached if no ring holds a pointer | the same |
| `Refinement` | `Spec => ImplementsManagedHeap` | the same |

The premise, `Pages[LARGE_BIN] <= 1`, is what `stale_marks` shows to be necessary: with a
second mapping the four theorems below it are false of the code.  Besides, the proofs use the
assumptions on constants in `Heap`, the one that says something about the code being
`ClassAssumption`: the size a bin writes into the header of its cells leads back to
that bin.  It holds because the sizes are powers of two, which is arithmetic with exponents and
beyond the prover; TLC evaluates it in every run of `MCHeap`.

**The argument.** `CellsAccounted` is not inductive.  `Cells` adds what it rests on: the
walks stay on mappings that were made (`WalksOK`), the header of an allocated cell of a bin
has the bin's size (`InBin`), the lists hold each unallocated linked cell once
(`Lists`), and a cell that can be handed out is one (`AllocUsable`).  `InBin` with
`ClassAssumption` is why the choice by request and the choice by header agree, and from it
`ThreadsApart` follows at once.

The other four share the invariant `Collections`.  Its heart is `SweepBounds`: while
a sweep runs, what is marked or already passed by a walk and still allocated (`ToKeep`) holds everything
the program can reach and nothing but what the marking may have found (`seen`).  `AllListed`, that every
mapping is in its list, is where
the premise enters; with it every cell is visited, so that at the join `ToVisit` is empty,
no object is marked (`MarksClear`), and what is allocated is in `seen`.  That `seen` is no less than what is marked,
and that what is marked holds `Reachable`, is where a collection begins: no object is marked then, so the search
stops at free cells only, to which nothing in reach leads (`TracedReachable`).  When
`rings` is empty, `Findable` is `Traced` and `seen` is `Reachable`, which is the second part of `FreesGarbage`: the first
collection, and any other before which nothing was pushed, frees all there is to free.
For the n-th collection no such thing can be proved, as it is not true of the code (`stale_slots`).  That the sweep does not
change what is reachable, although it gives objects back, is the lemma `Blanked`: what an
unreached object refers to does not matter for reachability.  For a step of the
program `HeldLive` says that roots, the new object and the references of what they lead to stay among the allocated
objects, and `FreeBlank` that a free cell refers to nothing, so that handing one out
cannot connect anything.  `HeldLive` is asked only of what the program can still get at (`Held`): garbage that was
kept for a pointer in a ring may refer to an object that was not kept.  In `Refinement` each step maps to one of `ManagedHeap`:
a request to `New`, a collection to `Forget`, a step of a sweep that gives a cell
back to `Reclaim`, any other to a stutter.

### 5.5 The collection as a whole

`CollectionProofs` joins the two models of the collector.  `Marker` is `Marking` on the objects of
`Heap`: each has one word, its reference, each frame has one root, any of the objects may be marked to
begin with, the rings and the queues may hold what earlier collections have left there (`Stale`, which is what
`rings` of `Heap` holds), and the deques made-up nulls.

| theorem | statement | needs |
|---|---|---|
| `MarkingIsCollect` | at the join of `Marker` marks and rings are as `collect` of `Heap` may leave them, and the queues hold nothing but what is in the rings | any number of workers, any capacity, any leftovers |
| `CollectIsAtomic` | the step of `Heap` that begins a sweep is the step of `AtomicMarking` | nothing |

`MarkingIsCollect` ends where it begins.  It asks that the pointers left in rings and queues are those in
`rings`, and says of the queues at the join that they hold no more than `rings` does after `collect`.  Hence it
speaks of the first collection, with nothing left over, and of each one after it.

**The argument.** What `collect` finds is defined by sets that are closed under one reference, what
`Marking` finds by sets closed under an object's words.  `SameRoots`, `SameChildren`, `SameSearch` and
`SameFound` show that these are the same sets, also in that both stop at marked objects, and from the frames
as well as from frames and rings.  The rest is `MarkingIsComplete`, `GarbageIsBounded` and
`RemaindersCovered`: all that is `Traced` is marked, whatever else is marked is `Findable`, and the rings hold
`Carried`, which for objects with one reference is what `collect` calls `Pushed`.  Their assumptions (`Premises`) hold
of `Heap`: its frames hold no nulls.

### 5.6 The builder of basic blocks

`BuilderProofs` gives the builder to an arbitrary client, who calls its operations in any order, with any
instructions, and adds jumps from and to any blocks of the function under construction, as the visitors of
`ast2ir.cpp` do when they return to a block they have left.

| theorem | statement | needs |
|---|---|---|
| `BuilderAssembles` | `Spec => []ModuleAssembled` | a block is started inside a function, a function is finished when no block is open |

As long as no assert fails, each block that was started is in its function once and in its turn, or is
the current one; jumps stay inside their function, also in the functions that are finished; instructions have
numbers of their own and operands that their constructors accept.  The two conditions are what
`visit(FunctionDecl)` and the function for the globals obey; the property of that name in `Compiler`
says that the translator's modules are assembled so, for every program of the run.  That every block *ends* in a jump is the
translator's business, and not always true (section 4.2).

**The argument.**  The invariant is `Kept`, which adds types and that no block is open outside a
function.  `AddedAt` and `StartedAt` say where an instruction of the new blocks comes from;
then there is a lemma for each operation.  `StartedBbAndLink` is the one with
steps in between: it closes the block, opens the next and returns to the closed one to add the jump.

### 5.7 What is only model-checked

* `EventuallyMarked`, which is liveness under fairness and out of the prover's reach.  Every
  other property that a run of the runtime's models checks is a theorem.
* The properties of the compiler (`LexesBack` to `SameResult`).  The phases are recursive
  over texts and trees, and what they compute for every input would need induction over that
  data, for which the prover has no rule.  The runs take some 2000 programs instead.  Of
  `ModuleAssembled` the part that does not depend on the translator is proved (section 5.6).

The findings of section 4 are counterexamples, and TLC's.  Those that concern the runtime also
appear here as the premises of theorems, or, like the deque's lost race, in what the
invariants say.

## 6. What is left

The runtime's models could be joined further.  `Heap` keeps the contents of the rings from one collection to the
next, but what a worker makes of a pointer to a cell that has been given back ends at its mark bit: a model of
free lists that lie in the cells themselves would show what else is written there.  The large allocator of `Heap` could be `FreeListAllocator` itself, which needs a
`Heap` whose cells come and go.

**Not modelled:**

* Spans, which only serve messages, and the letters of words and digits of numbers.
* Pretty printers, error texts, the dumps and the reading of options and files: text only.
* The interning tables of the IR's types (a type is its content here, so equal types are
  equal pointers), and equality of modules, which only the tests use.
* The program generator of the fuzzer, a random choice of programs in another language.
* Magnitudes: literals that do not fit (`parser.cpp:605`), 2^31 tasks in one deque.
* Memory models weaker than that of x86; failure of `mmap`.
