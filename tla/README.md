# Vicuna in TLA+

Vicuna (`src/vicuna`, on top of the Mopsa static analyzer in `src/analyzer`)
analyses C *stubs*: C functions that OCaml code calls through its C interface.
A stub handles OCaml values directly while a moving garbage collector may run
at each allocation and, once the stub has released the runtime lock, at any
moment.  Vicuna replaces the OCaml runtime by C functions
(`vicuna/runtime/src/ffi.c`, `vicuna/runtime/include/caml/*.h`) built from a few
primitives (`_ffi_garbage_collect`, `_ffi_register_root`, `_ffi_assert_active`,
...) and gives those primitives a meaning in an abstract domain,
`c.memory.runtime` (`analyzer/languages/c/memory/runtime/domain.ml`).

The question this project asks is the one a user of the tool has: **when the
analysis of a stub says nothing, does every run of that stub keep to the rules
of the OCaml interface, and when it says something, is it about the step that
breaks the rule?**  The modules put the analysis of a stub beside a run of the
same stub, step by step, and relate the two.  Around this core are models of the
shapes of values, of loops, of the driver that analyses one stub after the other,
and of the script `vicuna.py` that starts the analyzer and waits for it.

The other configurations of the analyzer also follow calls of the C library, of which they
see *contracts* (`share/mopsa/stubs/c`): what a function requires, assigns, allocates and
frees.  (Vicuna leaves them out: `vicuna.py:132` passes `-without-libc`, and
`ocaml-c-ffi.json` has the domains behind them commented out.)  The same question is asked
of them: **whatever a program calls and in whatever order, is a
use of something dead reported, and is a legal call not?**  Under the contracts lies the
abstract domain of Unix file descriptors, modelled and proved on its own.

## Inventory of the system

| Component | State it keeps | Operations | What makes it correct |
|---|---|---|---|
| Value lattice (`framework/lattices/{const,disjoint,pair,partial_map}.ml`, `common/runtime.ml`, `memory/runtime/shapes.ml`) | nothing | join, meet, subset, field shape, guaranteed immediate | join is above both sides and creates no bottom |
| OCaml runtime domain (`memory/runtime/domain.ml`) | per C variable `((status, root), shape)`; the runtime lock | transfer functions of statements and of the `_ffi_*` primitives | what it says of a variable is true of the run |
| Status protection (`memory/status_protection.ml`) | nothing | checks the status of a pointer before it is followed | no stale pointer is followed unreported |
| OCaml interface (`vicuna/runtime/src/ffi.c`, `include/caml/memory.h`) | nothing of its own: calls the primitives | `caml_alloc_*`, `Field`, `caml_modify`, `CAMLparam`, blocking sections, exceptions, ... | order and completeness of the checks of each function |
| Flow and report (`framework/core/flow.ml`, `alarm.ml`) | the environment of T_cur, the report | join, `raise_alarm`, `remove` | a message once raised is never lost |
| Conditionals (`universal/iterators/intraproc.ml`) | two flows while branches are open | split, analyse both branches, join | the branch a run takes is described at each point |
| Stub driver (`c/iterators/program.ml`, `framework/runner.ml`, `framework/output/factory.ml`) | list of stubs, flows and verdicts | create arguments, check arity and result, loop over stubs, count the final report | stubs do not influence each other; the result is checked; verdicts and exit code agree |
| Nested shapes (`memory/runtime/shapes.ml`, `common/type_shapes.ml`) | the shape of each variable | join, meet, subset, compat, widening, field of recursive shapes | the shape describes the value at every depth, also after the cut of widening |
| Loops, goto, switch (`iterators/{loops,goto,switch}.ml`) | flows of T_cur, T_break, T_continue, unrolling and widening counters | unroll, fixpoint with widening, jumps | termination, result is an invariant |
| `vicuna.py` | the analyzer's process, its pipes, the time | start, wait, kill, read, print | the report is the analyzer's; it ends in time and leaves nothing behind |
| C library contracts (`share/mopsa/stubs/c/{mopsa,libc}`, `languages/stubs/body.ml`, `c/cstubs/{assigns,resources}.ml`) | the resources that are alive, the contents of buffers | one contract per library function: requires, assigns, new, free, cases | use of dead resources is reported and legal use is not; what a function writes is forgotten |
| File descriptors (`c/libs/libc/file_descriptor/{domain,slot,table}.ml`) | three slots, a table of intervals and its support | register (lowest free), register at, find, remove, join | the state describes the kernel's table of open files |
| Interprocedural iterators, recency heap, cells, pointers, numeric domains, combiners | environments of their own | resolve pointers, inline calls, split strong/weak addresses | resolved targets cover the run's targets |
| Engines, output formats, options | process and option state | run, debug, print | one report per analysis |
| C front end; Python, cpython, universal, stub and repl languages | inherited from Mopsa | | not part of the analysis of OCaml stubs |

How they interact: the driver binds the arguments of a stub and evaluates a
call; the iterators split and join flows; each statement goes through a chain of
domains (`share/mopsa/configs/c/ocaml-c-ffi.json`) in which status protection
comes before the cells and the runtime domain; calls of the interface are
inlined from `ffi.c` and end in `_ffi_*` primitives that the runtime domain
evaluates.  In the configurations that follow the C library, its calls are executed from
their contracts: the stub iterator (`languages/stubs/body.ml`) checks the requires clauses, splits the cases and has
resources allocated and freed, and the contracts of `open`, `close`, `fopen`, ... end in
`_mopsa_register_file_resource` and `_mopsa_find_file_resource`, which the descriptor
domain evaluates.  Alarms set T_cur to bottom (with `~bottom:true`) and stay in the
report.

**What is hard.**  The analyzer is sequential; the difficulty is in what it
predicts: other OCaml threads and the collector act while a stub runs unlocked
(interleaving), a value survives in a copy (staleness), lock, roots and open
descriptors differ between branches (protocol), a number is used after the file behind
it was closed and given to another (protocol, boundary), a path is abandoned in the middle (partial
failure), and messages of an abandoned path must survive joins (ordering).  The
concurrency of the tool itself is in the script: it waits for a process that may
write, exit or compute for ever while the clock runs (timeout), and the user may
interrupt the driver between any two steps.
`PROJECT.json` lists each hazard at its line.

## Modules

| Module | Models |
|---|---|
| `RuntimeLattice` | flat lattices, shapes, entries, environments |
| `RuntimeDomain` | flows, alarms, one operator per transfer function; status protection |
| `FfiApi` | one operator per interface function or group of functions with the same body up to a shape |
| `OcamlRuntime` | the concrete side: data, roots, collections (external: the OCaml runtime is not in the repository) |
| `FfiSoundness` | the composition: one action per statement or call, applied to the analysis and to a run at the same time; properties |
| `FfiContract` | the abstract specification: what a report promises |
| `NestedShapes` | recursive shapes, and the shape of one variable beside the value a run has in it |
| `FfiLoop` | the analysis of a loop to its end, then the runs of that loop; uses the transfer functions of `FfiApi` |
| `StubDriver` | the loop over stubs, verdicts, final report, exit code, interrupts |
| `VicunaProcess` | the script, the analyzer's process, two pipes, the clock |
| `LibcContracts` | the vocabulary of contracts: what is asked of an argument, what a case does to resources |
| `LibcMemory`, `LibcFiles`, `LibcSystem` | the contracts themselves, one table for each part of each file |
| `LibcJobs` | what a call is: a parameter of its contract, the contract's cases and what the function really does; where the two agree, call by call |
| `LibcDivergences` | the functions whose contract parts from the function, by reason |
| `LibcProgram` | a program that calls the library, beside its analysis |
| `FileDescriptors` | the descriptor domain: pure operators on slots, table and support |
| `DescriptorProgram` | a program that opens and closes descriptors, with conditionals, beside the domain's state |
| `MC...` | values of the constants for TLC, one for each of these |
| `FfiApi_proofs`, `FfiSoundness_proofs`, `FfiLoop_proofs`, `NestedShapes_proofs`, `FileDescriptors_proofs`, `DescriptorProgram_proofs`, `LibcProgram_proofs` | theorems and the lemmas they rest on |
| `Driver_proofs` | the same for `StubDriver` and `VicunaProcess` |

`RuntimeLattice`, `RuntimeDomain`, `FfiApi`, `OcamlRuntime` and `FfiSoundness` extend
one another in this order; `FfiSoundness` instantiates `FfiContract` with a refinement
mapping.  `FfiLoop` extends `OcamlRuntime`.  `LibcJobs` draws jobs from the three tables
of contracts, `LibcProgram` composes them with `FileDescriptors`, and `DescriptorProgram`
puts the same operators beside the kernel alone, with the flows that join.  `NestedShapes`, `StubDriver` and
`VicunaProcess` stand alone: `RuntimeLattice` has shapes as sets of kinds, of which
`NestedShapes` is the refinement that the code has, and a stub of `StubDriver` is what
the driver sees of a stub of `FfiSoundness`.

**Abstractions.**  A shape is the set of *kinds* it allows (`Imm`, blocks,
strings, ...), which is what the booleans of the shape record say; the shapes of
fields are given per kind by the constant `FieldOf`.  Locations are model
values; the cells behind a pointer are locations too, one per pointer variable
(`CellOf`), because a cell belongs to the call site that creates it.  A field
index is a constant or it is not.  Messages are the kinds of alarms and
diagnostics.  `reach` says whether T_cur is bottom.

**State and actions of `FfiSoundness`.**  `flow` is the analysis at the current
statement, `aside` the flow of the other branch while a conditional is open,
`phase` and `side` the branch being analysed and the branch the run takes.
`mem`, `rooted` and `held` are the run: the datum of each location (its kind,
whether it is a heap pointer, whether a collection has moved what it points to,
whether it was ever exposed to one), the registered roots, the lock.  `run` says
how the run is doing: `ok`; `inactive` or `unlocked` once it has broken that
rule; `misuse` once it does something the domain makes no claim about (see
below); `abandoned` when the analysis stopped before it; `done` when it left by
an exception.  An action `Step(g, attempt, effect)` moves the analysis to `g` and
the run by `effect`, unless the attempt goes wrong.  `ConcurrentGC` is the only
action of the run alone: it may happen at any state in which the lock is free.
An interface call is atomic, since nothing but a released lock lets another
thread in, and no call of the interface releases the lock except
`caml_enter_blocking_section`, whose collection precedes the release.

**State and actions of `NestedShapes`.**  `sh` is the shape of a variable, `val` the
value of a run, a tree of kinds, tags and fields.  The actions are the transfer
functions that touch a shape: arguments and results of a type, `_ffi_set_shape`,
`_ffi_add_shape`, joins of branches, `_ffi_assert_shape`, `Is_long` tests (which
split the analysis into the cases the shape allows), field reads, and loop heads.
`HasType` says independently of shapes which values a declared type has.  Top and
None are marks; MaxDepth and MaxBreadth are 5 and 20 in the code.  A map is a function
on the constants `Tag` and `Index`, None where it has no binding.  `ShapesTo[n]` and
`TypesTo[n]` are the shapes and types of at most `n` levels, `Shapes` and `Types` those
of `Levels`.  Each recursive operation is a recursive function (on pairs, for two
arguments) whose body is the operator `...Node`: what the code does at one node, given
the function for the nodes below.

**State and actions of `FfiLoop`.**  A loop is its kind, whether its condition is
constant, a body and an increment; bodies are straight lines of interface calls and
conditional jumps, of any length and possibly empty.  `head`, `entry`, `out` and `result` are the flows (with T_break
and T_continue) that `unroll` and `lfp` carry through their recursive calls; `count`
is the unrolling or the widening delay that is left.  The analysis runs to its end
first; then `pc`, `mem`, `rooted` and `held` go through the loop for as long as they
like.  Reports of earlier iterations of the fixpoint are dropped, as `loops.ml:294`
does on purpose.

**State and actions of `StubDriver`.**  The stages of one stub are those of
`exec_virtual_runtime_function_test`: arity, call, shape of the result, and the
handler that catches every exception.  `cur` is the flow of the stub under test,
`base` the flow all start from, and `joined` stands for the list of flows joined at
the end (`JoinKindIsLub` is why the order does not matter).  The arity and the void
result share one check at one range; an alarm is not joined with what the check has said so far
(`AlarmedKind`), so a void result after a matching arity is an error.  `stubs` is the list after the sorting and filtering of the driver.

**State and actions of `VicunaProcess`.**  `stage`, `report`, `printed` and `status` are
the script; `child`, `todo`, `code` and `signal` the analyzer, `pipe` the writes that
wait in each pipe.  A write waits while its pipe is full; the script reads the pipes
only once the analyzer is gone (`communicate` after `wait`).

**State and actions of `DescriptorProgram`.**  `kernel` is the table of open files
(external: POSIX), `analysis` the state of the domain, `pool` the addresses the heap
domain holds, `saved` the flow that waits for the end of a conditional.  The program tests
the result of each call, so the analysis follows the case that the run has; a call whose
result is not tested is the call between `Branch` and `Merge`.  An interval is the set of
its members, an unmapped address has the empty one.  `Walked`, `Passed` and
`InsertFirst` are the recursive walk of `insert_addr_first`; `Handed` leaves open which of
the taken numbers inside the interval go, because the sort of `table.ml:112-116` compares
an interval with itself and so leaves the order of the map.  `a \notin pool` guards
registrations because the recency heap gives a new address to an allocation and renames
the old one, which the domain does not follow (see the observations).

**State and actions of `LibcProgram`.**  `heap` has the objects of the run (buffers,
streams, directories, files, locales, timers, conversion descriptors), dead or alive,
`kernel` the open numbers.  `known` and `files` are the analysis: live addresses, contents
a buffer may have, the descriptor domain's state.  A contract is a record of the
functions that share it, the demands on its arguments and the effects of its cases; a call
puts one argument at risk.  `Run` does what the library really does (`RealCases`, from
ISO C and POSIX), `Analyse` what a case of the contract says; both read an effect in the
same way, so they differ exactly where the contract differs from the function.  An effect
says whether the call returns an error: a stream that `fclose` closes is gone in either
case, and `Always` has both.  The program tests the result, so the analysis of a call goes on
with the cases that return the same as the run's (`Followed`), and has no state for it when
there is none.  Whether a function assigns an argument is one mark for all its cases.  The
725 functions that are not avoided give 47 distinct jobs; of what they may come to, the
outcomes of `UnfollowedOutcomes` are left out (`Outcomes`), see the observations.  A call that opens two files
(`pipe`) takes the two lowest numbers in turn.

**What is outside the claim** (`misuse`).  A run leaves the comparison when it
(1) uses a value of the wrong kind or stores into a field of another kind, since
the shape checks of the domain accept any value whose shape *meets* the
constraint; (2) stores a stale value with `caml_modify` or `caml_alloc_some`, of
which the code does not look at the status; (3) reads or copies a heap pointer
while unlocked (only if `ForbidUnlockedReads`), or reaches `End_roots` (only if
`ForbidEndRoots`): these two switches separate the sound part from the recorded
disagreements below.  Nothing else is excluded.

## Properties

`FfiSoundness`

* `TypeOK`: flows stay in the lattice; no binding ever has a bottom component;
  every declared variable of a run that is not over holds a datum.
* `Described`: as long as a run keeps to the rules, the flow at the run's point
  describes it.  In particular a value called `Active` has not moved, an
  unprotected heap value is never called `Active` while the lock is free, roots,
  shapes and lock are the run's own.
* `ReportedAtOnce`: a step that breaks a rule is reported in that step, either by
  an error that empties the flow or by the maybe-inactive warning.
* `StaleWasExposed` (precision): a value called `Stale` was exposed to a
  collection or computed from such a value, when no registration is in doubt.
* `DoubleRootIsReal` (precision): a variable reported as registered twice was a
  root.
* `KeepsContract`: the composition implements `FfiContract`: messages are never
  withdrawn, a run that breaks a rule does so under a message that explains it,
  and the analysis leaves a run behind only with a message.

`NestedShapes`

* `TypeOK`: only standard blocks have fields, at every depth, and a live variable's
  shape is never bottom.
* `Described`: the shape describes the value at every depth, and an `Is_long` test
  leaves the run a case.
* `MismatchIsReal` (precision): a mismatch is reported only for a value that does
  not have the type or shape asked for.
* `SubsetSound`: inclusion of shapes is inclusion of values; loops stop on it and
  collections spare guaranteed immediates by it.
* `Stabilises`: a loop iterated for ever changes the shape finitely often.

`FfiLoop`

* `LoopDescribed`: wherever and whenever a run leaves the loop, the flow after it
  describes the run.  Loops with a reported error are left out: an error empties
  T_cur, and the last iteration of a fixpoint may then be empty although an earlier
  one was not; such a loop is covered by `LoopReported`.
* `LoopReported`: a rule broken in any iteration is in the final report, although
  each iteration drops the report of the one before.
* `Stable`: what the iteration stops at is a fixpoint, unless an error was reported: one more
  iteration from the head describes no more runs.  The order is that of the runs described
  (`FlowBelow`), in which a stale value, of which nothing is claimed, is above an active one;
  in the order of `Flow.subset`, which stops the iteration, it need not be a fixpoint (below).
* `Terminates`: the analysis of every loop ends.
* `TypeOK`.

`StubDriver`

* `VerdictsAreJustified`: the verdict of a stub is the one its own part of the final
  report, with that of the globals, calls for.
* `PassMeansAnalysed`: a stub passes only if its arities agree, its call neither
  failed nor returned void, its result fits and nothing was found in its body.
* `ExitAgrees`: the exit code is 0 exactly when all verdicts are good.
* `AllAnalysed`: a run that is not stopped ends with one verdict for each stub.
* `TypeOK`.

`VicunaProcess`

* `SummaryIsWhole`: what is printed as a summary is all that an analysis that came to
  its end has written.
* `ScriptEnds`: the script ends, even on an analysis that never does.
* `NothingLeftRunning`: no analyzer outlives the script for ever.
* `ProcessTypeOK`.

`LibcProgram`

* `DeadUseReported`: a call with a dead object, a closed number or a buffer that is too
  small is reported, whatever calls made and freed the object before.
* `LegalUseSilent` (precision): a legal call is reported only if the domain does not know
  which file a number stands for.
* `SameResources`: the resources the contracts have allocated and not freed are the
  objects of the run, and the analysis never loses the run.
* `ContentsDescribed`: no buffer has a content that the analysis has ruled out.
* `FilesDescribed`: the descriptor domain describes the kernel's table under the
  contracts of streams, directories, pipes and sockets.

`DescriptorProgram`

* `DescriptorsDescribed`: open numbers are in the slot or the interval of their file,
  closed numbers below the window in a slot that may be free.
* `SupportIsOpen`: each address of the support is the file of some number, so that no
  number the kernel may give out is taken away from a registration.
* `AnswerDescribed`: what `open` returns is among the registration's answers, and the
  file of an open number among those a lookup gives.
* `TypeOK`: slots, intervals and support stay well formed.

## Runs and bounds

| Run | Instance | Shows |
|---|---|---|
| `soundness_values` | 2 values, 1 string pointer, 4 kinds, no conditional | all six properties of `FfiSoundness` on straight-line stubs of any length |
| `soundness_branches` | 1 value, 2 kinds, 1 conditional | joins of branches that differ in roots, lock, status, shape or end in an alarm |
| `soundness_pointers` | 1 value, a field pointer, a named-value pointer, 2 kinds | pointers into the heap and to C memory across collections |
| `shapes` | 3 kinds, 2 tags, 2 indices, 11 types of at most 5 levels, 20 values, widening at depth 1 and breadth 1 | the properties of `NestedShapes` on any sequence of steps |
| `loops` | 2 values, bodies of at most 3 statements out of 12, `Unrolling = 1`, `Delay = 1` | the properties of `FfiLoop` for every while, do, do-once and continue-free for loop |
| `for_continue` | the same values, for loops that continue, `Delay = 0` | finding: `continue` skips the increment in the analysis |
| `driver` | at most 2 stubs out of 60, three flows of the globals, 1 interrupt | the properties of `StubDriver` |
| `process` | at most 4 writes, `Capacity = 2`, `Timeout = 3` | the properties of `VicunaProcess` |
| `process_pipe` | at most 3 writes, `Capacity = 2`, `Timeout = 2` | finding: a full pipe passes for a slow analysis |
| `libc` | 4 objects, 4 numbers, window 3 as in the code, at most 2 objects that are not files | the properties of `LibcProgram` over every function that is not avoided and every outcome that is not left out |
| `descriptors` | 3 files, 4 numbers, window 1, 1 conditional | the properties of `DescriptorProgram` |
| `descriptors_merged` | the same with window 2 | finding: a registration loses the lowest number |

The stubs of the `soundness_*` runs are of unbounded length: the state space is finite
because locations and kinds are.  The bounds are the numbers of locations and kinds and
`Conditionals`.  Two values are enough for copies, self-assignment and arithmetic
of an active with a stale operand; four kinds give immediates, two kinds of
structured blocks with different fields, and strings, so that every shape check
can pass, fail or be in doubt.  One conditional gives every pair of branch flows that one value can have
at that point, and anything may precede and follow it.  The same configuration with
two conditionals in sequence also passes, with 1.85 million states in more than four
minutes, and is not kept as a run; a second value together with a conditional takes
longer still.  For `TypeOK` and `Described` the proofs cover every number of values
and conditionals.

`NestedShapes` has no bound but its types, values and the two cuts, which are small so
that they cut: a pair is already wider than one field, a constructor of nested arrays
deeper than one level.  `FfiLoop`'s `MaxBody = 3` has every jump between any two calls;
one unrolled iteration and one iteration before each widening take every branch of
`unroll` and `lfp`.  Two stubs are enough for one to influence another; the sixty stubs
combine each arity, end and diagnostic with the simplest others.  A pipe of two
writes can be empty, partly full and full; three ticks let the analyzer exit before,
at and after the limit.

`DescriptorProgram` with one slot has every pair of slot and table, with intervals of two
and more numbers on both sides of the support; three files and four numbers leave gaps
above and below.  The same properties were also checked with the code's window of 3
without conditionals (four files, four numbers) and with two conditionals (2.6 million
states in more than four minutes), which are not kept as runs; the proofs cover both for
every size.  In `libc` two plain objects give one that is dead beside one that is alive; a
stream and its file, or a pipe, fill the remaining addresses, and three slots and one
number above them are filled and emptied in every order.

**Deadlock** is not checked: the analysis of a stub, a loop or all stubs ends, and so
does the script, and so do the models; a program of `LibcProgram` ends with its first
report or its last free address.

**Fairness.**  `FfiSoundness`, `NestedShapes`: none; every property of the first is a safety
property, and `Stabilises` says what happens if a loop is iterated for ever, which
needs no fairness.  Nothing in the code obliges a stub to go on, so liveness of a stub
would be a claim about its author.  `FfiLoop`: `WF(Analyse)`, and `StubDriver`:
`WF(Driver)`: the analyzer is one thread that always has a next step until it is done;
interrupts are not fair.  `VicunaProcess`: `WF(Script)`, `WF(Tick)` and `WF(Die)`: the
system runs the script, lets time pass and delivers signals.  The analyzer has no fairness,
since an analysis may take for ever, and `ScriptEnds` holds nevertheless.

## Findings

1. **`continue` in a `for` loop** (`c/iterators/loops.ml:66`, run `for_continue`).  The
   increment is appended to the body, and `continue` leaves the body as a whole: on the
   paths that continue the analysis never executes the increment.
2. **A full pipe** (`vicuna.py:298`, run `process_pipe`).  The script waits for an
   analyzer whose pipes it does not read; a long report is killed and called a timeout.
3. **Opening after a merge** (`file_descriptor/domain.ml:185`, run `descriptors_merged`).
   The case that inserts in slot `i` keeps what the walk made of the later slots, which are
   the slots of a walk that found `i` taken: a free one is bottom there, and one that may
   be free is not free.  After `close(0); close(1);` with untested results, `open` returns
   0; the analysis has dropped that case, or goes on with a slot 1 that is taken.  This is
   how a daemon replaces its standard streams.  A correct case would keep `slots` as they
   were behind `i`.

Observations without a run of their own, on the analysis of stubs:

* `exec_update` (`domain.ml:411`) copies the status of a root also while the lock is
  released: the copy is active and no root holds it.  `ffi.h:63-65` says that a value is
  stale "when a runtime lock is not held"; `ffi.c:667` has a FIXME about it.  With
  `ForbidUnlockedReads = FALSE` TLC finds `Described` violated.
* The meet of two array shapes (`shapes.ml:730`) joins the elements (`meet_opt join`),
  against `lattice.ml:63`.  It costs precision only.
* The handler around a stub (`program.ml:290`) catches the exception of Ctrl-C, which
  `runner.ml:131-134` expects at the top: the stub is reported as one whose analysis
  failed, and the driver goes on.  `PassMeansAnalysed` holds with interrupts anywhere.
* A cell that is allocated in one branch only may be called stale after the join although
  nothing exposed it; `StaleWasExposed` is therefore no property of `soundness_branches`.
* `End_roots` (`memory.h:200`) closes a brace and leaves the roots registered in the
  domain; `memory.h:185` has a FIXME.  `ForbidEndRoots` keeps such stubs out of the claim,
  and without it TLC finds `Described` violated.
* With `-loop-unrolling` 2 or more, the iteration of a loop may stop (`loops.ml:338-340`) at
  a flow that is no fixpoint of `Flow.subset`; it describes all runs nonetheless ("The fixpoint",
  under Proofs).
* A collection spares guaranteed immediates (`domain.ml:514`), of which `ffi.h:72-76` says
  that they become stale.  The code is more precise than the comment, and sound.
* `NestedShapes.to_string` prints "floatarray" when the shape has `custom`
  (`shapes.ml`, `let floatarray = if shape.custom ...`).
* `compat` looks at kinds only: constructors with different tags are compatible.
* `output_result` catches only `PermissionError` (`vicuna.py:179`); the help of
  `-timeout` says 360 seconds while the default is 60; `argparse` exits with 2 on
  malformed arguments.

on the C library and its descriptors.  The sets of functions named below are those of
`LibcDivergences`, which the `libc` run avoids, with the helpers of the stubs, which
programs do not call.  Adding one of the sets to the run violates within a few calls: all
five properties for `UnaskedExtent`, `UnaskedPointer` and `Untracked`, `DeadUseReported` and
`ContentsDescribed` for `UnaskedLocale`, `ContentsDescribed` for `Unassigned` and `Retained`,
`SameResources` for `OwnedStrings`, and none for `AssignedOnSuccess`, which the model does not
tell apart:

* `find_addr` does not look at the free part of a slot that may be free, nor at the
  support: a read of a number that one branch closed is not reported, and `dup2` onto such
  a number skips the `newfd` case.  `DupOnto` is guarded by `None \in Find(n, analysis)`
  for this reason.
* The recency heap renames the recent address of a site to its old one when the site
  allocates again; the domain ignores renaming, folding and expanding, so a second `open`
  at one site replaces the interval of the first.  `Open` and `DupOnto` need `a \notin pool`.
* `Table.insert` sorts with a comparison of an interval with itself (`table.ml:112-116`).
* `UnaskedLocale`: 61 functions with `_l` do not require their locale to be alive.
  `UnaskedExtent`: about 40 functions assign through a pointer whose extent is not
  required.  `UnaskedPointer`: nothing is required at all.
* `Unassigned`: `getdirentries`, `vsprintf`, `qsort`, `wcstod`, `timegm`, `accept` (the
  length), `regfree` and others have no assigns clause for what they write.
* `Retained`: the library keeps the pointer and uses what it refers to in later calls, which
  no contract says.  The buffer of `setbuf`, `setvbuf` and `setbuffer` is written by every
  later call on the stream (`stdio.c:361`, `369`, `389`: "TODO: __buf becomes volatile"), that of
  `initstate` and `setstate` by `random` (`stdlib.c:333-369`), the stack of `sigaltstack` by a
  signal, the registers of `re_set_registers` by a match; `putenv` and `openlog` keep
  a string.
* `AssignedOnSuccess`: `realpath`, `getcwd`, `wcsftime`, `gethostname`, ... assign their buffer
  in the case of a success, and may leave a part of the result there when they fail.  The
  model has one mark for all cases of a function.
* `OwnedStrings`: the strings of `getgrent`, `getservent`, ... are memory resources that
  a program can free without a report.  A call makes three to nine of them, more than
  the run's heap holds (`getnetgrent` fits, and violates `SameResources`).
* `Untracked`: `dup` registers the old file again and leaves the new one unused
  (`unistd.c:375-390`), and `dup2` and `dup3` register the old file at the new number;
  `opendir` registers a directory that `closedir` frees without its number, and `pclose`
  frees a stream without its file; `fdopen` and `fdopendir` make a stream or directory that
  shares a number; `freopen` and `login_tty` leave the old file where it was, and
  `fcloseall` closes nothing; `fmemopen` and `popen` are not followed to what they own;
  `dirfd` gives a number that the directory owns; `freeaddrinfo` frees the head of a list
  only; `fflush` accepts a stream that is dead.
* Some contracts lack a case for an outcome of a function that is otherwise right.  These
  outcomes are `UnfollowedOutcomes`, and calls of the run and of the theorems' instance do
  not come to them; with any of them TLC finds `SameResources` violated and `CasesAgree` false.
  A failing `fclose` has closed the stream and its number, while the case "failure"
  keeps both (`stdio.c:229-232`): a second `fgetc` or `fclose` passes unreported, although
  `doc/user-manual/stubs/c-contracts.rst:342` promises "no double ``fclose``"
  (`DeadUseReported` and `FilesDescribed` are violated as well).  A failing `close` may have
  closed the number (`unistd.c:97-111`; the same, and `LegalUseSilent`).  `getline` and `getdelim` may have
  made or moved the buffer when they meet the end of the file, and their case of failure
  leaves it alone (`stdio.c:610-613`; all properties but `FilesDescribed`).  `duplocale` makes a locale even when it
  returns 0 (`locale.c:111-118`), `__sched_cpualloc` a block even when it returns NULL
  (`sched.c:191`), and `newlocale` never fails (`SameResources` only).
* `setlocale` and `localeconv` free the previous result; `atexit` allows one function too
  many and returns 1 on success (`stdlib.c:800-853`); `getgrouplist` bounds `*__groups`
  by itself; `execvp` has no case that does not return.

## Proofs

All proofs are checked by TLAPS to the last leaf; `TLC` checks small instances
of the same formulas.

* `FfiSoundness_proofs`, **TypeCorrect**: `Spec => []TypeOK`.
* `FfiSoundness_proofs`, **RunDescribed**: `Spec => []Described`, for stubs that do
  not read roots while unlocked and do not use `End_roots`.
* `FfiSoundness_proofs`, for the same stubs: **BreaksAreReported** (`Spec => ReportedAtOnce`),
  **DoubleRootsAreReal** (`Spec => DoubleRootIsReal`), **ContractKept**
  (`Spec => KeepsContract`: the refinement of `FfiContract`), **StaleIsExposed**
  (`StaleWasExposed` up to the first conditional) and **StraightStubsExposed**
  (`Spec => []StaleWasExposed` if there are no conditionals).
* `FfiLoop_proofs`, **TypeCorrect**: `Spec => []TypeOK`; **LeavingDescribed**
  (`LoopDescribed`) and **BreaksAreReported** (`LoopReported`), if no `for` loop with an
  increment continues; **FixpointReached** (`Stable`), for those loops too.  All four are for
  every set of loops, every length of their bodies, every number of unrolled iterations and
  every widening delay.
* `FfiApi_proofs`, **EnvJoinUpper**: the join of two environments is above
  both.
* `NestedShapes_proofs`, **TypeCorrect**, **ShapesDescribe** (`Described`),
  **MismatchesAreReal** (`MismatchIsReal`), **InclusionSound** (`SubsetSound`) and
  **WideningKeepsValues** (the widening of two shapes describes the values of both), for
  every set of kinds, all finite sets of tags and indices, all declared types, of any
  number of levels, all values and every depth and breadth at which widening cuts.
* `Driver_proofs`, **TypeCorrect**, **NoStubSuffers** (`VerdictsAreJustified`),
  **NoPassUnanalysed** (`PassMeansAnalysed`), **ExitCodeAgrees** (`ExitAgrees`), for every
  set and number of stubs, every flow of the globals and any number of interrupts.
* `Driver_proofs`, **JoinKindIsLub**: diagnostics form a join semilattice, so the
  joined report does not depend on the order of the stubs or of their paths.

* `DescriptorProgram_proofs`, **TypeCorrect**, **KernelDescribed**
  (`DescriptorsDescribed`), **SupportSound** (`SupportIsOpen`) and **AnswersFound**
  (`AnswerDescribed`), for every set of addresses, window, number of descriptors and
  bound of the table, if no flows are merged or the window has at most one slot.
* `LibcProgram_proofs`, for every heap, window, number of descriptors, set of avoided
  functions and set of outcomes left out: **DeadUsesReported** (`DeadUseReported`), **LegalUsesSilent**
  (`LegalUseSilent`), **ResourcesAgree** (`SameResources`), **ContentsKnown**
  (`ContentsDescribed`) and **TableDescribed** (`FilesDescribed`), if contracts and functions
  agree call by call (below).
* `Driver_proofs`, **ProcessTypeCorrect** (`ProcessTypeOK`) and **SummaryWhole** (`SummaryIsWhole`), for every
  set of analyses, every capacity of the pipes and every time limit.

The theorems about `FfiSoundness`, `FfiLoop` and `RuntimeLattice` hold for every set of locations, kinds, field kinds, argument and
allocation shapes and every number of conditionals that satisfies the named
assumptions: `KindAssumption` (immediates are a kind and no structured block,
fields have some kind), `LocAssumption` (values, pointers, string pointers and
cells are disjoint, a pointer has its own cell), `ShapesAssumption` (arguments have
a shape, allocations are not immediate), `AbsentAssumption` and
`AbsentDatumAssumption` (the mark of a missing binding is neither an entry nor a
datum).

The argument.  `IInv == TypeOK /\ (Disciplined => Described)` is inductive.
`Described` alone is not: that a root check has succeeded says something about the
binding only if bindings have no bottom component, and a read of a variable has a
datum to copy only if the variable is declared; both are in `TypeOK`.  `TypeOK`
does not need `Described`, and the implication keeps `TypeCorrect` free of the
discipline that `RunDescribed` needs.  The proof has one lemma per action
(`...Preserves`) over two layers: `FfiApi_proofs` says of each lattice operation and each
transfer function what it leaves alone, what it checked if the flow goes on,
and what it binds, and that a run a flow describes is described by whatever is above that
flow; `FfiSoundness_proofs` combines this with the effect on the run, and so does
`FfiLoop_proofs`.  The central lemmas are `CollectDescribes` (a collection of any unprotected
values is described by `EvalGarbageCollect`) and `JoinSim` (a run described by one
branch is described by the join; it rests on `EnvJoinUpper`'s facts).
`ConcurrentGC` needs the last conjunct of `Agrees`: unprotected heap values are
already stale or unknown while the lock is free.

The report, on top of `IInv`.  `Judged` is one formula about a step: how the attempt of
its statement went (`ok`, a broken rule, a misuse), that the flow keeps its report and
leaves the statement behind with a message, and that a broken rule has its alarm
(`Explained`).  One lemma per statement shows it; `ReportedAtOnce`, the alarms of
`FfiContract` and its three actions are read off it.  `Folded` (outside conditionals
there is no flow aside) makes the report that of the two branches together throughout,
and it is inductive with `IInv`.  `ContractStep` maps a step to
`Contract!Next` or a stutter by how the run goes on.

The precision.  That a stale value was exposed is false after a join, where a value that
is stale in the other branch is stale in the flow: the theorem speaks of the part before
the first conditional, the runs of stubs without one.  The converse of `Described` is
needed there: `Precise == RootsKnown /\ Exposure` says that the flow is in no doubt about
which variables are roots and that whatever it calls stale was exposed.  The first part
makes the second inductive: a collection makes stale what has no root or a root in doubt,
and only the first kind is exposed in the run.  `Exact` states it of a run that is still
within the rules, `Early` that no conditional is open.

The loop.  `LoopDescribed` and `LoopReported` speak of the flow after the loop, and the run
starts when that flow is complete: nothing in the state then says which flow stood at the
head, or between two statements, when the run passed there.  The inductive invariant of
`FfiLoop_proofs` asserts that such flows exist: a set `H` of heads in which the condition
was tested and a set `B` of traces of bodies that were run, linked into a chain.  Each head
is covered by a flow after the loop, if the condition may be false, and by the start of a
body (`HeadLinked`); what leaves a body at its end, by `break` or by `continue` is covered by
a flow after the loop or by a head (`EndLinked`).  While the analysis runs, the chain is
`Open`: it has one head that has not been tested, and what has left is spread over `result`,
`out` and the T_break of the head.  Each unrolled iteration adds one head and one body
(`ChainGrows`, `ChainAdd`).  The iterations of the fixpoint that go on add nothing: each
starts again from the flow the fixpoint was entered with.  The last one adds the
head that closes the chain: the body was run from the head before it, `Flow.subset`
says that this one covers the new head, and the new head is the end of the body, joined
with the first (`FinishLinked`).  The run then goes along the closed chain: `Located` says
where it is described, `Judged` that otherwise an error or its own broken rule is in the
report, and `EndLinked` puts the report of each body of the chain in that of the loop.
The bodies whose report is dropped are those of the iterations that go on, which are not
in the chain.  The hypothesis is
`Plain`: a `for` loop with an increment has no `continue`.  It is what `TargetLocated`
needs, since `Trace` has no path from the middle of the body to the increment, and finding 1
is the loop that has one in the run; the run `for_continue` is an instance outside `Plain`.
A body is a sequence of any length, and its analysis a recursive function; what holds along
a `Trace` is shown by `NatSetInduction`, an induction over a set of numbers, which is the
library's well-founded minimum (`WFMin`) and takes no operator.  The added assumption is
`LoopAssumption`: bodies are sequences of statements and jumps, and only a `for` loop has an
increment.

The fixpoint.  The iteration stops when one iteration adds nothing in the order of
`Flow.subset`, and that another one would not either is a matter of monotony, which the
analysis of a body has not in that order: a collection spares a value that is certainly an
immediate and makes stale one that may be a block, and stale is not above active.  The
unrolling shows it with `-loop-unrolling` 2: in the loop `y = x; x = caml_alloc(...); x = z;
z = Val_long(0)`, with `z` a root, entered with values that may be blocks, the flow after two
iterations is in the one after the first, and `y`, stale in both, is active one iteration
later, since `x` is an immediate by then.  No run is lost, since nothing is claimed of a stale value.  The proof therefore uses
`FlowBelow`, where a status is below itself, stale and top: `BelowCovers` shows that what a
flow describes all flows above it describe.  In that order each statement is monotone as long
as it reports no error in the flow above (`CopyLower`, ..., `LeaveLower`): an error empties
that flow and no other, which is why `Stable` leaves out loops with a reported error.  The
flow below must have its variables bound (`Declared`, which every statement keeps), since a
copy of an unbound variable is untracked C data and not below a value.  `TraceLower` carries
the order along the traces of two analyses of the body, `IterateLower` over the merge with
T_continue, and `FinishSettles` ends both stages: the last iteration went from `u` to `b`,
the new head `t` takes in `b` and is included in `u`, so that an iteration from `t` is below
`b`, hence below `t`.  The inductive invariant is `FInv`: types, bound variables at the head and at the entry
of the fixpoint, and `Settled`, which is `Stable` said with a trace.

The driver's inductive invariant (`IInv` of `Driver_proofs`) adds to the properties:
`BaseOK` (the common flow has no places of stubs), `JoinedOK` (the joined report has
nothing yet of stubs without a verdict, and all that the common flow has once a verdict
is in), `CurOK` (the current flow agrees with the common one on all places but the current
stub's), `StageOK` (what each stage has established of the stub so far, so that a clean
flow at `record` means an analysed stub), `VerdictsOK` (each verdict is already the one of
the stub's part of `joined`, which later joins cannot change) and `EndOK` (the exit code is that of the final report).
`VerdictsAreJustified` and `ExitAgrees` speak of the end only and are no help in the
middle; this is why the invariant carries their reasons through every stage.  The
assumption is `DriverAssumption`: initial flows have no places of stubs, and a flow
without T_cur has an error behind it, which is what lets a stub with an empty flow not
pass.

The descriptor domain's hypothesis is `Unmerged == Branches = 0 \/ Window <= 1`: finding 3
is the reason that there is one, and the run `descriptors_merged` is an instance outside
it.  `DescriptorsDescribed` is not inductive.  `Good` adds that each file has one number
(`Distinct`), which closing needs; that files, slots, table and support are within the
addresses the heap holds (`Known`, `Within`), which registering a new address needs; that
the table has no number below the window (`Above`), which keeps `dup2` and the lookup
apart; and, without merges, that a slot is free or has one address that is not in the
table (`Sharp`), which makes the walk over the slots stop at the kernel's lowest number
and is what merged flows destroy.  `SupportIsOpen` is part of `Good` because `Handed` takes
the support's numbers away.  The lemmas are about the operators, in `FileDescriptors_proofs`,
which `LibcProgram_proofs` uses as well: `JoinAllDescribes` (a
join describes what a part describes), `InsertFirstDescribes` and `InsertOtherDescribes`
(the case of the lowest number is one of the registration's), `HandedLowest` (the lowest
number is handed out if no slot is free), `RemoveDescribes`, `RegisterAtDescribes`;
`StepPreserves` has one step per action.  The assumptions are `WindowAssumption`,
`KernelAssumption`, `NoneAssumption`, `AnswerAssumption` and `BranchesAssumption`.

The C library.  A whole program is sound because its calls are, and the proof keeps the two
apart.  What a contract must satisfy alone are four formulas of `LibcJobs`: `CasesAgree`
(what the function may do to resources is a case of the contract that returns the same), `EffectsFit` (memory is
freed as memory, a stream closed as a stream), `ClausesAgree` (the contract asks what the
function needs) and `ResultsAssigned` (what the function writes is assigned).  They are
hypotheses of the theorems, each theorem has only those it needs, and TLC evaluates all four
over every function and outcome that `LibcDivergences` does not list (`AgreementAssumption` of
`MCDescriptorProgram`); with any one of the sets of diverging functions but
`AssignedOnSuccess`, or any one of the outcomes added, at least one of the four is false.  A
program with a failing `fclose`, `close` or `getline` is thus outside the theorems: its
contract does not meet `CasesAgree`.  The proofs never look at a table, so they stand
when functions are added or their contracts change.

`SameResources` and `FilesDescribed` are not inductive, and neither is one without the
other: a call is analysed with the file that the descriptor domain finds for a number, and
the domain is described only if it drops a file when the contract frees it.  `IInv` joins
`HeapOK` (addresses are taken in order), `TableOK`, `FilesLive` (the kernel's files are
live objects), `StreamsNumbered` (a live stream has a number) and `KnownOK` (the analysis'
live addresses are the heap's).  `TableOK` is `Good` and `Sharp` as above and `Placed`: an
address in the table is in its support.  A lookup of a *closed* number must find no file
(`FindClosed`), or a use after close would pass unreported; without `Placed` an interval in the table
could stand for a file that may be absent.  `CallKeeps` is the step of a call: `AddressStep` says
what happens to one address of the heap, `TableStep` what the registrations and the
removal do to the table.  `Judged` (`DeadUseReported /\ LegalUseSilent`) and `ContentsOK`
rest on `IInv`.  The assumptions are `PlainAssumption`, `AddressAssumption` and those of
`FileDescriptors`.

For vicuna.py, `SummaryIsWhole` speaks of a report that has been printed; the invariant
(`ProcessInv`) says where its text comes from.  `TodoIsSuffix` (what is left to write is the end of the
job) and `PipesHold` (until the script has its report, each pipe holds as many writes as
the analyzer has made to it) make the pipe whole when nothing is left; `Order` makes
nothing left when the script reads a success: before it gives up there is no signal, so
an analyzer that is gone has exited, and one that exited with 0 or 1 came to its end.  The
lemma `SentAfterWrite` counts one write; the assumption is `ProcessAssumption`.

The nested shapes.  The invariant is `IInv == sh \in Shapes /\ val \in Value /\ looping
\in BOOLEAN /\ Described /\ MismatchIsReal`.  `TypeOK` and `Described` are not inductive alone: a variable's
shape stays above bottom because a meet that goes on still describes a value, and the
operations satisfy their equations only on `Shapes`.  Most of the proof is about the
operations, in four steps.

1. *Recursion.*  A recursive function of TLA+ is a choice, and that it satisfies its own
   equation must be shown.  A lemma `...Local` for each operation says that the result at a
   node depends on the nodes below only; with it, a function that follows the equation
   on the shapes of `n` levels extends to `n + 1`, and `NatSetInduction` gives `JoinRecursion`,
   `MeetRecursion`, `SubsetRecursion`, `TruncateRecursion`, `CoversRecursion`, `TypeRecursion`
   and `HasTypeRecursion`.  `ShapeInduction` and `TypeInduction` then replace induction on
   trees: a set of shapes that contains a shape whenever it contains the parts is all shapes.
2. *Order.*  `SubsetCovers` (inclusion of shapes is inclusion of values), `JoinUpper` and
   `TruncateAbove` give `JoinCovers` and `WidenAbove`.  A result has at most as many levels as
   the deeper operand (`JoinLevel`), which is what keeps it in `Shapes`.
3. *Shapes from types.*  `TypeCovers`: the shape of a declared type describes the values that
   `HasType` gives it; `RuntimeCovers`: so do the constants of `enum ffi_shape`.
4. *Transfer functions.*  `VariantIndex` and `FieldCovers` (a field read describes the field,
   whatever tag the block has; `JoinAllCovers` is the fold over the tags), `MeetImmediate` and
   `MeetBlock` (the two cases of an `Is_long` test), `CompatCovered` (no mismatch if a value
   has both shapes).  `Is_long` is the only place where a variable is bound to a meet.

Each action then has one lemma (`...Step`), and all but the failing checks reduce to `GoesOn`.
The assumptions are `ShapesAssumption` (immediates and standard blocks are two kinds, tags and
indices are finitely many, the declared types have at most `Levels` levels, the fields of
values are values) and `MarksAssumption` (Top and None are neither shapes nor maps).

Only model-checked is what is out of the prover's reach: every invariant and action property
of the passing runs is stated by a theorem.
Out of reach are liveness under fairness (`Terminates`, `AllAnalysed`,
`ScriptEnds`, `NothingLeftRunning`, `Stabilises`) and `ENABLED`.  The library's induction
theorems over data are too; what is recursive here is numbered, by the length of a body or the levels
of a shape, so that `NatSetInduction` does instead.

## What is not modelled, and why

* `goto`, `switch` and nested loops, conditions that refine the flow, inlined helper
  functions and their cache: planned, see below.
* Weak variables of the recency heap: the model has strong ones only.
* Cells, pointers and numeric domains: a pointer variable is assumed to resolve to
  its one cell, a number to be a constant or not.
* `math.c` (numbers only), conditions of contracts on numbers and on the contents of
  strings, quantified formulas, and the message of a contract; the functions of
  `LibcDivergences` have their contracts in the tables and are not called, and calls do not
  come to the outcomes listed there.
* Widening of intervals and top slots of the descriptor domain, which no operation
  builds.
* The analysis of a `main` function or of unit tests, and the lists of missing and
  skipped functions the driver prints.
* Front end, options, output formats, the interactive engine, the other languages: no
  state that the interface rules depend on.

## Plan

1. *(done)* `RuntimeLattice`, `RuntimeDomain`, `FfiApi`, `OcamlRuntime`,
   `FfiSoundness`, `FfiContract`; type correctness and soundness proved.
2. *(done)* `NestedShapes`, `FfiLoop`, `StubDriver`, `VicunaProcess`; the driver proved.
3. *(done)* The contracts of the C library and the program that calls them; the
   descriptor domain, proved.
4. `RecencyHeap`: strong and weak addresses, then weak variables in `RuntimeDomain`,
   where a collection or a registration may not be a strong update.
   Inlining with its cache (`universal/iterators/interproc`), `goto` and `switch` beside
   `FfiLoop`, the interactive engine's breakpoints, `main` and unit-test drivers.
   Abstract specifications: the driver as a set of verdicts, the script as "one report,
   then the end".
5. *(done)* The report proved: `ReportedAtOnce`, `DoubleRootIsReal`, `KeepsContract` and,
   before the first conditional, `StaleWasExposed`.
6. *(done)* Proofs about `LibcProgram` from the lemmas about the descriptor domain.
7. *(done)* Proofs about `FfiLoop`: the flow after a loop describes every run that leaves it
   and has the rules it broke; the iteration stops at a fixpoint.
8. *(done)* Proofs about `NestedShapes`: its operations as recursive functions over levels,
   inclusion, the description of values, mismatches.
