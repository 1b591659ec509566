# A verification project for sixfiveohtwo

sixfiveohtwo is a cycle-stepped NMOS 6502 in Python, with a debug session, a
command debugger, trace tools and a disassembler around it. This directory
models it in TLA+: TLC checks the models on small instances, and TLAPS proves
what matters most for all of them: the interrupt machinery, the contract it
implements and how long a request waits; cycle counts and listing lengths; the
adder and subtractor; calls on the stack page and the debugger's `over`; the
session's records, budgets and progress; the wrappers on the bus; and the fetch
scripts' installs.

The program is single threaded. Its difficulty is re-entry: every bus access
calls the host, and the host's callable may request or release an interrupt,
replace the bus callables, report a DMA stall, edit the debugger or raise,
before the access returns. All models take the granularity of one bus access
and let the host act at each.

## The system

| component | state | operations | what makes it correct |
|---|---|---|---|
| CPU frame (`frame.py`) | bus callables and their routes, `_requests`, `_polled`, `_deferred`, `_polled_i`, `_stalled`, `_stalled_before`, `_reset_pending`, `halted` | bus setters, `note_stall`, request/clear of IRQ, NMI and reset, `step`, `_boundary_interrupt`, `_poll_fields`, `_restore_poll` | every request acts on the boundary the documented polling rule names; every access reaches the host's current callable; a snapshot carries everything a boundary needs |
| interrupt sequences (`_control.py`, `cpu.py`) | their locals, I, the vector | branches, CLI, SEI, PLP, RTI, BRK, JAM, IRQ/NMI entry, start sequence | polls at the right cycle, NMI takeover, one handler instruction before the next interrupt |
| core (`_core.py`, `cpu.py`) | registers, `_extra` | fetch, addressing modes, `_execute`, `restore_state` | one access per cycle returned, in the chip's order |
| stack and calls (`_core.py`, `_control.py`) | S, the stack page | JSR, RTS, BRK, RTI, entries, pushes and pulls | a return goes where its call or interrupt came from, wherever S wraps |
| opcode map (`_dispatch.py`) | the table | `build_table` | counts agree with the accesses of mode and handler |
| arithmetic (`_alu.py`, `_shifts.py`, `_undocumented.py`) | A, P | ADC, SBC, comparisons, logic, shifts, undocumented combinations | exact binary and decimal results, flags as NMOS sets them |
| loads, stores (`_loads.py`) | registers | loads, stores, transfers | one assignment each |
| `CPUState` (`state.py`) | immutable fields | validation | restores to an equal state |
| debug session (`debug.py`) | breakpoints, watchpoints, history, totals, `_accesses`, `_originals` | `step`, `run`, edits, `close`, `next_boundary` | records hold what their step did; a run stops where asked and within its budgets; the CPU gets its callables back |
| command debugger (`console.py`) | session, last command | `step`, `run`, `continue`, `over`, `reset`, `irq`, `nmi`, `break`, `watch`, `set`; printing | stops where the user asked; commands end |
| disassembler (`disasm.py`) | none | decode, format | the lengths are what the core consumes |
| trace (`trace.py`) | none | serialise, parse, compare | pure functions |
| command line (`__main__.py`) | none | arguments, image files | drives the command debugger |
| fetch scripts (`scripts/`) | files and directories on disk | staged download, install by renames, roll-back | a complete copy survives any failure or crash |

**How they interact.** The host owns the CPU and calls `step()`. Each access
calls the host through a *route*, which is the host's callable or a wrapper that
confirms a change of the requests and restores the plain route. A debug session
calls its target's `step()`, having wrapped the CPU's two callables to log
accesses; the command debugger drives a session by loops of bounded `run()`
calls, and takes where a call will come back from the disassembler and from S.
The fetch scripts share nothing with the rest but the files they leave.

**What is hard to test.** The order of requests, releases, stalls and captures
inside one step; the three poll points of a branch; state remembered past the
boundary it is for; wrappers swapped while they are in use; steps abandoned by
an exception; several sessions on one CPU; budgets met exactly; recursive calls
and interrupts while `over` waits; a stack page that wraps inside a frame; digit
carries; an install killed between two renames.
PROJECT.json lists each hazard at its line.

## Modules

| module | models | composed of |
|---|---|---|
| `Sequences65` | request bits, sequences, their lengths and access kinds | |
| `CPUFrame` | one operator per method of `frame.py` | `Sequences65` |
| `MOS6502` | `step()` as a sequence of accesses, with the host between and inside them | `CPUFrame`; `PollContract` by `INSTANCE` |
| `PollContract` | the abstract specification: docs/start-here.md's polling rule, without the frame's machinery | `Sequences65` |
| `InterruptLatency` | an observer of `MOS6502` that counts how long each line's request waits | `MOS6502` |
| `BusCycles` | every access of every instruction, `_extra`, exceptions, the disassembler's lengths | |
| `Arithmetic` | adder, subtractor, comparison, rotates, two undocumented compositions | |
| `CallStack` | JSR, RTS, BRK, RTI, entries, pushes, pulls and reset on the stack page; `over`'s test for the end of its call | `CallContract` by `INSTANCE` |
| `CallContract` | the abstract specification: calls, interrupts and kept bytes nest, and `over` ends with the call it began | |
| `DebugSession` | `step()`, `run()`, edits, history and access log | |
| `CommandDebugger` | `step COUNT`, `run`, `continue`, `over` | `DebugSession` |
| `BusTracking` | several sessions wrapping one CPU's bus | |
| `Install` | `_install` and `_install_atomically`, with failing calls, crashes and reruns | |
| `MOS6502Proofs`, `MOS6502Refinement` | theorems | `MOS6502`; the second also `InterruptLatency` |
| `BusCyclesProofs`, `ArithmeticProofs`, `CallStackProofs`, `CommandDebuggerProofs`, `BusTrackingProofs`, `InstallProofs` | theorems | the module each is named after |
| `MC...` | the values TLC uses | |

### State and actions

*MOS6502.* A state is between two steps (`cycle = 0`) or inside the host's
callable that serves access `cycle` of the sequence `seq`. An action of the CPU
is the Python code from the return of one access to the call of the next:
`BeginStep` is `step()`'s decision and the first access; `MidStep` has one action
for each place where a sequence touches requests, I or its poll (`TakeNMI`,
`ChooseVector`, `SetI`, `PollOldI`, `PullP`, the three places of `_branch`) and
`Proceed` for every other; `EndStep` is the code after the last access and the
tail of `step()`. `Host` has one action per method a host may call. Registers,
addresses and data are free choices, because a boundary looks at none of them
but I. Instructions with no interrupt behaviour of their own are the sequence
`PLAIN`, of any length in `PlainCycles`. The host's operation "raise" is a callable
that raises: the step is abandoned before its tail, with `_deferred`, the poll and
the stall fields as they stand, and the host may step again or restore a state.

*InterruptLatency.* `waited` counts for each line the sequences that `step()`
completes while a request of it waits, which an IRQ does with I clear. A reset or
a restored state starts the counts anew, and neither the reset sequence nor the
steps of a stopped CPU count. The count stops at `Enough`, one above what the
theorem allows. `Counts` is conjoined to `Next` and only watches.

*BusCycles.* `todo` holds the accesses of the step not yet returned, by what they
are for. `Begin` picks a row of the opcode map; `Index` is `_indexed` with any
base and index; `Continue`, `Return` and `Raise` are an access that returns, the
last one, and one whose callable raises. `consumed` counts the accesses that
return bytes of the instruction; `LENGTHS(Form(row))` is what the disassembler
shows of it. `HostRaises` and `HostRestores` say whether a callable may raise, and
whether the host then restores a state first. `Base` is the number of values of
a byte; the page arithmetic is the code's for any `Base`.

*Arithmetic.* A state is one operation's operands and, afterwards, its result.

*CallStack.* The action of each instruction makes all of its pushes or pulls.
`frames` and `bottom` are what an observer knows (what was pushed, and what S was
with nothing pushed): the CPU reads neither, but the program modelled is one that
pulls what it pushed, RTS with its call's frame on top and RTI with an
interrupt's, and that writes the stack page by pushes only. It keeps fewer
bytes there than the page has (with exactly as many S is back where it was, and
`over` could take that for a return), no JSR lies in the stack page, and of P the
I flag is told apart. `over` is `_over`'s two locals, `next_address` and S, beside
the depth at which it began; `Back` is its test, which stops the loop before
another step. A reset ends `over` in the model: the frames it waits for are gone.

*DebugSession.* `phase` says who has control; `callers` is the Python call stack
between the host and the target. `Step`/`StepCompletes` are `step()` before and
after the target's `step()`, `RunStops`/`RunSteps`/`RunContinues` the loop of
`run()`. `made` is the accesses the target really made; the session never reads
it. Here its callables stay wrapped; those the host replaces under a session are
`BusTracking`'s subject. Of the four totals only `total_steps` is kept: the others are sums
that nothing reads back.

*CommandDebugger.* `left` is the loop counter of `over` and of `step COUNT`,
`spent` counts the command's completed steps. Whether a call has returned (PC and
S where `over` expects them) is a free choice here, and is the subject of
`CallStack`.

*BusTracking.* A callable is the host's own one and the wrappers around it, the
innermost first; `open` lists the sessions, the oldest first. The host assigns
either callable at any time (`HostAssigns`, without a guard, as frame.py:100-115
has none), which drops the wrappers that are there; `close()` puts back what its
session found and so undoes such an assignment. `own`, `during` and `last` record
what the host assigned with no session open, while a session was the newest one,
and last of all: no guard and no other variable reads them but `made`, by `Tracks`,
which says whether a session is to see an access. A host's callable is taken
not to call the one it replaces.

*Install.* `entry` is what is at each of four paths: nothing, the complete copy of
one run, half a copy, or a link that leads somewhere or nowhere. `place` is the
system call made next, so that a state lies between any two calls; each call may
raise (`RenameFails`, and the second alternatives of `Restore`, `Discard` and
`Clean`), the script may be killed anywhere (`Crash`) and run again. `way` says
which script it is: a file by way of a `.new` and a `.old`, or a directory by way
of a `.old`. One run at a time.

Definitions introduced by "Faulty:" are not used by any specification. Each is a
plausible bug of the definition it stands before, kept to show that the property
it is paired with in PROJECT.json is able to fail.

## Runs

| run | question | distinct states |
|---|---|---|
| `interrupts` | do requests, releases, resets, stalls, bus swaps, round trips, restored states and raising callables, at every access of every sequence, implement the contract; does `next_boundary` foretell each step; does a restored state alone decide the step after it; does every access reach the host | 933,376 |
| `starvation` | with resets too, is a latched NMI, or an IRQ with I clear, taken before a third sequence ends, and is it in the end; does the handler's first instruction run | 269,186 |
| `bus_cycles` | every row of the map: cycles returned are accesses made, operands touched as often as documented, and the bytes listed are the bytes consumed | 28,483 |
| `arithmetic` | all pairs of bytes, both carries, both modes, against exact arithmetic | 1,310,720 |
| `calls` | do calls, interrupts and kept bytes on a wrapping stack page implement the nesting, and does `over` find the end of its own call | 533,792 |
| `debugger` | `step()` and `run()` of the session, and `step`, `continue` and `over` above them, under every edit between and inside steps and raising callbacks: records, history, budgets, stops and returns | 346,224 |
| `tracking` | three sessions closed last first, the host assigning callables at any time: who sees which access, and whose callable serves it | 447,664 |
| `install` | both installs with any call failing and a crash between any two, three runs in a row | 733 |

and four that show a disagreement, under "Findings" below.

**Bounds, and why they are enough.** The interrupt models need none but the
set `PlainCycles`: they are finite. Two and three accesses suffice for `PLAIN`,
for the poll sees only whether an access is the last one, and a sequence of three
has a first, a middle and a last; `starvation`, where only the order of
boundaries matters, keeps two. Stalls are unbounded: the two fields they set
remember two. One callable is enough where no property is about callables, two
where one is. The restored states of `interrupts` are the hand-built ones (each
combination of the pending fields) and one of each kind of kept one: a delayed I,
a poll that disagrees with the requests either way or saw none of them, a skipped
poll, a stopped CPU, a waiting reset. The run uses symmetry of the callables, which
is sound for its invariants and action properties. Two is the least bound for which `TakenWithinTwo` holds. `BusCycles` has
`Base = 4`: pages of four bytes cross, do not cross and wrap at the top of memory,
as pages of 256 do. `Arithmetic` is exhaustive. `CallStack` has a page of seven
slots and up to six bytes on it (`MaxBytes`): an interrupt within a call within
a byte, or a call within a call within a call. S begins at 1, so that the first
interrupt's frame already wraps, and a reset moves it to every other slot. Bytes have two values and addresses four, so that pages
cross and PC wraps; two of the four hold a JSR, so that a call may recurse and
return to another. The session has two addresses of which one is marked, a
history of two, two accesses a step (a first that does not touch and a second
that does), and three steps (a full ring and one more); budgets of one and three
steps and of two cycles or none, so that each is met exactly, exceeded and not
reached. The command debugger has `ConsoleBudget = 2` for the code's 1,000,000:
the step off a breakpoint and one step of the run, or two passes of `over`; and
`step 2`. `MaxTotal` bounds the steps the session makes, in the guards of `Step`
and of the calls that start a run or a command, so that one that has begun is
never cut short by it. `BusTracking` has three sessions, which is a chain with a
middle, two callables and two accesses; it uses symmetry of the sessions and has
no liveness property. `Install` has three runs (`MaxRuns`): one that is
cut short, one that meets what it left, and one after that.

**Deadlock** is checked everywhere but in `arithmetic`, where a state that has
computed its result has nothing left to do, and in `install`, where a run may be
the last.

**Fairness.** `MOS6502!Fairness` is weak fairness of the CPU: the host keeps
calling `step()`, and its callables return. Nothing is assumed of what the host
requests, nor of which instruction the program holds. `starvation` leaves the
operation "raise" out, for a host that raises out of every entry to the NMI
handler does starve it. `DebugSession!Fairness` and
`CommandDebugger!ConsoleFairness` are weak fairness of the code that is running
inside a call: the one thread goes on, and the target's `step()` ends or raises.
The host is free to call nothing, and the edits of its callbacks are not fair.

## Theorems

| module | theorem | says |
|---|---|---|
| `MOS6502Proofs` | `TypeCorrect` | `Spec => []TypeOK` |
| | `RoutesStayCurrent`, `AccessesReachTheHost` | the routes are the host's callables or the confirming wrappers, and every access reaches the callable assigned last |
| | `PollInvariant` | a poll is used once; a skipped poll saw nothing and stays until its boundary |
| | `NextBoundaryIsExact` | `next_boundary` of a snapshot is what `step()` takes |
| | `HandlerRunsFirst` | an instruction, or a reset, follows BRK, an entry and reset |
| | `RoundTripsAreExact` | restoring a capture changes neither capture nor next step |
| | `RestoredStatesDecide` | a restored state decides the next step, whatever an abandoned one had left |
| `MOS6502Refinement` | `Implements` | every behaviour is, under the refinement mapping, one of `PollContract` |
| | `InterruptsTakenWithinTwo` | a request that can be taken is, before a third sequence ends |
| `BusCyclesProofs` | `TypeCorrect` | `Spec => []TypeOK` |
| | `CyclesCounted` | `step()` returns as many cycles as it made accesses |
| | `OperandsTouchedOnce` | an indexed operand is touched as often as documented |
| | `ListingsAreConsumed` | a step consumes as many bytes as the listing shows |
| `ArithmeticProofs` | `BinarySums`, `DecimalSums` | ADC leaves the exact sum of operands and carry in A and C, and in V the signed overflow; of two BCD bytes it leaves their BCD sum, and of any two bytes in decimal mode the Z of their binary sum |
| | `DecimalDifferences` | decimal SBC of two BCD bytes leaves their BCD difference |
| | `DifferencesAddComplements` | SBC and ISC add the complement; in decimal mode the flags are still those |
| | `RotatesLoseNothing` | what RRA's rotate made rotates back to the byte and the carry |
| `CallStackProofs` | `TypeCorrect` | `Spec => []TypeOK` |
| | `FramesStayHeld` | every frame is on the stack page byte for byte, under those above it |
| | `OverIsExact` | PC and S are back exactly when `over`'s own call has returned |
| | `Implements` | the stack page implements `CallContract` |
| `CommandDebuggerProofs` | `TypeCorrect` | types of session and console |
| | `RecordsAreTheirOwn`, `RingHoldsTheNewest` | a record holds the accesses of its own step; the history holds the newest records in order |
| | `RunsKeepTheirBudgets`, `CommandsKeepTheirBudget` | no run, `continue` or `over` makes more steps than its limit |
| | `RunsStopOnTouch`, `OversStopOnTouch` | neither a run nor `over`'s loop goes on past a step that touched a watched byte |
| | `OversStopAtBreakpoints` | `over`'s loop makes no step at a breakpoint, not even one that enters an interrupt there |
| | `CommandsWindDown` | every move of a call under way brings it closer to its return, and no edit of the host's puts it off |
| `BusTrackingProofs` | `TypeCorrect` | `Spec => []TypeOK` |
| | `EverySessionLogs` | an open session logs every access that no callable of the host's has been put over |
| | `CallablesComeBack` | each `close()` undoes what was done to the bus since its session was opened, and with all closed nothing is wrapped |
| `InstallProofs` | `TypeCorrect` | `Spec => []TypeOK` |
| | `CopiesSurvive` | once there was a copy there always is a whole one |
| | `FailuresAreUndone`, `SuccessesAreClean` | a failed install leaves the target as it was, a successful one nothing beside it |
| | `CopiesNeverGetOlder` | no step gives up a copy unless one at least as new is kept |

They hold for every value of the constants. What they assume beside the named
assumptions of the modules:

- those of `MOS6502Proofs` from `PollInvariant` on, `Implements` and
  `InterruptsTakenWithinTwo`: `HonestStates`. A host-built `CPUState` that says `skipped_poll` says of each
  line that the poll did not see it. Every captured state is honest; `CPUState`
  accepts others, and for one that has `skipped_poll` beside a pending NMI and
  nothing of what the poll saw, `next_boundary` says INSTRUCTION (debug.py:172)
  where `step()` takes the NMI.
- `CyclesCounted`: `HostRaises => HostRestores`. The run `bus_cycles_raised` shows
  why.
- `BusTrackingProofs`: `LastFirst`, sessions are closed in the reverse of the
  order they were opened in. See the end of "Findings". Nothing is assumed of when
  the host assigns callables.

**The arguments.**

*Interrupts.* `TypeOK` and `RoutesAreCurrent` are each inductive.
`PredictsBoundary` is not: that a snapshot's five poll fields determine the
boundary needs that a skipped poll has seen nothing (`SkippedPollSawNothing`),
which holds because `_NO_POLL` keeps later requests out of `_polled`, and
`OneInstructionFirst` needs that the skip survives everything the host does
until its boundary (`SkippedPollIsHeld`). With `PollUsedOnce` they form `PollInv`,
inductive beside `TypeOK`.

The refinement maps the contract's last sample to `_deferred` where it is set and
to the requests where it is not; what the last poll saw to `_polled`, or the
requests; its I to `_polled_i`, or P's; a branch's own polls to its local `early`
from its third access on. A step of the program maps to one step of the contract, or
to a stutter (a callable replaced, a capture restored at once). `LocalInv` adds
what the mapping needs of a sequence in progress: its length is one the
sequence has; `_polled_i` is set only by PLP's pull; `vector` is NMI's during an
NMI entry; and while a branch reads its second access its first poll is the
detectors' last sample.

*Latency.* `LatencyInv` says of a line that some sequence has ended on (`Held`):
its request still waits; while a sequence runs, it is in the detectors' last
sample, in the branch's own polls, and not yet past the cycle at which the entry
under way takes it (`IsSampled`); and between steps, after two ends, it is what
the next boundary takes. So the third sequence is the line's own entry, which
releases the latch or sets I before it ends. What a step does to the sample and the
poll is read off the contract's steps.

*Cycles.* `CountInv` says what a step in progress still owes: the accesses made and
the ones in `todo`, with the fix-up an indexed mode may add, come to the row's
cycles and `_extra` (`Owed`), and between steps `_extra` is spent unless one was
abandoned (`ExtraIsSpent`). `TouchInv` says, for each place in an indexed
instruction, how often its operand has been touched so far (`Touches`). Both
rest on `IndexedShape`, the shape `todo` has in those modes. `ListInv` counts
bytes as `CountInv` counts cycles: those consumed and those `todo` still has come
to the row's length. `Bounds` keeps the accesses made and left within twelve and
the addresses within the page, which the type invariant needs. Neither depends on
what the host does after a callable raises.

*Arithmetic.* The state holds what its operation computes (`IInv`). The facts are
linear in the operands' nibbles, carries and bit 7, once `\div` and `%` are
written as those (`NibblesAre`, `ByteOf`, `Bit7Is`, `DigitOf`), and each is then a case
split on the carries.

*Calls.* `IInv` adds to `FramesAreHeld` that the frames lie one on another without
gaps (`Nested`) and where `over` stands (`OverInv`): S at its beginning is the slot
above the frames it began with; with nothing more pushed PC is at the call's site
or, the call made, after it; and otherwise the first frame pushed since is the
call's own or that of an interrupt that came before it. Since the bytes are
fewer than the slots, S determines the depth, from which follow both that a push
disturbs no frame and that PC and S together mean the return. The
refinement mapping drops S, the page and the frames' places.

*The session and the console.* `SessionInv` says that the log from its mark on is
the step's own accesses (`RecordsOwnAccesses`) and that the ring holds the newest
records (`HistoryIsNewest`). `CallInv` relates the callers to the phase
(`CallsNest`), leaves each call the steps its guard took (`RoomToStep`,
`BudgetsHold`, `BudgetLeft`) and says that a pause that goes on follows an
untouched step (`PausesUntouched`), from which the two stop properties follow.
`OverPauses` says that `over` has looked for both before it starts a run of one
step, and that this run makes no second one.
`CommandsWindDown` orders what a call has left lexicographically: the passes of
the command's loop, the steps of the run in it, and what the target's step has to
do (`Passes`, `StepsLeft`, `WorkLeft`). All three are natural numbers, every move of
`ConsoleFairness` lowers them, and the host's edits between those moves leave
them alone.

*Tracking.* The argument goes by levels: at level n the n oldest sessions are
open, and what was on the bus when the level was left for the next is what session
n + 1 keeps in its `_originals`. `LevelStays` says that nothing done above a level
changes what is kept below it, so a close, which only takes the last level off,
comes back to what that level was left with, and the ghosts of that level, which
have not changed since either, say whose callable it is and which wrappers are
around it.

*Install.* `PlaceInv` says for each `place` what is at the four paths: which of the
old and the new copy are where between two calls, and that the check has excluded
what an earlier run left. `NoneNewer`, that no copy is newer than the run, is what
`CopiesNeverGetOlder` adds: only `clean` gives a copy up, and this run's is in place.

**Only model-checked.** Liveness under fairness is out of the proof system's reach:
`NMINotStarved`, `IRQNotStarved` and `CommandsReturn` stay with TLC.
What can be proved of each is: `TakenWithinTwo` bounds the sequences that may end
first, and `CommandsWindDown` gives the measure that runs out. Left to TLC is that
a sequence ends, and that a move that can be made is made.

## Findings

Each is a run that ends in a counterexample.

- `cancelled_nmi`: `clear_non_maskable_interrupt()` promises to cancel a latched
  NMI "even one already polled" (frame.py:296). Called in the last access of an
  instruction it does not: the poll is in `_deferred`, which is not changed.
- `bus_cycles_raised`: a callable that raises after a page-crossing fix-up
  leaves `_extra` set, and the next instruction returns a cycle it did not make.
- `tracking_replaced`: the callables are "replaceable at any time (the debugger
  does)" (frame.py:8) and `read_byte` is the one "last assigned" (frame.py:97). One
  the host assigns while a session tracks is lost when that session closes, which
  puts back the one it found (debug.py:303).
- `console_watch`: `continue` off a breakpoint, and `over`'s first step, go on
  past a step that touches a watched byte (console.py:51).

Others belong here without a run of their own. A record's `kind` is the "kind of
work performed by one target `step()` call" (debug.py:37), but it is foreseen before
that call (debug.py:348), and is not what ran if the target is a board
(docs/debug-session.md:67-68) that moves its lines before it steps the CPU. The console answers `nmi` with "NMI
latched; taken at the next step" (console.py:246), but after a skipped poll an
instruction comes first, which is what `OneInstructionFirst` states and
docs/start-here.md and the tests say. `next_boundary` and `step()`
differ for a state that is not honest, as said under "Theorems". Two sessions
closed in the order they were opened leave a closed session's wrapper on the
CPU (debug.py:301): set `LastFirst` to FALSE in MCTracking.cfg to see it. And the
installs move a symbolic link aside like a copy but look for it with `exists()`,
which follows it: one that leads nowhere is neither put back nor deleted, and the
next install of a directory refuses it, which is why `FailureIsUndone` and
`SuccessIsClean` leave such links out; and one that leads to a directory makes
`rmtree` raise once the new corpus is in place (fetch_test_vectors.py:121).

Known from the models, and as the code means it: a callable that raises in an NMI
entry after the latch was released loses the NMI, unless the host restores the
state from before; between the second and the third rename of an install nothing
is at the target, and a crash there leaves the copy in its `.old` for the user to
put back.

## Not modelled, and why

- Register contents, memory and most flags: data that no modelled property tells
  apart. ARR, SBX, ANE and LXA, `_compare`, the logic operations and the plain
  shifts are single expressions with no independent definition in the repository
  to check them against.
- `CPUState`'s range checks, argument checks, text formats, parsing of commands
  and of traces, the disassembler's text, the command line, package re-exports:
  pure functions or I/O without state.
- `trace.py`: a serialiser, a parser and a comparison that zips two traces; no
  state, no order of events and nothing that carries.
- `dma_stalled`, which the host sets and clears and the core only reads: a model
  would state the host's own discipline.
- A callback that calls `step()` or `run()` of the session, or of the CPU, that is
  serving it: nothing in the code or its docs provides for that.
- Two fetches at once, for the scripts have no lock; their downloads, checksums and
  extraction, which happen in a temporary directory; `fetch_reference_docs.py` and
  the smoke test.

## Plan

Done: the interrupt core with its contract, exceptions, proofs, refinement and
latency; cycles and listing lengths; arithmetic; calls with their contract; the
session, the console and tracking; the installs; and for each the proofs of
every safety property the runs check. Left:

1. The console as an implementation of an abstract command (begun, stepping,
   ended with a reason), proved like the two contracts.
2. What `clear_non_maskable_interrupt()` does promise, beside what `cancelled_nmi`
   shows it does not: a latch cleared before the last access is not taken.
3. Trace comparison (alignment, first divergence, a trace that is a prefix),
   should it come to hold state.
4. The data of the remaining undocumented instructions, should the repository
   gain a reference definition of them other than the code.
