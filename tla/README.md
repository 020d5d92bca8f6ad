# A TLA+ model of BSP430

BSP430 is a board support library for MSP430 microcontrollers: C code without
an operating system, in which a main program and interrupt handlers share
state. This directory holds TLA+ modules that model its concurrent parts, TLC
configurations that check them, and proofs that TLAPS checks. Paths below are
relative to the repository; `src/resource.c` is its manager of shared resources,
and so on.

The execution model is the same everywhere. A function whose name ends in
`_ni` runs with interrupts disabled; others disable them for their body. An
interrupt handler is not interrupted. So a function is one atomic step, except
where

* it calls back into user code, which calls the library again (a resource
  release, the handler of multiplexed alarms);
* it sleeps in a low power mode, with interrupts enabled (console output,
  uptime delays);
* the hardware changes under it: a timer goes on counting, an input changing, a
  UART sending, a radio working.

The modules split a function at these points and nowhere else.

## Inventory

| Part | Source | State | Operations | What is hard | What makes it correct |
|---|---|---|---|---|---|
| Resource manager | `src/resource.c` | holder, count, queue of waiters | claim, release, cancel, release callback | callbacks that claim or cancel, claims that overtake, null identities | mutual exclusion, no lost wakeup, the queue is a queue |
| Timer HAL | `src/periph/timer.c` | overflow count, counter, flags | read, overflow and compare interrupts | the counter runs while it is read | the extended time is exact |
| Dedicated alarm | `src/periph/timer.c` | setting, compare register, enable and flag bits | set, force, cancel, enable, disable, two callbacks | a match between two instructions; pending overflows; stale flags | goes off once, not early, not a period late |
| Multiplexed alarms | `src/periph/timer.c` | sorted list, one dedicated alarm | add, remove, shared handler, startup, shutdown | callbacks change the list the handler walks; wrap of the time | sorted, linked once, the head is what is waited for |
| Pulse capture | `src/periph/timer.c` | two times, flags | capture callback, activate | captures that overrun the handler | the two times belong to one pulse |
| Callback chains | `include/bsp430/periph.h` | linked list per interrupt | link, unlink, invoke | change while walked | each node called once |
| Serial HAL | `src/periph/eusci.c`, `usci.c`, `usci5.c`, `src/serial.c` | registers, chains, counters | open, close, reset, hold, byte I/O, SPI, I2C, handlers | which interrupt is enabled after which call | enabled exactly when there is work |
| Console output | `src/utility/console.c` | ring, wake threshold, mode | put, wait, flush, switch, open, close | sleep against interrupt; mode switch with bytes on the way | every byte once, in order; every call returns |
| Console input | `src/utility/console.c` | ring | receive, get, peek | full ring; closing and opening | newest characters in order |
| Command line | `src/utility/cli.c`, `examples/rf/cc3000/cli/main.c` | line buffer, command table, the terminal's line | edit, complete, match, execute | pointer arithmetic at the ends of the line; what is appended and what is printed | the terminal shows the buffer; the command meant is executed |
| Event records | `src/utility/event.c` | ring, lost count, flags | record, fetch, flags, periodic | handlers record while the main loop fetches and sleeps | losses counted, nothing forgotten |
| Uptime | `src/utility/uptime.c` | delay alarm's flags, epoch | start, suspend, resume, sleep, epoch | four flags against one alarm; eras | sleeps end; eras are right |
| CC3000 SPI | `src/rf/cc3000spi.c` | flags, interrupt pin | open, close, write, handler | write against a read request | no message lost |
| GPS | `src/sensors/skytraq.c` | two handlers' states, one fragment, the pool | receive, release, transmit | giving up anywhere in a sentence; ends of fragments; messages back to back | each sentence reported once; no fragment lost; frames whole |
| Ports, DMA, LPM, clocks, power, flash, devices, sensors, platforms | `src/periph`, `src/utility`, `src/sensors`, `src/chips`, `src/platform`, `src/lpm.c` | registers | configuration, transactions | timing of hardware | not modelled, see below |

How they meet: timer interrupts walk callback chains into alarms and captures;
the shared alarm's handler calls the callbacks of multiplexed alarms, which
record events and wake the main loop; uptime owns one dedicated alarm, and the
GPS driver stamps its sentences with the uptime; the console owns one node on
each of its UART's chains and may claim the UART's resource; the CLI reads and
writes the console; the CC3000 driver calls the vendor's library from the
handler of its pin.

## The modules

| Module | What it is | Implements |
|---|---|---|
| `RecursiveMutex` | what the clients of a resource are promised | |
| `Resource` | `src/resource.c`, with its clients and their callbacks | `RecursiveMutex` |
| `DedicatedAlarm` | what the user of an alarm is promised | |
| `TimerAlarm` | counter, overflow, one alarm, both interrupt handlers | `DedicatedAlarm` |
| `TimerMux` | the list of alarms over a dedicated one | `DedicatedAlarm`, once for each alarm |
| `ByteChannel` | what a writer to the console is promised | |
| `ConsoleTx` | output, the UART and its transmit interrupt | `ByteChannel` |
| `LossyQueue` | what a reader of the console is promised | |
| `ConsoleRx` | input and the receive interrupt | `LossyQueue` |
| `EventRecord` | event records, flag, main loop | |
| `Uptime` | the clock, its delay alarm, delays, the epoch | |
| `PulseCapture` | counter, capture register, handler, activation | |
| `SkyTraq` | the GPS driver's receiver and transmitter | |
| `Cc3000Spi` | the radio's transport: write, handler, sessions | |
| `Cli` | editor, completion, command search and the terminal | |
| `ResourceProofs`, `TimerAlarmProofs`, `EventRecordProofs`, `UptimeProofs`, `SkyTraqProofs`, `Cc3000Proofs` | theorems about the module each one extends | |
| `TimerClientProofs` | theorems about `TimerMux` and `PulseCapture`, which use the timer | |
| `ConsoleProofs` | theorems about `ConsoleTx`, `ConsoleRx` and `Cli` | |

`MCResource`, `MCTimerMux` and `MCCli` give TLC values that a `.cfg` cannot
express; the other modules are run directly. Definitions carry the names of the C
functions and variables; the comment on an action names its function. An
operator whose comment starts with "Mutant" is a wrong version of the
definition that follows it, used to see that a property is not empty. Modules that
are extended together with others by a module of proofs, tell their
definitions apart by a prefix (`RxInit`, `CaptureSpec`, `CliNext`).

**Resource.** `holder`, `count` and `waiter` are the fields of
`sBSP430resource`, the queue as a sequence. `Claim` has the three outcomes of
`iBSP430resourceClaim_ni`; `Release` and `CancelWait` end by putting the head
waiter into `calling`, and while it is there only its callback can happen: it
sets a flag, claims, or cancels, as `resource.h` allows. A client that passes a
null self cannot be told from another, so the model lets it release only what it
owns; a client with an identity may try at any time and is stopped by the
code's own test. `flag` and `retry` are a client's side of
`iBSP430resourceSetFlagOnRelease`.

**TimerAlarm.** The counter ticks between the reads that
`ulBSP430timerCounter_ni`, `timerAlarmSet_ni` and
`alarmConfigureInterrupts_ni` make (`pc` is `decide`, `configure`, `compare`).
The hardware sets TAIFG on the wrap and CCIFG on a match. `Latency` bounds how
long an interrupt stays pending and `MaxDrift` how many ticks one function
lasts; they stand for the requirement that interrupts are served within half a
period. While `pc` is `callback` the user's callback runs. `set`, `due` and
`calling` show `DedicatedAlarm` to the user; `calling` is what tells an alarm that
goes off early from one that is cancelled.

**TimerMux.** The dedicated alarm is used as `DedicatedAlarm` promises: forced,
it may go off up to `FutureLimit` ticks early and not before. `fired` is the
handler's local list and `calling` the alarm whose callback runs, which may add
and remove. `Virtual(a)` shows the alarm `a` to its user as a `DedicatedAlarm`
with a `FutureLimit` of 1, which is one that never goes off early.

**ConsoleTx.** One caller, the main program: `console.h` allows output from
nowhere else. The UART has a transmit register and a shift register, and
resetting it empties both. `sent` is the parity of the queued bytes that left the
UART, so that a byte that is lost is not taken for one that is sent. Interrupts are possible between calls and
while the caller sleeps.
The calls are made in any mode and with any buffer. A caller that waits in direct
mode for bytes that were left in the buffer sleeps for ever, here as in the code:
`CallsReturn` excepts just that state (`WaitsForNobody`), and `MCConsoleTxWait.cfg`
shows it.

**ConsoleRx.** The handler reduces its indexes with `%`, the reader with a
mask; both are modelled as they are. `And` is the conjunction of two octets, bit by
bit, which the prover can compute with.

**EventRecord.** `expected` is what an application can infer: after each record
it expects the next number of the tag, and a gap is due to a reported loss.

**Uptime.** The four bits of `delayAlarm_.flags` are variables of their own, as
are the alarm's linked and set bits; the alarm keeps the promise of
`DedicatedAlarm`. A delay is the macro `BSP430_UPTIME_DELAY_UTT_NI`: its main
program is `awake`, in the `loop`, `asleep`, or `woken` with interrupts still on.
The functions whose names end in `_ni` may be called by an interrupt handler
under a sleeper, so they are enabled then. For the epoch, `age` says how long ago it was
updated, `wraps` whether an era has begun since it was provided, and `base` what
`epoch_ntp_ni` is: the start of the era of the update (`right`) or of an earlier one
(`skewed`), or something of which the application never said what it is, because the
clock has stood still since or there was none (`none`, and `adjusted` when it was
made valid all the same). Adjusting is possible at any time, as in the code,
which does not ask whether the epoch is valid; `EpochRight` speaks of a `right` base, and
`MCUptimeAdjust.cfg` and `MCUptimeProvided.cfg` show how the others come about.
`EpochEra` is the code's arithmetic of unsigned differences. A sleeper whose clock is suspended by a handler and never
resumed sleeps on, and one whose clock is suspended and resumed has no alarm
until something else wakes it; `DelayEnds` excepts both.

**PulseCapture.** The handler is split where it reads the capture register, its
control register and the overflow, and where it writes the control register:
edges come between. `last`, `prev` and `edges` are the truth about the input that
the flags and times are compared with. Every edge latches the counter; one that
finds an unread capture sets COV. `Settle` keeps to one edge in a tick.

**SkyTraq.** An octet is one of the classes the handler tells apart, and
whether a checksum agrees is open. The pool is a library outside the repository:
it may refuse a request, and grants a fragment of any of `Sizes`. `unreported`
counts sentences begun and not yet reported, `seen` what was received of one and
`wire` what was sent of a frame. The index of the transmitter wraps at `SizeMod`,
which stands for the range of a `size_t`: with a message of no octets, which may be
sent like any other, it runs through all its values. The pulse-per-second capture and the parsing of
payloads are not modelled.

**Cc3000Spi.** nIRQ means three things: the radio is alive, it has a message, it
accepts one. `chip` is the radio's side of them, as the comments of `cc3000spi.c`
describe it. `SpiWrite` disables interrupts but the radio goes on, so the write is
split where it touches chip select and looks at the line. The vendor's driver is
modelled by its calls: it sends a command, waits for an answer, resumes the
interrupt when done with a message, stops and starts the radio. It is assumed
that interrupts are enabled in `wlan_start` and that the radio releases the line
with chip select.

**Cli.** One step is one key, since all of it runs in the main program. `screen`
is what a terminal makes of what the editor prints, by the rules of its escape
sequences. `ProcessSubcommand`, `MatchCommand` and `Completion` are the code's
search: the code calls itself with the rest of the line and a longer chain of
links, and the model iterates over that chain (`CommandLink`, `NextLink`) with a
recursive function, as no line has more words than letters. `Possible` and `Named`
say what a line can mean without the order of that search. `Unusual` lists two
things the user avoids because they spoil the display, see below; a long first word
is killed and a line completed after an ambiguous word as by the code, and the
properties except those two.

## The runs

| Run | Shows | Bounds |
|---|---|---|
| `resource` | mutual exclusion; the queue keeps its order; a free resource that is waited for has told its first waiter and is taken; `RecursiveMutex` is implemented | 4 clients, 2 of them without identity; every kind of callback; nesting to 2 |
| `timer_alarm` | the counter's time is exact; a due alarm has requested its interrupt; `DedicatedAlarm` is implemented, liveness included | counter of 8, 4 cycles; settings up to 2 ticks past and 11 ahead |
| `timer_mux` | linked once, sorted, dedicated alarm at the head; each alarm is a `DedicatedAlarm` of its own; each goes off or is removed | 3 alarms; delays -1, 0, 1, 3; time of 12 that wraps |
| `console_tx` | bytes in order, once; a non-empty buffer has its interrupt armed; who sleeps has something to wait for; each call returns that does not wait in direct mode with bytes queued | buffer of 4, which holds 3; 2 byte values and one written directly |
| `console_rx` | the newest characters are read in order, also around opening and closing; an open console listens | buffer of 4, 2 characters |
| `event_record` | the buffer has the newest events without gaps; losses are counted exactly; the main loop does not sleep on events; each is fetched | buffer of 3, 2 tags, arrays of 1 and 2, at most 3 losses between fetches |
| `uptime` | hooks linked as the flags say, in any order of start, suspend, resume, enable and disable; delays end and not early; under an epoch that was provided, and adjusted in its own era if at all, every time in the documented range is placed in its era and every one outside is refused | era of 16 ticks, valid to 6 ticks away; delays to 5; alarm late by 2 |
| `gps` | sentences reported once, whole and within their fragment, fragments with one owner; messages sent, those that are not empty in a whole frame | 2 fragments of 2 or 3 octets; messages of 0, 1 and 3, an index of 4 values |
| `cc3000` | no request taken for an acceptance or for the power-up notice; writes accepted; commands answered | 3 messages waiting |
| `capture` | the times of a pulse are those of two consecutive edges; edges lost are noticed | counter of 4, 2 cycles; interrupts 1 tick late, 1 tick of handler |
| `cli` | the terminal shows the line; killing (but a long first word), completing (but after an ambiguous word) and executing do what the line means | every line of 6 characters over 2 letters, blank and bracket; 6 commands on 2 levels |

Why the bounds are enough. A queue of waiters needs a head, a middle and an
end, and one client more to hold the resource. A timer needs a wrap of the
counter, one of the time, and more than one cycle between now and a setting. A
list of three alarms can have one due, one removed by its callback and one that
stays. A ring of 4 fills, empties and wraps with any offset; the wake threshold
takes all its values. Two tags show that losses are counted across tags. An
era is longer than twice the validity limit, so that times before, in and after it
exist on both sides of a wrap. A fragment of 2 or 3 octets meets its end in the
text, at the terminating NUL and in a message of 3, and holds one of 1. Messages
to be sent are the empty one, a single octet, and the longest the index allows. Three
messages are an answer with events before and after it. A capture needs a wrap
of the counter and of its extension, and edges closer than the handler is long.
The command table has a common prefix, a command with one and one with two
below it, one with both a handler and commands below, and one with neither; six
characters hold two words with blanks, or overflow. The bounds in guards are
`MaxClaims`, `MaxLost`, `Latency`, `MaxDrift`, `MaxLate`, `Horizon`, `PastLimit`
and `MaxOutgoing`; nothing else is capped.

Fairness. Hardware works: the counter ticks and a UART with a byte sends it. A
function that has started goes on. A requested interrupt is taken although the
main program disables interrupts again and again: strong fairness, because
interrupts are enabled infinitely often but not from some moment on. In
`TimerMux` time passes however often alarms are added, so ticks are strongly
fair too. Main loops go round (`FetchFlag`, `Retry`, `MainLoop`), a delay that is begun goes
on (`Delaying`), and the vendor's driver finishes a write and a message (`Write`,
`SpiResumeSpi`); the radio powers up, asks when it has a message and
accepts a write. Nothing else a program may do is assumed to happen.

### Where the code and its description differ

The configurations of this table have one constant or property changed from the
runs above, and TLC finds a counterexample in each (`tlc -config <file> <module>`).
`mux_remove` is a run; the others are kept beside the runs. Where a property is
named, it states what a header says, in the same model and, but for `mux_remove`,
with the same constants as the passing run; where none is, a constant lets in what
the passing run leaves out.

| Configuration | Property | What happens |
|---|---|---|
| `MCTimerMuxRemove.cfg` (run `mux_remove`) | `RemovedNeverFires` | `timer.h:1895` guarantees that a removed alarm does not fire. If two are due together, the first one's callback can remove the second, which is no longer on the list searched at `timer.c:783`; it is called next all the same. |
| `MCResourceDequeue.cfg` | `ClaimDequeues` | `resource.h:180` says a successful claim removes the waiter from the queue. Line 84 of `resource.c` does so only for the first claim. A client can be queued, then hold the resource through a claim without its waiter, and claim again with it: it stays queued, and its own last release calls it back. |
| `MCConsoleTxWait.cfg` | `DirectModeNeverSleeps` | `console.h:536` says that waiting for space returns at once if the console does not use interrupts, and `console.h:569` that a flush then only spins. `console.c:649` looks at the buffer alone: if the mode was switched with bytes queued, which `console.h:515` allows, the caller sleeps, and nobody drains the buffer. |
| `MCUptimeAdjust.cfg` | `AdjustedCoincides` | `uptime.c:547` adjusts the epoch by setting it anew: the time of the update becomes now, but the base it is added to is still that of the era of the first setting. If the clock has wrapped since, every converted time jumps back by an era, even for an adjustment of zero, against `uptime.h:992` and `uptime.h:1097`. |
| `MCUptimeProvided.cfg` | `EpochProvided` | `uptime.h:86` says there is no valid epoch until the application provides one. Adjusting makes it valid without asking, also when none was provided or the clock was suspended and resumed since. |
| `MCUptimeLimit.cfg` | `LimitIsValid` | `uptime.h:925` calls the limit the largest distance that does not invalidate, and line 939 refuses what is more than that far away. Lines 421 and 432 of `uptime.c` refuse a time exactly that far away too. `EpochRight` says nothing of this one distance. |
| `MCUptimeSuspend.cfg` | `SuspendInvalidates` | `uptime.h:104` says that suspending the clock invalidates the epoch. `vBSP430uptimeSuspend_ni` does not touch it; resuming does (`uptime.c:172`). |
| `MCSkyTraqEmpty.cfg` | `FrameLengthRight` | `gps.h:350` calls the argument the number of octets in the message. Sending 0 octets is accepted, and line 324 of `skytraq.c` increments the index before it is compared with the length, so that all values of the index are gone through before the frame ends. `FramesWhole` is about the other lengths. |
| `MCSkyTraqCorrupt.cfg` | `CorruptUnreported` | `gps.h` says two things of a corrupt sentence: in lines 109 to 111 that the application is called with a null message, and in lines 113 and 114 that it is not notified. The code does the first (`skytraq.c:162`), which is what `ReportedOnce` states; the second is violated. |
| `MCCliAmbiguous.cfg` | `CompletionExtends` | After a word that abbreviates several commands and is not the last one, TAB appends what those have in common to the end of the line (`cli.c:771`), behind another word; `cli.h:1240` says it extends the command unambiguously. |
| `MCCliFirstWord.cfg` | `FirstWordsKilled` | Killing the first word leaves its first letter if it has more than one, because the pointer stops at the start of the buffer and is then advanced (`cli.c:570`), where `cli.h:1190` says it erases back to a space. |
| `MCTimerAlarmFast.cfg` | | With a timer as fast as the CPU, more ticks than the limit pass while `timerAlarmSet_ni` runs near the wrap of the counter. The counter is past the setting, the comparison at `timer.c:456` sees the wrapped counter or line 449 has cleared the match, and no interrupt is requested until a later cycle, although `timer.h:1599` says that settings that far ahead are scheduled. `timer_alarm` shows that the limit is enough when it is not less than the ticks one call takes. |
| `MCConsoleTxOpen.cfg` | | `console.c:605` reverts the callback association when the UART cannot be opened, but only the receiver's. The transmit node stays on the chain and a second attempt links it to itself. |
| `MCConsoleTxReset.cfg` | | `serial.h:658` says that releasing a reset enables the interrupts that have callbacks. `eusci.c:318` enables the receiver's only; with bytes queued the transmitter stops for good. |
| `MCConsoleRxSize.cfg` | | `console.h:158` allows any receive buffer up to 254 bytes. `console.c:494` masks with the size less one, which is right for powers of two only. |
| `MCPulseCaptureSilent.cfg` | | The diagnostic loop at `timer.c:847` never ends when neither the start nor the end callback was requested, which `timer.h:1996` allows. |

The editor gets two more things wrong, which the runs leave out, each a member of
`Unusual`. `empty`: killing an empty line sends a count of zero, which a terminal
takes for one, and erases a part of the prompt (killing a word there would put the
end before the buffer, and is never modelled). `full`: a completion that does not
fit is cut by the buffer and printed as if it were not, with what was there
before it (`cli.c:889`).

Some passing runs exclude a situation by a constant (`RemoveFired`, `Careless`,
`RxSize`, `MaxDrift`, `Callbacks`, `Unusual`) that is named where it is used. The
other situations of the table are part of the passing runs, and their properties
say what holds nevertheless.

Seen while modelling, and not stated as a property:
`BSP430_UPTIME_DELAY_UTT` uses a macro that is not defined; the transmit
completion of the GPS driver is called before its transmitter is idle, so that a
transmission from it is refused, and it is told a number of octets of zero; a binary
sentence received with length zero is read until its fragment is full; closing the
CC3000 driver cuts off callbacks that were linked to its pin later; the length of a
message it receives is not compared with its buffer; activating a capture without
clearing it pairs a new edge with a start from before.

## What is proved

`ResourceProofs` proves, for every set of clients, every choice of who passes
a null self, every use of callbacks, wait types and nesting bound, from
`ClientsAssumption` alone: `TypeOK`, `MutualExclusion`, `OwnerRecorded`,
`QueuedOnce`, `NoLostWakeup`, that `Resource` implements `RecursiveMutex`, and
`OrderKept`.

The inductive invariant `IInv` adds two facts. `CallingIsHead`: the waiter whose
callback is on the stack is the head of the queue. `HeadTold`: `NoLostWakeup`
also holds while a callback runs, with the callback itself as the notification.
They are needed because a cancel inside a callback moves the head and the
notification together. Mutual exclusion is not inductive without
`OwnerRecorded`, which says whose claims `count` counts, and clients without
identity share one holder value, so that `OwnerRecorded` in turn needs mutual
exclusion. `QueuedOnce` is needed to know that unlinking the head leaves
another head. The lemmas `WithoutFacts`, `RemoveWaiterFacts` and `LinkFacts` say
what the list operations do; `ClaimStep`, `CancelStep` and `ReleaseStep` show
that each entry point preserves `IInv` wherever it is called from, so that the
callback actions reuse them. `OrderKept` is about steps: `QueuedOnce` gives each
waiter one place, and `OrderFacts` says that unlinking one or linking one at
either end moves no two others past each other.

`UptimeProofs` proves, for every length of an era, validity limit and delay:
`TypeOK`, `HooksFollowFlags`, `DelayComplete` and `EpochRight`, with adjustments
at any time. Types and hooks are inductive together.
`EpochRight` needs `EpochFollowsClock`: as long as the update is less than an era
old and its base is `right`, its time and its age add up to the clock, give or take
the era that has begun since it was provided. `EraArithmetic` then shows that the code's unsigned comparisons put a
time where it belongs.

`SkyTraqProofs` proves `ReportedOnce`, `OneOwner` and `WithinFragment`, for every
pool and all sizes and lengths; with types they are inductive together, because
giving up a sentence is right only if the receiver owns the fragment it releases.
The two action properties need an invariant each. `Scanned` says for each state of
the receiver where the markers of the sentence are and how many octets it has
stored; `SentencesWhole` is what `Scanned` says when the last octet of a checksum
comes. `Framed` says that the line has carried as many octets of the frame as
`Position` reads from the transmitter's state; `FrameIsBegun` says that all of
them are the frame, and gives `FramesWhole`. For an empty message `Framed` says
nothing while the index runs away, and the next frame starts it again.

`Cc3000Proofs` proves `NoticeUnderstood`, `WriteAccepted`, that a message the host
driver works on is not overwritten (`AnswerKept`) and that a radio that waits has
its interrupt requested (`RequestPending`), for any number of messages, sessions
and collisions. The invariant has three parts: `Sessions`, which parts of the
transport can be at work together; `Line`, what each state of the radio
means for flags, interrupt and write; and `Answers`, that at most one answer is
on its way, to a command that waits for it. The last is what makes
a second message harmless while the first is being worked on.

`ConsoleProofs` proves of the output, for every size of the buffer: `RInv`, that a
request to be woken is the running call's own and is not yet satisfied, also
when opening fails and the UART is reset under the console. The rest of
`SleeperIsAwaited`, that a sleeper's transmit interrupt is enabled and on its way while
the console drives it, is proved without those two faults, as are
`TransmitterArmed`, and that a closed console has no node linked
(`ConsoleDetached`). They follow from `AInv`, which adds
where the node is linked in each mode and that a transmitter out of reset has a
byte or asks for one. `ImplementsChannel` is proved with both faults allowed, from
`CInv`: a flag that asks for a byte finds the register empty, calls run in an open
console, and a closed one has nothing on its way. `PutContent` and `PopContent` say
that moving an index appends a byte to what the ring holds or takes its first,
across the wrap; `StepRefines` maps each action to a byte accepted, a byte sent,
the console opened or closed, or nothing.

Of the input it proves `Listens` for every size of the buffer, and
`ImplementsQueue` for every size that is a power of two. `RxInv` adds to `Listens`
that a closed console has no node linked, and that the ring's indexes and content are
in range. The lemmas about the ring (`RingPlaces`, `PutContent`,
`PopContent`) are stated for a ring of any size and used by output and input;
`ReplaceContent` is the case the input has on top, a full ring that takes a
character and gives up its oldest. `MaskIsRemainder` is where the condition on the
size is needed: of the sizes `console.h` allows, it goes through the powers of two and
shows that the mask moves the index like `%`.

Of the command line it proves, for every table of commands, size of the line and
sequence of keys: the terminal shows the line (`ScreenShowsLine`), unless an empty line
is killed or a completion does not fit; and, with that excepted, killing a word erases
just that (`WordsKilled`), which itself excepts a first word of several letters. The invariant `CliInv` says
that the line fits its buffer, that the terminal shows the prompt and the line, and
that a completion about to be made has room. Its hard step is completion, because
what is appended is cut by the buffer and what is printed is not: for a line made of
letters to remain one, the search must hand over a node of the table and the rest of a
keyword (`ProcessSubcommandType`, `CandidatesType`, `CompletionType`). Those searches are
recursive functions, and that such a function exists at all is proved first
(`Recursion`): take the least length for which it does not. `KeptIsWordStart`
shows that the editor's pointer, which walks back from the end, stops where the
last word begins.

`TimerAlarmProofs` proves `CounterExact` for every width of the counter and of the
overflow count, if a counter has values and interrupts stay pending for less than
half its period. The invariant says that an overflow not yet handled is as recent as
its latency allows, and how the reading that a setting is decided on relates to
the counter that has gone on. It also proves that no compare interrupt is enabled
for an alarm that is not set (`NoStrayInterrupt`).

With one assumption more, that a call takes less than `FutureLimit` ticks (together
`Timely`), it proves `TypeOK`, `DueIsRequested`, and the safety part of
`DedicatedAlarm` (`AlarmIsPromised`), for every width, setting and delay. The assumption is needed:
`MCTimerAlarmFast.cfg` shows what happens without it. `DueIsRequested` alone is
far from inductive. `AInv` says when an alarm that is set has its compare interrupt
enabled: exactly in the cycle in which `Soft`, the ticks from the start of that
cycle to the setting, is less than a cycle; between the calls an alarm that is not
armed is due in a later cycle, and an overflow to come will arm it. While
`alarmConfigureInterrupts_ni` runs, that holds for one of two reasons, which bound
how far the counter can have run meanwhile: the setting was at least `FutureLimit`
ahead when it was decided on (`FromSet`), or the overflow has just been handled
(`FromOverflow`). `NotLong` bounds how long an alarm can have been due, so that the
signed difference of two times says which came first. The lemmas `SplitTime`,
`DueFacts` and `TickIsNearer` are about that arithmetic, which wraps twice, in the
counter and in the time.

`EventRecordProofs` proves `EventsAnnounced`, which is inductive as it stands, and
`TypeOK` and `LossesCounted`, which are inductive together, for every finite set of
tags, size of the buffer, arrays and width of the sequence numbers. `LossesCounted`
counts the set `Missed` of pairs of a tag and a place in the gap between the
number the application expects of the tag next and the oldest it will be given. Recording into
a full buffer drops the oldest event, so the gap of its tag grows by one and no
other changes (`PopKeeps`); a new event is the successor of the last one of its tag
(`PushKeeps`); and fetching moves what is expected past what was fetched
(`SkipOthers`). These are proved for sequences of events; `PopSlots` and `PushSlots`
carry them over to the ring. Cardinalities grow by one with one pair, so that no sum
over tags is needed, which would be an induction.

`TimerClientProofs` proves of multiplexed alarms, for any number of them, any delays and lateness below
half the range of the time, `DedicatedTracksHead` and that no callback is early
(`NoneEarly`); and if callbacks do not remove alarms that are about to be called
back, `ListKept` and `ImplementsAlarms`. Without that condition the last two are
false, see `mux_remove`. `StepIsVirtual` maps each step to what it is for one alarm:
adding it sets it, removing it and shutting down cancel it, time passing brings it
nearer, its notification makes it go off, and everything done with other alarms
leaves it alone. The invariants are inductive together: the status of an alarm says which list it is in (`StatusFollows`), which
keeps one from being linked twice; what waits to be called back is due
(`FiredDue`), which is what makes an early shared alarm harmless; and the order
survives the wrap because all distances shrink together (`DueFacts`). The lemmas
`InsertKeeps`, `WithoutKeeps` and `SplitKeeps` say what linking, unlinking and
splitting do to a list. Where a search stops is found with the least element of a
set of numbers (`LeastOne`), as induction is not to be had.

Of the pulse capture it proves `EdgesAccounted` and `PulseRight`, for every width of the
counter and of the overflow count, if latency and drift together are at most half
a period of the counter, which is when the code's rule for a pending overflow can
be right. `CapInv` has two halves. One counts: as long as no edge was lost, the edges
since the start are those recorded, those requested and the one the handler is at
(`Counted`), and the start is the edge before the one to be recorded
(`Followed`, `SeenFollowed`, `SeenLast`). It rests on `Bits`, what CCIFG and COV
can be at each point of the handler. The other half is about time: `WrapRecent`
bounds the age of an overflow not yet handled, and `Readings` says of each copy of the
counter (register, handler's variable) how long ago it was made and that
the overflow count, with the pending overflow where it came first, extends it to the
time of its edge; `CountKeepsReading` is the step of the counter, and
`ExtendedIsTime` the moment the handler decides.

The safety properties that are not proved are `CompletionRight` and `ExecutesNamed` of
`Cli`. They compare the code's search with what a line can mean, `Possible` and
`Named`, which are about the words of a line and paths through the table of any
length: that is induction over data, and the library's induction theorems cannot be
used here. An argument by the least counterexample, as in `Recursion`, would have to
be made for each of the sorting, the cutting into words and the paths, and was
not. TLC checks both properties on every line of the run's bound.

Also only model-checked: what is under fairness (`FreeIsTaken`, the liveness of
`ImplementsAlarm`, `AlarmsGoOff`, `CallsReturn`, `EventsFetched`, `DelayEnds`,
`TransmitCompletes`, `CommandsAnswered`), because liveness and `ENABLED` are outside what
the installed prover handles.

## What is not modelled

* Chains of several nodes: the handlers of the modelled parts do not share
  their chains, and their callbacks link and unlink nothing while one is walked.
* I2C and SPI transfers: loops over hardware flags in one thread. Baud rates:
  register arithmetic.
* The CLI's help and diagnostic display, completion from lists of strings, quoted
  tokens and conversion of arguments: formatting and parsing without state.
* The GPS driver's pulse-per-second capture and payload parsing; the text and
  calendar conversions of the uptime clock.
* USCI and USCI5: the same interface as eUSCI on other registers.
* Clock, power, flash and platform code: sequences of register writes whose
  difficulty is analogue. Devices and sensors: straight-line bus transactions.
* Widths: counts of claims and of lost events are naturals. The timer's 16
  and 32 bits are parameters, and arithmetic on them wraps.
* Misuse the headers exclude: adding an alarm that is in a list, output
  from an interrupt handler, releasing with a null self what another owns.

## Plan

Done: resource manager, alarms, multiplexed alarms, console, events, uptime, GPS,
CC3000, pulse capture, command line, in this order, and the proofs above.

Left, in order of what it is worth:

1. A composition of `TimerMux` and `EventRecord` with periodic events, and of
   `Resource` with the console's claim of its UART.
2. A chain of several nodes for the ports, with callbacks that link and unlink.
3. The pulse-per-second capture over `PulseCapture`; the I2C stop conditions.
