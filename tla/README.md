# A verification of the infrared lamp

The program is the firmware of a lamp: an STM32F103 that receives the commands
of an infrared remote on a pin, and dims a LED by pulse-width modulation. This
directory models it in TLA+, checks the models with TLC on small instances and
proves the safety properties with TLAPS.

Paths of sources are relative to the repository: `main/src/ir.c` and so on.

## 1. The system

| part | state | operations | who calls it |
|---|---|---|---|
| **Receiver** `ir.c:223-503` | `ir_context`: the state machine (`state`, `sync_state`, `repeat_state`), the measurements, the last command; the timer TIM1 | `ir_pad_interrupt` (both edges of the pin), `ir_timer_callback`, `ir_set_callback`, `ir_initialize` | EXTI0 at priority 6, TIM1 at priority 7, `main` |
| **Decoder** `ir.c:83-221` | `received_bits`, locals | `ir_push_signal_value` → `ir_decode_command` | the timer callback, with the last bit |
| **Key commands** `main.c:33-106` | `brightness_value`, `brightness_on`, the console's fields | `remote_command` | the receiver's callback, in interrupt context |
| **Smoothing** `main.c:126-169`, `pwm.c:12-17` | `pwm_value`, `pwm_expected_value`, the PWM channel | the thread `pwm_smooth`, `pwm_set` | the scheduler |
| **Console** `main.c:46-49, 215-227` | `was_command`, address, command, repeat; the queue of the serial driver | `remote_command`, the loop of `main` | the receiver's callback, the scheduler |
| **USB configuration** `usbcfg.c` | descriptors and endpoints, constant | `get_descriptor`, `usb_event`, `sof_handler` | the USB driver, in interrupt context |
| **Initialization** `main.c:171-213`, `ir.c:482-503`, `pwm.c:32-53` | | `main`, `ir_initialize`, `ir_set_callback`, `pwm_initialize`, once, with interrupts and threads already running | reset |
| Blinker, board files, kernel | | | |

How they interact. An edge of the signal preempts everything, the timer
callback included. Both handlers work on the same `ir_context` and the same
timer, without a lock. The timer has four uses: it measures the leading pulse
and the space of a frame or a repeat (one-shot, the counter is read by the next
edge), it shifts the samples from the last rise (one-shot), it paces the samples
(continuous) and it counts the wait for repeats (continuous, 10 ms). The
callback runs `remote_command` in interrupt context; what it stores is read by
the smoothing thread and by the console loop without a lock. The console prints
into a queue that a USB host empties; what `usb_event` tells the serial driver
decides whether a full queue makes `main` wait. The initialization starts the
smoothing thread, then the receiver, then the PWM, without a lock in between.

Hard behaviours: the edge handler between any two steps of the callback; a
counter whose meaning changed since it started; timers that run out in a state
that ignores them; a wait that depends on a timer another handler may replace;
decoding that goes on after failures; a brightness read twice; a target the
smoothing must meet exactly; samples whose period is a truncated quotient of one
measured pulse; a line printed from fields that an interrupt replaces; a print
without a timeout; parts that run before others are set up.

What makes each part correct:

- receiver: bits stay in the bitmap; no frame starts from the remains of an
  older one; nothing is accepted that was not measured for its phase; a frame
  and a fault end; the calls it makes are a delivery followed by repeats of it;
- decoder: keys arrive as sent, a corrupted frame is never another key, the
  position stays in its type;
- sampling: every unit of a frame is received as it was sent, no error of one
  bit is carried into the next;
- lamp: no jumps, no swinging, the brightness asked for is reached;
- console: a call nothing is in the way of is printed as it was made and reaches
  the host; `main` does not hang on a host that has left;
- USB: the description given to the host, the endpoints opened and the serial
  driver's configuration agree;
- initialization: nothing is used before it is set up, the lamp stays dark.

## 2. The modules

| module | models | extends |
|---|---|---|
| `GptTimer` | the timer driver, external: the contract `ir.c` relies on | |
| `RemoteChannel` | what the receiver promises the owner of its callback (abstract) | |
| `IrReceiver` | both handlers, the timer callback cut into steps | `GptTimer` |
| `IrReceiverMC` | symmetry for TLC | `IrReceiver` |
| `IrReceiverProofs` | the inductive invariant and the theorems | `IrReceiver`, `TLAPS` |
| `RemoteCodes` | the key codes of `main.c` | |
| `IrDecoder` | the decoding of 96 bits, call by call | |
| `IrDecoderProofs` | the decoder's invariant and theorems, for every bitmap | `IrDecoder`, `TLAPS` |
| `NecRemote` | a remote in front of the decoder, one unit may be corrupted | `IrDecoder`, `RemoteCodes` |
| `NecRemoteMC` | the addresses and commands sent | `NecRemote` |
| `NecRemoteProofs` | what arrives of the remote's frames, for every address and command | `NecRemote`, `IrDecoderProofs`, `Iteration` |
| `Waveform` | the sampling of a frame against time, in ticks of 0.25 us | |
| `Reception` | a frame from the edges of its signal over the bitmap to the callback | `Waveform`, `NecRemote` |
| `ReceptionMC` | the errors of the edges that happen, the keys pressed | `Reception` |
| `ReceptionProofs` | the sampling grid's invariant, the refinement of the remote, the theorems | `Reception`, `NecRemoteProofs` |
| `Lamp` | `remote_command`, the smoothing thread, `pwm_set`, `pwm_corrected_set` | `RemoteCodes` |
| `LampMC` | the keys pressed | `Lamp` |
| `LampProofs` | the lamp's invariant and theorems | `Lamp`, `TLAPS` |
| `Boot` | the initialization statement by statement | `Lamp` |
| `BootMC` | the keys pressed | `Boot` |
| `BootProofs` | the initialization's invariant, its refinement of the lamp | `Boot`, `LampProofs` |
| `SerialUsb` | the serial over USB driver, external: the contract `main.c` and `usbcfg.c` rely on | |
| `UsbCfg` | `usbcfg.c`: descriptors, endpoints, event and frame handlers | `SerialUsb` |
| `Console` | `remote_command`'s stores, the loop of `main`, the host | `UsbCfg`, instance of `RemoteChannel` |
| `ConsoleMC` | two keys of one remote | `Console` |
| `ConsoleProofs` | the console's invariant and theorems | `Console`, `Iteration` |
| `Iteration` | lemmas about functions defined by recursion on 0..N | `TLAPS` |

The modules meet at three interfaces. `IrReceiver` implements `RemoteChannel`, and
`Console` is driven by `RemoteChannel`: what is shown of the console holds of the
calls the receiver makes. `Reception` implements `NecRemote` without corrupted units:
what is shown of frames of units holds of signals in time. `Boot` implements `Lamp`: what is shown of the lamp
holds from reset on.

### Receiver

Variables carry the names of `ir_context`; `last_command` stands for the pair
`last_address`, `last_command`, and the bits themselves are left to `IrDecoder`:
the last sample of a frame delivers some command or none. `gpt` is the timer
with its counter and update flag.

`PadInterrupt` is `ir_pad_interrupt`, one action: nothing preempts it. Its
service routine has acknowledged the edge before the handler reads the level, so
the level may already be another one, in which case a second interrupt is
pending. Each branch of the C switch is an operator of its own
(`SyncPulseAccepted`, `RepeatFault`, ...); `Receiving` keeps the fall-through of
`ir.c:314-317`, where the code resets and goes on.

`TimerInterrupt` is the driver's service routine and `ir_timer_callback`: `tpc`
is the step it is at, and an edge may come between any two. It is cut at every
access it shares with the edge handler: the test of `rearm_timer`, the driver
calls, the read of `state`, the read, write and check of the time, every store
of `ir_reset_state`. The firmware is built with `-O2`, so plain stores between
two driver calls have no order of their own: the stores of the reset are taken
in any order (`TimerResetStore`). The driver calls stay where they are. That is
an assumption: the Makefile turns on link-time optimization, so a compiler could
inline a driver call and move a plain store across it, and with
`rearm_timer = false` (`ir.c:445`) delayed past the restart of the timer
(`ir.c:447`) a rise in between would be forgotten and `ReceiveNeverStalls`
would not hold. Nothing in the source forbids it. A sample
with what it stores (`TimerSample`) is one step: the edge handler resets or
restarts none of it in `IR_STATE_RECEIVE_COMMAND`. `treg` is the register the
time is held in. The test of the timeout (`ir.c:474, 256`) reads the counter again in
the source, and a compiler may test the register instead: `TimerCheckTime` does either.

`CommandAssumption` leaves out one thing a frame can deliver: address 0 with command
0, which is also what `ir_reset_state` stores. The code keeps `command_received` beside
it and never compares the pair with zero, so nothing it does depends on it; but
`RemoteChannel` could not tell a session of that pair from none. No remote of the lamp
has that address. `Console` makes the same assumption about its zeroed fields, which
are printed only when `was_command` is set.

`Tick` advances the clock. An interrupt that is raised or being served is over
within `MaxLag` ticks; the assumption of the proofs is that this latency is
below the shortest space that is ever accepted, 8000 ticks or 2 ms.

### Decoder

One step per call of `ir_decode_command`, with the position and the result each
leaves, also when it fails and the code goes on. `ByteDecode` is the loop of
`ir_byte_decode` unrolled eight times, so that no recursion is needed. `accepted` says
that the check of the complement was passed; that a callback must be set for the
report (`ir.c:204`) is a guard of `IrReceiver.DecodeCommand`.

`NecRemote` sends pulse-distance frames: 33 pulses of one unit, the next one two
units after a zero and four after a one (`PulseAt`). `Measured` is the bitmap that
gives, with at most one unit inverted. A frame whose address has few ones is
shorter than the bitmap, one with many is longer and loses its end: `Fits` says
which frames the 96 units hold. Of the lamp's remotes the second (address 0xff00)
has its closing pulse just behind the bitmap, in unit 96, the first (0x7f00) inside
it, in unit 94.

### Lamp

`RemoteCommand` is one step (it runs in an interrupt); the thread's reads of
`brightness_on` and its two reads of `brightness_value` are steps. `astray`
counts moves away from the target since the target last changed. `StoreDefault` is
allowed at any time here: that `main` stores the default late, and what it then
replaces, is the subject of `Boot` (`DefaultSurvives`), not of its refinement of
`Lamp`. Nothing calls
`pwm_corrected_set`; `PwmCorrectedSet` is an operator no action uses, about which
a theorem is proved.

### Sampling

`IrReceiver` abstracts the signal to edges at any time, `NecRemote` the sampling
to units. `Waveform` is what lies between them: a frame of units of light and
darkness, the period derived from the leading pulse (`Period`, `Shift`), the
samples, and the restart of the timer at every rise. All times are relative to
the last rise, so that none grows with the frame. `edge` is when the signal next
changes, `sample` when the callback reads the pad; the earlier one happens. An
edge that comes within the latency of a sample is served first, as the
priorities have it.

Every edge is early or late by up to `Jitter`, a fall late by up to `Stretch`
(receiving parts hold the light on), every handler late by up to `Lag`.
`ToleranceAssumption` says how large they may be together: it is the inequality
under which the proof goes through, with the last sample of the longest bit on
one side and the shortest and longest period the leading pulse can give on the
other.

`Reception` has the remote of `NecRemote` make that signal: `bit` is the pulse it is
at, and how far the next one is depends on the bit (`LengthOf`). Every unit received
is stored in the bitmap (`PushSignalValue`), and the last one has it decoded. The code
never clears the bitmap between frames, so it starts from whatever an older frame
has left. The decoder's `received_bits` is the bitmap as it is when the decoding
starts; nothing is stored after that.

### Console

`mailbox` holds the fields of `struct context`. The loop of `main` is cut at every
access: the test of `was_command`, the loads of the three arguments in any order
(C leaves it open), the parts of the line, the two clearing stores in any order.
A call is one step, it runs in an interrupt. A line has three parts, one for each
conversion of the format; the serial buffers hold two parts each, so that a line
fills one and leaves a rest.

`SerialUsb` is the driver's contract: full buffers are posted, a rest is posted at
the start of a USB frame, a writer waits for a free buffer without a limit, and
suspending the queue makes it give up. `usb_event` and `sof_handler` translate
`usbcfg.c` into calls of it. The host resets, configures, unconfigures, suspends
and wakes the bus in any order, and reads or does not. The descriptors are the
bytes of `usbcfg.c`; the characters of the strings are left out, their number is
not.

`fate` and `heard` are history: what was in the way of the last call (a print,
or no connection), and what the host has read of its line. A call that comes during a
print is `overlapped`: its line may be mixed, lost or lose its repeat flag, and the
properties promise nothing of it; they are about every call after it.

### Initialization

`BootOrder` lists the statements of `main` and of what it calls, and each of them
is a step of the action that bears the function's name. The smoothing thread runs
from its creation on, edges come from the enabling of the pad event on. A frame
ends `FrameTime` units after the receiver got its timer at the earliest, where a
unit is the longest statement: this is the one assumption about time,
`FrameTimeAssumption`, and it is a generous one (a frame takes 67 ms, a statement
some microseconds). The sleep of 1.5 s in `main.c:184` takes as long as it likes
(`Wait`): where it stands in the order matters, as two of the mutants show.

## 3. The runs

| run | bounds | shows |
|---|---|---|
| `ir_safety` | 2 commands, 3 bits of 2 samples, windows of 3 to 8 ticks, lag 2 | `TypeOK`, `BitIndexInBounds`, `FrameStartsClean`, `ReceiveNeverStalls`, `FaultKeepsTicking`, `MeasuredByOneShot`, `TimeoutSeenOnlyInCallback`, and that the receiver implements `RemoteChannel` (`ChannelSpec`) |
| `ir_liveness` | 1 command, 2 bits, lag 1 | `FrameEnds`, `FaultEnds` under fairness |
| `ir_wait_ends` | as `ir_liveness` | violated: a wait for repeats need not end |
| `ir_pause` | as `ir_safety` | violated: the pause between repeats is not kept |
| `ir_milliseconds` | as `ir_safety` | violated: a wait may be counted with the sampling period |
| `nec_frames` | the lamp's two addresses and a short one, all 256 commands; 14 commands with each unit corrupted | `FittingDelivered`, `KeysDelivered`, `CommandProtected`, `KeysNotMistaken`, `FailuresRejected`, `IndexNeverWraps` |
| `nec_standard` | the same | violated: commands from 128 of a standard address are rejected |
| `lamp` | brightness 0 to 50, default 20, every key of both remotes and unknown ones | `OnGrid`, `OneStaleMove`, `SmoothDuty`, `Converges` |
| `console` | 2 keys of one remote, 2 buffers of 2 parts | `PrintsLastCall`, `LineOnItsWay`, `SerialFollowsBus`, `DescriptionServed`; under fairness `MainNeverStuck`, `LastCallHeard` |
| `boot` | brightness 0 to 20, default 10, keys of one remote, `FrameTime` 14 for 13 statements | `CallbackHasContext`, `DriverReady`, `DarkUntilOn`, `DefaultSurvives`, and that the initialization implements the lamp (`LampSpec`) |
| `boot_timer` | as `boot` | violated: an early edge leaves the receiver without its timer |
| `reception` | whole frames of 96 units of 2250 ticks, edges 50 ticks early or late, light held on for 400, lag 20; two keys of four addresses; a bitmap left light or dark | `Aligned`, `UnitsAsSent`, `KeysReceived`, and that the decoder meets the frames of `NecRemote` (`NecSpec`) |

Why the bounds are enough. The receiver only compares the counter with
thresholds, so what matters is their order: a sampling period below every
minimum, each window open by at least one tick, the 10 ms timer as long as the
longest leading pulse (as in the code, both 40000), a lag below every minimum.
Two samples per bit, and two or three bits, reach the first, an inner and the
last of each. With `RepeatTimeout` 60, `StartTime` 50 and steps of 10, the wait passes
through its start, its limit and its timeout; a repeat takes it back to zero.
Two commands tell a repeat of the wrong one. Times are unbounded in the
theorems. The brightness of the lamp has six levels instead of eleven; the
smoothing is the same at each of them.

The addresses of `nec_frames` are those the lamp knows, whose frames end with the
bitmap or two units before it, and one whose frames end well before it, so that several
corrupted units lie behind the frame; the commands that are corrupted are keys, their neighbours, and the
ends of the range. The proofs cover all addresses and commands.

A queue of two buffers of two parts can be empty, partial, half full and full,
and a line of three parts straddles two buffers; two keys, first presses and
repeats, tell a line mixed from two calls, and `PrintsLastCall` is proved for
commands that differ in their addresses too. 14 is the smallest `FrameTime` its assumption admits,
so the frames of `boot` are as early as they can be. The errors of `reception` are
12 us for an edge, 100 us for the stretch and 5 us for a handler, each at both of
its ends; a sample count that is off shows within one bit. Its addresses have frames
that end with the bitmap, before it and behind it, with zeros and ones in a row and
in turn; the proof covers all of them, and `Waveform` frames of any length.

Deadlock is checked in every run. A halted processor (`Fault`) and a complete frame
(`Complete`) stutter: the system really stops there.

**Fairness.** `FairSpec` of the receiver assumes that the clock runs
and that raised interrupts are served, which is what hardware does; nothing of
the signal (it may stop, or never stop) and nothing of `main`. `FrameEnds`
and `FaultEnds` have the premise that the signal settles: a signal that
rises faster than the phase shift can keep a frame from being sampled for ever, and the
code does not guard against it. For the lamp the thread `pwm_smooth` runs (its
priority is above that of `main`, and the blinker at the same priority sleeps), and `main` gets past
its initialization; keys need not stop, but `Converges` is about the time after
the last one. For the console `main` runs, and a connected bus has frames, which
is what a USB host provides every millisecond; nothing is assumed of the calls, nor that
the host reads, resets or leaves. `MainNeverStuck` and `LastCallHeard` have the
premise that the queue becomes empty, or the connection ends, again and again.

## 4. What the code does not do

- **The wait for repeats may never end** (`ir_wait_ends`). `ir.c:21`: "How long
  we will waiting for repeat." A rise replaces the 10 ms timer by a one-shot
  (`ir.c:330-332`). If the signal then stays still, one step is counted and no
  timer is left. The next press is spent on recovering.
- **The pause between repeats is not enforced** (`ir_pause`). `ir.c:28`: "Time
  between repeat codes." The branch for an early rise (`ir.c:324-329`) is
  overwritten by the lines after it.
- **A wait may be counted in sampling periods** (`ir_milliseconds`). `ir.c:56`:
  "milliseconds". A rise between `ir.c:443` and `ir.c:462` leaves `rearm_timer` set.
- **Half of the commands of a standard remote are rejected** (`nec_standard`).
  `README.md:3` of the repository. When the address bytes are complements, the
  frame fills the bitmap, and a final zero is read as a one because what follows
  the bitmap reads as false. The commands below 128, the lamp's keys among them,
  have a complement that ends in a one and are not affected: `KeysDelivered`.
- **An edge during the initialization can leave the receiver deaf** (`boot_timer`).
  `main.c:206`: "Initialize infrared receiver." `ir.c:487` enables the pad event
  before `ir.c:491` names the timer and `ir.c:495` starts it. An edge in between
  uses a timer that is NULL, or takes a timer out of its stopped state that has
  no clock yet; the driver's start then does not give it one. Moving the enabling
  behind the start removes both.

More things the models showed, without a statement in the repository they
contradict: OFF leaves a lamp that was on at the lowest duty cycle, not at zero; a
command 255 is accepted with an undecodable complement (hence the
exception in `CommandProtected`); of a frame longer than the bitmap one wrong unit
can make another command (address 0x1ff, command 192: it is read as 0; hence the
hypothesis about the length in `CommandProtected`); `usb_event` resumes the serial driver at every
wakeup (`usbcfg.c:298-305`), also of a device that was never configured, so that
`main` may then wait for a host that cannot read (the exception in
`SerialFollowsBus` and `MainNeverStuck`); a call during a print is lost to the
console, and a repeat in that time may be printed as a first press; the comment
"200 Hz" of `pwm.c:37` stands beside 4 MHz divided by 10000, which is 400 Hz; and a
reset preempted while its stores are
reordered can leave a stale `repeat_state` that costs the next command its
repeats.

## 5. The proofs

`IrReceiverProofs` proves, for every value of the constants that the named
assumptions of `IrReceiver` admit, that all safety properties of `ir_safety` hold
(`TypeCorrect`, `BitIndexSafe`, `FrameStartsCleanSafe`, `ReceiveNeverStallsSafe`,
`FaultKeepsTickingSafe`, `MeasuredByOneShotSafe`, `TimeoutSeenOnlyInCallbackSafe`)
and that the receiver implements the abstract channel (`ImplementsChannel`).

Assumptions: there is at least one bit, sample per bit and sample per leading
pulse; the windows are not empty; the latency of the interrupts is no larger than
any minimum an edge compares with; for every pulse in its window the sampling
period is at least two ticks and below the same minima. The constants of `ir.c`
satisfy them (a period of 666 to 833 ticks against a minimum of 8000), with the
latency read as at most 2 ms.

The argument. None of the properties is inductive: each depends on what a
preempting edge may do to a callback in progress. `CounterInv` says that while
the timer's interrupt is raised or served the counter is no larger than the lag.
Hence (`AcceptedOutsideCallback`) an edge that finds the counter above a minimum
preempts no callback: pulses and spaces are accepted, frames begun and repeats
reported only between callbacks. What is left to a preempting edge is to start a
pulse, to resynchronize, to declare a fault or to reset, and the other parts of
`IInv` say what the callback finds then: `PaceInv` that whoever arms the
timer with the period or the shift finds them set, `PhaseInv` which timer can run in a
measured phase, `CallbackInv` which states each step of the callback can see,
`SynchronizationInv` which stores a reset still owes, `ReceiveInv` and `WaitInv`
what holds of a frame and of a wait, `SessionInv` that a command is held exactly
while one is marked as received. There is one lemma per action; the edge handler
has one per branch.

`IrDecoderProofs` proves `TypeOK`, `IndexNeverWraps` and `FailuresRejected` of the
decoder for each of the 2^96 bitmaps (`nec_frames` decodes a few thousand of them).
The position moves on only from a unit that is set, hence from inside the
bitmap, which bounds it (`ByteStepFacts`, `ByteDecodeFacts`). A failing
call stops at a bit that does not decode, where every later call fails again and
leaves its zero (`FailureInv`): the sum the check looks at is then zero, or the
command alone.

`NecRemoteProofs` proves `FittingDelivered`, `KeysDelivered`, `CommandProtected` and
`KeysNotMistaken` for all 16 bit addresses, all commands and every corrupted unit,
from `SentAssumption`: what the remote sends are 16 bit addresses and bytes. The
properties have their own hypotheses: the first two are about undisturbed frames,
`FittingDelivered` about those that fit, and `CommandProtected` about frames no longer
than the bitmap, with the exception of 255.
`NecDecoderSafe` carries the decoder's own theorems over. None of the four is
inductive: they speak of a decoding that is done. The invariant behind them
(`NecInv`) adds to the decoder's that the bitmap is the frame that was sent
(`SentInv`) and that what the decoder holds after each call are the bits along the
bitmap's *trace* (`ReadInv`), the one sequence of positions that starts at zero and
moves by four from a one and by two from a zero. What remains is about sequences
alone, without a step of the program:

- undisturbed, the trace and the pulses are the same sequence as far as the bitmap
  reaches, so the bits are those sent (`IntactRead`), and for the keys it reaches far
  enough (`KeyFrame`, with the lengths of the two addresses);
- one wrong unit changes nothing, or makes the first wrong bit a one that has
  swallowed a zero, or a zero that leaves the rest of a one behind (`CorruptedRead`:
  `Merged`, `Split`); behind it every bit is the one sent, one place early or late,
  because two traces that meet stay together (`Follow`);
- if that happens in the command or its complement, both can be complements of each
  other only in the command 255 (`ShiftDetected`), which is the exception of the
  property;
- the lamp's two addresses differ in their last bit alone, so a frame that changes
  from one to the other is shifted from bit 15 on, and no key survives that
  (`RemotesKeptApart`).

`LampProofs` proves `TypeOK`, `OnGrid`, `OneStaleMove` and `SmoothDuty` for every set of
keys, every limit and every default on the grid. `OneStaleMove` needs to know that
the thread's reading is current as long as no wrong move has been made (`Current`),
`SmoothDuty` that the channel holds what `pwm_set` makes of the thread's value
(`Follows`), because the clamping from below could turn a step of ten into a
larger one. `CorrectedSet` states what the unused `pwm_corrected_set` does, for all
256 arguments.

`BootProofs` proves all properties of `boot`, the refinement of `Lamp` among them
(`BootImplementsLamp`), for every `FrameTime` its assumption admits. The argument is
the one that keeps the program right without a lock: how far `main` has got
bounds how long a frame can have been received for (`BootInv`), so no key is
obeyed before `main` is in its loop, and a thread nobody has asked for light has
nowhere to move.

`ConsoleProofs` proves all invariants of `console` for every set of
commands and every queue. `Current` says what the loop holds at each of its steps
of a call that was not overlapped; `WokenEarly`, that configuring the device makes
good for an early wakeup. For `LineOnItsWay` the invariant follows the line through
the queue: what the host will have heard once it has read all that waits for it
(`WillHear`) grows by what `main` writes and by nothing else, wherever a buffer is
posted, flushed or read. It is defined by recursion over the text.
`DescriptionServed` is about constants, but not a mere evaluation for a prover: the
67 bytes are a concatenation of eleven parts (`ConfigurationBytes` follows each to its
place), and the host's walk is a recursion over positions, of which `WalkFinds` says
that any set that holds the first position and exactly the ends of what starts in
it is the one it finds.

These need induction: the decoder's trace, the frame's pulses, the host's reading
and its walk are functions of arbitrary arguments. `Iteration` has it in a form the provers can
use, about a set of numbers instead of a predicate (`NumberInduction`, from the well-founded order of
the numbers), and from it that a recursion on 0..N has exactly one solution
(`IterationExists`, `IterationUnique`).

`ReceptionProofs` first proves `Aligned` and `UnitsAsSent` of `Waveform`, for frames of
any length and every unit and error `ToleranceAssumption` admits. The invariant
(`GridInv`) bounds the
time of every sample from both sides: the k-th sample after a rise is k periods
and a shift away from it, the period is a sixteenth and then a third of the
leading pulse, truncated, and so each sample falls into the unit it is meant for.

Then it proves that `Reception` implements `NecSpec` (`ReceptionImplementsNec`), under the
assumptions of both and `ReceptionAssumption` (the units received are those of the
bitmap). `RecInv` adds that the units stored so far are light exactly where one of the
pulses so far is (`StoredInv`), whatever the bitmap held before, and that the signal
is at the pulse `PulseAt` says (`FrameInv`). When the last unit is stored the next pulse
is not in the bitmap, or there is none (`NoMorePulses`), so the bitmap is `Measured`
(`FrameStored`): that step is a `Send` of the remote, every other one a step of the
decoder or a stutter. With `KeysStep` of `NecRemoteProofs` it follows that a key is
received as it was pressed, from the edges of its signal on (`KeysReceivedSafe`).

A word on the form of the lemmas. The provers unfold an interval between literals
(`0..65535`, `0..31`) into its members and take seconds for it. The ranges are
therefore also stated as inequalities (`ByteRange`, `WordRange`, `PulseBefore`), and that
two bytes are equal when their bits are is proved digit by digit, in halves
(`SameDigits`, `ByteDigits`), not over the 256 values.

Only model-checked: liveness (`FrameEnds`, `FaultEnds`, `Converges`, `MainNeverStuck`,
`LastCallHeard`), which is out of the prover's reach. Every invariant of the passing
runs is stated by a theorem.

## 6. Plan

Done, in this order: the receiver with its timer and channel, its proofs, the
decoder with its proofs and the remote, the lamp; then the console with the USB
configuration, the initialization, the sampling of a frame, and the proofs of
the four; then the proofs about the remote's frames and the host's reading, and
the composition of signal, bitmap and decoder.

Next:

1. `System`: key commands, smoothing and console driven by one `RemoteChannel`; that
   a key held is obeyed once and that lamp and console agree on the last call.
2. The delivery of a frame that follows a broken one (`ir.c:291`): `Waveform` in front
   of `IrReceiver`.

## 7. Not modelled

The blinker toggles a pin of its own and shares nothing. Of the board, kernel
and HAL configuration only what decides behaviour is in the models: the reset
state of port A, the pins, the number of serial buffers, the interrupt
priorities, the optimization; the rest of `chconf.h`, `halconf.h` and `mcuconf.h` is
switches and clock settings, data without a step. `halInit`, `chSysInit` and the
drivers are outside of the repository: a driver call is one step, although
neither handler of the receiver locks around it. Build and flash scripts have no
run-time behaviour.
