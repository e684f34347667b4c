------------------------------ MODULE Console ------------------------------
(***************************************************************************)
(* The console: remote_command leaves each call in fields of main's        *)
(* context (main.c:46-49), the loop of main prints them as a line to the   *)
(* serial port (main.c:215-227), a USB host reads the line.  The callback  *)
(* interrupts the loop between any two of its loads and stores, the host   *)
(* may stop reading, reset, suspend and wake the bus at any time.          *)
(*                                                                         *)
(* The calls are those of RemoteChannel, which the receiver implements.    *)
(***************************************************************************)
EXTENDS UsbCfg, FiniteSets

CONSTANTS
  Commands,     \* what a call reports: records of an address and a command
  NoCommand     \* the zeroed fields

ASSUME CommandAssumption ==
  /\ NoCommand \notin Commands
  /\ \A c \in Commands \cup {NoCommand} : c \in [address : Nat, command : Nat]

VARIABLES
  session, last_call,                                 \* the calls: RemoteChannel
  was_command, cmd_address, cmd_command, cmd_repeat,  \* struct context
  main,        \* the next step of main's loop
  todo,        \* fields the loop still has to load, or to clear
  args,        \* what it has loaded and not yet printed
  part,        \* the part of the line to write next
  sdu,         \* SDU1
  bus,         \* the host has configured the device, or not
  asleep,      \* the bus is suspended
  woken,       \* history: it was woken up although it is not configured
  fate,        \* history: what was in the way of the last call
  heard        \* history: when nothing was, what the host has read of the last line

mailbox == <<was_command, cmd_address, cmd_command, cmd_repeat>>
loop    == <<main, todo, args, part>>
channel == <<session, last_call>>
host    == <<bus, asleep, woken>>
history == <<fate, heard>>

vars == <<channel, mailbox, loop, sdu, host, history>>

\* The parts of a line, one for each conversion in its format (main.c:219).
LineParts == <<"address", "command", "repeat">>
Fields    == {"address", "command", "repeat"}
Flags     == {"was_command", "cmd_repeat"}

NoLine == [f \in Fields |-> 0]

\* cmd_repeat is a uint8_t that is stored from a bool.
Digit(b) == IF b THEN 1 ELSE 0

Channel == INSTANCE RemoteChannel

Init ==
  /\ Channel!Init
  /\ was_command = FALSE
  /\ cmd_address = NoCommand.address /\ cmd_command = NoCommand.command /\ cmd_repeat = 0
  /\ main = "test" /\ todo = {} /\ args = NoLine /\ part = 1
  /\ sdu = SduInit
  /\ bus = "default" /\ asleep = FALSE /\ woken = FALSE
  /\ fate = "cut" /\ heard = << >>

Connected == bus = "configured" /\ ~asleep

-----------------------------------------------------------------------------
(* remote_command, its stores for the console. *)

\* Mutant: the flag is only ever set here, and left for main to clear.
Store_FlagLeft(c, repeat) ==
  /\ cmd_repeat' = IF repeat THEN 1 ELSE cmd_repeat
  /\ cmd_command' = c.command
  /\ cmd_address' = c.address
  /\ was_command' = TRUE

Store(c, repeat) ==
  /\ cmd_repeat' = Digit(repeat)
  /\ cmd_command' = c.command
  /\ cmd_address' = c.address
  /\ was_command' = TRUE

Call ==
  /\ \/ \E c \in Commands : Channel!Deliver(c) /\ Store(c, FALSE)
     \/ Channel!Repeat /\ Store(session, TRUE)
  /\ fate' = IF main # "test" THEN "overlapped" ELSE IF Connected THEN "none" ELSE "cut"
  /\ heard' = << >>
  /\ UNCHANGED <<loop, sdu, host>>

\* The receiver gives up waiting for repeats.
SessionEnds ==
  /\ Channel!Close
  /\ UNCHANGED <<mailbox, loop, sdu, host, history>>

-----------------------------------------------------------------------------
(* The loop of main. *)

Outside == <<channel, host, history>>

\* if (context.was_command); otherwise main sleeps for a while and tests again.
Test ==
  /\ main = "test" /\ was_command
  /\ main' = "load" /\ todo' = Fields
  /\ UNCHANGED <<Outside, mailbox, args, part, sdu>>

\* The arguments of chprintf are evaluated in any order.
Load(f) ==
  /\ main = "load" /\ f \in todo
  /\ args' = [args EXCEPT ![f] = CASE f = "address" -> cmd_address
                                   [] f = "command" -> cmd_command
                                   [] f = "repeat"  -> cmd_repeat]
  /\ todo' = todo \ {f}
  /\ main' = IF todo = {f} THEN "print" ELSE "load"
  /\ UNCHANGED <<Outside, mailbox, part, sdu>>

\* Mutant: the line has one part more.
NextPart_TooFar ==
  /\ args' = NoLine
  /\ IF part <= Len(LineParts) THEN part' = part + 1 /\ UNCHANGED <<main, todo>>
                               ELSE part' = 1 /\ main' = "clear" /\ todo' = Flags

\* Mutant: the line ends one part early.
NextPart_Short ==
  /\ args' = NoLine
  /\ IF part + 1 < Len(LineParts) THEN part' = part + 1 /\ UNCHANGED <<main, todo>>
                                  ELSE part' = 1 /\ main' = "clear" /\ todo' = Flags

\* chprintf has written a part, or given it up: it goes on all the same.
NextPart ==
  /\ args' = [args EXCEPT ![LineParts[part]] = 0]
  /\ IF part < Len(LineParts) THEN part' = part + 1 /\ UNCHANGED <<main, todo>>
                              ELSE part' = 1 /\ main' = "clear" /\ todo' = Flags

WritePart ==
  /\ main = "print" /\ sdu.writer \in {"none", "retry"}
  /\ ~SduBlocks(sdu)
  /\ sdu' = SduWrite(sdu, [field |-> LineParts[part], value |-> args[LineParts[part]]])
  /\ NextPart
  /\ UNCHANGED <<Outside, mailbox>>

WriteBlocks ==
  /\ main = "print" /\ sdu.writer \in {"none", "retry"}
  /\ SduBlocks(sdu)
  /\ sdu' = SduWait(sdu)
  /\ UNCHANGED <<Outside, mailbox, loop>>

WriteGivesUp ==
  /\ main = "print" /\ sdu.writer = "reset"
  /\ sdu' = SduGiveUp(sdu)
  /\ NextPart
  /\ UNCHANGED <<Outside, mailbox>>

\* was_command = false; cmd_repeat = 0: two plain stores, in any order.
Clear(f) ==
  /\ main = "clear" /\ f \in todo
  /\ todo' = todo \ {f}
  /\ main' = IF todo = {f} THEN "test" ELSE "clear"
  /\ was_command' = (was_command /\ f # "was_command")
  /\ cmd_repeat' = IF f = "cmd_repeat" THEN 0 ELSE cmd_repeat
  /\ UNCHANGED <<Outside, cmd_address, cmd_command, args, part, sdu>>

Main ==
  \/ Test
  \/ \E f \in Fields : Load(f)
  \/ WritePart
  \/ WriteBlocks
  \/ WriteGivesUp
  \/ \E f \in Flags : Clear(f)

-----------------------------------------------------------------------------
(* The host and the bus. *)

Beside == <<channel, mailbox, loop>>

\* The connection is lost, and with it what the host knows of a line.
Lose ==
  /\ fate' = IF fate = "none" THEN "cut" ELSE fate
  /\ heard' = << >>

\* The bus is reset: the device has no address and no endpoints any more.
Reset ==
  /\ bus' = "default" /\ asleep' = FALSE /\ woken' = FALSE
  /\ sdu' = usb_event(sdu, "reset")
  /\ Lose
  /\ UNCHANGED Beside

\* The host gives the device an address, asks for its descriptors (what the
\* device does not have stalls) and configures it.
Configure ==
  /\ bus = "default" /\ ~asleep
  /\ bus' = "configured" /\ woken' = FALSE
  /\ sdu' = usb_event(usb_event(usb_event(sdu, "address"), "stalled"), "configured")
  /\ UNCHANGED <<Beside, asleep, history>>

Unconfigure ==
  /\ Connected
  /\ bus' = "default"
  /\ sdu' = usb_event(sdu, "unconfigured")
  /\ Lose
  /\ UNCHANGED <<Beside, asleep, woken>>

Suspend ==
  /\ ~asleep
  /\ asleep' = TRUE /\ woken' = FALSE
  /\ sdu' = usb_event(sdu, "suspend")
  /\ Lose
  /\ UNCHANGED <<Beside, bus>>

Wakeup ==
  /\ asleep
  /\ asleep' = FALSE /\ woken' = (bus # "configured")
  /\ sdu' = usb_event(sdu, "wakeup")
  /\ UNCHANGED <<Beside, bus, history>>

FrameStart ==
  /\ Connected
  /\ sdu' = sof_handler(sdu)
  /\ UNCHANGED <<Beside, host, history>>

\* What the host makes of a part: a line is heard when its parts have come one
\* after the other, from the first to the last.
Hear(parts, p) ==
  LET so_far == IF Len(parts) = Len(LineParts) THEN << >> ELSE parts
  IN IF p.field = LineParts[1] THEN << p.value >>
     ELSE IF so_far # << >> /\ p.field = LineParts[Len(so_far) + 1]
     THEN Append(so_far, p.value)
     ELSE << >>

\* What is heard of a text, part by part, and of one buffer after the other.
HearText(parts, text) ==
  LET hear[n \in 0..Len(text)] == IF n = 0 THEN parts ELSE Hear(hear[n - 1], text[n])
  IN hear[Len(text)]

HearAll(parts, texts) ==
  LET hear[n \in 0..Len(texts)] == IF n = 0 THEN parts ELSE HearText(hear[n - 1], texts[n])
  IN hear[Len(texts)]

Read ==
  /\ Connected /\ sdu.posted # << >>
  /\ heard' = IF fate = "none" THEN HearText(heard, Head(sdu.posted)) ELSE << >>
  /\ sdu' = SduTransmitted(sdu)
  /\ UNCHANGED <<Beside, host, fate>>

Host == Reset \/ Configure \/ Unconfigure \/ Suspend \/ Wakeup \/ FrameStart \/ Read

-----------------------------------------------------------------------------
Next == Call \/ SessionEnds \/ Main \/ Host

Spec == Init /\ [][Next]_vars

\* main runs, and a bus that is connected has frames.  Nothing is assumed of
\* the calls, and nothing of what else the host does, not even that it reads.
FairSpec == Spec /\ WF_vars(Main) /\ WF_vars(FrameStart)

-----------------------------------------------------------------------------
Addresses == {c.address : c \in Commands \cup {NoCommand}}
Numbers   == {c.command : c \in Commands \cup {NoCommand}}
Values    == Addresses \cup Numbers \cup {0, 1}
Parts     == [field : Fields, value : Values]
Text      == Seq(Parts)

TypeOK ==
  /\ session \in Commands \cup {NoCommand}
  /\ last_call \in [command : Commands \cup {NoCommand}, repeat : BOOLEAN, odd : BOOLEAN]
  /\ was_command \in BOOLEAN
  /\ cmd_address \in Addresses /\ cmd_command \in Numbers /\ cmd_repeat \in {0, 1}
  /\ main \in {"test", "load", "print", "clear"}
  /\ todo \in SUBSET (Fields \cup Flags)
  /\ args \in [Fields -> Values]
  /\ part \in 1..Len(LineParts)
  /\ sdu \in [suspended : BOOLEAN, partial : Text, posted : Seq(Text), writer : Writers]
  /\ Len(sdu.partial) < BufferSize /\ Len(sdu.posted) <= BufferNumber
  /\ bus \in {"default", "configured"}
  /\ asleep \in BOOLEAN /\ woken \in BOOLEAN
  /\ fate \in {"none", "overlapped", "cut"}
  /\ heard \in Seq(Values) /\ Len(heard) <= Len(LineParts)

\* A line is assembled from three loads the callback may come between, out of
\* fields main itself clears.  Whatever came before, a call that no print was
\* in the way of is printed as it was made: its address with its command, and
\* as a repeat only if it is one.
PrintsLastCall ==
  main = "print" /\ part = 1 /\ fate # "overlapped" =>
    /\ args["address"] = last_call.command.address
    /\ args["command"] = last_call.command.command
    /\ args["repeat"] = Digit(last_call.repeat)

\* What the host will have heard, after parts, when it has read all that is on
\* its way to it.
WillHear(parts, s) == HearText(HearAll(parts, s.posted), s.partial)

LastLine == <<last_call.command.address, last_call.command.command, Digit(last_call.repeat)>>

\* Nothing of a line is lost, doubled or mixed with what was written before it,
\* wherever it is cut into buffers: when main is done with a call that nothing was
\* in the way of, what the host has read and what waits for it end in its line.
LineOnItsWay ==
  /\ fate = "none"
  /\ main = "clear" \/ (main = "test" /\ ~was_command)
  => WillHear(heard, sdu) = LastLine

\* What decides whether main waits for the host is the serial driver's own idea
\* of the connection, and it is told by usb_event alone.  It is connected when
\* the host has configured the device and the bus is awake; but also, since
\* usb_event does not look at the state of the device, when a bus has been
\* woken that was suspended before it was configured.
SerialFollowsBus ==
  sdu.suspended <=> asleep \/ (bus # "configured" /\ ~woken)

-----------------------------------------------------------------------------
(* What the host reads in the descriptors. *)

\* It asks for nine bytes of the configuration first, then for the length it
\* finds there, and gets no more than there are.
ConfigurationRead ==
  LET all    == get_descriptor(TypeConfiguration, 0)
      length == all[3] + 256 * all[4]
  IN SubSeq(all, 1, IF length < Len(all) THEN length ELSE Len(all))

\* A descriptor is found where the one before it ends.
StartsIn(bytes) ==
  LET starts[p \in 1..(Len(bytes) + 1)] ==
        p = 1 \/ \E q \in 1..(p - 1) : q + bytes[q] = p /\ bytes[q] > 0 /\ starts[q]
  IN {p \in 1..(Len(bytes) + 1) : starts[p]}

\* The descriptors of a type behind position from and before position to.
DescriptorsIn(bytes, type, from, to) ==
  {p \in StartsIn(bytes) : from < p /\ p < to /\ bytes[p + 1] = type}

InterfaceEnd(bytes, p) ==
  LET later == DescriptorsIn(bytes, TypeInterface, p, Len(bytes))
  IN IF later = {} THEN Len(bytes) + 1 ELSE CHOOSE q \in later : \A r \in later : q <= r

EndpointAt(bytes, p) ==
  [number |-> bytes[p + 2] % In, in |-> bytes[p + 2] >= In, type |-> bytes[p + 3],
   size   |-> bytes[p + 4] + 256 * bytes[p + 5]]

Endpoints(bytes) ==
  {EndpointAt(bytes, p) : p \in DescriptorsIn(bytes, TypeEndpoint, 0, Len(bytes))}

\* The configuration can be walked from end to end and holds the interfaces and
\* endpoints it announces; the strings the device names exist and are as long as
\* they claim.
DescriptionWhole ==
  LET bytes  == ConfigurationRead
      device == get_descriptor(TypeDevice, 0)
      found  == DescriptorsIn(bytes, TypeInterface, 0, Len(bytes))
  IN /\ device[1] = Len(device)
     /\ Len(bytes) = Len(get_descriptor(TypeConfiguration, 0))
     /\ Len(bytes) + 1 \in StartsIn(bytes)
     /\ {bytes[p + 2] : p \in found} = 0..(bytes[5] - 1)
     /\ \A p \in found :
          Cardinality(DescriptorsIn(bytes, TypeEndpoint, p, InterfaceEnd(bytes, p))) = bytes[p + 4]
     /\ \A i \in {0, device[15], device[16], device[17]} :
          LET string == get_descriptor(TypeString, i)
          IN string # NULL /\ string[1] = Len(string)

\* What it promises is opened, with room for the packets it announces.
EndpointsServed ==
  \A e \in Endpoints(ConfigurationRead) :
    /\ e.number \in DOMAIN Opened
    /\ e.type = Opened[e.number].type
    /\ e.size <= IF e.in THEN Opened[e.number].in ELSE Opened[e.number].out

\* The serial driver's three endpoints are among it.
SerialDescribed ==
  \A use \in {<<serusbcfg.bulk_in, TRUE, Bulk>>, <<serusbcfg.bulk_out, FALSE, Bulk>>,
               <<serusbcfg.int_in, TRUE, Intr>>} :
    \E e \in Endpoints(ConfigurationRead) : use = <<e.number, e.in, e.type>>

\* A host only knows what the descriptors say, and the driver only what the
\* endpoint configurations and serusbcfg say: on a configured bus they agree,
\* in the numbers, directions, types and sizes that are written down three times.
DescriptionServed ==
  bus = "configured" => DescriptionWhole /\ EndpointsServed /\ SerialDescribed

-----------------------------------------------------------------------------
(* Liveness, under FairSpec. *)

\* The print waits for the host without a limit.  A host that stops reading
\* and then leaves (a suspended, unconfigured or reset bus) releases it: main
\* hangs only on a host that stays and does not read, or on a bus that was
\* woken and never configured.
MainNeverStuck ==
  []<>(sdu.posted = << >> \/ asleep \/ (bus # "configured" /\ ~woken))
    => []<>(main = "test")

\* From the callback to the host: when a call has been made that no print was
\* in the way of, nothing follows it, and the bus stays connected and is read,
\* its line is the last one the host hears.
LastCallHeard ==
  /\ <>[][UNCHANGED last_call]_vars
  /\ []<>(sdu.posted = << >>)
  => <>[](fate = "none" => heard = LastLine)
=============================================================================
