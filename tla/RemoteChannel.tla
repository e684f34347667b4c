---------------------------- MODULE RemoteChannel ----------------------------
(***************************************************************************)
(* What the receiver promises to the owner of the callback (ir.h:6-8): the *)
(* sequence of calls callback(context, address, command, repeat) it may    *)
(* observe, without pads, timers and interrupts.                           *)
(*                                                                         *)
(* A session is opened by a decoded command, which is reported once.  While*)
(* the session is open, the key being held is reported as a repeat of that *)
(* very command.  The session is closed silently.                          *)
(***************************************************************************)
CONSTANTS Commands, NoCommand

VARIABLES
  session,    \* the command whose key may still be held, or NoCommand
  last_call   \* the last call; odd tells two equal calls apart

vars == <<session, last_call>>

Calls(c, repeat) ==
  last_call' = [command |-> c, repeat |-> repeat, odd |-> ~last_call.odd]

Init ==
  /\ session = NoCommand
  /\ last_call = [command |-> NoCommand, repeat |-> FALSE, odd |-> FALSE]

\* callback(..., false): a new command opens a session.
Deliver(c) ==
  /\ session = NoCommand
  /\ session' = c
  /\ Calls(c, FALSE)

\* callback(..., true): the key of the session's command is held.
Repeat ==
  /\ session # NoCommand
  /\ Calls(session, TRUE)
  /\ UNCHANGED session

\* The wait for repeats is over.
Close ==
  /\ session # NoCommand
  /\ session' = NoCommand
  /\ UNCHANGED last_call

Next == (\E c \in Commands : Deliver(c)) \/ Repeat \/ Close

Spec == Init /\ [][Next]_vars
=============================================================================
