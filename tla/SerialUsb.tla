----------------------------- MODULE SerialUsb -----------------------------
(***************************************************************************)
(* The serial over USB driver behind SDU1, as far as main.c and usbcfg.c   *)
(* can observe it.  The driver is ChibiOS code outside the repository; what*)
(* is modelled is the contract they rely on:                               *)
(*                                                                         *)
(*   - written text fills a buffer; a full buffer is posted for the host,  *)
(*     a partial one is posted at the start of a USB frame when no other   *)
(*     waits;                                                              *)
(*   - a writer that finds every buffer posted waits, for as long as it    *)
(*     takes, unless the queue is suspended: then what it writes is lost;  *)
(*   - suspending the queue releases a waiting writer, configuring it      *)
(*     empties it.                                                         *)
(***************************************************************************)
EXTENDS Naturals, Sequences

CONSTANTS
  BufferSize,     \* SERIAL_USB_BUFFERS_SIZE, in parts of a printed line
  BufferNumber    \* SERIAL_USB_BUFFERS_NUMBER

ASSUME BufferAssumption == BufferSize \in Nat \ {0} /\ BufferNumber \in Nat \ {0}

\* sduObjectInit: no buffer is in use, nobody waits, the queue is suspended.
SduInit == [suspended |-> TRUE, partial |-> << >>, posted |-> << >>, writer |-> "none"]

\* What has become of the writer: it does not wait, waits, was told that a
\* buffer is free, or was told to give up.
Writers == {"none", "waiting", "retry", "reset"}

SduFull(s)   == s.partial = << >> /\ Len(s.posted) = BufferNumber
SduBlocks(s) == SduFull(s) /\ ~s.suspended

\* A writer finds every buffer posted.
SduWait(s) == [s EXCEPT !.writer = "waiting"]

\* One part of a line is written, or lost where there is no room for it.
SduWrite(s, part) ==
  LET text == Append(s.partial, part)
      t    == [s EXCEPT !.writer = "none"]
  IN IF SduFull(s) THEN t
     ELSE IF Len(text) < BufferSize THEN [t EXCEPT !.partial = text]
     ELSE [t EXCEPT !.partial = << >>, !.posted = Append(@, text)]

\* A writer that was told to give up returns without having written.
SduGiveUp(s) == [s EXCEPT !.writer = "none"]

Release(writer, message) == IF writer = "waiting" THEN message ELSE writer

\* sduDataTransmitted: the host has read the first buffer.
SduTransmitted(s) == [s EXCEPT !.posted = Tail(@), !.writer = Release(@, "retry")]

\* sduSOFHookI
SduFrameStart(s) ==
  IF s.posted = << >> /\ s.partial # << >>
  THEN [s EXCEPT !.partial = << >>, !.posted = << s.partial >>]
  ELSE s

\* sduConfigureHookI, sduSuspendHookI, sduWakeupHookI
SduConfigure(s) == [suspended |-> FALSE, partial |-> << >>, posted |-> << >>,
                    writer |-> Release(s.writer, "reset")]
SduSuspend(s)   == [s EXCEPT !.suspended = TRUE, !.writer = Release(@, "reset")]
SduWakeup(s)    == [s EXCEPT !.suspended = FALSE]

=============================================================================
