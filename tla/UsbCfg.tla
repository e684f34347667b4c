------------------------------- MODULE UsbCfg -------------------------------
(***************************************************************************)
(* main/src/usbcfg.c: what the lamp tells a USB host about itself, byte by *)
(* byte, the endpoints it opens when the host has configured it, and what  *)
(* it does with the events of the bus.                                     *)
(***************************************************************************)
EXTENDS SerialUsb

\* usbcfg.c:25-27
USBD1_DATA_REQUEST_EP      == 1
USBD1_DATA_AVAILABLE_EP    == 1
USBD1_INTERRUPT_REQUEST_EP == 2

-----------------------------------------------------------------------------
(* The descriptors.  USB_DESC_WORD and its like are macros of the driver.   *)

In == 128     \* the direction bit of an endpoint address

Word(n) == << n % 256, n \div 256 >>

Desc(type, fields) == << Len(fields) + 2, type >> \o fields

TypeDevice        == 1
TypeConfiguration == 2
TypeString        == 3
TypeInterface     == 4
TypeEndpoint      == 5
CsInterface       == 36

vcom_device_descriptor ==
  Desc(TypeDevice, Word(272) \o <<2, 0, 0, 64>> \o Word(1155) \o Word(22336) \o Word(512)
                     \o <<1, 2, 3, 1>>)

\* The functional descriptors are bytes in the source, with lengths of their own.
vcom_configuration_descriptor ==
  Desc(TypeConfiguration, Word(67) \o <<2, 1, 0, 192, 50>>)
  \o Desc(TypeInterface, <<0, 0, 1, 2, 2, 1, 0>>)
  \o <<5, CsInterface, 0>> \o Word(272)
  \o <<5, CsInterface, 1, 0, 1>>
  \o <<4, CsInterface, 2, 2>>
  \o <<5, CsInterface, 6, 0, 1>>
  \o Desc(TypeEndpoint, <<USBD1_INTERRUPT_REQUEST_EP + In, 3>> \o Word(8) \o <<255>>)
  \o Desc(TypeInterface, <<1, 0, 2, 10, 0, 0, 0>>)
  \o Desc(TypeEndpoint, <<USBD1_DATA_AVAILABLE_EP, 2>> \o Word(64) \o <<0>>)
  \o Desc(TypeEndpoint, <<USBD1_DATA_REQUEST_EP + In, 2>> \o Word(64) \o <<0>>)

\* n characters of a string, two bytes each; the characters themselves do not
\* matter.
Characters(n) == [i \in 1..(2 * n) |-> 0]

vcom_strings == <<
  <<4, TypeString>> \o Word(1033),
  <<38, TypeString>> \o Characters(18),
  <<56, TypeString>> \o Characters(27),
  <<8, TypeString>> \o Characters(3) >>

NULL == << >>

get_descriptor(dtype, dindex) ==
  CASE dtype = TypeDevice                -> vcom_device_descriptor
    [] dtype = TypeConfiguration         -> vcom_configuration_descriptor
    [] dtype = TypeString /\ dindex < 4  -> vcom_strings[dindex + 1]
    [] OTHER                             -> NULL

-----------------------------------------------------------------------------
(* The endpoints and the events. *)

\* The attributes an endpoint descriptor gives these transfer types.
Bulk == 2
Intr == 3

\* Mutant: the host may send larger packets than the endpoint takes.
ep1config_SmallOut == [type |-> Bulk, in |-> 64, out |-> 32]

\* ep1config, ep2config: transfer type and largest packet in each direction.
ep1config == [type |-> Bulk, in |-> 64, out |-> 64]
ep2config == [type |-> Intr, in |-> 16, out |-> 0]

\* The endpoints usb_event opens, as a function on their numbers.
Opened == [n \in {USBD1_DATA_REQUEST_EP, USBD1_INTERRUPT_REQUEST_EP} |->
             IF n = USBD1_DATA_REQUEST_EP THEN ep1config ELSE ep2config]

\* serusbcfg: the endpoints the serial driver uses.
serusbcfg == [bulk_in  |-> USBD1_DATA_REQUEST_EP,
              bulk_out |-> USBD1_DATA_AVAILABLE_EP,
              int_in   |-> USBD1_INTERRUPT_REQUEST_EP]

\* Mutant: a suspended bus is not told to the serial driver.
usb_event_NoSuspend(s, event) ==
  CASE event = "configured"               -> SduConfigure(s)
    [] event \in {"reset", "unconfigured"} -> SduSuspend(s)
    [] event = "wakeup"                   -> SduWakeup(s)
    [] OTHER                              -> s

\* Mutant: a reset is not told to the serial driver.
usb_event_NoReset(s, event) ==
  CASE event = "configured"                 -> SduConfigure(s)
    [] event \in {"unconfigured", "suspend"} -> SduSuspend(s)
    [] event = "wakeup"                     -> SduWakeup(s)
    [] OTHER                                -> s

\* usb_event, its calls into the serial driver.
usb_event(s, event) ==
  CASE event = "configured"                          -> SduConfigure(s)
    [] event \in {"reset", "unconfigured", "suspend"} -> SduSuspend(s)
    [] event = "wakeup"                              -> SduWakeup(s)
    [] OTHER                                         -> s

\* Mutant: the handler is not there.
sof_handler_Missing(s) == s

\* sof_handler
sof_handler(s) == SduFrameStart(s)

=============================================================================
