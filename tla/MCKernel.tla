-------------------------------- MODULE MCKernel -------------------------------
(* An instance of Kernel for TLC.                                             *)
EXTENDS Kernel

Chip(vendor, class, header) ==
  [vendor |-> <<vendor, 128>>, device |-> <<57, 129>>, class |-> class, subclass |-> 7,
   prog_if |-> 1, revision |-> 2, header |-> header, irq |-> 11, bar0 |-> <<0, 0, 3, 4>>]

\* A network card, a bridge of several functions, and a device that gives no vendor.
MCChips == {Chip(16, 2, 0), Chip(134, 6, 129), [Chip(0, 9, 128) EXCEPT !.vendor = <<0, 0>>]}

MCClassTable ==
  <<[class |-> 2, subclass |-> 0, name |-> "ethernet"],
    [class |-> 2, subclass |-> 128, name |-> "network"],
    [class |-> 6, subclass |-> 7, name |-> "bridge"]>>

\* Broadcast, whose words are all ones, and a gateway.
MCAddresses == {<<65535, 65535>>, <<2560, 514>>}
==============================================================================
