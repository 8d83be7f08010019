-------------------------------- MODULE Devices --------------------------------
(****************************************************************************)
(* The device registry of core/kernel/devices.c.  A registry is a record of *)
(* the three statics of the file; a slot holds a device or Inactive.  One   *)
(* handler registers many devices, so register_device is an operator on     *)
(* registries and its callers store the result.                             *)
(****************************************************************************)
EXTENDS Integers, Sequences, FiniteSetsExt

CONSTANT MAX_DEVICES   \* 64 in the code

ASSUME DevicesAssumption == MAX_DEVICES \in Nat \ {0}

VARIABLES devices,   \* device_table, device_count, next_device_id
          answers    \* external: the serial ports that do not read as 0xFF

DVars == <<devices, answers>>

Serials  == {"com1", "com2"}
Inactive == [active |-> FALSE]

(* init_devices.                                                            *)
EmptyRegistry ==
  [device_table |-> [i \in 1 .. MAX_DEVICES |-> Inactive],
   device_count |-> 0, next_device_id |-> 1]

FreeSlots(r) == {i \in 1 .. MAX_DEVICES : ~ r.device_table[i].active}

(* register_device, which refuses in a full table.                          *)
Registered(r, type, name) ==
  IF r.device_count >= MAX_DEVICES \/ FreeSlots(r) = {} THEN r
  ELSE [device_table |-> [r.device_table EXCEPT ![Min(FreeSlots(r))] =
          [active |-> TRUE, id |-> r.next_device_id, type |-> type, name |-> name]],
        device_count |-> r.device_count + 1,
        next_device_id |-> r.next_device_id + 1]

(* A serial port, if it is there.                                           *)
WithSerial(r, port) == IF port \in answers THEN Registered(r, "serial", port) ELSE r

(* detect_devices: keyboard and display, the ports that answer, the mouse.  *)
WithBasics(r) ==
  LET shown == Registered(Registered(r, "keyboard", "ps2"), "display", "vga")
      wired == WithSerial(WithSerial(shown, "com1"), "com2")
  IN  Registered(wired, "mouse", "ps2")

(* The slots list_devices prints, in their order.                           *)
ListedDevices(r) == {i \in 1 .. MAX_DEVICES : r.device_table[i].active}
==============================================================================
