---------------------------------- MODULE Pci ----------------------------------
(****************************************************************************)
(* The bus scan of core/drivers/pci.c.  Configuration space is external:    *)
(* space says which chip answers at a function of a slot, and Inl is what   *)
(* CONFIG_DATA then returns, as its four bytes, lowest first.               *)
(****************************************************************************)
EXTENDS Devices

CONSTANTS Buses,            \* 8 in the code
          PCI_MAX_DEVICES,  \* 32 in the code
          PCI_MAX_FUNCTIONS,\* 8 in the code
          PCI_MAX_STORED,   \* 64 in the code
          ClassTable,       \* pci_class_table before its end mark
          Chips             \* external: what may answer

Bytes == 0 .. 255

(* No device has the vendor 0xFFFF, which is what an empty slot reads as.   *)
ASSUME PciAssumption ==
  /\ Buses \in Nat \ {0} /\ PCI_MAX_DEVICES \in Nat \ {0}
  /\ PCI_MAX_FUNCTIONS \in Nat \ {0} /\ PCI_MAX_STORED \in Nat
  /\ ClassTable \in Seq([class : Bytes, subclass : Bytes, name : STRING])
  /\ Chips \subseteq [vendor : (Bytes \X Bytes) \ {<<255, 255>>}, device : Bytes \X Bytes,
                     class : Bytes, subclass : Bytes, prog_if : Bytes, revision : Bytes,
                     header : Bytes, irq : Bytes, bar0 : Bytes \X Bytes \X Bytes \X Bytes]

VARIABLES space,        \* external: the wiring of every slot
          pci_devices,  \* the first pci_device_count entries
          at            \* the bus, slot and function pci_scan_bus has reached

PVars == <<space, pci_devices, at>>

FunctionNumbers == 0 .. PCI_MAX_FUNCTIONS - 1
Slots      == (0 .. Buses - 1) \X (0 .. PCI_MAX_DEVICES - 1)
Done       == <<Buses, 0, 0>>   \* the loops have ended

Nothing == [vendor |-> <<255, 255>>]

(* External: what may answer at the functions of a slot.  Function 0 is     *)
(* there if any is; a device of one function may answer at all of them.     *)
Wirings ==
  {w \in [FunctionNumbers -> Chips \cup {Nothing}] :
     \A f \in FunctionNumbers :
       \/ w[f] \in {Nothing, w[0]}
       \/ w[0] # Nothing /\ w[0].header >= 128}

(* External: the double word at offset of a chip's header; all ones if none answers.  *)
Inl(chip, offset) ==
  IF chip = Nothing THEN <<255, 255, 255, 255>> ELSE
  CASE offset = 0   -> <<chip.vendor[1], chip.vendor[2], chip.device[1], chip.device[2]>>
    [] offset = 8   -> <<chip.revision, chip.prog_if, chip.subclass, chip.class>>
    [] offset = 12  -> <<0, 0, chip.header, 0>>
    [] offset = 16  -> chip.bar0
    [] offset = 60  -> <<chip.irq, 0, 0, 0>>

Read32(slot, func, offset) == Inl(space[slot][func], offset - (offset % 4))

Read16(slot, func, offset) ==
  LET val == Read32(slot, func, offset) at2 == 2 * ((offset % 4) \div 2)
  IN  val[at2 + 1] + 256 * val[at2 + 2]

Read8(slot, func, offset) == Read32(slot, func, offset)[(offset % 4) + 1]

(* pci_get_class_name: the entry of class and subclass, else the last one   *)
(* of the class, else a name of its own.                                    *)
ClassName(class, subclass) ==
  LET same  == {i \in DOMAIN ClassTable : ClassTable[i].class = class}
      exact == {i \in same : ClassTable[i].subclass = subclass}
  IN  CASE exact # {} -> ClassTable[Min(exact)].name
        [] exact = {} /\ same # {} -> ClassTable[Max(same)].name
        [] OTHER -> "unknown"

(* The entry pci_detect_device fills in.                                    *)
Entry(slot, func) ==
  [bus |-> slot[1], device |-> slot[2], function |-> func,
   vendor_id |-> Read16(slot, func, 0), device_id |-> Read16(slot, func, 2),
   class_code |-> Read8(slot, func, 11), subclass |-> Read8(slot, func, 10),
   prog_if |-> Read8(slot, func, 9), revision |-> Read8(slot, func, 8),
   irq |-> Read8(slot, func, 60), bar0 |-> Read32(slot, func, 16)]

(* pci_detect_device.  What register_device answers is not looked at.       *)
DetectDevice(slot, func) ==
  LET e == Entry(slot, func)
  IN  IF e.vendor_id \in {65535, 0} \/ Len(pci_devices) >= PCI_MAX_STORED
      THEN UNCHANGED <<pci_devices, devices>>
      ELSE /\ pci_devices' = Append(pci_devices, e)
           /\ devices' = Registered(devices, "pci", ClassName(e.class_code, e.subclass))

\* Mutant: every function is read, whatever the header says.
FunctionsToRead_All(slot) == FunctionNumbers

(* The functions the scan looks at: all of them if bit 7 of the header type *)
(* of function 0 is set, else function 0.                                   *)
FunctionsToRead(slot) == IF Read8(slot, 0, 14) >= 128 THEN FunctionNumbers ELSE {0}

NextSlot(slot) ==
  IF slot[2] + 1 < PCI_MAX_DEVICES THEN <<slot[1], slot[2] + 1, 0>> ELSE <<slot[1] + 1, 0, 0>>

(* The inner loop of pci_scan_bus finds the slot empty.                     *)
SkipSlot(slot) ==
  /\ at[3] = 0 /\ Read16(slot, 0, 0) = 65535
  /\ at' = NextSlot(slot)
  /\ UNCHANGED <<pci_devices, devices>>

(* It looks at a function of the slot.                                      *)
ScanFunction(slot, func) ==
  /\ at[3] = func /\ Read16(slot, 0, 0) # 65535
  /\ DetectDevice(slot, func)
  /\ at' = IF func + 1 \in FunctionsToRead(slot) THEN <<slot[1], slot[2], func + 1>>
           ELSE NextSlot(slot)

ScanStep ==
  /\ at # Done
  /\ LET slot == <<at[1], at[2]>>
     IN  SkipSlot(slot) \/ ScanFunction(slot, at[3])
  /\ UNCHANGED <<space, answers>>
==============================================================================
