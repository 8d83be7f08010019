--------------------------------- MODULE Kernel --------------------------------
(****************************************************************************)
(* kernel_main of core/kernel/kernel.c: the order it starts the subsystems  *)
(* in, with the registry, the PCI scan and the network as Devices, Pci and  *)
(* Network have them.  The others start in the Init of their own modules    *)
(* and are one step each here.                                              *)
(****************************************************************************)
EXTENDS Pci, Network

VARIABLE pc   \* the call kernel_main is at

KVars == <<devices, answers, space, pci_devices, at, network_up, packets_sent, next_port, sent, pc>>

\* Mutant: the table is emptied after the devices were detected.
StartOrder_DetectFirst ==
  <<"magic", "memory", "keyboard", "detect_devices", "init_devices", "init_pci", "scan",
    "disk", "vfs", "scheduler", "processes", "syscalls", "network", "shell">>

StartOrder ==
  <<"magic", "memory", "keyboard", "init_devices", "detect_devices", "init_pci", "scan",
    "disk", "vfs", "scheduler", "processes", "syscalls", "network", "shell">>

Place(call) == CHOOSE k \in DOMAIN StartOrder : StartOrder[k] = call

(* kernel_main is at the call and goes on to the next.                      *)
At(call) == pc = call
GoesOn   == pc' = StartOrder[Place(pc) + 1]

(* The magic number is checked, and kernel_panic does not return.           *)
CheckMagic ==
  /\ At("magic")
  /\ GoesOn \/ pc' = "panic"
  /\ UNCHANGED <<DVars, PVars, NVars>>

(* init_memory, init_keyboard, init_disk, vfs_init, init_scheduler,         *)
(* init_processes, init_syscalls.                                           *)
StartOther ==
  /\ pc \in {"memory", "keyboard", "disk", "vfs", "scheduler", "processes", "syscalls"}
  /\ GoesOn
  /\ UNCHANGED <<DVars, PVars, NVars>>

InitDevices ==
  /\ At("init_devices") /\ GoesOn
  /\ devices' = EmptyRegistry
  /\ UNCHANGED <<answers, PVars, NVars>>

DetectDevices ==
  /\ At("detect_devices") /\ GoesOn
  /\ devices' = WithBasics(devices)
  /\ UNCHANGED <<answers, PVars, NVars>>

(* init_pci, and the head of pci_scan_bus.                                  *)
InitPci ==
  /\ At("init_pci") /\ GoesOn
  /\ pci_devices' = <<>>
  /\ at' = <<0, 0, 0>>
  /\ UNCHANGED <<DVars, space, NVars>>

ScanBus ==
  /\ At("scan")
  /\ \/ ScanStep /\ UNCHANGED pc
     \/ at = Done /\ GoesOn /\ UNCHANGED <<DVars, PVars>>
  /\ UNCHANGED NVars

StartNetwork ==
  /\ At("network") /\ GoesOn
  /\ InitNetwork
  /\ UNCHANGED <<DVars, PVars>>

(* What runs once the shell does.                                           *)
Send ==
  /\ At("shell")
  /\ \E dst \in Addresses, port \in PeerPorts, len \in Lengths : TcpSend(dst, port, len)
  /\ UNCHANGED <<DVars, PVars, pc>>

KInit ==
  /\ devices = EmptyRegistry
  /\ answers \in SUBSET Serials
  /\ space \in [Slots -> Wirings]
  /\ pci_devices = <<>>
  /\ at = <<0, 0, 0>>
  /\ NInit
  /\ pc = "magic"

KNext ==
  \/ CheckMagic
  \/ StartOther
  \/ InitDevices
  \/ DetectDevices
  \/ InitPci
  \/ ScanBus
  \/ StartNetwork
  \/ Send

KSpec == KInit /\ [][KNext]_KVars

------------------------------------------------------------------------------
(* The functions of the devices there are, in bus order.                    *)
Before(x, y) ==
  \/ x[1] < y[1]
  \/ x[1] = y[1] /\ x[2] < y[2]
  \/ x[1] = y[1] /\ x[2] = y[2] /\ x[3] < y[3]

Present ==
  {x \in (0 .. Buses - 1) \X (0 .. PCI_MAX_DEVICES - 1) \X FunctionNumbers :
     LET wired == space[<<x[1], x[2]>>]
     IN  /\ wired[x[3]] # Nothing
         /\ wired[x[3]].vendor # <<0, 0>>
         /\ x[3] = 0 \/ wired[0].header >= 128}

\* ScanFindsAll: once the shell runs the PCI table holds the devices there are in bus
\* order, each function once with the fields of its chip, up to the size of the
\* table; a device that answers at functions it does not have is listed once.
ScanFindsAll ==
  pc = "shell" =>
    /\ Len(pci_devices) = Min({Cardinality(Present), PCI_MAX_STORED})
    /\ \A k \in DOMAIN pci_devices :
         LET e == pci_devices[k]
             x == <<e.bus, e.device, e.function>>
             c == space[<<e.bus, e.device>>][e.function]
         IN  /\ x \in Present
             /\ Cardinality({y \in Present : Before(y, x)}) = k - 1
             /\ <<e.vendor_id % 256, e.vendor_id \div 256>> = c.vendor
             /\ <<e.device_id % 256, e.device_id \div 256>> = c.device
             /\ e.class_code = c.class /\ e.subclass = c.subclass
             /\ e.prog_if = c.prog_if /\ e.revision = c.revision
             /\ e.irq = c.irq /\ e.bar0 = c.bar0

(* The devices that are not on the PCI bus.                                 *)
Fixed ==
  <<<<"keyboard", "ps2">>, <<"display", "vga">>>>
    \o (IF "com1" \in answers THEN <<<<"serial", "com1">>>> ELSE <<>>)
    \o (IF "com2" \in answers THEN <<<<"serial", "com2">>>> ELSE <<>>)
    \o <<<<"mouse", "ps2">>>>

ClassNames(class) ==
  {ClassTable[i].name : i \in {j \in DOMAIN ClassTable : ClassTable[j].class = class}}

\* RegistryHoldsAll: once the shell runs the registry lists the keyboard, the display,
\* each serial port that answered, the mouse and then the PCI table in its order,
\* a prefix of them if they are more than it holds, under ids that count from 1.
RegistryHoldsAll ==
  pc = "shell" =>
    /\ ListedDevices(devices) = 1 .. Min({Len(Fixed) + Len(pci_devices), MAX_DEVICES})
    /\ \A k \in ListedDevices(devices) :
         LET d == devices.device_table[k]
         IN  /\ d.id = k
             /\ k =< Len(Fixed) => <<d.type, d.name>> = Fixed[k]
             /\ k > Len(Fixed) =>
                  LET names == ClassNames(pci_devices[k - Len(Fixed)].class_code)
                  IN  d.type = "pci" /\ d.name \in IF names = {} THEN {"unknown"} ELSE names
==============================================================================
