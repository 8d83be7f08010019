----------------------------- MODULE AtaDiskProofs -----------------------------
(****************************************************************************)
(* What the ATA driver moves, for any timeout, sector and count, and        *)
(* whatever the drives do meanwhile.                                        *)
(****************************************************************************)
EXTENDS AtaDisk, NaturalLemmas, SequenceTheorems

Ops      == {"NONE", "IDENTIFY", "READ", "WRITE", "FLUSH"}
Requests == [op : Ops, drive : Drives, lba : Nat, count : Nat]
Sectors  == Ops \X Drives \X Nat

Resting  == {"init", "idle"}
Before   == {"wait_free", "command"}
After    == {"probe", "wait_bsy", "wait_drq", "data", "flush", "wait_flush"}

TypeOK ==
  /\ pc \in Resting \cup Before \cup After
  /\ call \in Requests /\ s \in Nat /\ timeout \in Nat
  /\ present \subseteq Drives /\ selected \in Drives
  /\ mode \in [Drives -> {"ready", "busy", "drq", "error"}]
  /\ command \in [Drives -> Requests]
  /\ moved \in Seq(Sectors) /\ result \in Int /\ failed \in BOOLEAN

(* A drive asks for a sector only while its command has one left.           *)
AsksForMore == \A d \in Drives : mode[d] = "drq" => command[d].count > 0

(* init_disk commands the drives one after the other, each once, and a      *)
(* drive is present only when its IDENTIFY is over.                         *)
Identified ==
  /\ pc = "init" => call.op = "NONE" \/ (call.op = "IDENTIFY" /\ call.drive = 0)
  /\ call.op = "NONE" => /\ pc = "init" /\ present = {}
                         /\ command[0] = NoCommand
  /\ call.op = "NONE" \/ (call.op = "IDENTIFY" /\ call.drive = 0)
       => 1 \notin present /\ command[1] = NoCommand
  /\ call.op = "IDENTIFY" /\ pc \notin Resting => call.drive \notin present

(* From its command on, a call is alone with its drive.                     *)
Alone == /\ pc \in After => selected = call.drive
         /\ pc \notin Resting => result = NoResult

(* What is left for the drive to do of the call in progress.                *)
Rest == Request(call.op, call.drive, Addressed(call.lba) + s, call.count - s)

(* A drive has nothing left of the calls before this one, and of this one   *)
(* either what the driver waits for or nothing.  A failed call leaves its   *)
(* drive with the rest of its command.                                      *)
NothingLeft(d) == command[d].count = 0

Served ==
  /\ \A d \in present : d # call.drive \/ pc \notin After => NothingLeft(d)
  /\ pc \in Before => s = 0 /\ NothingLeft(call.drive)
  /\ pc \in After => command[call.drive] = Rest \/ NothingLeft(call.drive)

(* The sectors moved so far are the first of those the registers address.   *)
MovedSoFar ==
  /\ pc \notin Resting => s =< call.count /\ Len(moved) = s
  /\ pc \notin Resting => \A k \in 1 .. s : moved[k] = <<call.op, call.drive, Addressed(call.lba) + k - 1>>

IInv == /\ TypeOK /\ AsksForMore /\ DataAtRequest /\ Identified /\ Alone
        /\ ~failed => Served /\ MovedSoFar /\ RightSectors

LEMMA InitIInv == Init => IInv
<1> SUFFICES ASSUME Init PROVE IInv
  OBVIOUS
<1>1. NoCommand \in Requests /\ NoCommand.count = 0 /\ NoCommand.op = "NONE"
  BY DEF NoCommand, Request, Requests, Ops, Drives
<1>2. moved \in Seq(Sectors) /\ command[0] = NoCommand /\ command[1] = NoCommand
  BY EmptySeq DEF Init, Drives
<1>3. TypeOK
  BY <1>1, <1>2 DEF Init, TypeOK, Resting, Drives, NoResult
<1> QED
  BY <1>1, <1>2, <1>3
     DEF Init, IInv, AsksForMore, DataAtRequest, Identified, Alone, Served, MovedSoFar,
         RightSectors, NoResult, Resting, Before, After, Drives

\* What the address registers hold of an address.
LEMMA AddressedFacts ==
  ASSUME NEW l \in Nat
  PROVE  Addressed(l) \in Nat /\ (l < LbaRange => Addressed(l) = l)
<1>1. l % LbaRange \in 0 .. LbaRange - 1 /\ (l < LbaRange => l % LbaRange = l)
  BY AtaDiskAssumption, Remainder
<1>2. l % LbaRange \in Nat
  BY <1>1, AtaDiskAssumption
<1> QED BY <1>1, <1>2 DEF Addressed

LEMMA CallFacts ==
  ASSUME TypeOK
  PROVE  /\ call.op \in Ops /\ call.drive \in Drives /\ call.lba \in Nat /\ call.count \in Nat
         /\ \A d \in Drives : /\ command[d] \in Requests /\ command[d].count \in Nat
                              /\ command[d].lba \in Nat
                              /\ command[d].op \in Ops /\ command[d].drive \in Drives
BY DEF TypeOK, Requests

------------------------------------------------------------------------------
\* What the driver does without moving a sector, and what the drives do.
\* A look at the status register, after which the call goes on.
LEMMA GoesOnStep ==
  ASSUME IInv, UNCHANGED <<call, s, present, device, hist>>, timeout' \in Nat,
         \/ pc \in Before /\ pc' \in Before
         \/ pc \in After /\ pc' \in After,
         pc' = "data" => Status = "drq"
  PROVE  IInv'
<1>1. TypeOK' /\ AsksForMore' /\ DataAtRequest'
  BY DEF IInv, TypeOK, AsksForMore, DataAtRequest, Status, device, hist
<1>2. Identified' /\ Alone'
  BY DEF IInv, Identified, Alone, Resting, Before, After, device, hist
<1>3. ASSUME ~failed' PROVE Served' /\ MovedSoFar' /\ RightSectors'
  BY <1>3 DEF IInv, Served, MovedSoFar, RightSectors, NothingLeft, Rest, Asked, Request,
              Addressable, Addressed, Resting, Before, After, device, hist
<1> QED BY <1>1, <1>2, <1>3 DEF IInv

\* A call that fails leaves its drive with what it was at.
LEMMA FailsStep ==
  ASSUME IInv, NEW r \in Int \ {0}, Returns(r), pc \notin Resting,
         UNCHANGED <<s, present, device>>
  PROVE  IInv'
<1>1. /\ pc' \in Resting
      /\ pc' = "init" => call.op = "IDENTIFY" /\ call.drive = 0
      /\ timeout' = 0 /\ result' = r /\ UNCHANGED <<call, moved>>
      /\ ~failed' => ~failed /\ call.op = "IDENTIFY"
      /\ failed' \in BOOLEAN
  BY DEF Returns, Resting, IInv, TypeOK
<1>2. TypeOK' /\ AsksForMore' /\ DataAtRequest'
  BY <1>1 DEF IInv, TypeOK, AsksForMore, DataAtRequest, device, Resting
<1>3. Identified' /\ Alone'
  BY <1>1 DEF IInv, Identified, Alone, Resting, Before, After, device
<1>4. ASSUME ~failed' PROVE Served' /\ MovedSoFar' /\ RightSectors'
  BY <1>1, <1>4 DEF IInv, Identified, Served, MovedSoFar, RightSectors, NothingLeft,
                    Resting, Before, After, device
<1> QED BY <1>2, <1>3, <1>4 DEF IInv

\* A drive that asks for a sector, or stops for an error.
LEMMA DriveStep ==
  ASSUME IInv, NEW d \in Drives, DriveAsks(d) \/ DriveFails(d) PROVE IInv'
<1>1. /\ mode[d] = "busy"
      /\ mode' \in [Drives -> {"ready", "busy", "drq", "error"}]
      /\ \A e \in Drives : e # d => mode'[e] = mode[e]
      /\ mode'[d] = "drq" => command[d].count > 0
      /\ UNCHANGED <<pc, call, s, timeout, present, selected, command, moved, result, failed>>
  BY DEF DriveAsks, DriveFails, IInv, TypeOK, driver, hist
<1>2. TypeOK' /\ AsksForMore'
  BY <1>1 DEF IInv, TypeOK, AsksForMore
<1>3. DataAtRequest'
  BY <1>1 DEF IInv, TypeOK, DataAtRequest, Status
<1>4. Identified' /\ Alone'
  BY <1>1 DEF IInv, Identified, Alone
<1>5. ASSUME ~failed' PROVE Served' /\ MovedSoFar' /\ RightSectors'
  BY <1>1, <1>5 DEF IInv, Served, MovedSoFar, RightSectors, NothingLeft, Rest, Asked,
                    Addressable, Addressed
<1> QED BY <1>2, <1>3, <1>4, <1>5 DEF IInv

\* A call begins with a drive that has nothing left to do.
LEMMA StartsStep ==
  ASSUME IInv, NEW q \in Requests, q.op # "NONE",
         NEW l \in Before, Starts(q, l), pc \in Resting,
         q.op = "IDENTIFY" => /\ q.drive \notin present
                              /\ command[q.drive] = NoCommand
                              /\ q.drive = 0 => 1 \notin present /\ command[1] = NoCommand,
         q.op # "IDENTIFY" => q.drive \in present
  PROVE  IInv'
<1>1. /\ call' = q /\ pc' = l /\ timeout' = Timeout /\ s' = 0 /\ moved' = << >>
      /\ result' = NoResult
      /\ UNCHANGED <<present, selected, mode, command, failed>>
  BY DEF Starts, Goto, device
<1>2. TypeOK'
  BY <1>1, EmptySeq, AtaDiskAssumption DEF IInv, TypeOK, NoResult, Before
<1>3. AsksForMore' /\ DataAtRequest'
  BY <1>1 DEF IInv, AsksForMore, DataAtRequest, Before
<1>4. Identified' /\ Alone'
  BY <1>1 DEF IInv, Identified, Alone, Resting, Before, After
<1>5. ASSUME ~failed' PROVE Served' /\ MovedSoFar' /\ RightSectors'
  <2>1. \A d \in present : NothingLeft(d)
    BY <1>1, <1>5 DEF IInv, Served, Resting, After
  <2>2. NothingLeft(q.drive)
    BY <2>1 DEF NothingLeft, NoCommand, Request
  <2>3. q.count \in Nat
    BY DEF Requests
  <2> QED
    BY <1>1, <1>5, <2>1, <2>2, <2>3, EmptySeq
       DEF Served, MovedSoFar, RightSectors, NothingLeft, NoResult, Resting, Before, After
<1> QED BY <1>2, <1>3, <1>4, <1>5 DEF IInv

LEMMA IdentifyStep == ASSUME IInv, Identify PROVE IInv'
<1> DEFINE q == Request("IDENTIFY", IF call.op = "NONE" THEN 0 ELSE 1, 0, 1)
<1>1. q \in Requests /\ q.op = "IDENTIFY" /\ q.drive = IF call.op = "NONE" THEN 0 ELSE 1
  BY DEF Request, Requests, Ops, Drives
<1>2. pc = "init" /\ Starts(q, "command")
  BY DEF Identify
<1> HIDE DEF q
<1>3. /\ q.drive \notin present /\ command[q.drive] = NoCommand
      /\ q.drive = 0 => 1 \notin present /\ command[1] = NoCommand
  BY <1>1, <1>2 DEF IInv, Identified
<1> QED
  BY <1>1, <1>2, <1>3, StartsStep DEF Before, Resting

LEMMA DiskCallStep ==
  ASSUME IInv, NEW op \in {"READ", "WRITE"}, NEW d \in Drives, NEW lba \in Nat,
         NEW count \in Nat, DiskCall(op, d, lba, count)
  PROVE  IInv'
<1> DEFINE q == Request(op, d, lba, count)
<1>1. q \in Requests /\ q.op \notin {"NONE", "IDENTIFY"} /\ q.drive = d
  BY DEF Request, Requests, Ops
<1>2. pc = "idle" /\ d \in present /\ Starts(q, "wait_free")
  BY DEF DiskCall
<1> HIDE DEF q
<1> QED
  BY <1>1, <1>2, StartsStep DEF Before, Resting

------------------------------------------------------------------------------
\* The waits.
LEMMA DecrementType == \A t \in Nat : Decrement(t) \in Nat
BY AtaDiskAssumption DEF Decrement

LEMMA WaitFreeStep == ASSUME IInv, WaitFree PROVE IInv'
<1>1. CASE Returns(-3)
  BY <1>1, FailsStep DEF WaitFree, WaitBsy, Resting
<1>2. CASE ~Returns(-3)
  <2>1. timeout' \in Nat /\ pc \in Before /\ pc' \in Before
    BY <1>2, DecrementType, AtaDiskAssumption
       DEF WaitFree, WaitBsy, Goto, Before, IInv, TypeOK
  <2> QED BY <1>2, <2>1, GoesOnStep DEF WaitFree, WaitBsy, Before
<1> QED BY <1>1, <1>2

LEMMA WaitSectorStep == ASSUME IInv, WaitSector PROVE IInv'
<1>1. CASE Returns(-4)
  BY <1>1, FailsStep DEF WaitSector, WaitBsy, Resting
<1>2. CASE ~Returns(-4)
  <2>1. timeout' \in Nat /\ pc \in After /\ pc' \in After /\ pc' # "data"
    BY <1>2, DecrementType, AtaDiskAssumption
       DEF WaitSector, WaitBsy, Goto, After, IInv, TypeOK
  <2> QED BY <1>2, <2>1, GoesOnStep DEF WaitSector, WaitBsy
<1> QED BY <1>1, <1>2

LEMMA ProbeStep == ASSUME IInv, Probe PROVE IInv'
<1>1. CASE Returns(-1)
  BY <1>1, FailsStep DEF Probe, Resting
<1>2. CASE ~Returns(-1)
  <2>1. /\ pc \in After /\ pc' \in After /\ pc' # "data" /\ timeout' \in Nat
        /\ UNCHANGED <<call, s, present, device, hist>>
    BY <1>2, AtaDiskAssumption DEF Probe, Goto, After
  <2> QED BY <2>1, GoesOnStep
<1> QED BY <1>1, <1>2

LEMMA WaitDrqStep == ASSUME IInv, WaitDrq PROVE IInv'
<1>1. CASE Returns(-5) /\ UNCHANGED <<s, present, device>>
  BY <1>1, FailsStep DEF WaitDrq, Resting
<1>2. CASE /\ Goto("data") /\ Requested
           /\ UNCHANGED <<call, s, present, device, hist>>
  <2>1. pc \in After /\ pc' \in After /\ timeout' \in Nat /\ Status = "drq"
    BY <1>2, AtaDiskAssumption DEF WaitDrq, Goto, After, Requested
  <2> QED BY <1>2, <2>1, GoesOnStep
<1>3. CASE timeout' = Decrement(timeout) /\ UNCHANGED <<pc, call, s, present, device, hist>>
  <2>1. pc \in After /\ pc' \in After /\ pc' # "data" /\ timeout' \in Nat
    BY <1>3, DecrementType DEF WaitDrq, After, IInv, TypeOK
  <2> QED BY <1>3, <2>1, GoesOnStep
<1> QED BY <1>1, <1>2, <1>3 DEF WaitDrq

\* A write that is over has moved its last sector, and its flush is not looked at.
LEMMA WaitFlushStep == ASSUME IInv, WaitFlush PROVE IInv'
<1>1. CASE ~Returns(0)
  <2>1. /\ pc \in After /\ pc' \in After /\ pc' # "data" /\ timeout' \in Nat
        /\ UNCHANGED <<call, s, present, device, hist>>
    BY <1>1, DecrementType, AtaDiskAssumption DEF WaitFlush, Goto, After, IInv, TypeOK
  <2> QED BY <2>1, GoesOnStep
<1>2. CASE Returns(0)
  <2>1. /\ pc = "wait_flush" /\ Done(s)
        /\ pc' \in Resting
        /\ pc' = "init" => call.op = "IDENTIFY" /\ call.drive = 0
        /\ timeout' = 0 /\ result' = 0 /\ UNCHANGED <<call, moved, failed, s, present, device>>
    BY <1>2, AtaDiskAssumption DEF WaitFlush, Returns, Goto, Resting, IInv, TypeOK
  <2>2. TypeOK' /\ AsksForMore' /\ DataAtRequest'
    BY <2>1 DEF IInv, TypeOK, AsksForMore, DataAtRequest, device, Resting
  <2>3. Identified' /\ Alone'
    BY <2>1 DEF IInv, Identified, Alone, Resting, Before, After, device
  <2>4. ASSUME ~failed PROVE Served' /\ MovedSoFar' /\ RightSectors'
    <3>1. /\ s = call.count /\ Len(moved) = s /\ s \in Nat
          /\ \A k \in 1 .. s : moved[k] = <<call.op, call.drive, Addressed(call.lba) + k - 1>>
      BY <2>1, <2>4, CallFacts DEF IInv, TypeOK, MovedSoFar, Done, Resting
    <3>2. Addressable => moved = Asked
      <4>1. Addressable => Addressed(call.lba) = call.lba
        BY CallFacts, AddressedFacts DEF IInv, Addressable
      <4> QED BY <3>1, <4>1, LenProperties DEF IInv, TypeOK, Asked
    <3>3. command[call.drive] = Rest \/ NothingLeft(call.drive)
      BY <2>1, <2>4 DEF IInv, Served, After
    <3>4. NothingLeft(call.drive)
      BY <3>1, <3>3 DEF NothingLeft, Rest, Request
    <3> QED
      BY <2>1, <2>4, <3>2, <3>4
         DEF IInv, Served, MovedSoFar, RightSectors, NothingLeft, Asked, Addressable,
             Addressed, Resting, Before, After, device
  <2> QED BY <2>1, <2>2, <2>3, <2>4 DEF IInv
<1> QED BY <1>1, <1>2

------------------------------------------------------------------------------
\* Commands: the drive hears the call's, or goes on having nothing to do.
LEMMA CommandStep ==
  ASSUME IInv, NEW q \in Requests, q.drive = call.drive, Command(q),
         UNCHANGED <<call, s, present, hist>>, timeout' \in Nat,
         pc \in {"command", "flush"}, pc' \in After \ {"data"},
         pc = "command" => q = Request(call.op, call.drive, Addressed(call.lba), call.count),
         pc = "flush" => q.count = 0
  PROVE  IInv'
<1>1. /\ selected' = call.drive /\ call.drive \in Drives
      /\ mode' \in [Drives -> {"ready", "busy", "drq", "error"}]
      /\ command' \in [Drives -> Requests]
      /\ \A d \in Drives : d # call.drive => command'[d] = command[d]
      /\ command'[call.drive] \in {command[call.drive], q}
      /\ \A d \in Drives : mode'[d] = "drq" => mode[d] = "drq" /\ command'[d] = command[d]
  <2>1. /\ call.drive \in Drives /\ selected' = call.drive
        /\ mode \in [Drives -> {"ready", "busy", "drq", "error"}]
        /\ command \in [Drives -> Requests]
    BY CallFacts DEF IInv, TypeOK, Command, SelectDrive
  <2>2. CASE UNCHANGED <<mode, command>>
    BY <2>1, <2>2
  <2>3. CASE /\ mode' = [mode EXCEPT ![call.drive] = "busy"]
             /\ command' = [command EXCEPT ![call.drive] = q]
    BY <2>1, <2>3
  <2> QED BY <2>2, <2>3 DEF Command
<1>2. TypeOK'
  BY <1>1 DEF IInv, TypeOK, hist
<1>3. AsksForMore' /\ DataAtRequest'
  BY <1>1 DEF IInv, AsksForMore, DataAtRequest
<1>4. Identified' /\ Alone'
  BY <1>1 DEF IInv, Identified, Alone, Resting, Before, After, hist, Drives
<1>5. ASSUME ~failed PROVE Served' /\ MovedSoFar' /\ RightSectors'
  <2>1. command'[call.drive] = Rest \/ command'[call.drive].count = 0
    <3>1. CASE pc = "command"
      <4>1. s = 0 /\ NothingLeft(call.drive)
        BY <1>5, <3>1 DEF IInv, Served, Before
      <4>2. q = Rest
        <5>1. Addressed(call.lba) + s = Addressed(call.lba) /\ call.count - s = call.count
          BY <4>1, CallFacts, AddressedFacts DEF IInv
        <5> QED BY <3>1, <5>1 DEF Rest
      <4> QED BY <1>1, <3>1, <4>1, <4>2 DEF NothingLeft
    <3>2. CASE pc = "flush"
      BY <1>1, <1>5, <3>2 DEF IInv, Served, NothingLeft, After
    <3> QED BY <3>1, <3>2
  <2>2. Rest' = Rest
    BY DEF Rest, Request, Addressed
  <2>3. Served'
    <3>1. \A d \in present : d # call.drive => command'[d].count = 0
      BY <1>1, <1>5 DEF IInv, TypeOK, Served, NothingLeft
    <3> QED BY <2>1, <2>2, <3>1 DEF Served, NothingLeft, Before, After
  <2>4. MovedSoFar' /\ RightSectors'
    BY <1>5 DEF IInv, MovedSoFar, RightSectors, Asked, Addressable, Addressed,
                Resting, After, hist
  <2> QED BY <2>3, <2>4
<1> QED BY <1>2, <1>3, <1>4, <1>5 DEF IInv, hist

LEMMA SendCommandStep == ASSUME IInv, SendCommand PROVE IInv'
<1> DEFINE q == Request(call.op, call.drive, Addressed(call.lba), call.count)
<1>1. q \in Requests /\ q.drive = call.drive
  BY CallFacts, AddressedFacts DEF IInv, Request, Requests
<1>2. timeout' \in Nat /\ pc' \in After \ {"data"}
  BY AtaDiskAssumption DEF SendCommand, Goto, After
<1>3. pc = "command" /\ Command(q) /\ UNCHANGED <<call, s, present, hist>>
  BY DEF SendCommand
<1>4. q = Request(call.op, call.drive, Addressed(call.lba), call.count)
  OBVIOUS
<1> HIDE DEF q
<1> QED BY <1>1, <1>2, <1>3, <1>4, CommandStep

LEMMA FlushStep == ASSUME IInv, Flush PROVE IInv'
<1> DEFINE q == Request("FLUSH", call.drive, 0, 0)
<1>1. q \in Requests /\ q.drive = call.drive /\ q.count = 0
  BY CallFacts DEF IInv, Request, Requests, Ops
<1>2. timeout' \in Nat /\ pc' \in After \ {"data"}
  BY AtaDiskAssumption DEF Flush, Goto, After
<1>3. /\ pc = "flush" /\ Command(q) /\ UNCHANGED <<call, s, present, hist>>
  BY DEF Flush
<1> HIDE DEF q
<1> QED BY <1>1, <1>2, <1>3, CommandStep

\* What is left of a request when it is further on.
LEMMA ExceptRequest ==
  ASSUME NEW q \in Requests, NEW l \in Nat, NEW n \in Int
  PROVE  [q EXCEPT !.lba = l, !.count = n] = Request(q.op, q.drive, l, n)
<1>1. [q EXCEPT !.lba = l] = Request(q.op, q.drive, l, q.count)
  BY DEF Request, Requests
<1>2. [Request(q.op, q.drive, l, q.count) EXCEPT !.count = n] = Request(q.op, q.drive, l, n)
  BY DEF Request
<1>3. [q EXCEPT !.lba = l, !.count = n] = [[q EXCEPT !.lba = l] EXCEPT !.count = n]
  OBVIOUS
<1> QED BY <1>1, <1>2, <1>3

\* The driver moves the sector it has come to, for the drive is at no other.
LEMMA MoveSectorStep == ASSUME IInv, MoveSector PROVE IInv'
<1> DEFINE d == call.drive
           c == command[d]
<1>1. /\ selected = d /\ d \in Drives /\ d \in Connected /\ mode[d] = "drq"
      /\ c.count > 0 /\ c.count \in Nat /\ c \in Requests
  <2>1. pc = "data" /\ selected = d /\ d \in Drives /\ c \in Requests /\ c.count \in Nat
    BY CallFacts DEF MoveSector, IInv, Alone, After
  <2>2. d \in Connected /\ mode[d] = "drq"
    BY <2>1 DEF IInv, DataAtRequest, Status
  <2> QED BY <2>1, <2>2 DEF IInv, AsksForMore
<1>2. /\ moved' = Append(moved, <<c.op, c.drive, c.lba>>)
      /\ command' = [command EXCEPT ![d] = [c EXCEPT !.lba = c.lba + 1, !.count = c.count - 1]]
      /\ mode' = [mode EXCEPT ![d] = "busy"]
      /\ s' = s + 1
      /\ UNCHANGED <<call, selected, failed>>
  BY <1>1 DEF MoveSector, DriveMoves
<1>3. \/ /\ pc' \in {"flush", "wait_bsy"} /\ timeout' = Timeout /\ UNCHANGED <<present, result>>
      \/ /\ pc' \in Resting /\ (pc' = "init" => call.op = "IDENTIFY" /\ d = 0)
         /\ Done(s + 1) /\ timeout' = 0 /\ result' = 0
         /\ present' = IF call.op = "IDENTIFY" THEN present \cup {d} ELSE present
  BY DEF MoveSector, Goto, Resting
<1>4. /\ c.lba \in Nat /\ c.op \in Ops /\ c.drive \in Drives
      /\ call.lba \in Nat /\ call.count \in Nat /\ s \in Nat
      /\ moved \in Seq(Sectors) /\ pc = "data"
  BY CallFacts DEF IInv, TypeOK, MoveSector
<1>5. /\ moved' \in Seq(Sectors) /\ Len(moved') = Len(moved) + 1
      /\ \A k \in 1 .. Len(moved) : moved'[k] = moved[k]
      /\ moved'[Len(moved) + 1] = <<c.op, c.drive, c.lba>>
  <2>1. <<c.op, c.drive, c.lba>> \in Sectors
    BY <1>4 DEF Sectors
  <2> QED BY <1>2, <1>4, <2>1, AppendProperties
<1>6. /\ command' \in [Drives -> Requests] /\ command'[d].count = c.count - 1
      /\ command'[d].lba = c.lba + 1 /\ command'[d].op = c.op /\ command'[d].drive = c.drive
      /\ \A e \in Drives : e # d => command'[e] = command[e]
  <2>1. [c EXCEPT !.lba = c.lba + 1, !.count = c.count - 1]
          = Request(c.op, c.drive, c.lba + 1, c.count - 1)
    <3>1. c \in Requests /\ c.lba + 1 \in Nat /\ c.count - 1 \in Int
      BY <1>1, <1>4
    <3> HIDE DEF c
    <3> QED BY <3>1, ExceptRequest
  <2>2. c.count - 1 \in Nat
    BY <1>1
  <2> HIDE DEF c
  <2>3. Request(c.op, c.drive, c.lba + 1, c.count - 1) \in Requests
    BY <1>4, <2>2 DEF Request, Requests
  <2>4. command' = [command EXCEPT ![d] = Request(c.op, c.drive, c.lba + 1, c.count - 1)]
    BY <1>2, <2>1
  <2>5. /\ command' \in [Drives -> Requests]
        /\ command'[d] = Request(c.op, c.drive, c.lba + 1, c.count - 1)
        /\ \A e \in Drives : e # d => command'[e] = command[e]
    BY <1>1, <2>3, <2>4 DEF IInv, TypeOK
  <2> QED BY <2>5 DEF Request
<1> HIDE DEF c
<1>7. TypeOK'
  <2>1. mode' \in [Drives -> {"ready", "busy", "drq", "error"}]
    BY <1>1, <1>2 DEF IInv, TypeOK
  <2>2. pc' \in Resting \cup Before \cup After /\ timeout' \in Nat
    BY <1>3, AtaDiskAssumption DEF After
  <2>3. present' \subseteq Drives /\ result' \in Int
    BY <1>1, <1>3 DEF IInv, TypeOK
  <2>4. /\ call' \in Requests /\ s' \in Nat /\ selected' \in Drives
        /\ failed' \in BOOLEAN
    BY <1>2, <1>4 DEF IInv, TypeOK
  <2> QED BY <1>5, <1>6, <2>1, <2>2, <2>3, <2>4 DEF TypeOK
<1>8. AsksForMore' /\ DataAtRequest'
  BY <1>1, <1>2, <1>3, <1>6 DEF IInv, TypeOK, AsksForMore, DataAtRequest, Resting
<1>9. Identified' /\ Alone'
  BY <1>1, <1>2, <1>3, <1>4, <1>6 DEF IInv, Identified, Alone, Resting, After, Drives
<1>10. ASSUME ~failed PROVE Served' /\ MovedSoFar' /\ RightSectors'
  <2> DEFINE at == Addressed(call.lba)
  <2>0. /\ at \in Nat /\ at' = at
        /\ Addressable => at = call.lba
    BY <1>2, <1>4, AddressedFacts DEF Addressable, Addressed
  <2>1. c = Rest
    BY <1>1, <1>4, <1>10 DEF IInv, Served, NothingLeft, After, c
  <2>2. c.op = call.op /\ c.drive = d /\ c.lba = at + s /\ c.count = call.count - s
    BY <2>1 DEF Rest, Request
  <2>3. /\ Len(moved) = s
        /\ \A k \in 1 .. s : moved[k] = <<call.op, d, at + k - 1>>
    BY <1>4, <1>10 DEF IInv, MovedSoFar, Resting
  <2>4. s + 1 =< call.count /\ Len(moved') = s + 1
        /\ \A k \in 1 .. s + 1 : moved'[k] = <<call.op, d, at + k - 1>>
    <3>1. s + 1 =< call.count /\ Len(moved') = s + 1
      BY <1>1, <1>4, <1>5, <2>2, <2>3
    <3>2. moved'[s + 1] = <<call.op, d, at + s>>
      BY <1>5, <2>2, <2>3
    <3>3. ASSUME NEW k \in 1 .. s + 1
          PROVE  moved'[k] = <<call.op, d, at + k - 1>>
      <4>1. CASE k = s + 1
        <5>1. at + k - 1 = at + s
          BY <1>4, <2>0, <4>1
        <5> QED BY <3>2, <4>1, <5>1
      <4>2. CASE k # s + 1
        <5>1. k \in 1 .. s
          BY <1>4, <4>2
        <5> QED BY <1>5, <2>3, <5>1
      <4> QED BY <4>1, <4>2
    <3> QED BY <3>1, <3>3
  <2>5. command'[d] = Rest'
    <3>1. Rest' = Request(call.op, d, at + s + 1, call.count - s - 1)
      <4>1. /\ at + s' = at + s + 1 /\ call.count - s' = call.count - s - 1
            /\ call' = call
        <5>1. s' = s + 1 /\ call' = call
          BY <1>2
        <5>2. s \in Nat /\ at \in Nat /\ call.count \in Nat
          BY <1>4, <2>0
        <5> QED BY <5>1, <5>2
      <4> QED BY <2>0, <4>1 DEF Rest
    <3>2. command'[d] \in Requests
      BY <1>1, <1>6
    <3> QED BY <1>4, <1>6, <2>2, <3>1, <3>2 DEF Request, Requests
  <2>6. \A e \in present : e # d => command'[e].count = 0
    BY <1>6, <1>10 DEF IInv, TypeOK, Served, NothingLeft
  <2>7. CASE pc' \in {"flush", "wait_bsy"}
    <3>1. UNCHANGED <<present, result>>
      BY <1>3, <2>7 DEF Resting
    <3>2. Served'
      BY <1>2, <2>5, <2>6, <2>7, <3>1 DEF Served, NothingLeft, Before, After
    <3>3. MovedSoFar'
      BY <1>2, <2>4 DEF MovedSoFar
    <3>4. RightSectors'
      BY <1>4, <3>1 DEF IInv, Alone, RightSectors, NoResult, Resting
    <3> QED BY <3>2, <3>3, <3>4
  <2>8. CASE pc' \in Resting
    <3>1. Done(s + 1) /\ present' \subseteq present \cup {d}
      BY <1>3, <2>8 DEF Resting
    <3>2. s + 1 = call.count
      BY <1>4, <2>4, <3>1 DEF Done
    <3>3. Addressable' => moved' = Asked'
      <4>1. Addressable' => Addressable
        BY <1>2 DEF Addressable
      <4>2. Addressable => at = call.lba
        BY <2>0
      <4> QED BY <1>2, <1>5, <2>4, <3>2, <4>1, <4>2, LenProperties DEF Asked
    <3>4. command'[d].count = 0
      BY <1>4, <1>6, <2>2, <3>2
    <3>5. Served'
      BY <1>2, <2>6, <2>8, <3>1, <3>4 DEF Served, NothingLeft, Resting, Before, After
    <3> QED BY <2>8, <3>3, <3>5 DEF MovedSoFar, RightSectors
  <2> QED BY <1>3, <2>7, <2>8
<1> QED BY <1>2, <1>7, <1>8, <1>9, <1>10 DEF IInv

LEMMA StutterStep == ASSUME IInv, UNCHANGED vars PROVE IInv'
BY DEF IInv, TypeOK, AsksForMore, DataAtRequest, Status, Identified, Alone, Served,
       MovedSoFar, RightSectors, NothingLeft, Rest, Asked, Addressable, Addressed,
       vars, driver, device, hist

LEMMA NextIInv == IInv /\ [Next]_vars => IInv'
<1> SUFFICES ASSUME IInv, [Next]_vars PROVE IInv'
  OBVIOUS
<1>1. CASE Step
  BY <1>1, IdentifyStep, WaitFreeStep, SendCommandStep, ProbeStep, WaitSectorStep,
     WaitDrqStep, MoveSectorStep, FlushStep, WaitFlushStep DEF Step
<1>2. CASE \E op \in {"READ", "WRITE"}, d \in Drives, lba \in Lbas, n \in Counts :
             DiskCall(op, d, lba, n)
  BY <1>2, DiskCallStep, AtaDiskAssumption
<1>3. CASE \E d \in Drives : MountFilesystem(d)
  BY <1>3, DiskCallStep DEF MountFilesystem
<1>4. CASE \E d \in Drives : DriveAsks(d) \/ DriveFails(d)
  BY <1>4, DriveStep
<1> QED
  BY <1>1, <1>2, <1>3, <1>4, StutterStep DEF Next

\* The inductive invariant of the driver and its drives.
THEOREM AtaDiskInvariant == Spec => []IInv
BY InitIInv, NextIInv, PTL DEF Spec

\* No sector is moved but at the request of the selected drive.
THEOREM AtaDataAtRequest == Spec => []DataAtRequest
<1>1. IInv => DataAtRequest
  BY DEF IInv
<1> QED BY <1>1, AtaDiskInvariant, PTL

\* Until a call fails, one with an address of 28 bits that returns 0 has moved its
\* sectors and no others.
THEOREM AtaRightSectors == Spec => []RightSectors
<1>1. IInv => RightSectors
  BY DEF IInv, RightSectors
<1> QED BY <1>1, AtaDiskInvariant, PTL
==============================================================================
