------------------------------- MODULE AtaDisk -------------------------------
(****************************************************************************)
(* The ATA driver of core/kernel/disk.c on one channel: init_disk,          *)
(* disk_read and disk_write, one step for each look at the status register, *)
(* each command and each sector of data.                                    *)
(*                                                                          *)
(* The two drives of the channel are external.  One that is busy may stay   *)
(* so for ever, ask for the next sector or report an error; it does not     *)
(* hear a command.  One that is not busy takes any command, in place of the *)
(* one it was at.  Of the data only the place is kept: which drive and      *)
(* which sector they come from or go to.                                    *)
(****************************************************************************)
EXTENDS Integers, Sequences, FiniteSets

CONSTANTS Connected,   \* the drives that are there: master 0, slave 1
          Timeout,     \* tries of a wait, 100000 in the code
          Word,        \* number of values of u32
          LbaRange,    \* sectors a command can address, 2^28 in the code
          Lbas,        \* the first sectors callers ask for
          Counts       \* the sector counts they ask for

ASSUME AtaDiskAssumption ==
  /\ Connected \subseteq {0, 1}
  /\ Timeout \in Nat \ {0} /\ Word \in Nat /\ Timeout < Word
  /\ LbaRange \in Nat \ {0}
  /\ Lbas \subseteq Nat /\ Counts \subseteq 1 .. 255

Drives == {0, 1}

VARIABLES pc,          \* where the driver is
          call,        \* the call in progress: [op, drive, lba, count]
          s,           \* sectors it has moved
          timeout,     \* the counter of the wait it is in
          present,     \* drives[].present, as a set
          selected,    \* the drive the channel's registers belong to
          mode,        \* external: drive -> "ready", "busy", "drq" or "error"
          command,     \* external: drive -> the command it is at
          moved,       \* history: the sectors the call moved, as the drive knows them
          result,      \* history: of the latest call, NoResult while it runs
          failed       \* history: has a disk_read or disk_write failed

driver == <<pc, call, s, timeout, present>>
device == <<selected, mode, command>>
hist   == <<moved, result, failed>>
vars   == <<driver, device, hist>>

Request(op, d, lba, count) == [op |-> op, drive |-> d, lba |-> lba, count |-> count]
NoCommand == Request("NONE", 0, 0, 0)
NoResult  == 1

Status == IF selected \in Connected THEN mode[selected] ELSE "absent"

------------------------------------------------------------------------------
(* External: a drive goes on with its command, unless the next sector is    *)
(* past those that have an address.                                         *)
DriveAsks(d) ==
  /\ mode[d] = "busy"
  /\ command[d].count > 0 => command[d].lba < LbaRange
  /\ mode' = [mode EXCEPT ![d] = IF command[d].count > 0 THEN "drq" ELSE "ready"]
  /\ UNCHANGED <<driver, selected, command, hist>>

DriveFails(d) ==
  /\ mode[d] = "busy"
  /\ mode' = [mode EXCEPT ![d] = "error"]
  /\ UNCHANGED <<driver, selected, command, hist>>

(* The registers of the channel become those of drive d.                    *)
SelectDrive(d) == selected' = d

(* External: request q is written to the command register.                  *)
Command(q) ==
  /\ SelectDrive(q.drive)
  /\ IF q.drive \notin Connected \/ mode[q.drive] = "busy"
     THEN UNCHANGED <<mode, command>>
     ELSE /\ mode' = [mode EXCEPT ![q.drive] = "busy"]
          /\ command' = [command EXCEPT ![q.drive] = q]

------------------------------------------------------------------------------
Goto(l) == pc' = l /\ timeout' = Timeout

Returns(r) ==
  /\ pc' = IF call.op = "IDENTIFY" /\ call.drive = 0 THEN "init" ELSE "idle"
  /\ timeout' = 0
  /\ result' = r
  /\ failed' = (failed \/ (r # 0 /\ call.op # "IDENTIFY"))
  /\ UNCHANGED <<call, moved>>

Starts(q, l) ==
  /\ call' = q
  /\ Goto(l)
  /\ s' = 0
  /\ moved' = <<>>
  /\ result' = NoResult
  /\ UNCHANGED <<present, device, failed>>

(* init_disk identifies the master, then the slave.                         *)
Identify ==
  /\ pc = "init"
  /\ Starts(Request("IDENTIFY", IF call.op = "NONE" THEN 0 ELSE 1, 0, 1), "command")

(* disk_read and disk_write of a drive that is present; otherwise they      *)
(* return -1 or -2 at once.                                                 *)
DiskCall(op, d, lba, count) ==
  /\ pc = "idle" /\ d \in present
  /\ Starts(Request(op, d, lba, count), "wait_free")

(* mount_filesystem reads the first sector; what it finds there is only     *)
(* returned.                                                                *)
MountFilesystem(d) == DiskCall("READ", d, 0, 1)

\* Mutant: the counter is left where it is.
Decrement_Not(t) == t

Decrement(t) == IF t = 0 THEN Word - 1 ELSE t - 1

(* ata_wait_bsy: where it goes when it returns TRUE and what is returned    *)
(* when it returns FALSE.  The counter wraps when it is used up, so that a  *)
(* wait that ends without an answer is one that succeeds.                   *)
BsyOver == Status # "busy" \/ timeout = 0

TimeoutAtEnd == IF Status # "busy" THEN timeout ELSE Decrement(timeout)

WaitBsy(at, next, error) ==
  /\ pc = at
  /\ \/ /\ ~BsyOver
        /\ timeout' = Decrement(timeout)
        /\ UNCHANGED <<pc, call, s, present, device, hist>>
     \/ /\ BsyOver /\ TimeoutAtEnd > 0
        /\ Goto(next)
        /\ UNCHANGED <<call, s, present, device, hist>>
     \/ /\ BsyOver /\ TimeoutAtEnd = 0
        /\ Returns(error)
        /\ UNCHANGED <<s, present, device>>

(* The first wait looks at whichever drive was selected before.             *)
WaitFree == WaitBsy("wait_free", "command", -3)

(* The four address registers hold 28 bits; nothing looks at the others.    *)
Addressed(lba) == lba % LbaRange

SendCommand ==
  /\ pc = "command"
  /\ Command(Request(call.op, call.drive, Addressed(call.lba), call.count))
  /\ Goto(IF call.op = "IDENTIFY" THEN "probe" ELSE "wait_bsy")
  /\ UNCHANGED <<call, s, present, hist>>

(* ata_identify: no drive has status 0; some drives are not ATA.            *)
Probe ==
  /\ pc = "probe"
  /\ \/ Status # "absent" /\ Goto("wait_bsy") /\ UNCHANGED <<call, hist>>
     \/ Returns(-1)
  /\ UNCHANGED <<s, present, device>>

WaitSector == WaitBsy("wait_bsy", "wait_drq", -4)

\* Mutant: a drive that is not busy is taken to ask for data.
Requested_Ready == Status \in {"drq", "ready"}

Requested == Status = "drq"

(* ata_wait_drq: an error or a counter at 0 is FALSE, though DRQ be set.    *)
WaitDrq ==
  LET left == Decrement(timeout)
  IN  /\ pc = "wait_drq"
      /\ \/ /\ Status = "error" \/ left = 0
            /\ Returns(-5)
            /\ UNCHANGED <<s, present, device>>
         \/ /\ Requested /\ Status # "error" /\ left > 0
            /\ Goto("data")
            /\ UNCHANGED <<call, s, present, device, hist>>
         \/ /\ ~Requested /\ Status # "error" /\ left > 0
            /\ timeout' = left
            /\ UNCHANGED <<pc, call, s, present, device, hist>>

(* External: the selected drive moves the sector it asked for and works on. *)
DriveMoves ==
  LET q == command[selected]
  IN  /\ moved' = Append(moved, <<q.op, q.drive, q.lba>>)
      /\ command' = [command EXCEPT ![selected] =
                       [q EXCEPT !.lba = @ + 1, !.count = @ - 1]]
      /\ mode' = [mode EXCEPT ![selected] = "busy"]

\* Mutant: the loop leaves out the last sector.
Done_OneLess(n) == n + 1 >= call.count

Done(n) == n >= call.count

(* disk_read, disk_write: 256 words through the data register; a write flushes after each sector,  *)
(* a read goes on with the next, IDENTIFY has but one.                      *)
MoveSector ==
  /\ pc = "data"
  /\ DriveMoves
  /\ s' = s + 1
  /\ UNCHANGED <<call, selected, failed>>
  /\ IF call.op = "WRITE" \/ ~Done(s + 1)
     THEN /\ Goto(IF call.op = "WRITE" THEN "flush" ELSE "wait_bsy")
          /\ UNCHANGED <<present, result>>
     ELSE /\ pc' = IF call.op = "IDENTIFY" /\ call.drive = 0 THEN "init" ELSE "idle"
          /\ timeout' = 0
          /\ result' = 0
          /\ present' = IF call.op = "IDENTIFY" THEN present \cup {call.drive}
                        ELSE present

Flush ==
  /\ pc = "flush"
  /\ Command(Request("FLUSH", call.drive, 0, 0))
  /\ Goto("wait_flush")
  /\ UNCHANGED <<call, s, present, hist>>

(* The result of the wait for the flush is not looked at.                   *)
WaitFlush ==
  /\ pc = "wait_flush"
  /\ UNCHANGED <<s, present, device>>
  /\ \/ /\ ~BsyOver
        /\ timeout' = Decrement(timeout)
        /\ UNCHANGED <<pc, call, hist>>
     \/ /\ BsyOver /\ ~Done(s)
        /\ Goto("wait_bsy")
        /\ UNCHANGED <<call, hist>>
     \/ /\ BsyOver /\ Done(s)
        /\ Returns(0)

------------------------------------------------------------------------------
Init == /\ pc = "init" /\ call = NoCommand /\ s = 0 /\ timeout = 0 /\ present = {}
        /\ selected = 0
        /\ mode = [d \in Drives |-> "ready"]
        /\ command = [d \in Drives |-> NoCommand]
        /\ moved = <<>> /\ result = NoResult /\ failed = FALSE

Step == \/ Identify \/ WaitFree \/ SendCommand \/ Probe \/ WaitSector \/ WaitDrq
        \/ MoveSector \/ Flush \/ WaitFlush

Next == \/ Step
        \/ \E op \in {"READ", "WRITE"}, d \in Drives, lba \in Lbas, n \in Counts :
             DiskCall(op, d, lba, n)
        \/ \E d \in Drives : MountFilesystem(d)
        \/ \E d \in Drives : DriveAsks(d) \/ DriveFails(d)

(* The processor goes on; the drives may stop at any time.                  *)
Spec == Init /\ [][Next]_vars /\ WF_vars(Step)

------------------------------------------------------------------------------
\* DataAtRequest: the driver moves a sector only while the selected drive asks for
\* one, through every timeout and error before it.
DataAtRequest == pc = "data" => Status = "drq"

(* The sectors a call is about, in order.                                   *)
Asked == [k \in 1 .. call.count |-> <<call.op, call.drive, call.lba + k - 1>>]

(* The registers hold its address whole.  Of any other call, which is made  *)
(* all the same, they hold the address of another sector.                   *)
Addressable == call.lba < LbaRange

\* RightSectors: until a call fails, one that is addressable and returns 0 has moved
\* the sectors it was called for, each once and in order, on its own drive and in
\* its own direction, however late the drives answer and whatever a wrapped timeout
\* hid.
RightSectors == result = 0 /\ Addressable /\ ~failed => moved = Asked

\* RightSectorsAlways: "Lê um ou mais setores do disco a partir do endereço LBA
\* especificado" (src/core/kernel/disk.c:178): the same after a failure.
RightSectorsAlways == result = 0 /\ Addressable => moved = Asked

\* CallReturns: each call returns, whatever the drives do.
CallReturns == (pc # "idle") ~> (pc = "idle")
==============================================================================
