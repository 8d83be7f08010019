----------------------------- MODULE KernelProofs -----------------------------
(****************************************************************************)
(* kernel_main's order, the device registry, the bus scan and the IP        *)
(* headers of tcp_send, for any buses, chips, table sizes and packets.      *)
(****************************************************************************)
EXTENDS Kernel, NaturalLemmas

(* The packets that were sent: their sums, lengths and numbers.             *)
Verifies(i) ==
  /\ Folded(Total(sent[i].ip)) = Word - 1
  /\ sent[i].len \in Nat /\ sent[i].len =< MaxLength
  /\ sent[i].ip[2] = htons(40 + sent[i].len)
  /\ sent[i].ip[3] = htons((i - 1) % Word)
  /\ sent[i].tcp[1] = htons((49152 + i - 1) % Word)

NetworkInv ==
  /\ network_up \in BOOLEAN
  /\ sent \in Seq([ip : [1 .. 10 -> Nat], tcp : [1 .. 10 -> Nat], len : Nat])
  /\ ~ network_up => sent = <<>>
  /\ network_up => /\ packets_sent = Len(sent)
                   /\ next_port = (49152 + Len(sent)) % Word
  /\ \A i \in 1 .. Len(sent) : Verifies(i)

(* The registry holds a list of types and names, as much of it as fits.     *)
Held(list)     == IF Len(list) < MAX_DEVICES THEN Len(list) ELSE MAX_DEVICES
Device(d, i)   == [active |-> TRUE, id |-> i, type |-> d[1], name |-> d[2]]
Table(list, n) == [i \in 1 .. MAX_DEVICES |-> IF i =< n THEN Device(list[i], i) ELSE Inactive]

Lists(r, list) ==
  r = [device_table |-> Table(list, Held(list)), device_count |-> Held(list),
       next_device_id |-> Held(list) + 1]

(* What is registered: the devices off the bus, then those of the table.    *)
OnBus   == [k \in 1 .. Len(pci_devices) |->
              <<"pci", ClassName(pci_devices[k].class_code, pci_devices[k].subclass)>>]
Listing == Fixed \o OnBus

Places  == (0 .. Buses - 1) \X (0 .. PCI_MAX_DEVICES - 1) \X FunctionNumbers

(* The devices the scan has passed.                                         *)
Passed(place) == {x \in Present : Before(x, place)}

(* An entry has the fields of a chip; the k-th is of the k-th device.       *)
Matches(e, c) ==
  /\ <<e.vendor_id % 256, e.vendor_id \div 256>> = c.vendor
  /\ <<e.device_id % 256, e.device_id \div 256>> = c.device
  /\ e.class_code = c.class /\ e.subclass = c.subclass
  /\ e.prog_if = c.prog_if /\ e.revision = c.revision
  /\ e.irq = c.irq /\ e.bar0 = c.bar0

Found(k) ==
  LET e == pci_devices[k]
      x == <<e.bus, e.device, e.function>>
  IN  /\ x \in Present
      /\ Cardinality({y \in Present : Before(y, x)}) = k - 1
      /\ Matches(e, space[<<e.bus, e.device>>][e.function])

Fields == [bus : Nat, device : Nat, function : Nat, vendor_id : Nat, device_id : Nat,
           class_code : Bytes, subclass : Bytes, prog_if : Bytes, revision : Bytes,
           irq : Bytes, bar0 : Bytes \X Bytes \X Bytes \X Bytes]

(* The scan has stored the devices it has passed; past function 0 of a slot *)
(* it is only where that function says there are more.                      *)
ScanInv ==
  /\ pci_devices \in Seq(Fields)
  /\ at \in Places \cup {Done}
  /\ at # Done /\ at[3] # 0 => LET w == space[<<at[1], at[2]>>]
                               IN  w[0] # Nothing /\ w[0].header >= 128
  /\ Len(pci_devices) = Min({Cardinality(Passed(at)), PCI_MAX_STORED})
  /\ \A k \in 1 .. Len(pci_devices) : Found(k)

Undetected == {"magic", "panic", "memory", "keyboard", "init_devices", "detect_devices"}
AfterScan  == {"disk", "vfs", "scheduler", "processes", "syscalls", "network", "shell"}

KernelInv ==
  /\ answers \subseteq Serials
  /\ space \in [Slots -> Wirings]
  /\ pc \in Undetected \cup {"init_pci", "scan"} \cup AfterScan
  /\ pc \in Undetected => devices = EmptyRegistry
  /\ pc = "init_pci"   => Lists(devices, Fixed)
  /\ pc \in {"scan"} \cup AfterScan => ScanInv /\ Lists(devices, Listing)
  /\ pc \in AfterScan  => at = Done
  /\ pc # "shell" => ~ network_up
  /\ NetworkInv
------------------------------------------------------------------------------
(* The network.                                                             *)

LEMMA WordNat == Word \in Nat /\ Word > 0
BY DEF Word

(* A 16-bit word; an interval of them is too long for the provers.          *)
IsWord(v) == v \in Nat /\ v < Word

LEMMA IntervalWords == \A v \in 0 .. Word - 1 : IsWord(v)
BY WordNat DEF IsWord

LEMMA HtonsRange == ASSUME NEW v, IsWord(v) PROVE IsWord(htons(v))
BY DEF IsWord, Word, htons

\* A field that is written with htons and read with it is what was written.
LEMMA HtonsTwice == ASSUME NEW v, IsWord(v) PROVE htons(htons(v)) = v
BY DEF IsWord, Word, htons

LEMMA HtonsApart ==
  ASSUME NEW v, NEW w, IsWord(v), IsWord(w), htons(v) = htons(w)
  PROVE  v = w
<1>1. htons(htons(v)) = htons(htons(w))
  OBVIOUS
<1> QED BY <1>1, HtonsTwice

Headers == [1 .. 10 -> {v \in Nat : IsWord(v)}]

LEMMA HeaderWords ==
  ASSUME NEW w \in Headers
  PROVE  /\ IsWord(w[1]) /\ IsWord(w[2]) /\ IsWord(w[3]) /\ IsWord(w[4]) /\ IsWord(w[5])
         /\ IsWord(w[6]) /\ IsWord(w[7]) /\ IsWord(w[8]) /\ IsWord(w[9]) /\ IsWord(w[10])
BY DEF Headers

LEMMA TotalRange ==
  ASSUME NEW w \in Headers
  PROVE  Total(w) \in Nat /\ Total(w) =< 655350 /\ w[1] =< Total(w)
BY HeaderWords DEF IsWord, Total, Word

\* A sum of ten words is folded into one word, from which it differs by a
\* multiple of 65535; only the sum zero gives zero.
LEMMA FoldedSum ==
  ASSUME NEW s \in Nat, s =< 655350
  PROVE  /\ IsWord(Folded(s))
         /\ s > 0 => Folded(s) > 0
         /\ \E m \in 0 .. 10 : s = Folded(s) + m * 65535
<1> DEFINE q == s \div 65536
           r == s % 65536
<1>1. s = 65536 * q + r /\ r \in Nat /\ r < 65536 /\ q \in 0 .. 9
  OBVIOUS
<1>2. Folded(s) = ((r + q) % 65536) + ((r + q) \div 65536)
  BY DEF Folded, Carried, Word
<1> HIDE DEF q, r
<1>3. CASE r + q < 65536
  <2>1. (r + q) % 65536 = r + q /\ (r + q) \div 65536 = 0
    BY <1>1, <1>3
  <2>2. Folded(s) = r + q
    BY <1>1, <1>2, <2>1
  <2>3. s = Folded(s) + q * 65535
    BY <1>1, <2>2
  <2> QED BY <1>1, <1>3, <2>2, <2>3 DEF IsWord, Word
<1>4. CASE r + q >= 65536
  <2>1. (r + q) % 65536 = r + q - 65536 /\ (r + q) \div 65536 = 1
    BY <1>1, <1>4
  <2>2. Folded(s) = r + q - 65535
    BY <1>1, <1>2, <2>1
  <2>3. s = Folded(s) + (q + 1) * 65535 /\ q + 1 \in 0 .. 10
    BY <1>1, <2>2
  <2> QED BY <1>1, <1>4, <2>2, <2>3 DEF IsWord, Word
<1> QED BY <1>1, <1>3, <1>4

\* ip_checksum: the loop that adds the carries ends after two rounds, at a
\* sum it would leave as it is, so that the answer is a 16-bit word.
THEOREM ChecksumLoopEnds ==
  \A w \in Headers : /\ IsWord(Folded(Total(w)))
                     /\ Carried(Folded(Total(w))) = Folded(Total(w))
                     /\ IsWord(ip_checksum(w))
<1>1. \A v \in Nat : v < Word => Carried(v) = v /\ IsWord(Word - 1 - v)
  BY DEF IsWord, Carried, Word
<1>2. \A w \in Headers : IsWord(Folded(Total(w)))
  BY TotalRange, FoldedSum
<1> QED BY <1>1, <1>2 DEF IsWord, ip_checksum

\* A header whose sixth word was zero adds up to all ones with its checksum.
LEMMA SumWithChecksum ==
  ASSUME NEW w \in Headers, w[6] = 0, w[1] > 0
  PROVE  Folded(Total([w EXCEPT ![6] = ip_checksum(w)])) = Word - 1
<1> DEFINE s == Total(w)
           c == ip_checksum(w)
           h == [w EXCEPT ![6] = c]
<1>1. s \in Nat /\ s =< 655350 /\ s > 0
  <2>1. w[1] \in Nat
    BY HeaderWords DEF IsWord
  <2> QED BY TotalRange, <2>1
<1>2. c \in Nat /\ c = 65535 - Folded(s)
  BY ChecksumLoopEnds DEF ip_checksum, Word, IsWord
<1>3. Total(h) = s + c
  <2>1. DOMAIN w = 1 .. 10
    BY DEF Headers
  <2>2. /\ h[1] = w[1] /\ h[2] = w[2] /\ h[3] = w[3] /\ h[4] = w[4] /\ h[5] = w[5]
        /\ h[6] = c /\ h[7] = w[7] /\ h[8] = w[8] /\ h[9] = w[9] /\ h[10] = w[10]
    BY <2>1
  <2> HIDE DEF h, c
  <2> QED BY HeaderWords, <1>2, <2>2 DEF Total, IsWord
<1> HIDE DEF s, c, h
<1>4. PICK m \in 0 .. 10 : s = Folded(s) + m * 65535
  BY <1>1, FoldedSum
<1>5. Folded(s) \in Nat
  BY <1>1, FoldedSum DEF IsWord
<1>6. s + c = (m + 1) * 65535
  BY <1>1, <1>2, <1>4, <1>5
<1>7. \A k \in 1 .. 11 : Folded(k * 65535) = 65535
  BY DEF Folded, Carried, Word
<1>8. Folded(s + c) = 65535
  BY <1>6, <1>7
<1> QED BY <1>3, <1>8 DEF Word, h, c

LEMMA HeaderFields ==
  ASSUME NEW dst \in Addresses, NEW len \in Nat, len =< MaxLength, packets_sent \in Nat
  PROVE  /\ Header(dst, len) \in [1 .. 10 -> Nat]
         /\ Folded(Total(Header(dst, len))) = Word - 1
         /\ Header(dst, len)[2] = htons(40 + len)
         /\ Header(dst, len)[3] = htons(packets_sent % Word)
<1> DEFINE w == BlankHeader(dst, len)
<1>1. /\ IsWord(40 + len) /\ IsWord(packets_sent % Word) /\ IsWord(16384)
      /\ IsWord(64 + 256 * 6) /\ IsWord(69) /\ IsWord(0)
  BY DEF MaxLength, NET_BUFFER_SIZE, Word, IsWord
<1>2. IsWord(Local[1]) /\ IsWord(Local[2])
  BY DEF Local, IsWord, Word
<1>3. IsWord(dst[1]) /\ IsWord(dst[2])
  BY NetworkAssumption, IntervalWords
<1>4. w = <<69, htons(40 + len), htons(packets_sent % Word), htons(16384), 64 + 256 * 6, 0,
            htons(Local[1]), htons(Local[2]), htons(dst[1]), htons(dst[2])>>
  BY DEF BlankHeader
<1> HIDE DEF w
<1>5. w \in Headers
  <2> DEFINE S == {v \in Nat : IsWord(v)}
  <2>1. /\ 69 \in S /\ htons(40 + len) \in S /\ htons(packets_sent % Word) \in S
        /\ htons(16384) \in S /\ 64 + 256 * 6 \in S /\ 0 \in S /\ htons(Local[1]) \in S
        /\ htons(Local[2]) \in S /\ htons(dst[1]) \in S /\ htons(dst[2]) \in S
    BY <1>1, <1>2, <1>3, HtonsRange DEF IsWord
  <2> HIDE DEF S
  <2>2. w \in [1 .. 10 -> S]
    BY <1>4, <2>1
  <2> QED BY <2>2 DEF Headers, S
<1>6. Header(dst, len) = [w EXCEPT ![6] = ip_checksum(w)]
  BY DEF Header, w
<1>7. ip_checksum(w) \in Nat
  BY <1>5, ChecksumLoopEnds DEF IsWord
<1>8. Folded(Total(Header(dst, len))) = Word - 1
  <2>1. w[6] = 0 /\ w[1] > 0
    BY <1>4
  <2> QED BY <1>5, <1>6, <2>1, SumWithChecksum
<1>9. Header(dst, len) \in [1 .. 10 -> Nat]
      /\ Header(dst, len)[2] = w[2] /\ Header(dst, len)[3] = w[3]
  <2>1. w \in [1 .. 10 -> Nat]
    BY <1>5 DEF Headers
  <2> QED BY <1>6, <1>7, <2>1
<1>10. w[2] = htons(40 + len) /\ w[3] = htons(packets_sent % Word)
  BY <1>4
<1> QED BY <1>8, <1>9, <1>10

\* The TCP header is ten words, the source port the first.
LEMMA TcpHeaderType ==
  ASSUME IsWord(next_port), NEW port \in PeerPorts
  PROVE  TcpHeader(port) \in [1 .. 10 -> Nat] /\ TcpHeader(port)[1] = htons(next_port)
<1>1. IsWord(port)
  BY NetworkAssumption, IntervalWords
<1>2. /\ htons(next_port) \in Nat /\ htons(port) \in Nat
      /\ htons(1000) \in Nat /\ htons(65535) \in Nat
  <2>1. IsWord(1000) /\ IsWord(65535)
    BY DEF IsWord, Word
  <2> QED BY <1>1, <2>1, HtonsRange DEF IsWord
<1> QED BY <1>2 DEF TcpHeader

\* What tcp_send keeps: each packet has its sums and its numbers.
LEMMA SendKeeps ==
  ASSUME NetworkInv, NEW dst \in Addresses, NEW port \in PeerPorts, NEW len \in Lengths,
         TcpSend(dst, port, len)
  PROVE  NetworkInv'
<1> DEFINE p == [ip |-> Header(dst, len), tcp |-> TcpHeader(port), len |-> len]
           n == Len(sent)
           T == [ip : [1 .. 10 -> Nat], tcp : [1 .. 10 -> Nat], len : Nat]
<1>1. sent \in Seq(T) /\ n \in Nat /\ packets_sent = n /\ next_port = (49152 + n) % Word
  BY DEF NetworkInv, TcpSend
<1>2. len \in Nat /\ len # 0 /\ len =< MaxLength /\ sent' = Append(sent, p)
      /\ network_up' /\ network_up' = network_up /\ packets_sent' = packets_sent + 1
      /\ next_port' = (next_port + 1) % Word
  BY NetworkAssumption DEF TcpSend
<1>3. Header(dst, len) \in [1 .. 10 -> Nat] /\ Folded(Total(Header(dst, len))) = Word - 1
      /\ Header(dst, len)[2] = htons(40 + len)
      /\ Header(dst, len)[3] = htons(n % Word)
  <2>1. packets_sent \in Nat /\ len \in Nat /\ len =< MaxLength
    BY <1>1, <1>2
  <2> HIDE DEF n
  <2> QED BY <1>1, <2>1, HeaderFields
<1>4. IsWord(next_port)
  BY <1>1 DEF Word, IsWord
<1>5. /\ p \in T /\ p.ip = Header(dst, len)
      /\ p.tcp[1] = htons((49152 + n) % Word) /\ p.len = len
  <2>1. TcpHeader(port) \in [1 .. 10 -> Nat] /\ TcpHeader(port)[1] = htons(next_port)
    BY <1>4, TcpHeaderType
  <2>2. p.ip = Header(dst, len) /\ p.tcp[1] = htons(next_port) /\ p.len = len
    BY <2>1
  <2>3. p \in T
    <3> HIDE DEF n
    <3> QED BY <1>2, <1>3, <2>1
  <2> HIDE DEF p, n
  <2> QED BY <1>1, <2>2, <2>3
<1> HIDE DEF p, T
<1>6. sent' \in Seq(T) /\ Len(sent') = n + 1 /\ sent'[n + 1] = p
      /\ \A i \in 1 .. n : sent'[i] = sent[i]
  BY <1>1, <1>2, <1>5 DEF n
<1>7. next_port' = (49152 + Len(sent')) % Word
  <2>1. \A a \in Nat : (((49152 + a) % 65536) + 1) % 65536 = (49152 + (a + 1)) % 65536
    OBVIOUS
  <2> QED BY <1>1, <1>2, <1>6, <2>1 DEF Word
<1>8. ASSUME NEW i \in 1 .. Len(sent') PROVE Verifies(i)'
  <2>1. CASE i \in 1 .. n
    <3>1. Verifies(i)
      BY <2>1 DEF NetworkInv, n
    <3>2. sent'[i] = sent[i]
      BY <1>6, <2>1
    <3> QED BY <3>1, <3>2 DEF Verifies
  <2>2. CASE i = n + 1
    <3>1. i - 1 = n /\ 49152 + i - 1 = 49152 + n
      BY <1>1, <2>2
    <3>2. len \in Nat /\ len =< MaxLength
      BY <1>2
    <3>3. sent'[i] = p
      BY <1>6, <2>2
    <3>4. sent'[i].ip = Header(dst, len) /\ sent'[i].len = len
          /\ sent'[i].tcp[1] = htons((49152 + n) % Word)
      BY <1>5, <3>3
    <3>5. (i - 1) % Word = n % Word /\ (49152 + i - 1) % Word = (49152 + n) % Word
      BY <3>1
    <3> HIDE DEF n
    <3>6. Folded(Total(sent'[i].ip)) = Word - 1 /\ sent'[i].ip[2] = htons(40 + sent'[i].len)
      BY <1>3, <3>4
    <3>7. sent'[i].ip[3] = htons((i - 1) % Word)
      BY <1>3, <3>4, <3>5
    <3>8. sent'[i].tcp[1] = htons((49152 + i - 1) % Word)
      BY <3>4, <3>5
    <3> QED BY <3>2, <3>4, <3>6, <3>7, <3>8 DEF Verifies
  <2> QED BY <1>1, <1>6, <2>1, <2>2
<1> QED BY <1>1, <1>2, <1>6, <1>7, <1>8 DEF NetworkInv, T

LEMMA StartNetworkKeeps ==
  ASSUME NetworkInv, ~ network_up, InitNetwork
  PROVE  NetworkInv'
<1>1. sent = <<>> /\ sent' = <<>> /\ Len(sent') = 0
  BY DEF NetworkInv, InitNetwork
<1>2. 49152 = (49152 + 0) % Word
  BY DEF Word
<1>3. packets_sent' = 0 /\ next_port' = 49152 /\ network_up'
  BY DEF InitNetwork
<1> QED BY <1>1, <1>2, <1>3 DEF NetworkInv, InitNetwork

LEMMA SameNetwork ==
  ASSUME NetworkInv, UNCHANGED NVars
  PROVE  NetworkInv'
<1>1. /\ network_up' = network_up /\ sent' = sent
      /\ packets_sent' = packets_sent /\ next_port' = next_port
  BY DEF NVars
<1>2. ASSUME NEW i \in 1 .. Len(sent') PROVE Verifies(i)'
  <2>1. Verifies(i)
    BY <1>1 DEF NetworkInv
  <2> QED BY <1>1, <2>1 DEF Verifies
<1> QED BY <1>1, <1>2 DEF NetworkInv

LEMMA InvIpHeadersVerify == NetworkInv => IpHeadersVerify
<1> SUFFICES ASSUME NetworkInv PROVE IpHeadersVerify
  OBVIOUS
<1>1. DOMAIN sent = 1 .. Len(sent) /\ Len(sent) \in Nat
  BY DEF NetworkInv
<1>2. ASSUME NEW i \in DOMAIN sent
      PROVE  /\ Folded(Total(sent[i].ip)) = Word - 1
             /\ Field(sent[i].ip, 2) = 40 + sent[i].len
             /\ 14 + Field(sent[i].ip, 2) <= NET_BUFFER_SIZE
  <2>1. Verifies(i)
    BY <1>1 DEF NetworkInv
  <2>2. sent[i].len \in Nat /\ sent[i].len =< 1446
    BY <2>1 DEF Verifies, MaxLength, NET_BUFFER_SIZE
  <2>3. IsWord(40 + sent[i].len)
    BY <2>2 DEF IsWord, Word
  <2>4. Field(sent[i].ip, 2) = 40 + sent[i].len
    BY <2>1, <2>3, HtonsTwice DEF Verifies, Field
  <2> QED BY <2>1, <2>2, <2>4 DEF Verifies, NET_BUFFER_SIZE
<1>3. ASSUME NEW i \in DOMAIN sent, NEW j \in DOMAIN sent, i < j, j - i < Word
      PROVE  sent[i].ip[3] # sent[j].ip[3] /\ sent[i].tcp[1] # sent[j].tcp[1]
  <2>1. Verifies(i) /\ Verifies(j)
    BY <1>1 DEF NetworkInv
  <2> i \in Nat /\ j \in Nat /\ i >= 1 /\ j >= 1
    BY <1>1
  <2>2. \A a, b \in Nat : a < b /\ b - a < 65536 => a % 65536 # b % 65536
    OBVIOUS
  <2>3. \A a \in Nat : IsWord(a % Word)
    BY DEF IsWord, Word
  <2>4. (i - 1) % Word # (j - 1) % Word
    BY <1>3, <2>1, <2>2 DEF Word
  <2>5. (49152 + i - 1) % Word # (49152 + j - 1) % Word
    BY <1>3, <2>1, <2>2 DEF Word
  <2>6. /\ i - 1 \in Nat /\ j - 1 \in Nat
        /\ 49152 + i - 1 \in Nat /\ 49152 + j - 1 \in Nat
    BY <2>1
  <2>7. sent[i].ip[3] # sent[j].ip[3]
    <3>1. sent[i].ip[3] = htons((i - 1) % Word) /\ sent[j].ip[3] = htons((j - 1) % Word)
      BY <2>1 DEF Verifies
    <3> QED BY <2>3, <2>4, <2>6, <3>1, HtonsApart
  <2>8. sent[i].tcp[1] # sent[j].tcp[1]
    <3>1. /\ sent[i].tcp[1] = htons((49152 + i - 1) % Word)
          /\ sent[j].tcp[1] = htons((49152 + j - 1) % Word)
      BY <2>1 DEF Verifies
    <3> QED BY <2>3, <2>5, <2>6, <3>1, HtonsApart
  <2> QED BY <2>7, <2>8
<1> QED BY <1>2, <1>3 DEF IpHeadersVerify

------------------------------------------------------------------------------
(* The registry.                                                            *)

\* pci_get_class_name finds the class if the table has it.
LEMMA ClassNameOf ==
  \A class, subclass :
    ClassName(class, subclass) \in
      IF ClassNames(class) = {} THEN {"unknown"} ELSE ClassNames(class)
<1> SUFFICES ASSUME NEW class, NEW subclass
             PROVE  ClassName(class, subclass) \in
                      IF ClassNames(class) = {} THEN {"unknown"} ELSE ClassNames(class)
  OBVIOUS
<1> DEFINE same  == {i \in DOMAIN ClassTable : ClassTable[i].class = class}
           exact == {i \in same : ClassTable[i].subclass = subclass}
<1>1. DOMAIN ClassTable = 1 .. Len(ClassTable) /\ Len(ClassTable) \in Nat
  BY PciAssumption
<1>2. same \subseteq 0 .. Len(ClassTable) /\ exact \subseteq same
  BY <1>1
<1>3. ClassNames(class) = {ClassTable[i].name : i \in same}
  BY DEF ClassNames
<1>4. ClassName(class, subclass) =
        CASE exact # {} -> ClassTable[Min(exact)].name
          [] exact = {} /\ same # {} -> ClassTable[Max(same)].name
          [] OTHER -> "unknown"
  BY DEF ClassName
<1>5. \A i \in same : i \in DOMAIN ClassTable
  OBVIOUS
<1> HIDE DEF same, exact
<1>6. CASE exact # {}
  <2>1. Min(exact) \in same
    <3>1. exact \in SUBSET Nat
      BY <1>1, <1>2
    <3> QED BY <1>2, <1>6, <3>1, MinOf
  <2>2. ClassName(class, subclass) = ClassTable[Min(exact)].name
    BY <1>4, <1>6
  <2> QED BY <1>1, <1>3, <1>5, <2>1, <2>2
<1>7. CASE exact = {} /\ same # {}
  <2>1. Max(same) \in same
    BY <1>1, <1>2, <1>7, MaxOf
  <2>2. ClassName(class, subclass) = ClassTable[Max(same)].name
    BY <1>4, <1>7
  <2> QED BY <1>1, <1>3, <1>5, <2>1, <2>2
<1>8. CASE exact = {} /\ same = {}
  <2>1. ClassName(class, subclass) = "unknown"
    BY <1>4, <1>8
  <2>2. ClassNames(class) = {}
    BY <1>3, <1>8
  <2> QED BY <2>1, <2>2
<1> QED BY <1>6, <1>7, <1>8

Kinds == {"keyboard", "display", "serial", "mouse", "pci"}
Names == {"ps2", "vga", "com1", "com2", "unknown"}
           \cup {ClassTable[i].name : i \in DOMAIN ClassTable}
Devs  == Kinds \X Names

LEMMA EmptyLists == Lists(EmptyRegistry, <<>>)
<1>1. Held(<<>>) = 0
  BY DevicesAssumption DEF Held
<1>2. Table(<<>>, 0) = [i \in 1 .. MAX_DEVICES |-> Inactive]
  <2>1. \A i \in 1 .. MAX_DEVICES : ~ (i =< 0)
    BY DevicesAssumption
  <2> QED BY <2>1 DEF Table
<1>3. Held(<<>>) + 1 = 1
  BY <1>1
<1> QED BY <1>1, <1>2, <1>3 DEF Lists, EmptyRegistry

\* register_device takes the slot after the last, and refuses when there is
\* none: the table stays without holes.
LEMMA Registers ==
  ASSUME NEW r, NEW list \in Seq(Devs), NEW d \in Devs, Lists(r, list)
  PROVE  Lists(Registered(r, d[1], d[2]), Append(list, d))
<1> DEFINE n == Held(list)
           L == Append(list, d)
<1>1. r = [device_table |-> Table(list, n), device_count |-> n, next_device_id |-> n + 1]
  BY DEF Lists
<1>2. Len(L) = Len(list) + 1 /\ L[Len(list) + 1] = d /\ \A i \in 1 .. Len(list) : L[i] = list[i]
  OBVIOUS
<1>3. Len(list) \in Nat /\ MAX_DEVICES \in Nat /\ MAX_DEVICES > 0
  BY DevicesAssumption
<1> HIDE DEF L
<1>4. CASE Len(list) >= MAX_DEVICES
  <2>1. n = MAX_DEVICES /\ Held(L) = MAX_DEVICES
    BY <1>2, <1>3, <1>4 DEF Held
  <2>2. Registered(r, d[1], d[2]) = r
    BY <1>1, <1>3, <2>1 DEF Registered
  <2>3. Table(L, n) = Table(list, n)
    <3>1. \A i \in 1 .. MAX_DEVICES : L[i] = list[i]
      BY <1>2, <1>3, <1>4
    <3> QED BY <3>1 DEF Table
  <2> QED BY <1>1, <2>1, <2>2, <2>3 DEF Lists, L
<1>5. CASE Len(list) < MAX_DEVICES
  <2>1. n = Len(list) /\ Held(L) = n + 1
    BY <1>2, <1>3, <1>5 DEF Held
  <2> HIDE DEF n
  <2>2. \A i \in 1 .. MAX_DEVICES : Table(list, n)[i].active <=> i =< n
    <3>1. ASSUME NEW i \in 1 .. MAX_DEVICES PROVE Table(list, n)[i].active <=> i =< n
      <4>1. Inactive.active = FALSE /\ Device(list[i], i).active = TRUE
        BY DEF Inactive, Device
      <4>2. Table(list, n)[i] = IF i =< n THEN Device(list[i], i) ELSE Inactive
        BY DEF Table
      <4> QED BY <4>1, <4>2
    <3> QED BY <3>1
  <2>3. FreeSlots(r) = {i \in 1 .. MAX_DEVICES : ~ (i =< n)}
    BY <1>1, <2>2 DEF FreeSlots
  <2>4. Min(FreeSlots(r)) = n + 1 /\ FreeSlots(r) # {}
    <3>1. FreeSlots(r) \in SUBSET Nat
      BY <2>3
    <3>2. n + 1 \in FreeSlots(r) /\ \A i \in FreeSlots(r) : n + 1 =< i
      BY <1>3, <1>5, <2>1, <2>3
    <3>3. Min(FreeSlots(r)) \in FreeSlots(r) /\ Min(FreeSlots(r)) =< n + 1
      BY <3>1, <3>2, MinOf
    <3> QED BY <1>3, <2>1, <3>1, <3>2, <3>3
  <2>5. Registered(r, d[1], d[2]) =
          [device_table |-> [Table(list, n) EXCEPT ![n + 1] = Device(d, n + 1)],
           device_count |-> n + 1, next_device_id |-> (n + 1) + 1]
    <3>1. ~ (r.device_count >= MAX_DEVICES \/ FreeSlots(r) = {})
      BY <1>1, <1>3, <1>5, <2>1, <2>4
    <3>2. r.device_table = Table(list, n) /\ r.device_count = n /\ r.next_device_id = n + 1
      BY <1>1
    <3> QED BY <2>4, <3>1, <3>2 DEF Registered, Device
  <2>6. [Table(list, n) EXCEPT ![n + 1] = Device(d, n + 1)] = Table(L, n + 1)
    <3>1. ASSUME NEW i \in 1 .. MAX_DEVICES
          PROVE  (IF i = n + 1 THEN Device(d, n + 1)
                  ELSE IF i =< n THEN Device(list[i], i) ELSE Inactive)
                 = IF i =< n + 1 THEN Device(L[i], i) ELSE Inactive
      <4>1. CASE i = n + 1
        BY <1>2, <1>3, <2>1, <4>1
      <4>2. CASE i # n + 1 /\ i =< n
        <5>1. i =< n + 1 /\ L[i] = list[i]
          BY <1>2, <1>3, <2>1, <4>2
        <5> QED BY <4>2, <5>1
      <4>3. CASE i # n + 1 /\ ~ (i =< n)
        <5>1. ~ (i =< n + 1)
          BY <1>3, <2>1, <4>3
        <5> QED BY <4>3, <5>1
      <4> QED BY <4>1, <4>2, <4>3
    <3> QED BY <3>1 DEF Table
  <2> QED BY <2>1, <2>5, <2>6 DEF Lists, L
<1> QED BY <1>3, <1>4, <1>5

\* detect_devices puts down what is not on the bus.
LEMMA BasicsListed ==
  /\ Fixed \in Seq(Devs)
  /\ \A r : Lists(r, <<>>) => Lists(WithBasics(r), Fixed)
<1> DEFINE K == <<"keyboard", "ps2">>
           V == <<"display", "vga">>
           C1 == <<"serial", "com1">>
           C2 == <<"serial", "com2">>
           M == <<"mouse", "ps2">>
<1>1. K \in Devs /\ V \in Devs /\ C1 \in Devs /\ C2 \in Devs /\ M \in Devs
  BY DEF Devs, Kinds, Names
<1>2. /\ K[1] = "keyboard" /\ K[2] = "ps2" /\ V[1] = "display" /\ V[2] = "vga"
      /\ C1[1] = "serial" /\ C1[2] = "com1" /\ C2[1] = "serial" /\ C2[2] = "com2"
      /\ M[1] = "mouse" /\ M[2] = "ps2"
  OBVIOUS
<1>3. Fixed = <<K, V>> \o (IF "com1" \in answers THEN <<C1>> ELSE <<>>)
                \o (IF "com2" \in answers THEN <<C2>> ELSE <<>>) \o <<M>>
  BY DEF Fixed
<1> HIDE DEF K, V, C1, C2, M
<1>4. ASSUME NEW r, NEW list \in Seq(Devs), NEW d \in Devs, NEW kind, NEW name,
             kind = d[1], name = d[2], Lists(r, list)
      PROVE  Lists(Registered(r, kind, name), list \o <<d>>) /\ list \o <<d>> \in Seq(Devs)
  <2>1. list \o <<d>> = Append(list, d) /\ Append(list, d) \in Seq(Devs)
    OBVIOUS
  <2> QED BY <1>4, <2>1, Registers
<1>5. ASSUME NEW r, NEW list \in Seq(Devs), NEW d \in Devs, NEW serial,
             d = <<"serial", serial>>, Lists(r, list)
      PROVE  LET more == list \o (IF serial \in answers THEN <<d>> ELSE <<>>)
             IN  Lists(WithSerial(r, serial), more) /\ more \in Seq(Devs)
  <2>1. CASE serial \in answers
    <3>1. d[1] = "serial" /\ d[2] = serial
      BY <1>5
    <3> QED BY <1>4, <1>5, <2>1, <3>1 DEF WithSerial
  <2>2. CASE serial \notin answers
    <3>1. list \o <<>> = list
      OBVIOUS
    <3> QED BY <1>5, <2>2, <3>1 DEF WithSerial
  <2> QED BY <2>1, <2>2
<1> DEFINE L1 == <<>> \o <<K>>
           L2 == L1 \o <<V>>
           L3 == L2 \o (IF "com1" \in answers THEN <<C1>> ELSE <<>>)
           L4 == L3 \o (IF "com2" \in answers THEN <<C2>> ELSE <<>>)
           L5 == L4 \o <<M>>
<1>6. L1 \in Seq(Devs) /\ L2 \in Seq(Devs) /\ L3 \in Seq(Devs) /\ L4 \in Seq(Devs)
      /\ L5 \in Seq(Devs) /\ Fixed = L5
  <2>1. L1 = <<K>> /\ L2 = <<K, V>>
    <3>1. <<K>> \in Seq(Devs) /\ <<V>> \in Seq(Devs)
      BY <1>1
    <3>2. <<>> \o <<K>> = <<K>>
      BY <3>1
    <3>3. <<K>> \o <<V>> = <<K, V>>
      <4>1. \A s, t \in Seq(Devs) :
              Len(s) = 2 /\ Len(t) = 2 /\ s[1] = t[1] /\ s[2] = t[2] => s = t
        OBVIOUS
      <4>2. <<K, V>> \in Seq(Devs) /\ Len(<<K, V>>) = 2
        BY <1>1
      <4>3. /\ <<K>> \o <<V>> \in Seq(Devs) /\ Len(<<K>> \o <<V>>) = 2
            /\ (<<K>> \o <<V>>)[1] = K /\ (<<K>> \o <<V>>)[2] = V
        BY <3>1
      <4> QED BY <4>1, <4>2, <4>3
    <3> QED BY <3>2, <3>3
  <2>2. <<K, V>> \in Seq(Devs) /\ <<C1>> \in Seq(Devs) /\ <<C2>> \in Seq(Devs)
        /\ <<M>> \in Seq(Devs) /\ <<>> \in Seq(Devs) /\ <<K>> \in Seq(Devs)
    BY <1>1
  <2>3. L3 \in Seq(Devs)
    BY <2>1, <2>2
  <2> HIDE DEF L3
  <2>4. L4 \in Seq(Devs)
    BY <2>2, <2>3
  <2> HIDE DEF L4
  <2>5. L5 \in Seq(Devs)
    BY <2>2, <2>4
  <2>6. Fixed = L5
    BY <1>3, <2>1 DEF L3, L4
  <2> QED BY <2>1, <2>2, <2>3, <2>4, <2>5, <2>6
<1>7. ASSUME NEW r, Lists(r, <<>>) PROVE Lists(WithBasics(r), Fixed)
  <2> DEFINE r1 == Registered(r, "keyboard", "ps2")
             r2 == Registered(r1, "display", "vga")
             r3 == WithSerial(r2, "com1")
             r4 == WithSerial(r3, "com2")
  <2>1. WithBasics(r) = Registered(r4, "mouse", "ps2")
    BY DEF WithBasics
  <2> HIDE DEF r1, r2, r3, r4, L1, L2, L3, L4, L5
  <2>2. Lists(r1, L1)
    <3>1. <<>> \in Seq(Devs)
      OBVIOUS
    <3> QED BY <1>1, <1>2, <1>4, <1>7, <3>1 DEF r1, L1
  <2>3. Lists(r2, L2)
    BY <1>1, <1>2, <1>4, <1>6, <2>2 DEF r2, L2
  <2>4. Lists(r3, L3)
    <3>1. C1 = <<"serial", "com1">>
      BY DEF C1
    <3> QED BY <1>1, <1>5, <1>6, <2>3, <3>1 DEF r3, L3
  <2>5. Lists(r4, L4)
    <3>1. C2 = <<"serial", "com2">>
      BY DEF C2
    <3> QED BY <1>1, <1>5, <1>6, <2>4, <3>1 DEF r4, L4
  <2>6. Lists(WithBasics(r), L5)
    <3>1. L4 \in Seq(Devs) /\ M \in Devs /\ M[1] = "mouse" /\ M[2] = "ps2"
      BY <1>1, <1>2, <1>6
    <3>2. Lists(Registered(r4, "mouse", "ps2"), L4 \o <<M>>)
      BY <1>4, <2>5, <3>1
    <3> QED BY <2>1, <3>2 DEF L5
  <2> QED BY <1>6, <2>6
<1> QED BY <1>6, <1>7

------------------------------------------------------------------------------
(* The bus scan.                                                            *)

LEMMA ByteFacts == \A b \in Bytes : b \in Nat /\ b < 256
BY DEF Bytes

\* Two bytes that are read as one word can be told from it.
LEMMA TwoBytes ==
  ASSUME NEW a \in Bytes, NEW b \in Bytes
  PROVE  /\ a + 256 * b \in Nat
         /\ (a + 256 * b) % 256 = a /\ (a + 256 * b) \div 256 = b
         /\ a + 256 * b = 65535 <=> a = 255 /\ b = 255
         /\ a + 256 * b = 0 <=> a = 0 /\ b = 0
<1>1. a \in Nat /\ b \in Nat /\ a < 256 /\ b < 256
  BY ByteFacts
<1>2. (a + 256 * b) % 256 = a /\ (a + 256 * b) \div 256 = b
  BY <1>1
<1> QED BY <1>1, <1>2

ChipFields ==
  [vendor : Bytes \X Bytes, device : Bytes \X Bytes,
   class : Bytes, subclass : Bytes, prog_if : Bytes, revision : Bytes,
   header : Bytes, irq : Bytes, bar0 : Bytes \X Bytes \X Bytes \X Bytes]

LEMMA ChipFacts ==
  ASSUME NEW chip \in Chips
  PROVE  /\ chip \in ChipFields
         /\ chip.vendor # <<255, 255>>
         /\ chip # Nothing
<1> DEFINE B == Bytes \X Bytes
           B4 == Bytes \X Bytes \X Bytes \X Bytes
           F == [vendor : B \ {<<255, 255>>}, device : B,
                 class : Bytes, subclass : Bytes, prog_if : Bytes, revision : Bytes,
                 header : Bytes, irq : Bytes, bar0 : B4]
<1>1. chip \in F
  BY PciAssumption
<1>2. ChipFields = [vendor : B, device : B,
                    class : Bytes, subclass : Bytes, prog_if : Bytes, revision : Bytes,
                    header : Bytes, irq : Bytes, bar0 : B4]
  BY DEF ChipFields
<1> HIDE DEF B, B4
<1>3. chip \in ChipFields /\ chip.vendor # <<255, 255>>
  BY <1>1, <1>2
<1>4. Nothing.vendor = <<255, 255>>
  BY DEF Nothing
<1> QED BY <1>3, <1>4

\* What the configuration space of a wired function reads as.
LEMMA ReadChip ==
  ASSUME space \in [Slots -> Wirings], NEW slot \in Slots, NEW func \in FunctionNumbers,
         space[slot][func] # Nothing
  PROVE  LET c == space[slot][func]
         IN  /\ c \in Chips
             /\ Read16(slot, func, 0) = c.vendor[1] + 256 * c.vendor[2]
             /\ Read16(slot, func, 2) = c.device[1] + 256 * c.device[2]
             /\ Read8(slot, func, 8) = c.revision /\ Read8(slot, func, 9) = c.prog_if
             /\ Read8(slot, func, 10) = c.subclass /\ Read8(slot, func, 11) = c.class
             /\ Read8(slot, func, 14) = c.header /\ Read8(slot, func, 60) = c.irq
             /\ Read32(slot, func, 16) = c.bar0
<1> DEFINE c == space[slot][func]
<1>1. c \in Chips
  BY DEF Wirings
<1>2. /\ Inl(c, 0) = <<c.vendor[1], c.vendor[2], c.device[1], c.device[2]>>
      /\ Inl(c, 8) = <<c.revision, c.prog_if, c.subclass, c.class>>
      /\ Inl(c, 12) = <<0, 0, c.header, 0>>
      /\ Inl(c, 16) = c.bar0
      /\ Inl(c, 60) = <<c.irq, 0, 0, 0>>
  BY DEF Inl
<1> HIDE DEF c
<1>3. /\ 0 % 4 = 0 /\ 2 % 4 = 2 /\ 8 % 4 = 0 /\ 9 % 4 = 1 /\ 10 % 4 = 2 /\ 11 % 4 = 3
      /\ 14 % 4 = 2 /\ 16 % 4 = 0 /\ 60 % 4 = 0
      /\ 0 - 0 = 0 /\ 2 - 2 = 0 /\ 8 - 0 = 8 /\ 9 - 1 = 8 /\ 10 - 2 = 8 /\ 11 - 3 = 8
      /\ 14 - 2 = 12 /\ 16 - 0 = 16 /\ 60 - 0 = 60
      /\ 2 * (0 \div 2) = 0 /\ 2 * (2 \div 2) = 2
      /\ 0 + 1 = 1 /\ 0 + 2 = 2 /\ 2 + 1 = 3 /\ 2 + 2 = 4 /\ 1 + 1 = 2 /\ 3 + 1 = 4
  OBVIOUS
<1>4. \A offset : Read32(slot, func, offset) = Inl(c, offset - (offset % 4))
  BY DEF Read32, c
<1>5. Read16(slot, func, 0) = c.vendor[1] + 256 * c.vendor[2]
  BY <1>2, <1>3, <1>4 DEF Read16
<1>6. Read16(slot, func, 2) = c.device[1] + 256 * c.device[2]
  BY <1>2, <1>3, <1>4 DEF Read16
<1>7. Read8(slot, func, 8) = c.revision /\ Read8(slot, func, 9) = c.prog_if
      /\ Read8(slot, func, 10) = c.subclass /\ Read8(slot, func, 11) = c.class
  BY <1>2, <1>3, <1>4 DEF Read8
<1>8. Read8(slot, func, 14) = c.header /\ Read8(slot, func, 60) = c.irq
      /\ Read32(slot, func, 16) = c.bar0
  BY <1>2, <1>3, <1>4 DEF Read8
<1> QED BY <1>1, <1>5, <1>6, <1>7, <1>8 DEF c

\* An empty function reads as vendor 65535, and no chip does.
LEMMA ReadVendor ==
  ASSUME space \in [Slots -> Wirings], NEW slot \in Slots, NEW func \in FunctionNumbers
  PROVE  LET c == space[slot][func]
         IN  /\ Read16(slot, func, 0) = 65535 <=> c = Nothing
             /\ c # Nothing => (Read16(slot, func, 0) = 0 <=> c.vendor = <<0, 0>>)
<1> DEFINE c == space[slot][func]
<1>1. CASE c = Nothing
  <2>1. Read32(slot, func, 0) = <<255, 255, 255, 255>>
    BY <1>1 DEF Read32, Inl
  <2>2. Read16(slot, func, 0) = 255 + 256 * 255
    <3>1. 2 * ((0 % 4) \div 2) = 0
      OBVIOUS
    <3> QED BY <2>1, <3>1 DEF Read16
  <2> QED BY <1>1, <2>2
<1>2. CASE c # Nothing
  <2>1. c \in Chips /\ Read16(slot, func, 0) = c.vendor[1] + 256 * c.vendor[2]
    BY <1>2, ReadChip
  <2> HIDE DEF c
  <2>2. /\ c.vendor[1] \in Bytes /\ c.vendor[2] \in Bytes /\ c.vendor # <<255, 255>>
        /\ c.vendor = <<c.vendor[1], c.vendor[2]>>
    BY <2>1, ChipFacts DEF ChipFields
  <2>3. Read16(slot, func, 0) # 65535
    BY <2>1, <2>2, TwoBytes
  <2>4. Read16(slot, func, 0) = 0 <=> c.vendor = <<0, 0>>
    <3>1. Read16(slot, func, 0) = 0 <=> c.vendor[1] = 0 /\ c.vendor[2] = 0
      <4> DEFINE a == c.vendor[1]
                 b == c.vendor[2]
      <4>1. a \in Bytes /\ b \in Bytes /\ Read16(slot, func, 0) = a + 256 * b
        BY <2>1, <2>2
      <4> HIDE DEF a, b
      <4>2. a + 256 * b = 0 <=> a = 0 /\ b = 0
        <5>1. a \in Nat /\ b \in Nat
          BY <4>1, ByteFacts
        <5> QED BY <5>1
      <4> QED BY <4>1, <4>2 DEF a, b
    <3>2. c.vendor = <<0, 0>> <=> c.vendor[1] = 0 /\ c.vendor[2] = 0
      BY <2>2
    <3> QED BY <3>1, <3>2
  <2> QED BY <1>2, <2>3, <2>4 DEF c
<1> QED BY <1>1, <1>2

(* A device at a place, as Present has it.                                  *)
IsThere(p) ==
  LET w == space[<<p[1], p[2]>>]
  IN  w[p[3]] # Nothing /\ w[p[3]].vendor # <<0, 0>> /\ (p[3] = 0 \/ w[0].header >= 128)

LEMMA PresentPlaces == Present = {p \in Places : IsThere(p)}
BY DEF Present, Places, IsThere

LEMMA Sizes ==
  /\ Buses \in Nat /\ Buses > 0 /\ PCI_MAX_DEVICES \in Nat /\ PCI_MAX_DEVICES > 0
  /\ PCI_MAX_FUNCTIONS \in Nat /\ PCI_MAX_FUNCTIONS > 0 /\ PCI_MAX_STORED \in Nat
BY PciAssumption

LEMMA PlaceFacts ==
  ASSUME NEW p \in Places
  PROVE  /\ p = <<p[1], p[2], p[3]>>
         /\ p[1] \in Nat /\ p[1] < Buses
         /\ p[2] \in Nat /\ p[2] < PCI_MAX_DEVICES
         /\ p[3] \in Nat /\ p[3] < PCI_MAX_FUNCTIONS
         /\ <<p[1], p[2]>> \in Slots /\ p[3] \in FunctionNumbers /\ 0 \in FunctionNumbers
<1>1. /\ p = <<p[1], p[2], p[3]>> /\ p[1] \in 0 .. Buses - 1
      /\ p[2] \in 0 .. PCI_MAX_DEVICES - 1 /\ p[3] \in FunctionNumbers
  BY DEF Places
<1>2. <<p[1], p[2]>> \in Slots
  BY <1>1 DEF Slots
<1> QED BY <1>1, <1>2, Sizes DEF FunctionNumbers

LEMMA PlacesFinite == IsFiniteSet(Present)
<1>1. /\ IsFiniteSet(0 .. Buses - 1) /\ IsFiniteSet(0 .. PCI_MAX_DEVICES - 1)
      /\ IsFiniteSet(FunctionNumbers)
  BY FS_Interval, Sizes DEF FunctionNumbers
<1>2. IsFiniteSet(Places)
  <2> DEFINE I == 0 .. Buses - 1
             J == 0 .. PCI_MAX_DEVICES - 1
             S == (I \X J) \X FunctionNumbers
             g == [y \in S |-> <<y[1][1], y[1][2], y[2]>>]
  <2>1. IsFiniteSet(S)
    BY <1>1, FS_Product
  <2>2. Places = I \X J \X FunctionNumbers
    BY DEF Places
  <2> HIDE DEF I, J
  <2>3. g \in Surjection(S, Places)
    <3>1. g \in [S -> Places]
      BY <2>2
    <3>2. ASSUME NEW p \in Places PROVE \E y \in S : g[y] = p
      <4>1. p = <<p[1], p[2], p[3]>> /\ p[1] \in I /\ p[2] \in J /\ p[3] \in FunctionNumbers
        BY <2>2
      <4>2. <<<<p[1], p[2]>>, p[3]>> \in S /\ g[<<<<p[1], p[2]>>, p[3]>>] = p
        BY <4>1
      <4> QED BY <4>2
    <3> HIDE DEF g
    <3> QED BY <3>1, <3>2 DEF Surjection
  <2> HIDE DEF S, g
  <2> QED BY <2>1, <2>3, FS_Surjection
<1> QED BY <1>2, PresentPlaces, FS_Subset

\* NextSlot goes past all functions of a slot and to function 0 of another.
LEMMA NextSlotOrder ==
  ASSUME NEW p \in Places
  PROVE  /\ NextSlot(<<p[1], p[2]>>) \in Places \cup {Done}
         /\ NextSlot(<<p[1], p[2]>>)[3] = 0
         /\ \A x \in Places :
              Before(x, NextSlot(<<p[1], p[2]>>))
                <=> x[1] < p[1] \/ (x[1] = p[1] /\ x[2] =< p[2])
<1> DEFINE q == NextSlot(<<p[1], p[2]>>)
<1> p[1] \in Nat /\ p[1] < Buses /\ p[2] \in Nat /\ p[2] < PCI_MAX_DEVICES
  BY PlaceFacts
<1>1. CASE p[2] + 1 < PCI_MAX_DEVICES
  <2>1. q = <<p[1], p[2] + 1, 0>>
    BY <1>1 DEF NextSlot
  <2>2. q \in Places
    <3>1. p[1] \in 0 .. Buses - 1 /\ p[2] + 1 \in 0 .. PCI_MAX_DEVICES - 1
      BY <1>1, Sizes
    <3> QED BY <2>1, <3>1, PlaceFacts DEF Places
  <2>3. ASSUME NEW x \in Places
        PROVE  Before(x, q) <=> x[1] < p[1] \/ (x[1] = p[1] /\ x[2] =< p[2])
    <3>1. /\ x[1] \in Nat /\ x[2] \in Nat /\ x[3] \in Nat
          /\ p[1] \in Nat /\ p[2] \in Nat
      BY PlaceFacts
    <3>2. q[1] = p[1] /\ q[2] = p[2] + 1 /\ q[3] = 0
      BY <2>1
    <3> HIDE DEF q
    <3> QED BY <3>1, <3>2 DEF Before
  <2> QED BY <2>1, <2>2, <2>3
<1>2. CASE ~ (p[2] + 1 < PCI_MAX_DEVICES)
  <2>1. q = <<p[1] + 1, 0, 0>>
    BY <1>2 DEF NextSlot
  <2>2. q \in Places \cup {Done}
    <3>1. CASE p[1] + 1 < Buses
      <4>1. p[1] + 1 \in 0 .. Buses - 1 /\ 0 \in 0 .. PCI_MAX_DEVICES - 1
        BY <3>1, Sizes
      <4> QED BY <2>1, <4>1, PlaceFacts DEF Places
    <3>2. CASE ~ (p[1] + 1 < Buses)
      <4>1. p[1] + 1 = Buses
        BY <3>2, Sizes
      <4> QED BY <2>1, <4>1 DEF Done
    <3> QED BY <3>1, <3>2
  <2>3. ASSUME NEW x \in Places
        PROVE  Before(x, q) <=> x[1] < p[1] \/ (x[1] = p[1] /\ x[2] =< p[2])
    <3>1. /\ x[1] \in Nat /\ x[2] \in Nat /\ x[3] \in Nat /\ x[2] < PCI_MAX_DEVICES
          /\ p[1] \in Nat /\ p[2] \in Nat /\ PCI_MAX_DEVICES \in Nat
      BY PlaceFacts, Sizes
    <3>2. q[1] = p[1] + 1 /\ q[2] = 0 /\ q[3] = 0
      BY <2>1
    <3> HIDE DEF q
    <3> QED BY <1>2, <3>1, <3>2 DEF Before
  <2> QED BY <2>1, <2>2, <2>3
<1> QED BY <1>1, <1>2

\* An empty slot holds no device.
LEMMA PassedSkipping ==
  ASSUME space \in [Slots -> Wirings], NEW p \in Places, p[3] = 0,
         space[<<p[1], p[2]>>][0] = Nothing
  PROVE  Passed(NextSlot(<<p[1], p[2]>>)) = Passed(p)
<1>1. ASSUME NEW x \in Places, IsThere(x)
      PROVE  Before(x, NextSlot(<<p[1], p[2]>>)) <=> Before(x, p)
  <2>1. ~ (x[1] = p[1] /\ x[2] = p[2])
    <3>1. SUFFICES ASSUME x[1] = p[1], x[2] = p[2] PROVE FALSE
      OBVIOUS
    <3> DEFINE w == space[<<p[1], p[2]>>]
    <3>2. w \in Wirings /\ w[0] = Nothing /\ x[3] \in FunctionNumbers
      BY PlaceFacts
    <3>3. w[x[3]] # Nothing
      BY <1>1, <3>1 DEF IsThere
    <3> QED BY <3>2, <3>3 DEF Wirings
  <2>2. /\ x[1] \in Nat /\ x[2] \in Nat /\ x[3] \in Nat
        /\ p[1] \in Nat /\ p[2] \in Nat
    BY PlaceFacts
  <2>3. Before(x, p) <=> x[1] < p[1] \/ (x[1] = p[1] /\ x[2] < p[2])
    BY <2>2 DEF Before
  <2>4. Before(x, NextSlot(<<p[1], p[2]>>)) <=> x[1] < p[1] \/ (x[1] = p[1] /\ x[2] =< p[2])
    BY NextSlotOrder
  <2> QED BY <2>1, <2>2, <2>3, <2>4
<1> QED BY <1>1, PresentPlaces DEF Passed

\* From a function on, the scan passes it and no other device, whether it goes
\* to the next function or, when there is none, to the next slot.
LEMMA PassedFunction ==
  ASSUME NEW p \in Places, NEW q,
         \/ q = <<p[1], p[2], p[3] + 1>>
         \/ /\ q = NextSlot(<<p[1], p[2]>>)
            /\ \/ p[3] + 1 = PCI_MAX_FUNCTIONS
               \/ p[3] = 0 /\ ~ (space[<<p[1], p[2]>>][0].header >= 128)
  PROVE  Passed(q) = Passed(p) \cup (IF IsThere(p) THEN {p} ELSE {})
<1>1. ASSUME NEW x \in Places, IsThere(x)
      PROVE  Before(x, q) <=> Before(x, p) \/ x = p
  <2>1. /\ x[1] \in Nat /\ x[2] \in Nat /\ x[3] \in Nat /\ x[3] < PCI_MAX_FUNCTIONS
        /\ p[1] \in Nat /\ p[2] \in Nat /\ p[3] \in Nat
    BY PlaceFacts
  <2>2. x = p <=> x[1] = p[1] /\ x[2] = p[2] /\ x[3] = p[3]
    BY PlaceFacts
  <2>3. CASE q = <<p[1], p[2], p[3] + 1>>
    <3>1. q[1] = p[1] /\ q[2] = p[2] /\ q[3] = p[3] + 1
      BY <2>3
    <3> QED BY <2>1, <2>2, <3>1 DEF Before
  <2>4. CASE /\ q = NextSlot(<<p[1], p[2]>>)
             /\ \/ p[3] + 1 = PCI_MAX_FUNCTIONS
                \/ p[3] = 0 /\ ~ (space[<<p[1], p[2]>>][0].header >= 128)
    <3>1. Before(x, q) <=> x[1] < p[1] \/ (x[1] = p[1] /\ x[2] =< p[2])
      BY <2>4, NextSlotOrder
    <3>2. x[1] = p[1] /\ x[2] = p[2] => x[3] =< p[3]
      <4>1. CASE p[3] + 1 = PCI_MAX_FUNCTIONS
        BY <2>1, <4>1
      <4>2. CASE p[3] = 0 /\ ~ (space[<<p[1], p[2]>>][0].header >= 128)
        <5>1. x[1] = p[1] /\ x[2] = p[2] => x[3] = 0
          BY <1>1, <4>2 DEF IsThere
        <5> QED BY <4>2, <5>1
      <4> QED BY <2>4, <4>1, <4>2
    <3> QED BY <2>1, <2>2, <3>1, <3>2 DEF Before
  <2> QED BY <2>3, <2>4
<1>2. ~ Before(p, p)
  BY PlaceFacts DEF Before
<1> QED BY <1>1, PresentPlaces DEF Passed

LEMMA PassedEnds == Passed(<<0, 0, 0>>) = {} /\ Passed(Done) = Present
<1>1. ASSUME NEW x \in Places PROVE ~ Before(x, <<0, 0, 0>>) /\ Before(x, Done)
  <2>1. x[1] \in Nat /\ x[1] < Buses /\ x[2] \in Nat /\ x[3] \in Nat
    BY PlaceFacts
  <2>2. ~ Before(x, <<0, 0, 0>>)
    BY <2>1 DEF Before
  <2>3. Before(x, Done)
    BY <2>1 DEF Before, Done
  <2> QED BY <2>2, <2>3
<1> QED BY <1>1, PresentPlaces DEF Passed

LEMMA SameFixed == ASSUME answers' = answers PROVE Fixed' = Fixed
BY DEF Fixed

\* The name of what is registered for an entry.
LEMMA NamesOnBus ==
  \A class, subclass : <<"pci", ClassName(class, subclass)>> \in Devs
<1> SUFFICES ASSUME NEW class, NEW subclass PROVE ClassName(class, subclass) \in Names
  BY DEF Devs, Kinds
<1>1. ClassNames(class) \subseteq Names /\ "unknown" \in Names
  BY DEF ClassNames, Names
<1> QED BY <1>1, ClassNameOf

\* The entry of a function with a device is of its chip.
LEMMA EntryOf ==
  ASSUME space \in [Slots -> Wirings], NEW p \in Places, IsThere(p)
  PROVE  LET e == Entry(<<p[1], p[2]>>, p[3])
         IN  /\ e \in Fields
             /\ e.bus = p[1] /\ e.device = p[2] /\ e.function = p[3]
             /\ Matches(e, space[<<p[1], p[2]>>][p[3]])
<1> DEFINE slot == <<p[1], p[2]>>
           func == p[3]
           e == Entry(slot, func)
           c == space[slot][func]
<1>1. slot \in Slots /\ func \in FunctionNumbers /\ slot[1] = p[1] /\ slot[2] = p[2]
      /\ p[1] \in Nat /\ p[2] \in Nat /\ func \in Nat
  BY PlaceFacts
<1>2. c # Nothing
  BY DEF IsThere
<1> HIDE DEF slot, func, c
<1>3. /\ c \in Chips
      /\ Read16(slot, func, 0) = c.vendor[1] + 256 * c.vendor[2]
      /\ Read16(slot, func, 2) = c.device[1] + 256 * c.device[2]
      /\ Read8(slot, func, 8) = c.revision /\ Read8(slot, func, 9) = c.prog_if
      /\ Read8(slot, func, 10) = c.subclass /\ Read8(slot, func, 11) = c.class
      /\ Read8(slot, func, 60) = c.irq
      /\ Read32(slot, func, 16) = c.bar0
  BY <1>1, <1>2, ReadChip DEF c
<1>4. c \in ChipFields
  BY <1>3, ChipFacts
<1>5. e = [bus |-> p[1], device |-> p[2], function |-> func,
           vendor_id |-> Read16(slot, func, 0), device_id |-> Read16(slot, func, 2),
           class_code |-> c.class, subclass |-> c.subclass,
           prog_if |-> c.prog_if, revision |-> c.revision,
           irq |-> c.irq, bar0 |-> c.bar0]
  BY <1>1, <1>3 DEF Entry
<1> HIDE DEF e
<1>6. /\ c.vendor[1] \in Bytes /\ c.vendor[2] \in Bytes
      /\ c.device[1] \in Bytes /\ c.device[2] \in Bytes
      /\ c.vendor = <<c.vendor[1], c.vendor[2]>> /\ c.device = <<c.device[1], c.device[2]>>
  BY <1>4 DEF ChipFields
<1>7. Read16(slot, func, 0) \in Nat /\ Read16(slot, func, 2) \in Nat
  <2>1. \A a, b \in Bytes : a + 256 * b \in Nat
    BY ByteFacts
  <2> QED BY <1>3, <1>6, <2>1
<1>8. <<e.vendor_id % 256, e.vendor_id \div 256>> = c.vendor
  <2>1. e.vendor_id = c.vendor[1] + 256 * c.vendor[2]
    BY <1>3, <1>5
  <2>2. e.vendor_id % 256 = c.vendor[1] /\ e.vendor_id \div 256 = c.vendor[2]
    BY <1>6, <2>1, TwoBytes
  <2> QED BY <1>6, <2>2
<1>9. <<e.device_id % 256, e.device_id \div 256>> = c.device
  <2>1. e.device_id = c.device[1] + 256 * c.device[2]
    BY <1>3, <1>5
  <2>2. e.device_id % 256 = c.device[1] /\ e.device_id \div 256 = c.device[2]
    BY <1>6, <2>1, TwoBytes
  <2> QED BY <1>6, <2>2
<1>10. e \in Fields
  <2>1. /\ c.class \in Bytes /\ c.subclass \in Bytes /\ c.prog_if \in Bytes
        /\ c.revision \in Bytes /\ c.irq \in Bytes
        /\ c.bar0 \in Bytes \X Bytes \X Bytes \X Bytes
    BY <1>4 DEF ChipFields
  <2> QED BY <1>1, <1>5, <1>7, <2>1 DEF Fields
<1>11. /\ e.bus = p[1] /\ e.device = p[2] /\ e.function = func
       /\ e.class_code = c.class /\ e.subclass = c.subclass
       /\ e.prog_if = c.prog_if /\ e.revision = c.revision
       /\ e.irq = c.irq /\ e.bar0 = c.bar0
  BY <1>5
<1>12. Matches(e, c)
  BY <1>8, <1>9, <1>11, Zenon DEF Matches
<1> QED BY <1>10, <1>11, <1>12 DEF e, c, slot, func

\* The scan has passed nothing.
LEMMA ScanStarts ==
  ASSUME UNCHANGED <<answers, space>>, pci_devices' = <<>>, at' = <<0, 0, 0>>
  PROVE  ScanInv' /\ Listing' = Fixed'
<1>1. Passed(at)' = {} /\ Cardinality(Passed(at)') = 0 /\ Len(pci_devices') = 0
  <2>1. Passed(at)' = Passed(<<0, 0, 0>>)
    BY DEF Passed, Present
  <2>2. Len(pci_devices') = 0
    OBVIOUS
  <2> QED BY <2>1, <2>2, PassedEnds, FS_EmptySet
<1>2. Min({0, PCI_MAX_STORED}) = 0
  BY MinOfTwo, Sizes
<1>3. at' \in Places
  <2>1. 0 \in 0 .. Buses - 1 /\ 0 \in 0 .. PCI_MAX_DEVICES - 1 /\ 0 \in FunctionNumbers
    BY Sizes DEF FunctionNumbers
  <2> QED BY <2>1 DEF Places
<1>4. Listing' = Fixed'
  <2>1. OnBus' = <<>>
    BY <1>1 DEF OnBus
  <2>2. \A s \in Seq(Devs) : s \o <<>> = s
    OBVIOUS
  <2> QED BY <2>1, <2>2, SameFixed, BasicsListed DEF Listing
<1>5. at'[3] = 0 /\ pci_devices' \in Seq(Fields) /\ 1 .. Len(pci_devices') = {}
  BY <1>1
<1>6. Places' = Places /\ Done' = Done
  BY DEF Places, Done, FunctionNumbers
<1> QED BY <1>1, <1>2, <1>3, <1>4, <1>5, <1>6 DEF ScanInv

\* What the scan keeps where it stores nothing.
LEMMA ScanUnchanged ==
  ASSUME ScanInv, Lists(devices, Listing),
         UNCHANGED <<answers, space, pci_devices, devices>>
  PROVE  /\ Lists(devices', Listing')
         /\ pci_devices' \in Seq(Fields)
         /\ \A k \in 1 .. Len(pci_devices') : Found(k)'
<1>1. Listing' = Listing
  BY SameFixed DEF Listing, OnBus
<1>2. ASSUME NEW k \in 1 .. Len(pci_devices') PROVE Found(k)'
  <2>1. Found(k)
    BY <1>2 DEF ScanInv
  <2>2. Present' = Present
    BY DEF Present
  <2> QED BY <2>1, <2>2 DEF Found
<1> QED BY <1>1, <1>2 DEF ScanInv, Lists

\* What pci_detect_device keeps where there is a device and room for it.
LEMMA ScanStores ==
  ASSUME ScanInv, Lists(devices, Listing), space \in [Slots -> Wirings],
         at \in Places, IsThere(at), Len(pci_devices) < PCI_MAX_STORED,
         NEW e, e = Entry(<<at[1], at[2]>>, at[3]),
         UNCHANGED <<answers, space>>,
         pci_devices' = Append(pci_devices, e),
         devices' = Registered(devices, "pci", ClassName(e.class_code, e.subclass))
  PROVE  /\ Lists(devices', Listing')
         /\ pci_devices' \in Seq(Fields)
         /\ \A k \in 1 .. Len(pci_devices') : Found(k)'
<1> DEFINE n == Len(pci_devices)
           d == <<"pci", ClassName(e.class_code, e.subclass)>>
<1>1. pci_devices \in Seq(Fields) /\ n \in Nat
  BY DEF ScanInv
<1>2. e \in Fields
  BY EntryOf
<1>3. /\ pci_devices' \in Seq(Fields) /\ Len(pci_devices') = n + 1 /\ pci_devices'[n + 1] = e
      /\ \A k \in 1 .. n : pci_devices'[k] = pci_devices[k]
  BY <1>1, <1>2
<1>4. Present' = Present
  BY DEF Present
<1>5. Cardinality(Passed(at)) = n
  <2>1. Cardinality(Passed(at)) \in Nat
    <3>1. Passed(at) \subseteq Present
      BY DEF Passed
    <3> QED BY <3>1, PlacesFinite, FS_Subset, FS_CardinalityType
  <2>2. n = Min({Cardinality(Passed(at)), PCI_MAX_STORED})
    BY DEF ScanInv
  <2> HIDE DEF n
  <2>3. n < PCI_MAX_STORED
    BY DEF n
  <2> QED BY <2>1, <2>2, <2>3, MinOfTwo, Sizes
<1>6. ASSUME NEW k \in 1 .. Len(pci_devices') PROVE Found(k)'
  <2>1. CASE k \in 1 .. n
    <3>1. Found(k)
      BY <2>1 DEF ScanInv
    <3>2. pci_devices'[k] = pci_devices[k]
      BY <1>3, <2>1
    <3> QED BY <1>4, <3>1, <3>2 DEF Found
  <2>2. CASE k = n + 1
    <3>1. pci_devices'[k] = e
      BY <1>3, <2>2
    <3>2. <<e.bus, e.device, e.function>> = at
      <4>1. e.bus = at[1] /\ e.device = at[2] /\ e.function = at[3]
        BY EntryOf
      <4>2. at = <<at[1], at[2], at[3]>>
        BY PlaceFacts
      <4> QED BY <4>1, <4>2
    <3>3. at \in Present
      BY PresentPlaces
    <3>4. Cardinality({y \in Present : Before(y, at)}) = k - 1
      BY <1>1, <1>5, <2>2 DEF Passed
    <3>5. space'[<<e.bus, e.device>>][e.function] = space[<<at[1], at[2]>>][at[3]]
      BY EntryOf
    <3>6. Matches(e, space'[<<e.bus, e.device>>][e.function])
      BY <3>5, EntryOf
    <3>7. LET x == <<e.bus, e.device, e.function>>
          IN  x \in Present' /\ Cardinality({y \in Present' : Before(y, x)}) = k - 1
      BY <1>4, <3>2, <3>3, <3>4
    <3> QED BY <3>1, <3>6, <3>7 DEF Found
  <2> QED BY <1>1, <1>3, <2>1, <2>2
<1>7. Listing' = Append(Listing, d) /\ Listing \in Seq(Devs) /\ d \in Devs
  <2> DEFINE E(k) == <<"pci", ClassName(pci_devices[k].class_code, pci_devices[k].subclass)>>
  <2>1. d \in Devs /\ \A k \in 1 .. n : E(k) \in Devs
    BY NamesOnBus
  <2>2. OnBus = [k \in 1 .. n |-> E(k)]
    BY DEF OnBus
  <2>3. OnBus' = [k \in 1 .. n + 1 |-> IF k = n + 1 THEN d ELSE E(k)]
    <3>1. \A k \in 1 .. n + 1 : k # n + 1 => k \in 1 .. n
      BY <1>1
    <3> QED BY <1>3, <3>1 DEF OnBus
  <2> HIDE DEF E, n, d
  <2>4. OnBus \in Seq(Devs) /\ Len(OnBus) = n
    BY <1>1, <2>1, <2>2
  <2>5. OnBus' = Append(OnBus, d)
    <3>1. /\ Append(OnBus, d) \in Seq(Devs) /\ Len(Append(OnBus, d)) = n + 1
          /\ \A k \in 1 .. n + 1 :
               Append(OnBus, d)[k] = IF k = n + 1 THEN d ELSE OnBus[k]
      BY <1>1, <2>1, <2>4
    <3>2. \A k \in 1 .. n + 1 : k # n + 1 => OnBus[k] = E(k) /\ E(k) \in Devs
      BY <1>1, <2>1, <2>2
    <3>3. OnBus' \in Seq(Devs) /\ Len(OnBus') = n + 1
      BY <1>1, <2>1, <2>3, <3>2
    <3>4. \A k \in 1 .. n + 1 : OnBus'[k] = Append(OnBus, d)[k]
      BY <2>3, <3>1, <3>2
    <3>5. \A s, t \in Seq(Devs) :
            Len(s) = n + 1 /\ Len(t) = n + 1 /\ (\A k \in 1 .. n + 1 : s[k] = t[k]) => s = t
      BY <1>1
    <3> QED BY <3>1, <3>3, <3>4, <3>5
  <2>6. \A s, t \in Seq(Devs) : s \o Append(t, d) = Append(s \o t, d) /\ s \o t \in Seq(Devs)
    BY <2>1
  <2> QED BY <2>1, <2>4, <2>5, <2>6, SameFixed, BasicsListed DEF Listing
<1>8. Lists(devices', Listing')
  <2>1. d[1] = "pci" /\ d[2] = ClassName(e.class_code, e.subclass)
    OBVIOUS
  <2> HIDE DEF d
  <2> QED BY <1>7, <2>1, Registers
<1> QED BY <1>3, <1>6, <1>8

\* What the count of a set that takes in a device does to the entries.
LEMMA CountGrows ==
  ASSUME NEW S, IsFiniteSet(S), NEW p, p \notin S, NEW n \in Nat,
         n = Min({Cardinality(S), PCI_MAX_STORED})
  PROVE  /\ n < PCI_MAX_STORED => n + 1 = Min({Cardinality(S \cup {p}), PCI_MAX_STORED})
         /\ n >= PCI_MAX_STORED => n = Min({Cardinality(S \cup {p}), PCI_MAX_STORED})
<1>1. Cardinality(S) \in Nat /\ Cardinality(S \cup {p}) = Cardinality(S) + 1
  BY FS_AddElement, FS_CardinalityType
<1>2. Cardinality(S) + 1 \in Nat
  BY <1>1
<1>3. /\ n = IF Cardinality(S) < PCI_MAX_STORED THEN Cardinality(S) ELSE PCI_MAX_STORED
      /\ Min({Cardinality(S \cup {p}), PCI_MAX_STORED})
           = IF Cardinality(S) + 1 < PCI_MAX_STORED THEN Cardinality(S) + 1 ELSE PCI_MAX_STORED
  <2> DEFINE c == Cardinality(S)
  <2>1. c \in Nat /\ PCI_MAX_STORED \in Nat /\ c + 1 \in Nat
    BY <1>1, Sizes
  <2> HIDE DEF c
  <2>2. /\ Min({c, PCI_MAX_STORED}) = IF c < PCI_MAX_STORED THEN c ELSE PCI_MAX_STORED
        /\ Min({c + 1, PCI_MAX_STORED}) = IF c + 1 < PCI_MAX_STORED THEN c + 1 ELSE PCI_MAX_STORED
    BY <2>1, MinOfTwo
  <2> QED BY <1>1, <2>2 DEF c
<1> QED BY <1>1, <1>3, Sizes

LEMMA ScanStepKeeps ==
  ASSUME ScanInv, Lists(devices, Listing), space \in [Slots -> Wirings], ScanStep
  PROVE  ScanInv' /\ Lists(devices', Listing')
<1> DEFINE slot == <<at[1], at[2]>>
           w == space[slot]
           q == at'
           n == Len(pci_devices)
           More == q # Done /\ q[3] # 0 =>
                     LET v == space[<<q[1], q[2]>>] IN v[0] # Nothing /\ v[0].header >= 128
<1>1. at \in Places /\ space' = space /\ answers' = answers
  BY DEF ScanInv, ScanStep
<1>2. slot \in Slots /\ at[3] \in FunctionNumbers /\ 0 \in FunctionNumbers /\ at[3] \in Nat
      /\ at[3] < PCI_MAX_FUNCTIONS
  BY <1>1, PlaceFacts
<1>3. n \in Nat /\ n = Min({Cardinality(Passed(at)), PCI_MAX_STORED})
  BY DEF ScanInv
<1>4. IsFiniteSet(Passed(at)) /\ at \notin Passed(at)
  <2>1. Passed(at) \subseteq Present
    BY DEF Passed
  <2>2. ~ Before(at, at)
    <3>1. at[1] \in Nat /\ at[2] \in Nat /\ at[3] \in Nat
      BY <1>1, PlaceFacts
    <3> QED BY <3>1 DEF Before
  <2> QED BY <2>1, <2>2, PlacesFinite, FS_Subset DEF Passed
<1>5. at[3] # 0 => w[0] # Nothing /\ w[0].header >= 128
  <2>1. at # Done
    BY DEF ScanStep
  <2> QED BY <2>1 DEF ScanInv
<1>6. Passed(at)' = Passed(q)
  BY <1>1 DEF Passed, Present
<1>7. ASSUME /\ Lists(devices', Listing')
             /\ pci_devices' \in Seq(Fields)
             /\ \A k \in 1 .. Len(pci_devices') : Found(k)',
             q \in Places \cup {Done}, More,
             Len(pci_devices') = Min({Cardinality(Passed(q)), PCI_MAX_STORED})
      PROVE  ScanInv' /\ Lists(devices', Listing')
  <2>1. /\ Places' = Places /\ Done' = Done
    BY DEF Places, Done, FunctionNumbers
  <2>2. q # Done /\ q[3] # 0 =>
          LET v == space'[<<q[1], q[2]>>] IN v[0] # Nothing /\ v[0].header >= 128
    BY <1>1, <1>7
  <2>3. Len(pci_devices') = Min({Cardinality(Passed(at)'), PCI_MAX_STORED})
    BY <1>6, <1>7
  <2> QED BY <1>7, <2>1, <2>2, <2>3 DEF ScanInv
<1>8. CASE SkipSlot(slot)
  <2>1. at[3] = 0 /\ q = NextSlot(slot) /\ w[0] = Nothing
        /\ UNCHANGED <<pci_devices, devices>>
    <3>1. Read16(slot, 0, 0) = 65535
      BY <1>8 DEF SkipSlot
    <3> QED BY <1>2, <1>8, <3>1, ReadVendor DEF SkipSlot
  <2>2. Passed(q) = Passed(at)
    BY <1>1, <2>1, PassedSkipping
  <2>3. q \in Places \cup {Done} /\ More
    <3>1. NextSlot(slot) \in Places \cup {Done} /\ NextSlot(slot)[3] = 0
      BY <1>1, NextSlotOrder
    <3> QED BY <2>1, <3>1
  <2>4. /\ Lists(devices', Listing')
        /\ pci_devices' \in Seq(Fields)
        /\ \A k \in 1 .. Len(pci_devices') : Found(k)'
    BY <1>1, <2>1, ScanUnchanged
  <2> HIDE DEF q, More
  <2> QED BY <1>3, <1>7, <2>1, <2>2, <2>3, <2>4
<1>9. CASE ScanFunction(slot, at[3])
  <2>1. w[0] # Nothing /\ DetectDevice(slot, at[3])
    <3>1. Read16(slot, 0, 0) # 65535
      BY <1>9 DEF ScanFunction
    <3> QED BY <1>2, <1>9, <3>1, ReadVendor DEF ScanFunction
  <2>2. Read8(slot, 0, 14) = w[0].header
    BY <1>2, <2>1, ReadChip
  <2>3. q = IF at[3] + 1 \in FunctionsToRead(slot) THEN <<slot[1], slot[2], at[3] + 1>>
            ELSE NextSlot(slot)
    BY <1>9 DEF ScanFunction
  <2>4. /\ q \in Places \cup {Done} /\ More
        /\ \/ q = <<at[1], at[2], at[3] + 1>>
           \/ /\ q = NextSlot(slot)
              /\ \/ at[3] + 1 = PCI_MAX_FUNCTIONS
                 \/ at[3] = 0 /\ ~ (w[0].header >= 128)
    <3>1. CASE at[3] + 1 \in FunctionsToRead(slot)
      <4>1. q = <<at[1], at[2], at[3] + 1>>
        BY <2>3, <3>1
      <4>2. at[3] + 1 # 0
        BY <1>2
      <4>3. w[0].header >= 128 /\ at[3] + 1 \in FunctionNumbers
        BY <2>2, <3>1, <4>2 DEF FunctionsToRead
      <4>4. q \in Places
        BY <1>1, <4>1, <4>3 DEF Places
      <4>5. q[1] = at[1] /\ q[2] = at[2]
        BY <4>1
      <4>6. More
        BY <2>1, <4>3, <4>5
      <4> HIDE DEF q, More
      <4> QED BY <4>1, <4>4, <4>6
    <3>2. CASE at[3] + 1 \notin FunctionsToRead(slot)
      <4>1. q = NextSlot(slot)
        BY <2>3, <3>2
      <4>2. NextSlot(slot) \in Places \cup {Done} /\ NextSlot(slot)[3] = 0
        BY <1>1, NextSlotOrder
      <4>3. CASE w[0].header >= 128
        <5>1. at[3] + 1 \notin 0 .. PCI_MAX_FUNCTIONS - 1
          BY <2>2, <3>2, <4>3 DEF FunctionsToRead, FunctionNumbers
        <5>2. at[3] + 1 = PCI_MAX_FUNCTIONS
          BY <1>2, <5>1, Sizes
        <5> QED BY <4>1, <4>2, <5>2
      <4>4. CASE ~ (w[0].header >= 128)
        BY <1>5, <4>1, <4>2, <4>4
      <4> QED BY <4>3, <4>4
    <3> QED BY <3>1, <3>2
  <2>5. Passed(q) = Passed(at) \cup (IF IsThere(at) THEN {at} ELSE {})
    <3> HIDE DEF q
    <3> QED BY <1>1, <2>4, PassedFunction
  <2> DEFINE e == Entry(slot, at[3])
  <2>6. IsThere(at) <=> ~ (e.vendor_id \in {65535, 0})
    <3>1. e.vendor_id = Read16(slot, at[3], 0)
      BY DEF Entry
    <3>2. Read16(slot, at[3], 0) = 65535 <=> w[at[3]] = Nothing
      BY <1>2, ReadVendor
    <3>3. w[at[3]] # Nothing => (Read16(slot, at[3], 0) = 0 <=> w[at[3]].vendor = <<0, 0>>)
      BY <1>2, ReadVendor
    <3>4. IsThere(at) <=> w[at[3]] # Nothing /\ w[at[3]].vendor # <<0, 0>>
      BY <1>5 DEF IsThere
    <3> HIDE DEF e, w, slot
    <3> QED BY <3>1, <3>2, <3>3, <3>4
  <2>7. CASE ~ IsThere(at) \/ n >= PCI_MAX_STORED
    <3>1. UNCHANGED <<pci_devices, devices>>
      BY <2>1, <2>6, <2>7 DEF DetectDevice
    <3>2. Len(pci_devices') = Min({Cardinality(Passed(q)), PCI_MAX_STORED})
      <4> HIDE DEF q
      <4>1. CASE ~ IsThere(at)
        BY <1>3, <2>5, <3>1, <4>1
      <4>2. CASE IsThere(at) /\ n >= PCI_MAX_STORED
        BY <1>3, <1>4, <2>5, <3>1, <4>2, CountGrows
      <4> QED BY <2>7, <4>1, <4>2
    <3>3. /\ Lists(devices', Listing')
          /\ pci_devices' \in Seq(Fields)
          /\ \A k \in 1 .. Len(pci_devices') : Found(k)'
      BY <1>1, <3>1, ScanUnchanged
    <3> HIDE DEF q, More
    <3> QED BY <1>7, <2>4, <3>2, <3>3
  <2>8. CASE IsThere(at) /\ ~ (n >= PCI_MAX_STORED)
    <3>1. /\ pci_devices' = Append(pci_devices, e)
          /\ devices' = Registered(devices, "pci", ClassName(e.class_code, e.subclass))
      BY <2>1, <2>6, <2>8 DEF DetectDevice
    <3>2. n < PCI_MAX_STORED
      BY <1>3, <2>8, Sizes
    <3>3. Len(pci_devices') = n + 1
      BY <3>1 DEF ScanInv
    <3>4. Len(pci_devices') = Min({Cardinality(Passed(q)), PCI_MAX_STORED})
      <4> HIDE DEF q, n
      <4> QED BY <1>3, <1>4, <2>5, <2>8, <3>2, <3>3, CountGrows
    <3>5. /\ Lists(devices', Listing')
          /\ pci_devices' \in Seq(Fields)
          /\ \A k \in 1 .. Len(pci_devices') : Found(k)'
      BY <1>1, <2>8, <3>1, <3>2, ScanStores
    <3> HIDE DEF q, More
    <3> QED BY <1>7, <2>4, <3>4, <3>5
  <2> QED BY <2>7, <2>8
<1> QED BY <1>8, <1>9 DEF ScanStep

------------------------------------------------------------------------------
(* The order of the calls.                                                  *)

LEMMA CallAfter ==
  /\ StartOrder[Place("magic") + 1] = "memory"
  /\ StartOrder[Place("memory") + 1] = "keyboard"
  /\ StartOrder[Place("keyboard") + 1] = "init_devices"
  /\ StartOrder[Place("init_devices") + 1] = "detect_devices"
  /\ StartOrder[Place("detect_devices") + 1] = "init_pci"
  /\ StartOrder[Place("init_pci") + 1] = "scan"
  /\ StartOrder[Place("scan") + 1] = "disk"
  /\ StartOrder[Place("disk") + 1] = "vfs"
  /\ StartOrder[Place("vfs") + 1] = "scheduler"
  /\ StartOrder[Place("scheduler") + 1] = "processes"
  /\ StartOrder[Place("processes") + 1] = "syscalls"
  /\ StartOrder[Place("syscalls") + 1] = "network"
  /\ StartOrder[Place("network") + 1] = "shell"
<1>1. DOMAIN StartOrder = 1 .. 14
  BY DEF StartOrder
<1>2. /\ StartOrder[1] = "magic" /\ StartOrder[2] = "memory" /\ StartOrder[3] = "keyboard"
      /\ StartOrder[4] = "init_devices" /\ StartOrder[5] = "detect_devices"
      /\ StartOrder[6] = "init_pci" /\ StartOrder[7] = "scan" /\ StartOrder[8] = "disk"
      /\ StartOrder[9] = "vfs" /\ StartOrder[10] = "scheduler" /\ StartOrder[11] = "processes"
      /\ StartOrder[12] = "syscalls" /\ StartOrder[13] = "network" /\ StartOrder[14] = "shell"
  BY DEF StartOrder
<1>3. \A k \in 1 .. 14 : Place(StartOrder[k]) = k
  <2>1. \A j, k \in 1 .. 14 : StartOrder[j] = StartOrder[k] => j = k
    BY <1>2
  <2> QED BY <1>1, <2>1 DEF Place
<1>4. /\ 1 + 1 = 2 /\ 2 + 1 = 3 /\ 3 + 1 = 4 /\ 4 + 1 = 5 /\ 5 + 1 = 6 /\ 6 + 1 = 7
      /\ 7 + 1 = 8 /\ 8 + 1 = 9 /\ 9 + 1 = 10 /\ 10 + 1 = 11 /\ 11 + 1 = 12
      /\ 12 + 1 = 13 /\ 13 + 1 = 14
  OBVIOUS
<1>5. /\ Place("magic") = 1 /\ Place("memory") = 2 /\ Place("keyboard") = 3
      /\ Place("init_devices") = 4 /\ Place("detect_devices") = 5 /\ Place("init_pci") = 6
      /\ Place("scan") = 7 /\ Place("disk") = 8 /\ Place("vfs") = 9 /\ Place("scheduler") = 10
      /\ Place("processes") = 11 /\ Place("syscalls") = 12 /\ Place("network") = 13
  BY <1>2, <1>3
<1> QED BY <1>2, <1>4, <1>5

LEMMA InitKernelInv == KInit => KernelInv
<1> SUFFICES ASSUME KInit PROVE KernelInv
  OBVIOUS
<1>1. NetworkInv
  <2>1. ~ network_up /\ network_up \in BOOLEAN /\ sent = <<>>
    <3>1. network_up = FALSE /\ sent = <<>>
      BY DEF KInit, NInit
    <3> QED BY <3>1
  <2>2. \A T : <<>> \in Seq(T) /\ Len(<<>>) = 0
    OBVIOUS
  <2> QED BY <2>1, <2>2 DEF NetworkInv
<1>2. pc = "magic" /\ devices = EmptyRegistry /\ answers \subseteq Serials
      /\ space \in [Slots -> Wirings] /\ ~ network_up
  BY DEF KInit, NInit
<1>3. pc \in Undetected /\ pc \notin AfterScan /\ pc # "init_pci" /\ pc # "scan" /\ pc # "shell"
  BY <1>2 DEF Undetected, AfterScan
<1> QED BY <1>1, <1>2, <1>3 DEF KernelInv

\* What a call keeps that starts neither devices nor bus nor network.
LEMMA SameDevices ==
  ASSUME ScanInv, Lists(devices, Listing), UNCHANGED <<DVars, PVars>>
  PROVE  ScanInv' /\ Lists(devices', Listing')
<1>1. /\ devices' = devices /\ answers' = answers /\ space' = space
      /\ pci_devices' = pci_devices /\ at' = at
  BY DEF DVars, PVars
<1>2. /\ Lists(devices', Listing')
      /\ pci_devices' \in Seq(Fields)
      /\ \A k \in 1 .. Len(pci_devices') : Found(k)'
  BY <1>1, ScanUnchanged
<1>3. Passed(at)' = Passed(at) /\ Places' = Places /\ Done' = Done
  BY <1>1 DEF Passed, Present, Places, Done, FunctionNumbers
<1>4. /\ at' \in Places' \cup {Done'}
      /\ at' # Done' /\ at'[3] # 0 => LET w == space'[<<at'[1], at'[2]>>]
                                      IN  w[0] # Nothing /\ w[0].header >= 128
      /\ Len(pci_devices') = Min({Cardinality(Passed(at)'), PCI_MAX_STORED})
  BY <1>1, <1>3 DEF ScanInv
<1> QED BY <1>2, <1>4 DEF ScanInv

LEMMA Phases ==
  ASSUME answers' \subseteq Serials, space' \in [Slots -> Wirings], NetworkInv',
         pc' # "shell" => ~ network_up',
         \/ pc' \in Undetected /\ devices' = EmptyRegistry
         \/ pc' = "init_pci" /\ Lists(devices', Fixed')
         \/ pc' = "scan" /\ ScanInv' /\ Lists(devices', Listing')
         \/ pc' \in AfterScan /\ ScanInv' /\ Lists(devices', Listing') /\ at' = Done
  PROVE  KernelInv'
<1>1. /\ "init_pci" \notin Undetected /\ "init_pci" \notin AfterScan
      /\ "scan" \notin Undetected /\ "scan" \notin AfterScan /\ "init_pci" # "scan"
      /\ \A c \in Undetected : c \notin AfterScan
  BY DEF Undetected, AfterScan
<1>2. CASE pc' \in Undetected /\ devices' = EmptyRegistry
  BY <1>1, <1>2 DEF KernelInv
<1>3. CASE pc' = "init_pci" /\ Lists(devices', Fixed')
  BY <1>1, <1>3 DEF KernelInv
<1>4. CASE pc' = "scan" /\ ScanInv' /\ Lists(devices', Listing')
  BY <1>1, <1>4 DEF KernelInv
<1>5. CASE pc' \in AfterScan /\ ScanInv' /\ Lists(devices', Listing') /\ at' = Done
  BY <1>1, <1>5 DEF KernelInv
<1> QED BY <1>2, <1>3, <1>4, <1>5

LEMMA NextKernelInv == KernelInv /\ [KNext]_KVars => KernelInv'
<1> SUFFICES ASSUME KernelInv, [KNext]_KVars PROVE KernelInv'
  OBVIOUS
<1>1. answers \subseteq Serials /\ space \in [Slots -> Wirings] /\ NetworkInv
  BY DEF KernelInv
<1>2. CASE CheckMagic
  <2>1. pc = "magic" /\ pc' \in {"memory", "panic"} /\ UNCHANGED <<DVars, PVars, NVars>>
    BY <1>2, CallAfter DEF CheckMagic, At, GoesOn
  <2>2. pc \in Undetected /\ pc' \in Undetected /\ pc' # "shell" /\ pc # "shell"
    BY <2>1 DEF Undetected
  <2>3. NetworkInv'
    BY <1>1, <2>1, SameNetwork
  <2> QED BY <1>1, <2>1, <2>2, <2>3, Phases DEF KernelInv, DVars, PVars, NVars
<1>3. CASE StartOther
  <2>1. UNCHANGED <<DVars, PVars, NVars>>
    BY <1>3 DEF StartOther
  <2>2. NetworkInv' /\ network_up' = network_up
    BY <1>1, <2>1, SameNetwork DEF NVars
  <2>3. CASE pc \in {"memory", "keyboard"}
    <3>1. pc' \in {"keyboard", "init_devices"}
      BY <1>3, <2>3, CallAfter DEF StartOther, GoesOn
    <3>2. pc \in Undetected /\ pc' \in Undetected /\ pc' # "shell" /\ pc # "shell"
      BY <2>3, <3>1 DEF Undetected
    <3> QED BY <1>1, <2>1, <2>2, <3>2, Phases DEF KernelInv, DVars, PVars
  <2>4. CASE pc \in {"disk", "vfs", "scheduler", "processes", "syscalls"}
    <3>1. pc' \in {"vfs", "scheduler", "processes", "syscalls", "network"}
      BY <1>3, <2>4, CallAfter DEF StartOther, GoesOn
    <3>2. pc \in AfterScan /\ pc' \in AfterScan /\ pc' # "shell" /\ pc # "shell"
      BY <2>4, <3>1 DEF AfterScan
    <3>3. ScanInv /\ Lists(devices, Listing) /\ at = Done /\ ~ network_up
      BY <3>2 DEF KernelInv
    <3>4. ScanInv' /\ Lists(devices', Listing')
      BY <2>1, <3>3, SameDevices
    <3> QED BY <1>1, <2>1, <2>2, <3>2, <3>3, <3>4, Phases DEF DVars, PVars
  <2> QED BY <1>3, <2>3, <2>4 DEF StartOther
<1>4. CASE InitDevices
  <2>1. pc = "init_devices" /\ pc' = "detect_devices" /\ devices' = EmptyRegistry
        /\ UNCHANGED <<answers, PVars, NVars>>
    BY <1>4, CallAfter DEF InitDevices, At, GoesOn
  <2>2. pc' \in Undetected /\ pc # "shell"
    BY <2>1 DEF Undetected
  <2>3. NetworkInv' /\ network_up' = network_up
    BY <1>1, <2>1, SameNetwork DEF NVars
  <2> QED BY <1>1, <2>1, <2>2, <2>3, Phases DEF KernelInv, PVars
<1>5. CASE DetectDevices
  <2>1. pc = "detect_devices" /\ pc' = "init_pci" /\ devices' = WithBasics(devices)
        /\ UNCHANGED <<answers, PVars, NVars>>
    BY <1>5, CallAfter DEF DetectDevices, At, GoesOn
  <2>2. pc \in Undetected /\ pc # "shell"
    BY <2>1 DEF Undetected
  <2>3. devices = EmptyRegistry /\ ~ network_up
    BY <2>2 DEF KernelInv
  <2>4. Lists(devices', Fixed')
    BY <2>1, <2>3, EmptyLists, BasicsListed, SameFixed
  <2>5. NetworkInv' /\ network_up' = network_up
    BY <1>1, <2>1, SameNetwork DEF NVars
  <2> QED BY <1>1, <2>1, <2>3, <2>4, <2>5, Phases DEF PVars
<1>6. CASE InitPci
  <2>1. pc = "init_pci" /\ pc' = "scan" /\ pci_devices' = <<>> /\ at' = <<0, 0, 0>>
        /\ UNCHANGED <<DVars, space, NVars>>
    BY <1>6, CallAfter DEF InitPci, At, GoesOn
  <2>2. Lists(devices, Fixed) /\ ~ network_up
    BY <2>1 DEF KernelInv
  <2>3. ScanInv' /\ Listing' = Fixed'
    BY <2>1, ScanStarts DEF DVars
  <2>4. Lists(devices', Listing')
    BY <2>1, <2>2, <2>3, SameFixed DEF DVars
  <2>5. NetworkInv' /\ network_up' = network_up
    BY <1>1, <2>1, SameNetwork DEF NVars
  <2> QED BY <1>1, <2>1, <2>2, <2>3, <2>4, <2>5, Phases DEF DVars
<1>7. CASE ScanBus
  <2>1. pc = "scan" /\ UNCHANGED NVars
    BY <1>7 DEF ScanBus, At
  <2>2. ScanInv /\ Lists(devices, Listing) /\ ~ network_up
    BY <2>1 DEF KernelInv
  <2>3. NetworkInv' /\ network_up' = network_up
    BY <1>1, <2>1, SameNetwork DEF NVars
  <2>4. CASE ScanStep /\ UNCHANGED pc
    <3>1. ScanInv' /\ Lists(devices', Listing')
      BY <1>1, <2>2, <2>4, ScanStepKeeps
    <3>2. space' = space /\ answers' = answers
      BY <2>4 DEF ScanStep
    <3> QED BY <1>1, <2>1, <2>2, <2>3, <2>4, <3>1, <3>2, Phases
  <2>5. CASE at = Done /\ GoesOn /\ UNCHANGED <<DVars, PVars>>
    <3>1. pc' = "disk"
      BY <2>1, <2>5, CallAfter DEF GoesOn
    <3>2. pc' \in AfterScan /\ pc' # "shell"
      BY <3>1 DEF AfterScan
    <3>3. ScanInv' /\ Lists(devices', Listing')
      BY <2>2, <2>5, SameDevices
    <3> QED BY <1>1, <2>2, <2>3, <2>5, <3>2, <3>3, Phases DEF DVars, PVars
  <2> QED BY <1>7, <2>4, <2>5 DEF ScanBus
<1>8. CASE StartNetwork
  <2>1. pc = "network" /\ pc' = "shell" /\ InitNetwork /\ UNCHANGED <<DVars, PVars>>
    BY <1>8, CallAfter DEF StartNetwork, At, GoesOn
  <2>2. pc \in AfterScan /\ pc' \in AfterScan /\ pc # "shell"
    BY <2>1 DEF AfterScan
  <2>3. ScanInv /\ Lists(devices, Listing) /\ at = Done /\ ~ network_up
    BY <2>2 DEF KernelInv
  <2>4. ScanInv' /\ Lists(devices', Listing') /\ NetworkInv'
    BY <1>1, <2>1, <2>3, SameDevices, StartNetworkKeeps
  <2> QED BY <1>1, <2>1, <2>2, <2>3, <2>4, Phases DEF DVars, PVars
<1>9. CASE Send
  <2>1. pc = "shell" /\ pc' = pc /\ UNCHANGED <<DVars, PVars>>
    BY <1>9 DEF Send, At
  <2>2. pc \in AfterScan
    BY <2>1 DEF AfterScan
  <2>3. ScanInv /\ Lists(devices, Listing) /\ at = Done
    BY <2>2 DEF KernelInv
  <2>4. ScanInv' /\ Lists(devices', Listing')
    BY <2>1, <2>3, SameDevices
  <2>5. NetworkInv'
    BY <1>1, <1>9, SendKeeps DEF Send
  <2> QED BY <1>1, <2>1, <2>2, <2>3, <2>4, <2>5, Phases DEF DVars, PVars
<1>10. CASE UNCHANGED KVars
  <2>1. pc' = pc /\ UNCHANGED <<DVars, PVars, NVars>>
    BY <1>10 DEF KVars, DVars, PVars, NVars
  <2>2. NetworkInv' /\ network_up' = network_up
    BY <1>1, <2>1, SameNetwork DEF NVars
  <2>3. CASE pc \in Undetected
    BY <1>1, <2>1, <2>2, <2>3, Phases DEF KernelInv, DVars, PVars
  <2>4. CASE pc = "init_pci"
    <3>1. Lists(devices', Fixed')
      BY <2>1, <2>4, SameFixed DEF KernelInv, DVars
    <3> QED BY <1>1, <2>1, <2>2, <2>4, <3>1, Phases DEF KernelInv, DVars, PVars
  <2>5. CASE pc \in {"scan"} \cup AfterScan
    <3>1. ScanInv /\ Lists(devices, Listing) /\ (pc \in AfterScan => at = Done)
      BY <2>5 DEF KernelInv
    <3>2. ScanInv' /\ Lists(devices', Listing')
      BY <2>1, <3>1, SameDevices
    <3> QED BY <1>1, <2>1, <2>2, <2>5, <3>1, <3>2, Phases DEF KernelInv, DVars, PVars
  <2> QED BY <2>3, <2>4, <2>5 DEF KernelInv
<1> QED BY <1>2, <1>3, <1>4, <1>5, <1>6, <1>7, <1>8, <1>9, <1>10 DEF KNext

\* The whole invariant: the registry is what was detected, without holes, the
\* PCI table is what the scan has passed, and a packet's sums are right.
THEOREM KernelInvariant == KSpec => []KernelInv
<1> QED BY InitKernelInv, NextKernelInv, PTL DEF KSpec

LEMMA InvScanFindsAll == KernelInv => ScanFindsAll
<1> SUFFICES ASSUME KernelInv, pc = "shell" PROVE ScanFindsAll
  BY DEF ScanFindsAll
<1>1. ScanInv /\ at = Done
  BY DEF KernelInv, AfterScan
<1>2. Len(pci_devices) = Min({Cardinality(Present), PCI_MAX_STORED})
  BY <1>1, PassedEnds DEF ScanInv
<1>3. DOMAIN pci_devices = 1 .. Len(pci_devices)
  BY <1>1 DEF ScanInv
<1>4. \A k \in DOMAIN pci_devices : Found(k)
  BY <1>1, <1>3 DEF ScanInv
<1> QED BY <1>2, <1>4 DEF ScanFindsAll, Found, Matches

\* ScanFindsAll: the PCI table holds the devices there are, in bus order and with
\* their fields, up to its size, whatever buses, chips and multi-function slots.
THEOREM KernelScanFindsAll == KSpec => []ScanFindsAll
<1> QED BY KernelInvariant, InvScanFindsAll, PTL

LEMMA InvRegistryHoldsAll == KernelInv => RegistryHoldsAll
<1> SUFFICES ASSUME KernelInv, pc = "shell" PROVE RegistryHoldsAll
  BY DEF RegistryHoldsAll
<1> DEFINE n == Held(Listing)
           N == Len(Fixed)
           P == Len(pci_devices)
<1>1. ScanInv /\ Lists(devices, Listing)
  BY DEF KernelInv, AfterScan
<1>2. N \in Nat /\ P \in Nat /\ MAX_DEVICES \in Nat /\ Fixed \in Seq(Devs)
  BY <1>1, BasicsListed, DevicesAssumption DEF ScanInv
<1>3. OnBus \in Seq(Devs) /\ Len(OnBus) = P
  BY <1>2, NamesOnBus DEF OnBus
<1>4. /\ Len(Listing) = N + P
      /\ \A k \in 1 .. N + P : Listing[k] = IF k =< N THEN Fixed[k] ELSE OnBus[k - N]
  BY <1>2, <1>3 DEF Listing
<1>5. n = Min({N + P, MAX_DEVICES})
  <2>1. N + P \in Nat
    BY <1>2
  <2> QED BY <1>2, <1>4, <2>1, MinOfTwo DEF Held
<1>6. n \in Nat /\ n =< N + P /\ n =< MAX_DEVICES
  BY <1>2, <1>4 DEF Held
<1>7. devices.device_table = Table(Listing, n)
  BY <1>1 DEF Lists
<1> HIDE DEF n
<1>8. \A k \in 1 .. MAX_DEVICES :
        devices.device_table[k] = IF k =< n THEN Device(Listing[k], k) ELSE Inactive
  BY <1>7 DEF Table
<1>9. \A k : Device(Listing[k], k).active = TRUE /\ Inactive.active = FALSE
  BY DEF Device, Inactive
<1>10. ListedDevices(devices) = 1 .. n
  <2>1. \A k \in 1 .. MAX_DEVICES : devices.device_table[k].active <=> k =< n
    BY <1>8, <1>9
  <2> QED BY <1>2, <1>6, <2>1 DEF ListedDevices
<1>11. ASSUME NEW k \in ListedDevices(devices)
       PROVE  LET d == devices.device_table[k]
              IN  /\ d.id = k
                  /\ k =< Len(Fixed) => <<d.type, d.name>> = Fixed[k]
                  /\ k > Len(Fixed) =>
                       LET names == ClassNames(pci_devices[k - Len(Fixed)].class_code)
                       IN  d.type = "pci" /\ d.name \in IF names = {} THEN {"unknown"} ELSE names
  <2> DEFINE d == devices.device_table[k]
  <2>1. k \in 1 .. n /\ k \in 1 .. MAX_DEVICES /\ k \in 1 .. N + P
    BY <1>2, <1>6, <1>10
  <2>2. d = Device(Listing[k], k)
    BY <1>8, <2>1
  <2>3. d.id = k /\ d.type = Listing[k][1] /\ d.name = Listing[k][2]
    BY <2>2 DEF Device
  <2> HIDE DEF d
  <2>4. CASE k =< N
    <3>1. Fixed[k] \in Devs /\ Listing[k] = Fixed[k]
      BY <1>2, <1>4, <2>1, <2>4
    <3>2. <<d.type, d.name>> = Fixed[k]
      BY <2>3, <3>1 DEF Devs
    <3> QED BY <1>2, <2>1, <2>3, <2>4, <3>2 DEF d
  <2>5. CASE k > N
    <3> DEFINE e == pci_devices[k - N]
    <3>1. k - N \in 1 .. P /\ ~ (k =< N)
      BY <1>2, <2>1, <2>5
    <3>2. Listing[k] = <<"pci", ClassName(e.class_code, e.subclass)>>
      BY <1>4, <2>1, <3>1 DEF OnBus
    <3>3. d.type = "pci" /\ d.name = ClassName(e.class_code, e.subclass)
      BY <2>3, <3>2
    <3> QED BY <2>3, <3>1, <3>3, ClassNameOf DEF d
  <2> QED BY <1>2, <2>1, <2>4, <2>5
<1> QED BY <1>5, <1>10, <1>11 DEF RegistryHoldsAll

\* RegistryHoldsAll: the registry lists what was detected, off the bus and on it, in
\* its order and under ids from 1, as much as it holds.
THEOREM KernelRegistryHoldsAll == KSpec => []RegistryHoldsAll
<1> QED BY KernelInvariant, InvRegistryHoldsAll, PTL

\* IpHeadersVerify: the checksum of every IP header tcp_send builds verifies, its
\* length is right, and packets can be told apart, whatever addresses, lengths and
\* counts.
THEOREM KernelIpHeadersVerify == KSpec => []IpHeadersVerify
<1>1. KernelInv => IpHeadersVerify
  BY InvIpHeadersVerify DEF KernelInv
<1> QED BY <1>1, KernelInvariant, PTL
==============================================================================
