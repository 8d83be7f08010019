-------------------------------- MODULE Network --------------------------------
(****************************************************************************)
(* tcp_send of core/net/tcpip.c.  The headers it builds are dropped at its  *)
(* end; sent keeps them.  A header is the sequence of its 16-bit words as a *)
(* little-endian processor reads them, so a field in network order is       *)
(* htons of its value, and an address is the pair of its halves.  No        *)
(* Ethernet header is built.                                                *)
(* tcp_receive returns -1 and changes nothing: no code makes a connection   *)
(* active.                                                                  *)
(****************************************************************************)
EXTENDS Integers, Sequences

CONSTANTS Addresses,    \* the dst_ip of calls
          PeerPorts,    \* the dst_port of calls
          Lengths,      \* the len of calls
          MaxPackets    \* bound on packets_sent

Word == 65536

ASSUME NetworkAssumption ==
  /\ Addresses \subseteq (0 .. Word - 1) \X (0 .. Word - 1)
  /\ PeerPorts \subseteq 0 .. Word - 1
  /\ Lengths \subseteq Nat
  /\ MaxPackets \in Nat

VARIABLES network_up, packets_sent, next_port, sent

NVars == <<network_up, packets_sent, next_port, sent>>

NET_BUFFER_SIZE == 1500
MaxLength == NET_BUFFER_SIZE - 14 - 20 - 20   \* less the three headers

Local == <<10 * 256, 2 * 256 + 15>>   \* 10.0.2.15

htons(v) == (v \div 256) + (v % 256) * 256

(* The sum of the ten words of a header, with its carries added to it.  The *)
(* loop ends at a sum below Word, after two rounds at most: ten words give  *)
(* a carry of at most 9, and what Carried leaves below Word it does not     *)
(* change.                                                                  *)
Total(words) == words[1] + words[2] + words[3] + words[4] + words[5]
                  + words[6] + words[7] + words[8] + words[9] + words[10]

Carried(sum) == (sum % Word) + (sum \div Word)
Folded(sum)  == Carried(Carried(sum))

\* Mutant: the carries are lost.
ip_checksum_NoCarry(words) == Word - 1 - (Total(words) % Word)

ip_checksum(words) == Word - 1 - Folded(Total(words))

(* The IP header with a zero checksum.                                      *)
BlankHeader(dst, len) ==
  <<69, htons(40 + len), htons(packets_sent % Word), htons(16384), 64 + 256 * 6, 0,
    htons(Local[1]), htons(Local[2]), htons(dst[1]), htons(dst[2])>>

(* The IP header, its checksum filled in.                                   *)
Header(dst, len) ==
  [BlankHeader(dst, len) EXCEPT ![6] = ip_checksum(BlankHeader(dst, len))]

(* The TCP header: sequence number 1000, no acknowledgement number, five    *)
(* words, PSH and ACK, the widest window.  Its checksum, the ninth word, is *)
(* 0 and stays so, and no receiver takes that for the sum of the segment.   *)
TcpHeader(port) ==
  <<htons(next_port), htons(port), 0, htons(1000), 0, 0, 80 + 256 * 24, htons(65535), 0, 0>>

(* tcp_send where it returns 0; where it returns -1, -2 or -3 it changes    *)
(* nothing.                                                                 *)
TcpSend(dst, port, len) ==
  /\ network_up
  /\ len # 0
  /\ len <= MaxLength
  /\ packets_sent < MaxPackets
  /\ sent' = Append(sent, [ip |-> Header(dst, len), tcp |-> TcpHeader(port), len |-> len])
  /\ next_port' = (next_port + 1) % Word
  /\ packets_sent' = packets_sent + 1
  /\ UNCHANGED network_up

(* init_network.                                                            *)
InitNetwork ==
  /\ packets_sent' = 0
  /\ next_port' = 49152
  /\ network_up' = TRUE
  /\ UNCHANGED sent

NInit == network_up = FALSE /\ packets_sent = 0 /\ next_port = 49152 /\ sent = <<>>

(* The two bytes of the k-th word, read in network order.                   *)
Field(header, k) == htons(header[k])

\* IpHeadersVerify: a receiver that adds up an IP header tcp_send built, checksum and
\* all, finds it whole, and reads the length of what was passed; no frame exceeds the
\* buffer; and two packets have other identifications and source ports unless the
\* counts have come round between them.  It says nothing of the checksum of the TCP
\* header, which tcp_send leaves 0.
IpHeadersVerify ==
  /\ \A i \in DOMAIN sent :
       LET h == sent[i].ip
       IN  /\ Folded(Total(h)) = Word - 1
           /\ Field(h, 2) = 40 + sent[i].len
           /\ 14 + Field(h, 2) <= NET_BUFFER_SIZE
  /\ \A i, j \in DOMAIN sent :
       i < j /\ j - i < Word => /\ sent[i].ip[3] # sent[j].ip[3]
                               /\ sent[i].tcp[1] # sent[j].tcp[1]
==============================================================================
