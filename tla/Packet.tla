------------------------------- MODULE Packet -------------------------------
(***************************************************************************)
(* What the tap takes for the payload of a raw packet                      *)
(* (internal/live/packet.go): the walk over the IP and the TCP or UDP      *)
(* header, whose lengths are the sender's, in a capture that may be cut    *)
(* short or padded.  Addresses and contents are left out.                  *)
(***************************************************************************)
EXTENDS Integers

CONSTANT Packets   \* the packets sent

\* A packet as its sender makes it and a capture leaves it: its body, the length
\* of its IPv4 options and the offset its TCP header has; bytes may be missing at
\* the end of the capture, or padding follow.  Later fragments begin with any
\* bytes: the offset is what stands where one would.
Sent ==
  {w \in [version : {4, 6}, proto : {"tcp", "udp", "icmp"}, options : Nat,
          fragment : {"no", "first", "later"}, offset : Nat,
          body : Nat, padding : Nat, missing : Nat] :
     w.offset >= 20 \/ w.fragment = "later"}

ASSUME PacketAssumption == Packets \subseteq Sent

No == [ok |-> FALSE]

-----------------------------------------------------------------------------
(* parseIPPacket: header fields, in bytes, and the number of bytes captured. *)
(* The payload is given by its first and its last position.                  *)

Carried == {"tcp", "udp"}

\* Both IP parsers end in the same reading of the TCP or UDP header.
ParseL4(proto, first, end, dataOff) ==
  LET header == IF proto = "udp" THEN 8 ELSE dataOff
  IN IF \/ proto = "udp" /\ end - first < 8
        \/ proto = "tcp" /\ (end - first < 20 \/ dataOff < 20 \/ end - first < dataOff)
     THEN No
     ELSE [ok |-> TRUE, proto |-> proto, from |-> first + header, to |-> end]

\* Mutant of ParseIPv4: bytes behind the packet, such as the padding of a short
\* Ethernet frame, are taken for payload.
ParseIPv4Padded(p) ==
  IF \/ p.captured < 20 \/ p.proto \notin Carried
     \/ p.header < 20 \/ p.captured < p.header \/ p.total < p.header
  THEN No
  ELSE ParseL4(p.proto, p.header, p.captured, p.dataOff)

ParseIPv4(p) ==
  IF \/ p.captured < 20 \/ p.proto \notin Carried
     \/ p.header < 20 \/ p.captured < p.header
     \/ p.total < p.header \/ p.total > p.captured
  THEN No
  ELSE ParseL4(p.proto, p.header, p.total, p.dataOff)

ParseIPv6(p) ==
  IF \/ p.captured < 40 \/ p.proto \notin Carried
     \/ p.total = 0 \/ 40 + p.total > p.captured
  THEN No
  ELSE ParseL4(p.proto, 40, 40 + p.total, p.dataOff)

ParseIPPacket(p) == IF p.version = 4 THEN ParseIPv4(p) ELSE ParseIPv6(p)

-----------------------------------------------------------------------------
(* Properties, over the packets given. *)

\* The fields of a packet as they are captured.
Fields(w) ==
  LET header == IF w.version = 6 THEN 40 ELSE 20 + w.options
      l4     == w.body + (IF w.fragment = "later" THEN 0
                          ELSE IF w.proto = "udp" THEN 8 ELSE w.offset)
      more   == IF w.version = 6 /\ w.fragment # "no" THEN 8 ELSE 0
  IN [version  |-> w.version,
      proto    |-> IF more > 0 THEN "fragment" ELSE w.proto,
      header   |-> header,
      total    |-> l4 + more + (IF w.version = 6 THEN 0 ELSE header),
      captured |-> header + l4 + more + w.padding - w.missing,
      dataOff  |-> w.offset]

\* Where the sender put the payload.
Payload(w) ==
  LET from == (IF w.version = 6 THEN 40 ELSE 20 + w.options)
              + (IF w.proto = "udp" THEN 8 ELSE w.offset)
  IN [ok |-> TRUE, proto |-> w.proto, from |-> from, to |-> from + w.body]

\* "Bounds are checked at every step" and guessing "risks reading the wrong
\* offset" (packet.go:166,216): of any capture, cut short or padded, the
\* parsers take exactly the payload that was sent, or nothing, and nothing only
\* if bytes are missing or it is a fragment of IPv6.  A later fragment of IPv4
\* is the one packet whose payload they may mistake, within its own bytes.
PacketsRead ==
  \A w \in Packets :
    LET r == ParseIPPacket(Fields(w))
    IN /\ w.version = 4 /\ w.fragment = "later" /\ r.ok =>
            r.from <= r.to /\ r.to <= Fields(w).captured
       /\ ~(w.version = 4 /\ w.fragment = "later") =>
            /\ r.ok => r = Payload(w)
            /\ ~r.ok => \/ w.missing > w.padding \/ w.proto \notin Carried
                        \/ w.version = 6 /\ w.fragment # "no"
=============================================================================
