------------------------------- MODULE MCTap -------------------------------
(***************************************************************************)
(* Small instances of Tap for TLC, and inputs for the functions of Wire    *)
(* that make its packets, messages and names of bytes.                     *)
(***************************************************************************)
EXTENDS Tap, SequencesExt

MCDomains == {1, 2}

MCPackets ==
  [version : {4, 6}, proto : {"tcp", "udp", "icmp"}, options : {0, 4},
   fragment : {"no", "first", "later"}, offset : {0, 20, 32},
   body : {0, 1, 25}, padding : {0, 6}, missing : {0, 1, 6, 7, 30}]

\* Data offsets below 20 bytes are not sent.
MCSent == {w \in MCPackets : w.offset >= 20 \/ w.fragment = "later"}

\* A header, and four bytes: zeros, labels, and pointers to each position; and
\* longer messages that begin with a question and an address.
MCBytes   == {0, 1, 2} \cup {Pointer + t : t \in 0..5}
MCLayouts == {<<h>> \o m : h \in {0, 2}, m \in [1..4 -> MCBytes]}
             \cup {<<1, 0, 0, 0, 1, 2, 9, 9>> \o m :
                      m \in [1..5 -> {0, 1, 2, Pointer, Pointer + 4}]}

MCStreams ==
  [records : BoundedSeq([hs : BOOLEAN, len : {0, 2}], 2)
             \cup {<<[hs |-> TRUE, len |-> a], [hs |-> TRUE, len |-> b],
                     [hs |-> h, len |-> 9]>> : a \in {1, 4}, b \in {2, 3}, h \in BOOLEAN},
   messages : {<<>>, <<1>>, <<2, 2>>, <<1, 3, 2>>, <<9>>, <<4, 12>>}]

NoNames == [list |-> 0, names |-> <<>>]
Name(host, len) == [host |-> host, len |-> len, name |-> IF host THEN "host" ELSE "other"]

\* An extension, with the lengths it claims and what its names claim.
MCLists ==
  {NoNames} \cup
  [list : {0, 3, 4, 7, 8},
   names : {<<Name(TRUE, 1)>>, <<Name(TRUE, 2)>>, <<Name(FALSE, 1)>>,
            <<Name(FALSE, 0), Name(TRUE, 1)>>, <<Name(TRUE, 1), Name(FALSE, 0)>>}]

Extended(type, len, value, l) ==
  [type |-> type, len |-> len, value |-> value, list |-> l.list, names |-> l.names]

MCExts ==
  BoundedSeq({Extended("server_name", n, "x", [list |-> 4, names |-> <<Name(TRUE, 1)>>]) :
                n \in {0, 2, 6}}
             \cup {Extended(y, n, v, NoNames) :
                     y \in {"supported_versions", "other"}, n \in {0, 2, 6}, v \in {"a", "b"}}, 2)

\* Hellos whose lengths need not agree, and hellos whose names' lengths need not.
MCHellos ==
  [fields : {4, 9}, exts : MCExts, claimed : {0, 4, 6, 8, 12, 16, 20},
   hlen : {33, 34, 40, 44, 46, 50, 52, 56, 60, 65}, got : {34, 50, 65}]
  \cup
  [fields : {4}, claimed : {6, 10, 14, 17}, hlen : {46, 50, 54, 57}, got : {57},
   exts : {<<Extended("server_name", n, "x", l)>> : n \in {1, 2, 6, 9, 10}, l \in MCLists}]
=============================================================================
