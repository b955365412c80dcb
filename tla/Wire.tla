-------------------------------- MODULE Wire --------------------------------
(***************************************************************************)
(* What the tap reads off the payloads of packets (internal/live/dns.go,   *)
(* reassemble.go, serverhello.go, sni.go), as functions of their bytes.    *)
(* Module Tap takes what comes out of them as its input.                   *)
(*                                                                         *)
(* Bytes are kept where a length or an offset is read from them; addresses *)
(* and contents are left out.                                              *)
(***************************************************************************)
EXTENDS Packet, Sequences, FiniteSetsExt

CONSTANTS MaxJumps,    \* compression pointers readName follows (16)
          MaxBuffer,   \* maxHandshakeBuffer
          Layouts, Streams, Hellos,  \* bounds: the inputs checked
          MaxClaimed,  \* bound: the questions and answers a reply claims
          MaxSegments  \* bound: the segments a stream is cut into

ASSUME WireAssumption ==
  /\ MaxJumps \in Nat /\ MaxBuffer \in Nat
  /\ MaxClaimed \in Nat /\ MaxSegments \in Nat
  /\ Layouts \subseteq Seq(Nat)
  /\ Streams \subseteq [records : Seq([hs : BOOLEAN, len : Nat]), messages : Seq(Nat \ {0})]
  /\ Hellos \subseteq
       [fields : Nat, claimed : Nat, hlen : Nat, got : Nat,
        exts : Seq([type : STRING, len : Nat, value : STRING, list : Nat,
                    names : Seq([host : BOOLEAN, len : Nat, name : STRING])])]

-----------------------------------------------------------------------------
(* parseDNSReply: a message is a sequence of numbers.  One that stands for   *)
(* the first byte of a compression pointer is Pointer plus the target; its   *)
(* second byte is not looked at again.  Any lesser byte begins a label.      *)

Pointer == 192

Byte(msg, pos) == msg[pos + 1]

\* readName's next before it is set.
Unset == -1

\* Mutant of Behind: the name ends behind the last pointer followed.
BehindLast(r, pos) == pos

\* The name ends behind the first pointer, or the zero, met.
Behind(r, pos) == IF r.next = Unset THEN pos ELSE r.next

\* One turn of the loop of readName; labels are given by their positions.
ReadOne(msg, r) ==
  LET b     == Byte(msg, r.pos)
      bad   == [r EXCEPT !.going = FALSE]
  IN CASE ~r.going           -> r
       [] r.going /\ r.pos >= Len(msg) -> bad
       [] OTHER ->
            CASE b = 0  -> [bad EXCEPT !.ok = TRUE, !.next = Behind(r, r.pos + 1)]
              [] b >= Pointer -> IF r.pos + 1 >= Len(msg) \/ r.jumps + 1 > MaxJumps THEN bad
                            ELSE [r EXCEPT !.pos = b - Pointer, !.jumps = @ + 1,
                                           !.next = Behind(r, r.pos + 2)]
              [] OTHER  -> IF r.pos + 1 + b > Len(msg) THEN bad
                           ELSE [r EXCEPT !.pos = @ + 1 + b, !.labels = Append(@, r.pos)]

\* Between two of its jumps a name passes no byte twice: more turns than these
\* the loop does not make.
Turns(msg) == (MaxJumps + 1) * (Len(msg) + 1)

ReadName(msg, off) ==
  LET after[k \in 0..Turns(msg)] ==
        IF k = 0 THEN [ok |-> FALSE, going |-> TRUE, pos |-> off, jumps |-> 0,
                       next |-> Unset, labels |-> <<>>]
        ELSE ReadOne(msg, after[k - 1])
  IN after[Turns(msg)]

\* The fixed parts are shorter here than in DNS: one byte for the header, which
\* names may point into, one behind a question's name, two behind a record's (its
\* type, 1 for an address, and the length of its data), and two for an address.
Header  == 1
Address == [type |-> 1, len |-> 2]

\* One question: its name can be read, or the reply is dropped.  The fixed part
\* behind it is not looked for.
Question(msg, q) ==
  LET name == ReadName(msg, q.next)
  IN IF q.ok /\ name.ok THEN [ok |-> TRUE, next |-> name.next + 1] ELSE [q EXCEPT !.ok = FALSE]

AfterQuestions(msg, qd) ==
  LET after[i \in 0..qd] ==
        IF i = 0 THEN [ok |-> TRUE, next |-> Header] ELSE Question(msg, after[i - 1])
  IN after[qd]

\* Mutant of Answer: the length a record claims is not checked.
AnswerUnchecked(msg, a) ==
  LET name == ReadName(msg, a.at)
      rd   == name.next + 2
      rr   == [type |-> Byte(msg, rd - 2), len |-> Byte(msg, rd - 1)]
  IN IF ~a.going THEN a
     ELSE IF ~name.ok \/ rd > Len(msg) THEN [a EXCEPT !.going = FALSE]
     ELSE [a EXCEPT !.at = rd + rr.len,
                    !.ips = IF rr = Address THEN Append(@, [from |-> rd, to |-> rd + rr.len])
                            ELSE @]

\* One answer: the address it holds, if it does; a malformed one ends the loop.
Answer(msg, a) ==
  LET name == ReadName(msg, a.at)
      rd   == name.next + 2
      rr   == [type |-> Byte(msg, rd - 2), len |-> Byte(msg, rd - 1)]
  IN IF ~a.going THEN a
     ELSE IF ~name.ok \/ rd > Len(msg) \/ rd + rr.len > Len(msg)
     THEN [a EXCEPT !.going = FALSE]
     ELSE [a EXCEPT !.at = rd + rr.len,
                    !.ips = IF rr = Address THEN Append(@, [from |-> rd, to |-> rd + rr.len])
                            ELSE @]

Answers(msg, p, an) ==
  LET after[i \in 0..an] ==
        IF i = 0 THEN [going |-> TRUE, at |-> p, ips |-> <<>>] ELSE Answer(msg, after[i - 1])
  IN after[an].ips

\* The message, whose header says whether it is a reply, and how many questions
\* and answers it has.
ParseDNSReply(msg, qr, qd, an) ==
  LET asked == AfterQuestions(msg, qd)
  IN IF Len(msg) < Header \/ ~qr \/ qd < 1 \/ ~asked.ok THEN No
     ELSE [ok |-> TRUE, name |-> ReadName(msg, Header).labels,
           ips |-> Answers(msg, asked.next, an)]

-----------------------------------------------------------------------------
(* hsReassembler over a stream of records, each a handshake fragment or not,  *)
(* in which messages of given lengths travel.  As the stream arrives in       *)
(* order, the buffers are known by how much of it has been consumed.          *)

\* The sums of the first numbers of a sequence, by how many.
Sums(s) ==
  LET sum[i \in 0..Len(s)] == IF i = 0 THEN 0 ELSE sum[i - 1] + s[i]
  IN sum

\* Where a record ends in the stream, and its fragment in the handshake.
Sizes(stream)     == [j \in 1..Len(stream) |-> stream[j].len + 5]
Fragments(stream) == [j \in 1..Len(stream) |-> IF stream[j].hs THEN stream[j].len ELSE 0]
RecEnd(stream, i) == Sums(Sizes(stream))[i]
HsEnd(stream, i)  == Sums(Fragments(stream))[i]
Size(stream)      == RecEnd(stream, Len(stream))

Fresh == [fed |-> 0, recs |-> 0, msgs |-> 0, done |-> FALSE]

\* The record buffer and the handshake buffer, in bytes.
RecBuf(stream, r)        == r.fed - RecEnd(stream, r.recs)
HsBuf(stream, msgs, r)   == HsEnd(stream, r.recs) - Sums(msgs)[r.msgs]

\* One turn of the loop that splits out complete records.
SplitOne(stream, msgs, r) ==
  LET s == [r EXCEPT !.recs = @ + 1]
  IN IF r.done \/ r.recs = Len(stream) THEN r
     ELSE IF stream[s.recs].len = 0 \/ RecEnd(stream, s.recs) > r.fed THEN r
     ELSE [s EXCEPT !.done = ~stream[s.recs].hs \/ HsBuf(stream, msgs, s) > MaxBuffer]

Split(stream, msgs, r) ==
  LET after[k \in 0..Len(stream)] ==
        IF k = 0 THEN r ELSE SplitOne(stream, msgs, after[k - 1])
  IN after[Len(stream)]

\* How many of the messages lie within the first n bytes of the handshake.
Within(msgs, n) == Max({m \in 0..Len(msgs) : Sums(msgs)[m] <= n})

\* Mutant of Drain: what the last handshake record completed is not returned.
DrainNotDone(stream, msgs, r) ==
  IF r.done THEN r ELSE [r EXCEPT !.msgs = Within(msgs, HsEnd(stream, r.recs))]

Drain(stream, msgs, r) == [r EXCEPT !.msgs = Within(msgs, HsEnd(stream, r.recs))]

\* Feed: a segment of n more bytes.
FeedBytes(stream, msgs, r, n) ==
  LET s == [r EXCEPT !.fed = @ + n]
  IN IF r.done \/ n = 0 THEN r
     ELSE IF RecBuf(stream, s) > MaxBuffer THEN [s EXCEPT !.done = TRUE]
     ELSE Drain(stream, msgs, Split(stream, msgs, s))

\* The reassembler after segments that end at the given positions.
EndOf(cuts, i) == IF i = 0 THEN 0 ELSE cuts[i]

FedUpTo(stream, msgs, cuts) ==
  LET after[i \in 0..Len(cuts)] ==
        IF i = 0 THEN Fresh
        ELSE FeedBytes(stream, msgs, after[i - 1], EndOf(cuts, i) - EndOf(cuts, i - 1))
  IN after[Len(cuts)]

-----------------------------------------------------------------------------
(* ClientHello and ServerHello.  A hello is its fields' true lengths, with    *)
(* the lengths it claims: hlen for the message, claimed for its extensions;   *)
(* got bytes of it are there.  An extension has a length, and a list of names *)
(* a length of its own and one for each name.                                 *)

\* Mutant of Pass: an item that is not wanted ends the walk.
PassFirst(w, i, len, head, wanted) ==
  IF ~w.going THEN w
  ELSE IF w.left < head \/ w.left - head < len \/ i \notin wanted
  THEN [w EXCEPT !.going = FALSE]
  ELSE [w EXCEPT !.going = FALSE, !.found = i]

\* One turn of a walk over items that have a header each, with so many bytes
\* left: the i-th claims a length, and is wanted or not.
Pass(w, i, len, head, wanted) ==
  IF ~w.going THEN w
  ELSE IF w.left < head \/ w.left - head < len THEN [w EXCEPT !.going = FALSE]
  ELSE IF i \in wanted THEN [w EXCEPT !.going = FALSE, !.found = i]
  ELSE [w EXCEPT !.left = @ - head - len]

\* The first item that is wanted, 0 if the walk comes to none.
FindFirst(items, head, left, wanted) ==
  LET after[i \in 0..Len(items)] ==
        IF i = 0 THEN [left |-> left, going |-> TRUE, found |-> 0]
        ELSE Pass(after[i - 1], i, items[i].len, head, wanted)
  IN after[Len(items)].found

\* The extensions of a type and a least length; the names that are host names.
OfType(exts, type, least) == {i \in 1..Len(exts) : exts[i].type = type /\ exts[i].len >= least}
Hosts(ext)  == {i \in 1..Len(ext.names) : ext.names[i].host}

\* parseServerName: the first host_name of the list.
ParseServerName(ext) ==
  LET i == FindFirst(ext.names, 3, ext.list, Hosts(ext))
  IN IF ext.len < 2 \/ ext.len - 2 < ext.list \/ i = 0 THEN No
     ELSE [ok |-> TRUE, value |-> ext.names[i].name]

\* Where the extensions begin: version and random, and the fields before them.
Fixed(h) == 34 + h.fields

\* The extensions do not lie within the message.
Outside(h) == h.hlen < Fixed(h) + 2 \/ h.hlen - Fixed(h) - 2 < h.claimed

\* clientHelloSNI: what the first server_name extension holds.
ClientHelloSNI(h) ==
  LET i == FindFirst(h.exts, 4, h.claimed, OfType(h.exts, "server_name", 0))
  IN IF h.hlen > h.got \/ Outside(h) \/ i = 0 THEN No ELSE ParseServerName(h.exts[i])

\* parseServerHelloMsg: the version in the extension, else the legacy one.
ServerHelloVersion(h) ==
  LET i == FindFirst(h.exts, 4, h.claimed, OfType(h.exts, "supported_versions", 2))
  IN IF h.hlen > h.got \/ h.hlen < 34 THEN No
     ELSE [ok |-> TRUE, value |-> IF Outside(h) \/ i = 0 THEN "legacy" ELSE h.exts[i].value]

-----------------------------------------------------------------------------
(* Properties, over the inputs given. *)

\* Where the byte at a position leads, after a number of jumps to there: behind
\* the label it begins, or to the target of the pointer it begins.
Leads(msg, q) ==
  LET b == Byte(msg, q[1])
  IN IF q[1] >= Len(msg) THEN {}
     ELSE {p \in {<<q[1] + 1 + b, q[2]>>} : b \in 1..Pointer - 1 /\ p[1] <= Len(msg)}
          \cup {p \in {<<b - Pointer, q[2] + 1>>} :
                  b >= Pointer /\ q[1] + 1 < Len(msg) /\ p[2] <= MaxJumps}

\* All the positions, and numbers of jumps, a name's bytes lead to.
Spread(msg, qs) == qs \cup UNION {Leads(msg, q) : q \in qs}

Reached(msg, off) ==
  LET after[k \in 0..Turns(msg)] ==
        IF k = 0 THEN {<<off, 0>>} ELSE Spread(msg, after[k - 1])
  IN after[Turns(msg)]

\* Where a name ends in its record: at the first zero or pointer after labels.
Stops(msg, off) ==
  {q \in Reached(msg, off) :
     q[2] = 0 /\ q[1] < Len(msg) /\ (Byte(msg, q[1]) = 0 \/ Byte(msg, q[1]) >= Pointer)}
NameEnd(msg, off) ==
  LET stop == CHOOSE q \in Stops(msg, off) : TRUE
  IN IF Byte(msg, stop[1]) = 0 THEN stop[1] + 1 ELSE stop[1] + 2

\* "Pointer loops are bounded by a hard jump limit" (dns.go:68): reading any
\* message ends, also where its pointers form loops or point ahead or into a
\* label; a name is read exactly if a zero is reached within the limit, and
\* the record goes on behind the name's own bytes wherever it led.
NamesRead ==
  \A msg \in Layouts : \A off \in 0..Len(msg) - 1 :
    LET r == ReadName(msg, off)
    IN /\ ~r.going
       /\ r.ok <=> \E q \in Reached(msg, off) : q[1] < Len(msg) /\ Byte(msg, q[1]) = 0
       /\ r.ok => r.next = NameEnd(msg, off)

\* However many questions and answers a reply claims, a name is reported only
\* with every question read, and the addresses taken from the reply lie behind
\* them, one behind another, within the message (dns.go:15); a message that is no
\* reply yields nothing.
AnswersInside ==
  \A msg \in Layouts : \A qr \in BOOLEAN :
  \A qd \in 0..MaxClaimed : \A an \in 0..MaxClaimed :
    LET r == ParseDNSReply(msg, qr, qd, an)
    IN r.ok =>
         /\ qr /\ qd >= 1 /\ ReadName(msg, Header).ok
         /\ Len(r.ips) <= an
         /\ \A i \in DOMAIN r.ips :
              /\ r.ips[i].to - r.ips[i].from = Address.len
              /\ r.ips[i].to <= Len(msg)
              /\ r.ips[i].from >= Header + 2 * qd + 3
              /\ \A j \in 1..i - 1 : r.ips[j].to < r.ips[i].from

\* The handshake of a stream that ends, or stalls, at its first record that is
\* no handshake, or is empty.
Readable(stream) ==
  LET stops == {i \in 1..Len(stream) : ~stream[i].hs \/ stream[i].len = 0}
  IN IF stops = {} THEN Len(stream) ELSE Min(stops) - 1

\* The records of it that lie within the first n bytes, and their messages.
Whole(stream, n)     == Max({i \in 0..Readable(stream) : RecEnd(stream, i) <= n})
Due(stream, msgs, n) == Within(msgs, HsEnd(stream, Whole(stream, n)))

\* Positions at which segments of the first n bytes, or fewer, end.
Cuts(n) ==
  {c \in [1..MaxSegments -> 0..n] : \A i \in 2..MaxSegments : c[i - 1] <= c[i]}

\* A ClientHello or certificate "may span several TCP segments" (packet.go:29):
\* wherever a stream of records is cut, the messages that come out are those
\* of its handshake, in full, and no others.  Only a stream longer than the cap
\* can lose any; a reassembler that goes on keeps its buffers within the cap.
SegmentsDoNotMatter ==
  \A s \in Streams : \A cuts \in Cuts(Size(s.records)) :
    LET r   == FedUpTo(s.records, s.messages, cuts)
        due == Due(s.records, s.messages, EndOf(cuts, MaxSegments))
    IN /\ r.msgs <= due
       /\ Size(s.records) <= MaxBuffer => r.msgs = due
       /\ ~r.done => /\ RecBuf(s.records, r) <= MaxBuffer
                     /\ HsBuf(s.records, s.messages, r) <= MaxBuffer

\* What the items of a list take, with a header each.
Total(items, head) == Sums([i \in 1..Len(items) |-> items[i].len + head])[Len(items)]

\* The lengths a hello claims are true; so are those of a list of names.
HonestHello(h) == /\ h.claimed = Total(h.exts, 4)
                  /\ h.hlen = Fixed(h) + 2 + h.claimed /\ h.got >= h.hlen
HonestList(ext) == ext.list = Total(ext.names, 3) /\ ext.len = ext.list + 2

\* A hello that claims its true lengths is read to the extension wherever it
\* stands among others, and to the host name wherever it stands in its list; "the
\* extension wins when present" (serverhello.go:7); one that claims other lengths,
\* for itself, its extensions, the list or a name, yields the same or nothing of
\* it, never another's.
HellosRead ==
  \A h \in Hellos :
    LET names    == OfType(h.exts, "server_name", 0)
        versions == OfType(h.exts, "supported_versions", 2)
        ext      == h.exts[Min(names)]
        sni      == ClientHelloSNI(h)
        version  == ServerHelloVersion(h)
    IN /\ sni.ok => /\ names # {} /\ Hosts(ext) # {}
                    /\ sni.value = ext.names[Min(Hosts(ext))].name
       /\ HonestHello(h) /\ names # {} =>
            (HonestList(ext) => (sni.ok <=> Hosts(ext) # {}))
       /\ version.ok <=> h.hlen >= 34 /\ h.hlen <= h.got
       /\ HonestHello(h) => version.value = IF versions = {} THEN "legacy"
                                            ELSE h.exts[Min(versions)].value
=============================================================================
