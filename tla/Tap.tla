-------------------------------- MODULE Tap --------------------------------
(***************************************************************************)
(* The passive tap (internal/live/packet.go, reassemble.go): a dispatcher  *)
(* that attributes TCP segments to domains and reports events to the live  *)
(* board.  One capture goroutine drives it, so each packet is one step.    *)
(*                                                                         *)
(* The environment opens and closes TCP connections.  The tap may see any  *)
(* segment of one, in any order, more than once, late or not at all, for   *)
(* it captures beside the TCP stacks and reads no sequence numbers: also   *)
(* segments of connections that have ended, and resets that the host       *)
(* ignores.  A handshake message travels in one TLS record, whole or cut   *)
(* in two.                                                                 *)
(***************************************************************************)
EXTENDS Tracker, Wire, FiniteSets

CONSTANTS Servers,   \* server addresses
          Ports,     \* ephemeral ports of the client
          MaxCount   \* bound: ClientHellos reported per domain

ASSUME TapAssumption == MaxCount \in Nat

VARIABLES
  table,   \* dispatcher.flows: from a flow key to its state
  conn,    \* the domain the open connection of a socket pair is for
  ended,   \* history: the domains its ended connections were for
  heard    \* history: the domains of the connections whose outbound bytes were
           \* read since its entry was last dropped

vars == <<flows, table, conn, ended, heard>>

Sockets == Servers \X Ports

Messages == {"client_hello", "server_hello", "cert"}
None     == "none"

\* A segment carries a handshake message, its first or second half, something
\* else, or nothing (a SYN, an ACK, a FIN).
Segment == [part : {"whole", "head", "tail", "data", "none"}, msg : Messages]

\* Where a reassembler is in its stream: between messages, after the head of
\* one, out of step with the records, or done for good.
Reassembler == [mode : {"clean", "head", "lost", "done"},
                msg : Messages \cup {None}]

Clean    == [mode |-> "clean", msg |-> None]
AfterHead(m) == [mode |-> "head", msg |-> m]
Lost     == [mode |-> "lost", msg |-> None]
Done     == [mode |-> "done", msg |-> None]

\* held: the domains of the connections whose bytes wait in chre.
FlowState == [domain : Domains \cup {NoDomain}, chre : Reassembler,
              held : SUBSET Domains, re : Reassembler]
NewState  == [domain |-> NoDomain, chre |-> Clean, held |-> {}, re |-> Clean]

\* flowKey: one connection by its server address and client port.
FlowKey(s) == <<s[1], s[2]>>

Init ==
  /\ TrackerInit
  /\ table = [k \in {} |-> NewState]
  /\ conn = [s \in Sockets |-> NoDomain]
  /\ ended = [s \in Sockets |-> {}]
  /\ heard = [s \in Sockets |-> {}]

-----------------------------------------------------------------------------
\* hsReassembler.Feed: what a reassembler may become, and the message it may
\* return.  Bytes out of step with the records either wait for the length
\* their false header announces, fall back into step after it, end in a record
\* that is no handshake, or overflow the buffer; the message whose head was
\* there may still be read.
Feed(r, seg) ==
  CASE r.mode = "done" \/ seg.part = "none" -> {[next |-> r, out |-> None]}
    [] r.mode = "clean" /\ seg.part = "whole" -> {[next |-> Clean, out |-> seg.msg]}
    [] r.mode = "clean" /\ seg.part = "head" ->
         {[next |-> AfterHead(seg.msg), out |-> None]}
    [] r.mode = "head" /\ seg.part = "tail" /\ seg.msg = r.msg ->
         {[next |-> Clean, out |-> seg.msg]}
    [] OTHER -> {[next |-> n, out |-> o] : n \in {Clean, Lost, Done}, o \in {None, r.msg}}

State(k) == IF k \in DOMAIN table THEN table[k] ELSE NewState
Stored(k, st) ==
  [x \in DOMAIN table \cup {k} |-> IF x = k THEN st ELSE table[x]]
Removed(k) == [x \in DOMAIN table \ {k} |-> table[x]]

\* emit: the board folds the event in.
Emit(kind, d, bad) == Observe([kind |-> kind, domain |-> d, bad |-> bad])

-----------------------------------------------------------------------------
(* The connections of the host. *)

Connect(s, d) ==
  /\ conn[s] = NoDomain
  /\ conn' = [conn EXCEPT ![s] = d]
  /\ UNCHANGED <<flows, table, ended, heard>>

\* The connection ends, by FIN, which the dispatcher does not look at, or by a
\* reset, which the tap may see before or after, or not at all.
Close(s) ==
  /\ conn[s] # NoDomain
  /\ conn' = [conn EXCEPT ![s] = NoDomain]
  /\ ended' = [ended EXCEPT ![s] = @ \cup {conn[s]}]
  /\ UNCHANGED <<flows, table, heard>>

\* The connections a segment of the socket pair may belong to.
Senders(s) == ended[s] \cup ({conn[s]} \ {NoDomain})

-----------------------------------------------------------------------------
(* handleTLS, outbound: a segment of the connection of s to d. *)

\* The SNI of this flow has been read: its other segments are not looked at.
Attributed(s) == State(FlowKey(s)).domain # NoDomain

\* A ClientHello comes out of the reassembler and its SNI can be read; it may
\* be that of another connection whose first bytes were waiting.
ReadHello(s, d, seg) ==
  /\ d \in Senders(s) /\ ~Attributed(s)
  /\ heard' = [heard EXCEPT ![s] = @ \cup {d}]
  /\ \E sni \in State(FlowKey(s)).held \cup {d} :
       /\ Seen(sni).hits < MaxCount
       /\ \E f \in Feed(State(FlowKey(s)).chre, seg) :
            /\ f.out = "client_hello"
            /\ table' = Stored(FlowKey(s),
                               [State(FlowKey(s)) EXCEPT !.domain = sni, !.chre = f.next,
                                                         !.held = {}])
       /\ Emit("client_hello", sni, FALSE)
  /\ UNCHANGED <<conn, ended>>

\* The connections whose bytes are there once chre has taken a segment of d's.
Waiting(st, d, seg, next) ==
  IF seg.part = "none" THEN st.held
  ELSE IF next.mode = "clean" THEN {} ELSE st.held \cup {d}

\* No SNI comes out: the entry waits, or is dropped when the reassembler is done.
NoHello(s, d, seg) ==
  /\ d \in Senders(s) /\ ~Attributed(s)
  /\ \E f \in Feed(State(FlowKey(s)).chre, seg) :
       IF f.next.mode = "done"
       THEN table' = Removed(FlowKey(s)) /\ heard' = [heard EXCEPT ![s] = {}]
       ELSE /\ table' = Stored(FlowKey(s),
                               [State(FlowKey(s)) EXCEPT
                                  !.chre = f.next,
                                  !.held = Waiting(State(FlowKey(s)), d, seg, f.next)])
            /\ heard' = [heard EXCEPT ![s] = IF seg.part = "none" THEN @ ELSE @ \cup {d}]
  /\ UNCHANGED <<flows, conn, ended>>

-----------------------------------------------------------------------------
(* handleTLS, inbound; segments of flows without a domain are ignored. *)

\* Mutant of Reset: the entry outlives the reset.
ResetKept(s, d) ==
  /\ d \in Senders(s) /\ Attributed(s)
  /\ Seen(table[FlowKey(s)].domain).resets < MaxCount
  /\ Emit("reset", table[FlowKey(s)].domain, FALSE)
  /\ heard' = [heard EXCEPT ![s] = {}]
  /\ UNCHANGED <<table, conn, ended>>

\* The connection need not be over: the host may refuse a reset that is out of
\* its window.
Reset(s, d) ==
  /\ d \in Senders(s) /\ Attributed(s)
  /\ Emit("reset", table[FlowKey(s)].domain, FALSE)
  /\ table' = Removed(FlowKey(s))
  /\ heard' = [heard EXCEPT ![s] = {}]
  /\ UNCHANGED <<conn, ended>>

\* Mutant of ServerMessage: segments of a flow that has no entry any more are
\* taken for the connection's domain.
ServerMessageAny(s, d, seg, bad) ==
  /\ d \in Senders(s)
  /\ seg.part = "whole" /\ seg.msg # "client_hello"
  /\ Emit(seg.msg, d, bad)
  /\ UNCHANGED <<table, conn, ended, heard>>

\* A ServerHello or certificate comes out, and can be parsed or verified.
ServerMessage(s, d, seg, bad) ==
  /\ d \in Senders(s) /\ Attributed(s)
  /\ \E f \in Feed(table[FlowKey(s)].re, seg) :
       /\ f.out \in {"server_hello", "cert"}
       /\ table' = [table EXCEPT ![FlowKey(s)].re = f.next]
       /\ Emit(f.out, table[FlowKey(s)].domain, bad /\ f.out = "cert")
  /\ UNCHANGED <<conn, ended, heard>>

\* Nothing readable comes out.
NoServerMessage(s, d, seg) ==
  /\ d \in Senders(s) /\ Attributed(s)
  /\ \E f \in Feed(table[FlowKey(s)].re, seg) :
       table' = [table EXCEPT ![FlowKey(s)].re = f.next]
  /\ UNCHANGED <<flows, conn, ended, heard>>

\* handleDNS: a reply with a sinkhole address; other replies are ignored.
SuspiciousReply(d) ==
  /\ Emit("dns", d, TRUE)
  /\ UNCHANGED <<table, conn, ended, heard>>

-----------------------------------------------------------------------------
ClientSegments == {g \in Segment : g.msg = "client_hello"}
ServerSegments == {g \in Segment : g.msg # "client_hello"}

Next ==
  \/ \E s \in Sockets :
       \/ Close(s)
       \/ \E d \in Domains :
            \/ Connect(s, d) \/ Reset(s, d)
            \/ \E g \in ClientSegments : ReadHello(s, d, g) \/ NoHello(s, d, g)
            \/ \E g \in ServerSegments :
                 \/ NoServerMessage(s, d, g)
                 \/ \E bad \in BOOLEAN : ServerMessage(s, d, g, bad)
  \/ \E d \in Domains : SuspiciousReply(d)

Spec == Init /\ [][Next]_vars

-----------------------------------------------------------------------------
(* Properties. *)

\* Every variable keeps to its type.
TypeOK ==
  /\ TrackerTypeOK
  /\ DOMAIN table \subseteq Sockets
  /\ table \in [DOMAIN table -> FlowState]
  /\ conn \in [Sockets -> Domains \cup {NoDomain}]
  /\ ended \in [Sockets -> SUBSET Domains]
  /\ heard \in [Sockets -> SUBSET Domains]

Open(d) == {k \in DOMAIN table : table[k].domain = d}

\* The attempts counted for a domain are those that were reset and those the
\* dispatcher still holds an entry for, in spite of retransmitted, reordered,
\* late and missed segments: no reset is counted without its attempt or twice,
\* so "BLOCKED - n reset(s)" never exceeds the attempts seen.
AttemptsAccounted ==
  \A d \in Domains : Seen(d).hits = Seen(d).resets + Cardinality(Open(d))

\* What a server sent is credited to a domain only while an attempt for it is
\* open: after the reset of its last connection a late segment changes nothing.
AnswersNeedAttempt ==
  [][\A d \in Domains :
       Seen(d).hits <= Seen(d).resets =>
         /\ Seen(d)'.handshake = Seen(d).handshake
         /\ Seen(d)'.certChecked = Seen(d).certChecked
         /\ Seen(d)'.certUntrusted = Seen(d).certUntrusted]_vars

\* What the dispatcher handles is what was sent: looked at in the initial state,
\* for parsing a packet depends on nothing but the packet.
PacketsTaken == Init => PacketsRead

\* Whatever a DNS reply claims of its counts, lengths and pointers, reading it
\* ends, and yields what lies within it.
RepliesTaken == Init => NamesRead /\ AnswersInside

\* Wherever TCP cuts a handshake, and wherever an extension stands in a hello,
\* what the tap reads of it is the same.
StreamsTaken == Init => SegmentsDoNotMatter /\ HellosRead

\* What a reset drops is gone (packet.go:115): the domain of an entry, which the
\* server's messages are credited to, and the bytes that wait in it are those of
\* a connection of its own socket pair from which an outbound segment was read
\* since.  So an event is about the connection its segment came from, unless an
\* earlier one ended unnoticed or a segment of it came after the reset that had
\* removed its entry (packet.go:86-90).
RightUnlessMixed ==
  \A s \in Sockets :
    /\ State(FlowKey(s)).domain \in heard[s] \cup {NoDomain}
    /\ State(FlowKey(s)).held \subseteq heard[s]

\* "flowKey identifies one connection" (packet.go:18): the entry is about the
\* open connection.
RightDomain ==
  \A s \in Sockets :
    conn[s] # NoDomain => State(FlowKey(s)).domain \in {NoDomain, conn[s]}

\* "so a non-TLS connection on :443 does not leak an empty flow"
\* (packet.go:102): what is out of step with TLS records does not outlast the
\* connection.
NonTLSNotLeaked ==
  \A s \in Sockets :
    conn[s] = NoDomain /\ State(FlowKey(s)).domain = NoDomain
      => State(FlowKey(s)).chre.mode # "lost"
=============================================================================
