------------------------------ MODULE Resolver ------------------------------
(***************************************************************************)
(* What the probes read of the answers to their questions                  *)
(* (internal/probe/dns.go, ech.go): the window in which a forged reply may *)
(* race the real one, and the parameters of a DNS HTTPS record.  Modules   *)
(* Probe and Engine take what comes of it as the outcomes of measurements. *)
(* Time is in units of 200 ms, and an address is a number.                 *)
(***************************************************************************)
EXTENDS DoH, FiniteSetsExt

CONSTANTS Window,     \* the longest wait for replies to one query
          Grace,      \* the wait for another reply after the first
          Replies, Records   \* bounds: the inputs checked

\* A reply arrives at a time, and may be for another query or malformed.
Reply == [at : Nat, own : BOOLEAN, valid : BOOLEAN, ips : Seq(Nat)]

U16(s, i) == 256 * s[i] + s[i + 1]

\* An HTTPS record: its bytes, behind how many of them the labels of its name
\* begin, the last of them the empty one, and its parameters.
Record == [bytes : Seq(Nat), labels : Seq(Nat),
           params : Seq([key : Nat, at : Nat, len : Nat])]

ParamEnd(p) == p.at + 4 + p.len

\* Behind how many bytes the name ends, and the i-th parameter begins.
NameEnd(r)  == r.labels[Len(r.labels)] + 1
Start(r, i) == IF i = 1 THEN NameEnd(r) ELSE ParamEnd(r.params[i - 1])

\* The bytes are what the labels and parameters say: a priority of two bytes,
\* the name, and for each parameter a key of two, a length of two and a value.
Laid(r) ==
  LET n == Len(r.labels)
      m == Len(r.params)
  IN /\ n >= 1 /\ r.labels[1] = 2
     /\ \A i \in 1..n - 1 :
          /\ r.labels[i] + 1 < r.labels[i + 1]
          /\ r.bytes[r.labels[i] + 1] = r.labels[i + 1] - r.labels[i] - 1
     /\ r.bytes[r.labels[n] + 1] = 0
     /\ \A i \in 1..m :
          LET p == r.params[i]
          IN p.at = Start(r, i) /\ U16(r.bytes, p.at + 1) = p.key
                                /\ U16(r.bytes, p.at + 3) = p.len
     /\ Len(r.bytes) = Start(r, m + 1)

ASSUME ResolverAssumption ==
  /\ Window \in Nat /\ Grace \in Nat
  /\ \A replies \in Replies :
       /\ replies \in Seq(Reply)
       /\ \A i \in 2..Len(replies) : replies[i - 1].at <= replies[i].at
  /\ \A r \in Records : r \in Record /\ Laid(r)

-----------------------------------------------------------------------------
(* The duplicate-response probe. *)

\* One turn of the loop of dnsDuplicateResponse: a reply within the deadline is
\* read, and shortens the wait.
Hear(c, r) ==
  IF r.at >= c.deadline THEN c
  ELSE [read |-> Append(c.read, r), deadline |-> Least(c.deadline, r.at + Grace)]

Collected(replies, left) ==
  LET after[i \in 0..Len(replies)] ==
        IF i = 0 THEN [read |-> <<>>, deadline |-> Least(Window, left)]
        ELSE Hear(after[i - 1], replies[i])
  IN after[Len(replies)].read

\* How often an address is in an answer.
Times(ips, a) == Cardinality({k \in 1..Len(ips) : ips[k] = a})

\* Mutant of AnswerSet: in the order of the reply.
AnswerSetUnsorted(ips) == ips

\* The addresses sorted: in their order, each as often as it is there.
AnswerSet(ips) ==
  LET n == Len(ips)
      there == {ips[k] : k \in 1..n}
  IN CHOOSE s \in [1..n -> there] :
       /\ \A j \in 1..n : \A i \in 1..j : s[i] <= s[j]
       /\ \A a \in there : Times(s, a) = Times(ips, a)

\* distinctAnswerSets, of the replies that parseAAnswers accepts.
Accepted(r) == r.own /\ r.valid /\ r.ips # <<>>
DistinctAnswerSets(read) ==
  {AnswerSet(r.ips) : r \in {read[i] : i \in {j \in 1..Len(read) : Accepted(read[j])}}}

Duplicated(replies, left) ==
  Cardinality(DistinctAnswerSets(Collected(replies, left))) >= 2

-----------------------------------------------------------------------------
(* The HTTPS record, read by how many bytes of it have been passed. *)

\* The first loop of svcParam, one label a turn, over what follows the priority.
SkipLabel(s, n) ==
  LET l == s[n.at + 1]
  IN IF ~n.going THEN n
     ELSE IF n.at >= Len(s) THEN [n EXCEPT !.going = FALSE]
     ELSE IF l = 0 THEN [n EXCEPT !.going = FALSE, !.at = @ + 1]
     ELSE IF n.at + 1 + l > Len(s) THEN [n EXCEPT !.going = FALSE, !.ok = FALSE]
     ELSE [n EXCEPT !.at = @ + 1 + l]

SkipName(s) ==
  LET after[k \in 0..Len(s)] ==
        IF k = 0 THEN [going |-> TRUE, ok |-> TRUE, at |-> 2] ELSE SkipLabel(s, after[k - 1])
  IN after[Len(s)]

NotThere == [ok |-> FALSE, value |-> <<>>]

\* Mutant of ReadParam: a value cut short is taken for whole.
ReadParamShort(s, key, w) ==
  LET vlen == Least(U16(s, w.at + 3), Len(s) - w.at - 4)
  IN IF ~w.going THEN w
     ELSE IF w.at + 4 > Len(s) THEN [w EXCEPT !.going = FALSE]
     ELSE IF U16(s, w.at + 1) = key
     THEN [w EXCEPT !.going = FALSE,
                    !.found = [ok |-> TRUE,
                               value |-> SubSeq(s, w.at + 5, w.at + 4 + vlen)]]
     ELSE [w EXCEPT !.at = @ + 4 + vlen]

\* The second loop of svcParam, one parameter a turn.
ReadParam(s, key, w) ==
  LET vlen == U16(s, w.at + 3)
  IN IF ~w.going THEN w
     ELSE IF w.at + 4 > Len(s) THEN [w EXCEPT !.going = FALSE]
     ELSE IF w.at + 4 + vlen > Len(s) THEN [w EXCEPT !.going = FALSE]
     ELSE IF U16(s, w.at + 1) = key
     THEN [w EXCEPT !.going = FALSE,
                    !.found = [ok |-> TRUE,
                               value |-> SubSeq(s, w.at + 5, w.at + 4 + vlen)]]
     ELSE [w EXCEPT !.at = @ + 4 + vlen]

Params(s, from, key) ==
  LET after[k \in 0..Len(s)] ==
        IF k = 0 THEN [going |-> TRUE, at |-> from, found |-> NotThere]
        ELSE ReadParam(s, key, after[k - 1])
  IN after[Len(s)].found

SvcParam(rdata, key) ==
  LET name == SkipName(rdata)
  IN IF Len(rdata) < 2 \/ ~name.ok THEN NotThere ELSE Params(rdata, name.at, key)

H3 == <<104, 51>>

\* The loop of advertisesHTTP3, one protocol a turn.
NextProtocol(alpn, w) ==
  LET l == alpn[w.at + 1]
  IN IF ~w.going THEN w
     ELSE IF w.at >= Len(alpn) THEN [w EXCEPT !.going = FALSE]
     ELSE IF w.at + 1 + l > Len(alpn) THEN [w EXCEPT !.going = FALSE]
     ELSE IF SubSeq(alpn, w.at + 2, w.at + 1 + l) = H3
     THEN [w EXCEPT !.going = FALSE, !.h3 = TRUE]
     ELSE [w EXCEPT !.at = @ + 1 + l]

ListsH3(alpn) ==
  LET after[k \in 0..Len(alpn) + 1] ==
        IF k = 0 THEN [going |-> TRUE, at |-> 0, h3 |-> FALSE]
        ELSE NextProtocol(alpn, after[k - 1])
  IN after[Len(alpn) + 1].h3

AdvertisesHTTP3(rdata) ==
  LET alpn == SvcParam(rdata, 1)
  IN alpn.ok /\ ListsH3(alpn.value)

-----------------------------------------------------------------------------
(* Properties. *)

\* "it never guesses" (dns.go:288): a forgery is concluded exactly if, within the
\* wait after the first thing to arrive, two replies to this query came that
\* differ in their addresses; their order does not count, nor does what answers
\* another query.
ForgeryNeedsTwo ==
  \A replies \in Replies : \A left \in Budgets :
    LET heard == {i \in 1..Len(replies) :
                    /\ replies[i].at < Least(Window, left)
                    /\ replies[i].at < replies[1].at + Grace \/ i = 1
                    /\ Accepted(replies[i])}
        Differ(s, t) == \E k \in 1..Len(s) : Times(s, s[k]) # Times(t, s[k])
    IN Duplicated(replies, left) <=>
         \E i, j \in heard : Differ(replies[i].ips, replies[j].ips)

\* "Fully bounds-checked over wire data" (ech.go:237): of a record cut anywhere,
\* a parameter is found exactly if it is there and came whole, and then it is its
\* value; HTTP/3 is advertised only if one of the protocols listed is "h3".
WholeParamsOnly ==
  \A r \in Records : \A cut \in 0..Len(r.bytes) : \A key \in {1, 5} :
    LET there == {i \in 1..Len(r.params) :
                    r.params[i].key = key /\ ParamEnd(r.params[i]) <= cut}
        Value(p) == SubSeq(r.bytes, p.at + 5, ParamEnd(p))
        rdata    == SubSeq(r.bytes, 1, cut)
        param    == SvcParam(rdata, key)
    IN /\ param.ok <=> there # {}
       /\ param.ok => param.value = Value(r.params[Min(there)])
       /\ AdvertisesHTTP3(rdata) =>
            \E i \in 1..Len(r.params) :
              /\ r.params[i].key = 1
              /\ \E k \in 1..Len(Value(r.params[i])) :
                   SubSeq(Value(r.params[i]), k, k + 2) = <<2>> \o H3
=============================================================================
