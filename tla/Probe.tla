------------------------------- MODULE Probe -------------------------------
(***************************************************************************)
(* What lumra's probes can measure and how each classifies it              *)
(* (internal/probe).  A probe makes its measurements one after another     *)
(* under one context; "done" says how many of them were made before the    *)
(* context ended.  Later ones fail at once.  A finding is abstracted to    *)
(* what its Contribute method looks at, and what the network answers is a  *)
(* choice among every outcome the code tells apart.                        *)
(***************************************************************************)
EXTENDS Naturals, FiniteSets, Verdict

CONSTANTS Trials,     \* tlsTrials: handshakes per arm of the TLS probe
          Providers,  \* len(dohProviders)
          TTLs,       \* values of an observed IP TTL
          HopMargin,  \* hopMargin
          Rates,      \* throughputs that can be measured
          Floor,      \* throttleFloorBps
          Ratio       \* throttleRatio

ASSUME ProbeAssumption ==
  /\ Trials \in Nat /\ Trials >= 2 /\ Providers \in Nat
  /\ TTLs \subseteq 0..255 /\ HopMargin \in Nat
  /\ Rates \subseteq Nat /\ Floor \in Nat /\ Ratio \in Nat

\* The outcomes of the k-th measurement.
Outcome(done, k, outcomes, failed) == IF done >= k THEN outcomes ELSE {failed}

-----------------------------------------------------------------------------
(* DNS: three plaintext resolvers, then the DoH pool, then the duplicate-    *)
(* response probe.                                                           *)

Plaintext == 1..3   \* system, public-google, public-cloudflare

\* An answer: an error or no IPv4 address, NXDOMAIN, or addresses that are in
\* the ground truth, public but not in it, or of a kind injectors use.
LookupAnswers == {"none", "nx", "true", "public", "bogon"}
HasAddress    == {"true", "public", "bogon"}

Lookups(done) ==
  {a \in [Plaintext -> LookupAnswers] :
     \A s \in Plaintext : s > done => a[s] = "none"}

\* The answers, whether the DoH pool gave a ground truth, and whether one query
\* drew two responses.
DNSFindings(done) ==
  [answers    : Lookups(done),
   truth      : Outcome(done, 4, BOOLEAN, FALSE),
   duplicated : Outcome(done, 5, BOOLEAN, FALSE)]

\* assess: only a contradiction of the ground truth or two answers to one
\* query count as tampering; a public address never does.
Tampered(f) ==
  \/ f.duplicated
  \/ f.truth /\ \E s \in Plaintext : f.answers[s] \in {"nx", "bogon"}

\* pickIP: ground truth first, then system, Cloudflare, Google.
PickIP(f) ==
  IF f.truth THEN "truth"
  ELSE IF f.answers[1] \in HasAddress THEN f.answers[1]
  ELSE IF f.answers[3] \in HasAddress THEN f.answers[3]
  ELSE IF f.answers[2] \in HasAddress THEN f.answers[2]
  ELSE "none"

-----------------------------------------------------------------------------
(* TLS: Trials concurrent handshakes with the target SNI, then as many with  *)
(* a control SNI.                                                            *)

\* One handshake: completed, completed with a chain to no trusted root, reset
\* after or before the TCP connection, failed in another way after it, or never
\* connected.
Handshakes == {"ok", "untrusted", "reset", "reset_syn", "failed", "dead"}
Completed  == {"ok", "untrusted"}
Resets     == {"reset", "reset_syn"}
Connected  == Completed \cup {"reset", "failed"}

Among(attempts, outcomes) ==
  Cardinality({i \in 1..Trials : attempts[i] \in outcomes})
Majority(n) == 2 * n > Trials

\* summarize: a majority vote, and the certificate of the first completed
\* handshake.
Summary(attempts) ==
  [reset     |-> Majority(Among(attempts, Resets)),
   completed |-> Majority(Among(attempts, Completed)),
   connected |-> Majority(Among(attempts, Connected)),
   untrusted |-> \E i \in 1..Trials :
                   /\ attempts[i] = "untrusted"
                   /\ \A j \in 1..(i-1) : attempts[j] \notin Completed,
   resets    |-> Among(attempts, Resets)]

Arm(done, k) ==
  {Summary(a) : a \in [1..Trials -> Outcome(done, k, Handshakes, "dead")]}

TLSFindings(done) ==
  {[target |-> t, benign |-> b] : t \in Arm(done, 1), b \in Arm(done, 2)}

\* Mutant of ClassifyResetPattern: a lone reset counts as a partial block.
PatternWithoutNoise(resets) ==
  CASE resets = 0 -> "none"
    [] resets = Trials -> "consistent"
    [] OTHER -> "intermittent"

ClassifyResetPattern(resets) ==
  CASE resets = 0 -> "none"
    [] resets = Trials -> "consistent"
    [] resets # Trials /\ Trials >= 3 /\ resets >= 2 -> "intermittent"
    [] OTHER -> "noise"

ClassifyReachability(target, benign) ==
  CASE target.reset /\ benign.reset -> "IP_BLOCKING"
    [] /\ ~target.connected /\ ~benign.connected
       /\ ~target.reset /\ ~benign.reset -> "INCONCLUSIVE"
    [] OTHER -> "OK"

BenignClean(f) == f.benign.completed \/ (f.benign.connected /\ ~f.benign.reset)

-----------------------------------------------------------------------------
(* The other probes of the target's address.                                 *)

\* Downgrade: a default handshake, then one that requires TLS 1.3.
DowngradeFindings(done) ==
  [default : Outcome(done, 1, {"1.3", "1.2", "reset", "failed"}, "failed"),
   forced  : Outcome(done, 2, {"1.3", "reset", "failed"}, "failed")]
\* Mutant of ClassifyDowngrade: any failure of the second handshake will do.
ClassifyDowngradeAnyFailure(f) == f.default = "1.2" /\ f.forced # "1.3"
ClassifyDowngrade(f) == f.default = "1.2" /\ f.forced = "reset"

\* ECH: the configuration from DNS, and only with it a plain and an ECH
\* handshake; a rejection by the server counts as completed.
ECHFindings(done) ==
  [config : Outcome(done, 1, BOOLEAN, FALSE),
   plain  : Outcome(done, 2, {"ok", "reset", "failed"}, "failed"),
   ech    : Outcome(done, 3, {"ok", "reset", "failed"}, "failed")]
ClassifyECH(f) == f.config /\ f.plain = "ok" /\ f.ech = "reset"

\* QUIC: the advertisement from DNS, a TCP connection, the answer to a datagram
\* that is not even sent when the deadline has passed.
QUICFindings(done) ==
  [advertises : Outcome(done, 1, BOOLEAN, FALSE),
   tcpOpen    : Outcome(done, 2, BOOLEAN, FALSE),
   reply      : Outcome(done, 3, BOOLEAN, FALSE)]
ClassifyQUIC(f) == f.advertises /\ f.tcpOpen /\ ~f.reply

\* guessInitialTTL, hopsAway: a TTL of 0 was not observed.
InitialTTL(ttl) ==
  CASE ttl <= 64 -> 64 [] ttl > 64 /\ ttl <= 128 -> 128 [] OTHER -> 255
HopsAway(ttl) == InitialTTL(ttl) - ttl
InPath(serverTTL, rstTTL) ==
  /\ serverTTL # 0 /\ rstTTL # 0
  /\ HopsAway(rstTTL) + HopMargin <= HopsAway(serverTTL)

\* captureRST: any RST on the probe's flow counts as injected; a SYN/ACK may
\* or may not have shown the server's own TTL.  Not available means no raw
\* socket.
NoRST == [injected |-> FALSE, inPath |-> FALSE]
Captured(serverTTL, rstTTL) ==
  [injected |-> TRUE, inPath |-> InPath(serverTTL, rstTTL)]

RSTFindings(done) ==
  {NoRST} \cup
  {Captured(s, r) :
     s \in TTLs \cup {0}, r \in {x \in TTLs : x # 0 /\ done >= 1}}

\* Throttle: a transfer from the target, then from the controls.
ThrottleFindings(done) ==
  [target : Outcome(done, 1, Rates, 0), control : Outcome(done, 2, Rates, 0)]
AssessThrottle(f) ==
  /\ f.target # 0 /\ f.control # 0
  /\ f.target < Floor /\ f.control >= Floor
  /\ f.control >= Ratio * f.target

-----------------------------------------------------------------------------
(* Probes that do not need the target's address.                             *)

\* BlockPage: whether the answer names a known block server.
BlockPageFindings(done) == Outcome(done, 1, BOOLEAN, FALSE)

\* DoHHealth: the providers that answer for the canary, then a plaintext lookup.
DoHFindings(done) ==
  [reachable : Outcome(done, 1, 0..Providers, 0),
   plaintext : Outcome(done, 2, BOOLEAN, FALSE)]

\* Mutant of AssessDoH: without the plaintext control.
AssessDoHAlone(f) == f.reachable = 0
AssessDoH(f) == f.reachable = 0 /\ f.plaintext

\* Control: whether any anchor accepts a connection.
ControlFindings(done) == Outcome(done, 1, BOOLEAN, FALSE)
=============================================================================
