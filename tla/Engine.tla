------------------------------- MODULE Engine -------------------------------
(***************************************************************************)
(* One diagnosis (internal/engine): the probes run in a fixed order, each  *)
(* folds its finding into the one verdict, and the baseline that was       *)
(* measured first is folded in last.  The context may end between any two  *)
(* measurements, for a diagnosis has a deadline and its caller may cancel  *)
(* it.                                                                     *)
(***************************************************************************)
EXTENDS Probe, Resolver

ASSUME ProvidersAssumption == Providers = Len(Pool)

VARIABLES
  pc,        \* the statement of Diagnose to run next
  ended,     \* whether and why the context has ended
  control,   \* what the baseline probe found
  ip,        \* the kind of address pickIP chose
  v,         \* the verdict
  \* History, read by properties only:
  found,     \* the interference the probes reported, whatever became of it
  resets,    \* resets among the handshakes with the target SNI
  silent,    \* the TLS probe reached nothing and was not reset
  late,      \* interference reported by a probe that began after the end of ctx
  short      \* interference reported by a probe that the end of ctx cut short

vars == <<pc, ended, control, ip, v, found, resets, silent, late, short>>

Steps == {"control", "dns", "tls", "downgrade", "ech", "quic", "rst",
          "throttle", "page", "doh", "fold", "finish", "done"}

Ends == {"no", "deadline", "cancelled"}

Verdicts == [type : Types, conf : {"low", "medium", "high"},
             attr : Attributions, named : BOOLEAN, nature : Natures \cup {""}]

Init ==
  /\ pc = "control" /\ ended \in Ends
  /\ control = FALSE /\ ip = "none"
  /\ v = [type |-> "OK", conf |-> "low", attr |-> "", named |-> FALSE,
          nature |-> ""]
  /\ found = {} /\ resets = 0 /\ silent = FALSE /\ late = {} /\ short = {}

-----------------------------------------------------------------------------
(* Folding a finding into the verdict (the Contribute methods). *)

\* How many of its n measurements a probe makes before the context ends.
Made(n) == IF ended = "no" THEN 0..n ELSE {0}

\* The raw capture looks at the deadline but not at a cancellation.
CaptureMade == IF ended = "deadline" THEN {0} ELSE 0..1

CanSet == v.type \in {"OK", "INCONCLUSIVE"}

Conclude(t, c) == [v EXCEPT !.type = t, !.conf = c]

\* A finding that counts unless a stronger verdict has been reached.
Accuse(guilty, t, c) == IF guilty /\ CanSet THEN Conclude(t, c) ELSE v

\* The bookkeeping of a probe of n measurements that made some of them and
\* reports a set of types.
Reports(n, made, types) ==
  /\ ended' \in IF ended # "no" THEN {ended}
               ELSE IF made = n THEN {"no"} ELSE {"deadline", "cancelled"}
  /\ found' = found \cup types
  /\ late' = IF ended # "no" THEN late \cup types ELSE late
  /\ short' = IF ended = "no" /\ made # n THEN short \cup types ELSE short

If(guilty, t) == IF guilty THEN {t} ELSE {}

-----------------------------------------------------------------------------
(* Diagnose, statement by statement. *)

Control ==
  /\ pc = "control" /\ pc' = "dns"
  /\ \E n \in Made(1) : control' \in ControlFindings(n) /\ Reports(1, n, {})
  /\ UNCHANGED <<ip, v, resets, silent>>

DNS ==
  /\ pc = "dns"
  /\ \E n \in Made(5) : \E f \in DNSFindings(n) :
       /\ ip' = PickIP(f)
       /\ pc' = IF PickIP(f) = "none" THEN "page" ELSE "tls"
       /\ v' = Accuse(Tampered(f), "DNS_TAMPERING", "high")
       /\ Reports(5, n, If(Tampered(f), "DNS_TAMPERING"))
  /\ UNCHANGED <<control, resets, silent>>

\* What the TLS probe concludes: first a substituted certificate, then resets
\* that only the target SNI draws, then whether the address answers at all.
TLSConclusion(f) ==
  LET pattern == ClassifyResetPattern(f.target.resets)
  IN  CASE f.target.completed /\ f.target.untrusted -> "TLS_MITM"
        [] ~(f.target.completed /\ f.target.untrusted) /\ BenignClean(f)
             /\ pattern \in {"consistent", "intermittent"} -> "SNI_FILTERING"
        [] OTHER -> IF f.target.completed THEN "OK"
                    ELSE ClassifyReachability(f.target, f.benign)

\* Mutant of TLSVerdict: the confidence of a partial block is not lowered.
TLSVerdictSure(f, t) ==
  CASE t = "SNI_FILTERING" -> Conclude(t, "high")
    [] t \in {"TLS_MITM", "IP_BLOCKING"} -> Accuse(TRUE, t, "medium")
    [] t = "INCONCLUSIVE" /\ v.type = "OK" -> Conclude(t, "low")
    [] OTHER -> v

\* SNI filtering replaces whatever the DNS probe concluded.
TLSVerdict(f, t) ==
  CASE t = "SNI_FILTERING" ->
         Conclude(t, IF f.target.resets = Trials THEN "high" ELSE "medium")
    [] t \in {"TLS_MITM", "IP_BLOCKING"} -> Accuse(TRUE, t, "medium")
    [] t = "INCONCLUSIVE" /\ v.type = "OK" -> Conclude(t, "low")
    [] OTHER -> v

TLS ==
  /\ pc = "tls" /\ pc' = "downgrade"
  /\ \E n \in Made(2) : \E f \in TLSFindings(n) :
       LET t == TLSConclusion(f)
       IN  /\ v' = TLSVerdict(f, t)
           /\ resets' = f.target.resets
           /\ silent' = (t = "INCONCLUSIVE")
           /\ Reports(2, n, {t} \ {"OK", "INCONCLUSIVE"})
  /\ UNCHANGED <<control, ip>>

Downgrade ==
  /\ pc = "downgrade" /\ pc' = "ech"
  /\ \E n \in Made(2) : \E f \in DowngradeFindings(n) :
       /\ v' = Accuse(ClassifyDowngrade(f), "TLS_DOWNGRADE", "medium")
       /\ Reports(2, n, If(ClassifyDowngrade(f), "TLS_DOWNGRADE"))
  /\ UNCHANGED <<control, ip, resets, silent>>

ECH ==
  /\ pc = "ech" /\ pc' = "quic"
  /\ \E n \in Made(3) : \E f \in ECHFindings(n) :
       /\ v' = Accuse(ClassifyECH(f), "ECH_BLOCKING", "medium")
       /\ Reports(3, n, If(ClassifyECH(f), "ECH_BLOCKING"))
  /\ UNCHANGED <<control, ip, resets, silent>>

QUIC ==
  /\ pc = "quic" /\ pc' = "rst"
  /\ \E n \in Made(3) : \E f \in QUICFindings(n) :
       /\ v' = Accuse(ClassifyQUIC(f), "QUIC_BLOCKING", "medium")
       /\ Reports(3, n, If(ClassifyQUIC(f), "QUIC_BLOCKING"))
  /\ UNCHANGED <<control, ip, resets, silent>>

\* An injected RST from inside the path sets the attribution if there is none;
\* any injected RST sets the type if nothing has been concluded.
RSTVerdict(f) ==
  LET w == IF f.inPath /\ v.attr = ""
           THEN [v EXCEPT !.attr = "in_network"] ELSE v
  IN  IF f.injected /\ v.type = "OK"
      THEN [w EXCEPT !.type = "RST_INJECTION", !.conf = "medium"] ELSE w

RST ==
  /\ pc = "rst" /\ pc' = "throttle"
  /\ \E n \in CaptureMade : \E f \in RSTFindings(n) :
       /\ v' = RSTVerdict(f)
       /\ Reports(1, n, If(f.injected, "RST_INJECTION"))
  /\ UNCHANGED <<control, ip, resets, silent>>

\* Mutant of ThrottleVerdict: it masks what was found before.
ThrottleVerdictMasking(throttled) ==
  IF throttled
  THEN [Conclude("THROTTLING", "medium") EXCEPT !.attr = "in_network"] ELSE v

ThrottleVerdict(throttled) ==
  IF throttled /\ CanSet
  THEN [Conclude("THROTTLING", "medium") EXCEPT !.attr = "in_network"] ELSE v

Throttle ==
  /\ pc = "throttle" /\ pc' = "page"
  /\ \E n \in Made(2) : \E f \in ThrottleFindings(n) :
       /\ v' = ThrottleVerdict(AssessThrottle(f))
       /\ Reports(2, n, If(AssessThrottle(f), "THROTTLING"))
  /\ UNCHANGED <<control, ip, resets, silent>>

\* Mutant of BlockPageVerdict: an attribution that is there is kept.
BlockPageVerdictKeeping(named) ==
  IF named
  THEN [Accuse(TRUE, "BLOCK_PAGE", "high") EXCEPT
          !.attr = IF @ = "" THEN "self_identified" ELSE @, !.named = TRUE]
  ELSE v

\* A block page names its operator whatever the type.
BlockPageVerdict(named) ==
  IF named
  THEN [Accuse(TRUE, "BLOCK_PAGE", "high") EXCEPT !.attr = "self_identified",
                                                  !.named = TRUE]
  ELSE v

BlockPage ==
  /\ pc = "page" /\ pc' = "doh"
  /\ \E n \in Made(1) : \E named \in BlockPageFindings(n) :
       /\ v' = BlockPageVerdict(named)
       /\ Reports(1, n, If(named, "BLOCK_PAGE"))
  /\ UNCHANGED <<control, ip, resets, silent>>

DoHHealth ==
  /\ pc = "doh" /\ pc' = "fold"
  /\ \E n \in Made(2) : \E f \in DoHFindings(n) :
       /\ v' = Accuse(AssessDoH(f), "DOH_BLOCKING", "high")
       /\ Reports(2, n, If(AssessDoH(f), "DOH_BLOCKING"))
  /\ UNCHANGED <<control, ip, resets, silent>>

\* A dead local network overrides everything.
ControlVerdict ==
  IF control THEN v
  ELSE [Conclude("LOCAL_ISSUE", "high") EXCEPT !.attr = "local"]

FoldControl ==
  /\ pc = "fold" /\ pc' = "finish"
  /\ v' = ControlVerdict
  /\ UNCHANGED <<ended, control, ip, found, resets, silent, late, short>>

Finish ==
  /\ pc = "finish" /\ pc' = "done"
  /\ v' = [v EXCEPT !.nature = NatureOf(v.type)]
  /\ UNCHANGED <<ended, control, ip, found, resets, silent, late, short>>

Next ==
  \/ Control \/ DNS
  \/ TLS \/ Downgrade \/ ECH \/ QUIC \/ RST \/ Throttle
  \/ BlockPage \/ DoHHealth \/ FoldControl \/ Finish

Spec == Init /\ [][Next]_vars

-----------------------------------------------------------------------------
(* Properties. *)

\* Every variable keeps to its type.
TypeOK ==
  /\ pc \in Steps /\ ended \in Ends /\ control \in BOOLEAN
  /\ ip \in {"none", "truth"} \cup HasAddress
  /\ v \in Verdicts
  /\ found \subseteq Types /\ late \subseteq Types /\ short \subseteq Types
  /\ resets \in 0..Trials /\ silent \in BOOLEAN

\* The precedence the engine's order and the guards of the Contribute methods
\* are meant to produce: a finding earlier in this list prevails.
Precedence == <<"SNI_FILTERING", "DNS_TAMPERING", "TLS_MITM", "IP_BLOCKING",
                "TLS_DOWNGRADE", "ECH_BLOCKING", "QUIC_BLOCKING",
                "RST_INJECTION", "THROTTLING", "BLOCK_PAGE", "DOH_BLOCKING">>

Prevails(t, reported) ==
  \E i \in 1..Len(Precedence) :
    /\ t = Precedence[i] /\ t \in reported
    /\ \A j \in 1..(i-1) : Precedence[j] \notin reported

\* "later ones can refine or override earlier ones" (engine.go:14) without a
\* weaker signal ever masking a hard block: the verdict is the strongest of all
\* that was reported, none of it is swallowed, and a reset does not speak for
\* an address that never answered.  It holds after every probe.
ByPrecedence ==
  pc \notin {"finish", "done"} =>
    LET counted == found \ If(silent, "RST_INJECTION")
    IN  IF counted = {} THEN v.type = IF silent THEN "INCONCLUSIVE" ELSE "OK"
        ELSE Prevails(v.type, counted)

\* The grade belongs to the type it stands beside, whichever probes overwrote
\* each other: filtering that spared some attempts is never stated as certain.
ConfidenceFits ==
  v.conf = CASE v.type \in {"OK", "INCONCLUSIVE"} -> "low"
             [] v.type \in {"DNS_TAMPERING", "BLOCK_PAGE", "DOH_BLOCKING",
                            "LOCAL_ISSUE"} -> "high"
             [] v.type = "SNI_FILTERING" /\ resets = Trials -> "high"
             [] OTHER -> "medium"

\* "a lone reset ... is deliberately treated as noise so a single transient RST
\* never over-claims a block" (trials.go:31), over both arms and all paths.
LoneResetClaimsNothing ==
  resets <= 1 => found \cap {"SNI_FILTERING", "IP_BLOCKING"} = {}

\* What a probe that is cut short can still report: what it has received, and
\* not the difference between two measurements of which it lacks one.  QUIC is
\* the exception: no datagram sent, or no wait for its answer, counts as silence.
Conclusive == {"DNS_TAMPERING", "TLS_MITM", "QUIC_BLOCKING"}

\* Measurements that fail because the context has ended are not taken for
\* interference, wherever in a probe it ends: a probe that begins after that
\* reports nothing, and one that is cut short nothing that needs what it misses.
\* Only the raw capture still runs after a cancellation, and reports a reset it
\* really saw.
ExpiredAccusesNoOne ==
  /\ late \subseteq If(ended = "cancelled", "RST_INJECTION")
  /\ short \subseteq Conclusive

\* "A bare RST_INJECTION verdict is only justified once we confirm the RST is
\* injected and in-path" (attribution.go:94).
RSTInPath == v.type = "RST_INJECTION" => v.attr # ""

\* "it only concludes QUIC is being blocked when ... a QUIC probe to UDP/443
\* draws no response" (quic.go:15).  It does not hold: the context may end before
\* the datagram is sent, or before an answer could come.
QUICProbed == "QUIC_BLOCKING" \notin short

\* An operator is named only where a block page was found, whichever type was
\* concluded, and then as one that identified itself: no earlier attribution
\* and no later probe stands beside its name.  A dead local network is the one
\* exception, with which AuthoritySelfIdentified fails.
NamedByItself ==
  v.named => /\ "BLOCK_PAGE" \in found
             /\ v.attr \in {"self_identified", "local"}
             /\ v.attr = "local" => v.type = "LOCAL_ISSUE" /\ ~control

\* What is shown beside a type belongs to it, although eleven probes write the
\* one verdict, each its own part of it.
VerdictCoherent == ConfidenceFits /\ NamedByItself

\* The authority is "set when Attribution is self_identified" (verdict.go:110):
\* an operator is named only by a verdict that says it named itself.
AuthoritySelfIdentified == v.named => v.attr = "self_identified"

\* Of the resolvers that a diagnosis asks for the truth, none that is dark blinds
\* it to the others, and an override names an address that is part of the truth.
\* Looked at in the initial states: what the pool answers is read once.
PoolHeard == Init => BlockedNotBlind /\ OverrideIsTruth

\* Replies that race each other, and records cut anywhere, are read for what
\* was sent: a forgery takes two answers, a parameter all its bytes.  Looked at in
\* the initial states too.
AnswersRead == Init => ForgeryNeedsTwo /\ WholeParamsOnly
=============================================================================
