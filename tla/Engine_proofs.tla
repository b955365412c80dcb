--------------------------- MODULE Engine_proofs ---------------------------
(***************************************************************************)
(* Proofs about the fold of the findings into one verdict, for any number  *)
(* of trials and providers and any margins and rates, and about what the   *)
(* front ends make of it; then about the loops over the pool of resolvers, *)
(* over the events of the browser and over the messages of the native      *)
(* host, for pools, events and messages of any number; about bundles of    *)
(* any fields; and about racing replies and HTTPS records of any length.   *)
(***************************************************************************)
EXTENDS FrontEnds, FiniteSetTheorems, SequenceTheorems, WellFoundedInduction, TLAPS

-----------------------------------------------------------------------------
(* What the findings can be, and what they are when nothing was measured. *)

LEMMA AmongType ==
  ASSUME NEW a, NEW S
  PROVE  /\ Among(a, S) \in 0..Trials
         /\ {i \in 1..Trials : a[i] \in S} = {} => Among(a, S) = 0
<1>1. Trials \in Nat
  BY ProbeAssumption
<1>2. IsFiniteSet(1..Trials) /\ Cardinality(1..Trials) = Trials
  BY <1>1, FS_Interval
<1>3. {i \in 1..Trials : a[i] \in S} \subseteq 1..Trials
  OBVIOUS
<1>4. /\ IsFiniteSet({i \in 1..Trials : a[i] \in S})
      /\ Cardinality({i \in 1..Trials : a[i] \in S}) <= Cardinality(1..Trials)
  BY <1>2, <1>3, FS_Subset
<1>5. Cardinality({i \in 1..Trials : a[i] \in S}) \in Nat
  BY <1>4, FS_CardinalityType
<1>6. {i \in 1..Trials : a[i] \in S} = {} => Among(a, S) = 0
  BY FS_EmptySet DEF Among
<1>7. QED
  BY <1>1, <1>2, <1>4, <1>5, <1>6 DEF Among

\* One arm of the TLS probe: the resets are counted, a single one is no
\* majority, and an arm that was not measured shows nothing.
LEMMA ArmFacts ==
  ASSUME NEW n \in Nat, NEW k \in Nat \ {0}, NEW s \in Arm(n, k)
  PROVE  /\ s.resets \in 0..Trials
         /\ s.resets <= 1 => ~s.reset
         /\ n < k => s.resets = 0 /\ ~s.reset /\ ~s.completed /\ ~s.connected
<1>1. PICK a \in [1..Trials -> Outcome(n, k, Handshakes, "dead")] : s = Summary(a)
  BY DEF Arm
<1>2. /\ s.resets = Among(a, Resets)
      /\ s.reset = Majority(Among(a, Resets))
      /\ s.completed = Majority(Among(a, Completed))
      /\ s.connected = Majority(Among(a, Connected))
  BY <1>1 DEF Summary
<1>3. Among(a, Resets) \in 0..Trials
  BY AmongType
<1>4. Among(a, Resets) <= 1 => ~Majority(Among(a, Resets))
  BY <1>3, ProbeAssumption DEF Majority
<1>5. ASSUME n < k
      PROVE  /\ Among(a, Resets) = 0 /\ Among(a, Completed) = 0
             /\ Among(a, Connected) = 0
  <2>1. \A i \in 1..Trials : a[i] = "dead"
    BY <1>1, <1>5 DEF Outcome
  <2>2. /\ {i \in 1..Trials : a[i] \in Resets} = {}
        /\ {i \in 1..Trials : a[i] \in Completed} = {}
        /\ {i \in 1..Trials : a[i] \in Connected} = {}
    BY <2>1 DEF Resets, Completed, Connected
  <2>3. QED
    BY <2>2, AmongType
<1>6. ~Majority(0)
  BY ProbeAssumption DEF Majority
<1>7. QED
  BY <1>2, <1>3, <1>4, <1>5, <1>6, Zenon

\* What the TLS probe concludes: a lone reset is neither filtering nor a
\* block, without a measurement there is no conclusion, and with one arm alone
\* there is none but a substituted certificate.
LEMMA TLSFacts ==
  ASSUME NEW n \in 0..2, NEW f \in TLSFindings(n)
  PROVE  /\ f.target.resets \in 0..Trials
         /\ TLSConclusion(f) \in {"TLS_MITM", "SNI_FILTERING", "IP_BLOCKING",
                                  "INCONCLUSIVE", "OK"}
         /\ f.target.resets <= 1 =>
              TLSConclusion(f) \notin {"SNI_FILTERING", "IP_BLOCKING"}
         /\ n = 0 => TLSConclusion(f) \in {"INCONCLUSIVE", "OK"}
         /\ n # 2 => TLSConclusion(f) \in {"TLS_MITM", "INCONCLUSIVE", "OK"}
<1>1. PICK t \in Arm(n, 1), b \in Arm(n, 2) : f = [target |-> t, benign |-> b]
  BY DEF TLSFindings
<1>2. f.target = t /\ f.benign = b
  BY <1>1
<1>3. n \in Nat /\ 1 \in Nat \ {0} /\ 2 \in Nat \ {0}
  OBVIOUS
<1>4. /\ t.resets \in 0..Trials
      /\ t.resets <= 1 => ~t.reset
      /\ n < 1 => t.resets = 0 /\ ~t.reset /\ ~t.completed
      /\ n < 2 => ~b.reset /\ ~b.completed /\ ~b.connected
  BY <1>1, <1>3, ArmFacts, Zenon
<1>5. t.resets <= 1 =>
        ClassifyResetPattern(t.resets) \notin {"consistent", "intermittent"}
  BY <1>4, ProbeAssumption DEF ClassifyResetPattern
<1>6. /\ ClassifyReachability(t, b) \in {"IP_BLOCKING", "INCONCLUSIVE", "OK"}
      /\ ~t.reset \/ ~b.reset => ClassifyReachability(t, b) # "IP_BLOCKING"
  BY DEF ClassifyReachability
<1>7. QED
  BY <1>2, <1>4, <1>5, <1>6 DEF TLSConclusion, BenignClean

\* A measurement that was not made has the outcome of a failure.
LEMMA NotMade ==
  ASSUME NEW k \in Nat \ {0}, NEW S, NEW x
  PROVE  Outcome(0, k, S, x) = {x}
BY DEF Outcome

\* The remaining probes accuse no one of anything they did not measure.
LEMMA NothingMeasured ==
  /\ \A f \in DNSFindings(0) : ~Tampered(f)
  /\ \A f \in DowngradeFindings(0) : ~ClassifyDowngrade(f)
  /\ \A f \in ECHFindings(0) : ~ClassifyECH(f)
  /\ \A f \in QUICFindings(0) : ~ClassifyQUIC(f)
  /\ \A f \in RSTFindings(0) : ~f.injected
  /\ \A f \in ThrottleFindings(0) : ~AssessThrottle(f)
  /\ \A named \in BlockPageFindings(0) : ~named
  /\ \A f \in DoHFindings(0) : ~AssessDoH(f)
<1>1. ASSUME NEW f \in DNSFindings(0) PROVE ~Tampered(f)
  <2>1. /\ f.truth \in Outcome(0, 4, BOOLEAN, FALSE)
        /\ f.duplicated \in Outcome(0, 5, BOOLEAN, FALSE)
    BY <1>1 DEF DNSFindings
  <2>2. 4 \in Nat \ {0} /\ 5 \in Nat \ {0}
    OBVIOUS
  <2>3. f.truth \in {FALSE}
    BY <2>1, <2>2, NotMade, Zenon
  <2>4. f.duplicated \in {FALSE}
    BY <2>1, <2>2, NotMade, Zenon
  <2>5. QED
    BY <2>3, <2>4, Zenon DEF Tampered
<1>2. \A f \in DowngradeFindings(0) : ~ClassifyDowngrade(f)
  BY DEF DowngradeFindings, ClassifyDowngrade, Outcome
<1>3. \A f \in ECHFindings(0) : ~ClassifyECH(f)
  BY DEF ECHFindings, ClassifyECH, Outcome
<1>4. ASSUME NEW f \in QUICFindings(0) PROVE ~ClassifyQUIC(f)
  <2>1. f.advertises \in Outcome(0, 1, BOOLEAN, FALSE)
    BY <1>4 DEF QUICFindings
  <2>2. 1 \in Nat \ {0}
    OBVIOUS
  <2>3. f.advertises \in {FALSE}
    BY <2>1, <2>2, NotMade, Zenon
  <2>4. QED
    BY <2>3, Zenon DEF ClassifyQUIC
<1>5. \A f \in RSTFindings(0) : ~f.injected
  BY DEF RSTFindings, NoRST
<1>6. \A f \in ThrottleFindings(0) : ~AssessThrottle(f)
  BY DEF ThrottleFindings, AssessThrottle, Outcome
<1>7. \A named \in BlockPageFindings(0) : ~named
  BY DEF BlockPageFindings, Outcome
<1>8. ASSUME NEW f \in DoHFindings(0) PROVE ~AssessDoH(f)
  <2>1. f.plaintext \in Outcome(0, 2, BOOLEAN, FALSE)
    BY <1>8 DEF DoHFindings
  <2>2. 2 \in Nat \ {0}
    OBVIOUS
  <2>3. f.plaintext \in {FALSE}
    BY <2>1, <2>2, NotMade, Zenon
  <2>4. QED
    BY <2>3, Zenon DEF AssessDoH
<1>9. QED
  BY <1>1, <1>2, <1>3, <1>4, <1>5, <1>6, <1>7, <1>8

\* A comparison that lacks a measurement shows no difference.
LEMMA CutShort ==
  /\ \A n \in 0..1 : \A f \in DowngradeFindings(n) : ~ClassifyDowngrade(f)
  /\ \A n \in 0..2 : \A f \in ECHFindings(n) : ~ClassifyECH(f)
  /\ \A n \in 0..1 : \A f \in ThrottleFindings(n) : ~AssessThrottle(f)
  /\ \A n \in 0..1 : \A f \in DoHFindings(n) : ~AssessDoH(f)
<1>1. ASSUME NEW n \in 0..1, NEW f \in DowngradeFindings(n)
      PROVE  ~ClassifyDowngrade(f)
  <2>1. f.forced \in Outcome(n, 2, {"1.3", "reset", "failed"}, "failed")
    BY <1>1 DEF DowngradeFindings
  <2>2. f.forced = "failed"
    BY <2>1 DEF Outcome
  <2>3. QED
    BY <2>2 DEF ClassifyDowngrade
<1>2. ASSUME NEW n \in 0..2 PROVE \A f \in ECHFindings(n) : ~ClassifyECH(f)
  <2>1. Outcome(n, 3, {"ok", "reset", "failed"}, "failed") = {"failed"}
    BY DEF Outcome
  <2>2. \A f \in ECHFindings(n) : f.ech = "failed"
    BY <2>1 DEF ECHFindings
  <2>3. QED
    BY <2>2 DEF ClassifyECH
<1>3. \A n \in 0..1 : \A f \in ThrottleFindings(n) : ~AssessThrottle(f)
  BY DEF ThrottleFindings, AssessThrottle, Outcome
<1>4. ASSUME NEW n \in 0..1, NEW f \in DoHFindings(n) PROVE ~AssessDoH(f)
  <2>1. f.plaintext \in Outcome(n, 2, BOOLEAN, FALSE)
    BY <1>4 DEF DoHFindings
  <2>2. ~(n >= 2)
    BY <1>4
  <2>3. f.plaintext \in {FALSE}
    BY <2>1, <2>2, Zenon DEF Outcome
  <2>4. QED
    BY <2>3, Zenon DEF AssessDoH
<1>5. QED
  BY <1>1, <1>2, <1>3, <1>4

\* Each guilty verdict is a Boolean, and an address is of a known kind.
LEMMA FindingTypes ==
  ASSUME NEW n \in Nat
  PROVE  /\ \A f \in DNSFindings(n) :
              Tampered(f) \in BOOLEAN /\ PickIP(f) \in {"none", "truth"} \cup HasAddress
         /\ \A f \in RSTFindings(n) : f.injected \in BOOLEAN /\ f.inPath \in BOOLEAN
         /\ BlockPageFindings(n) \subseteq BOOLEAN
         /\ ControlFindings(n) \subseteq BOOLEAN
<1>1. \A f \in DNSFindings(n) :
        Tampered(f) \in BOOLEAN /\ PickIP(f) \in {"none", "truth"} \cup HasAddress
  BY DEF Tampered, PickIP
<1>2. ASSUME NEW f \in RSTFindings(n)
      PROVE  f.injected \in BOOLEAN /\ f.inPath \in BOOLEAN
  <2>1. CASE f = NoRST
    BY <2>1, Zenon DEF NoRST
  <2>2. ASSUME NEW st, NEW rt, f = Captured(st, rt)
        PROVE  f.injected \in BOOLEAN /\ f.inPath \in BOOLEAN
    <3>1. InPath(st, rt) \in BOOLEAN
      BY DEF InPath
    <3>2. QED
      BY <2>2, <3>1, Zenon DEF Captured
  <2>3. f = NoRST \/ \E st, rt : f = Captured(st, rt)
    BY <1>2, SMT DEF RSTFindings
  <2>4. QED
    BY <2>1, <2>2, <2>3, Zenon
<1>3. BlockPageFindings(n) \subseteq BOOLEAN /\ ControlFindings(n) \subseteq BOOLEAN
  BY DEF BlockPageFindings, ControlFindings, Outcome
<1>4. QED
  BY <1>1, <1>2, <1>3

-----------------------------------------------------------------------------
(* The order of precedence. *)

Before(k) == {Precedence[j] : j \in 1..(k-1)}

LEMMA PrecedenceFacts ==
  /\ Len(Precedence) = 11
  /\ \A i, j \in 1..11 : Precedence[i] = Precedence[j] => i = j
  /\ \A i \in 1..11 : Precedence[i] \in Types \ {"OK", "INCONCLUSIVE", "LOCAL_ISSUE"}
BY DEF Precedence, Types

LEMMA PrecedenceValues ==
  /\ Precedence[1] = "SNI_FILTERING" /\ Precedence[2] = "DNS_TAMPERING"
  /\ Precedence[3] = "TLS_MITM" /\ Precedence[4] = "IP_BLOCKING"
  /\ Precedence[5] = "TLS_DOWNGRADE" /\ Precedence[6] = "ECH_BLOCKING"
  /\ Precedence[7] = "QUIC_BLOCKING" /\ Precedence[8] = "RST_INJECTION"
  /\ Precedence[9] = "THROTTLING" /\ Precedence[10] = "BLOCK_PAGE"
  /\ Precedence[11] = "DOH_BLOCKING"
BY DEF Precedence

\* A finding weaker than all before it decides only when there is none; the
\* strongest of all always decides.
LEMMA Strengthen ==
  ASSUME NEW k \in 1..11, NEW S, S \subseteq Before(k)
  PROVE  /\ S = {} => Prevails(Precedence[k], S \cup {Precedence[k]})
         /\ \A t : Prevails(t, S) => Prevails(t, S \cup {Precedence[k]})
<1>1. ASSUME S = {} PROVE Prevails(Precedence[k], S \cup {Precedence[k]})
  <2>1. \A j \in 1..(k-1) : Precedence[j] \notin S \cup {Precedence[k]}
    BY <1>1, PrecedenceFacts
  <2>2. k \in 1..Len(Precedence)
    BY PrecedenceFacts
  <2>3. QED
    BY <2>1, <2>2, Zenon DEF Prevails
<1>2. ASSUME NEW t, Prevails(t, S)
      PROVE  Prevails(t, S \cup {Precedence[k]})
  <2>1. PICK i \in 1..Len(Precedence) :
          /\ t = Precedence[i] /\ t \in S
          /\ \A j \in 1..(i-1) : Precedence[j] \notin S
    BY <1>2, Zenon DEF Prevails
  <2>2. PICK m \in 1..(k-1) : t = Precedence[m]
    BY <2>1 DEF Before
  <2>3. i = m
    <3>1. i \in 1..11
      BY <2>1, PrecedenceFacts
    <3>2. m \in 1..11
      BY <2>2
    <3>3. QED
      BY <2>1, <2>2, <3>1, <3>2, PrecedenceFacts, Zenon
  <2>4. \A j \in 1..(i-1) : Precedence[j] # Precedence[k]
    BY <2>2, <2>3, PrecedenceFacts
  <2>5. \A j \in 1..(i-1) : Precedence[j] \notin S \cup {Precedence[k]}
    BY <2>1, <2>4, Zenon
  <2>6. QED
    BY <2>1, <2>5, Zenon DEF Prevails
<1>3. QED
  BY <1>1, <1>2

LEMMA PrevailingType ==
  ASSUME NEW t, NEW S, Prevails(t, S)
  PROVE  t \in S /\ t \in Types \ {"OK", "INCONCLUSIVE", "LOCAL_ISSUE"}
BY PrecedenceFacts DEF Prevails

LEMMA StrongestOfAll ==
  ASSUME NEW S, "SNI_FILTERING" \in S
  PROVE  Prevails("SNI_FILTERING", S)
<1>1. 1 \in 1..Len(Precedence) /\ 1..(1-1) = {}
  BY PrecedenceFacts
<1>2. QED
  BY <1>1, PrecedenceValues, Zenon DEF Prevails

-----------------------------------------------------------------------------
(* The inductive invariant: every part of what is claimed, and what the      *)
(* probes before a statement can have reported.                              *)

Reported(p) ==
  CASE p \in {"control", "dns"} -> {}
    [] p = "tls" -> {"DNS_TAMPERING"}
    [] p = "downgrade" -> Before(5)
    [] p = "ech" -> Before(6)
    [] p = "quic" -> Before(7)
    [] p = "rst" -> Before(8)
    [] p = "throttle" -> Before(9)
    [] p = "page" -> Before(10)
    [] p = "doh" -> Before(11)
    [] OTHER -> Before(12)

\* Nothing of the TLS probe before it ran.
Fresh ==
  /\ pc \in {"control", "dns", "tls"} => resets = 0 /\ ~silent
  /\ pc \in {"control", "dns"} => v.type = "OK" /\ v.conf = "low"
  /\ pc = "tls" => v.type \in {"OK", "DNS_TAMPERING"}

EngineInv ==
  /\ TypeOK /\ Fresh /\ found \subseteq Reported(pc)
  /\ ByPrecedence /\ ConfidenceFits /\ LoneResetClaimsNothing /\ ExpiredAccusesNoOne

\* The verdict is the strongest finding (ByPrecedence at any one moment).
Strongest ==
  LET counted == found \ If(silent, "RST_INJECTION")
  IN  IF counted = {} THEN v.type = IF silent THEN "INCONCLUSIVE" ELSE "OK"
      ELSE Prevails(v.type, counted)

\* A finding of a probe after TLS that counts unless a stronger one has been
\* reached.  Resets are RSTStep's.
LEMMA Folding ==
  ASSUME Strongest, silent \in BOOLEAN,
         NEW k \in {5, 6, 7, 9, 10, 11}, NEW guilty \in BOOLEAN,
         found \subseteq Before(k), silent' = silent,
         found' = found \cup If(guilty, Precedence[k]),
         v'.type = IF guilty /\ CanSet THEN Precedence[k] ELSE v.type
  PROVE  Strongest'
<1> DEFINE counted == found \ If(silent, "RST_INJECTION")
<1>1. CASE ~guilty
  BY <1>1, Zenon DEF Strongest, If
<1>2. CASE guilty
  <2>1. found' = found \cup {Precedence[k]}
    BY <1>2, Zenon DEF If
  <2>2. Precedence[k] # "RST_INJECTION"
    BY PrecedenceValues
  <2>3. counted' = counted \cup {Precedence[k]}
    BY <2>1, <2>2 DEF If
  <2>4. k \in 1..11 /\ counted \subseteq Before(k)
    OBVIOUS
  <2>5. CASE counted = {}
    <3>1. v.type \in {"OK", "INCONCLUSIVE"}
      BY <2>5, Zenon DEF Strongest
    <3>2. v'.type = Precedence[k]
      BY <1>2, <3>1, Zenon DEF CanSet
    <3>3. Prevails(Precedence[k], counted \cup {Precedence[k]})
      BY <2>4, <2>5, Strengthen, Zenon
    <3>4. counted' # {}
      BY <2>3
    <3>5. QED
      BY <2>3, <3>2, <3>3, <3>4, Zenon DEF Strongest
  <2>6. CASE counted # {}
    <3>1. Prevails(v.type, counted)
      BY <2>6, Zenon DEF Strongest
    <3>2. ~CanSet
      BY <3>1, PrevailingType DEF CanSet
    <3>3. v'.type = v.type
      BY <3>2, Zenon
    <3>4. Prevails(v.type, counted \cup {Precedence[k]})
      BY <2>4, <3>1, Strengthen, Zenon
    <3>5. counted' # {}
      BY <2>3
    <3>6. QED
      BY <2>3, <3>3, <3>4, <3>5, Zenon DEF Strongest
  <2>7. QED
    BY <2>5, <2>6, Zenon
<1>3. QED
  BY <1>1, <1>2, Zenon

\* The bookkeeping of a probe that accuses no one without a measurement.
LEMMA Reporting ==
  ASSUME TypeOK, ExpiredAccusesNoOne, NEW n, NEW made, NEW types,
         Reports(n, made, types), types \subseteq Types,
         ended # "no" => types \subseteq If(ended = "cancelled", "RST_INJECTION"),
         made # n => types \subseteq Conclusive \/ ended # "no"
  PROVE  /\ ended' \in Ends /\ found' \subseteq Types /\ late' \subseteq Types
         /\ short' \subseteq Types
         /\ found' = found \cup types
         /\ ExpiredAccusesNoOne'
<1>1. /\ ended \in Ends /\ found \subseteq Types /\ late \subseteq Types
      /\ short \subseteq Types
  BY DEF TypeOK
<1>2. short' \subseteq Types /\ short' \subseteq Conclusive
  <2>1. short \subseteq Conclusive
    BY DEF ExpiredAccusesNoOne
  <2>2. CASE ended = "no" /\ made # n
    BY <1>1, <2>1, <2>2 DEF Reports
  <2>3. CASE ~(ended = "no" /\ made # n)
    BY <1>1, <2>1, <2>3 DEF Reports
  <2>4. QED
    BY <2>2, <2>3
<1>3. CASE ended = "no"
  <2>1. late' = late /\ ended' \in Ends
    BY <1>3, Zenon DEF Reports, Ends
  <2>2. late = {}
    BY <1>3 DEF ExpiredAccusesNoOne, If
  <2>3. QED
    BY <1>1, <1>2, <2>1, <2>2 DEF Reports, ExpiredAccusesNoOne
<1>4. CASE ended # "no"
  <2>1. late' = late \cup types /\ ended' = ended
    BY <1>4 DEF Reports
  <2>2. late' \subseteq If(ended = "cancelled", "RST_INJECTION")
    BY <1>4, <2>1, Zenon DEF ExpiredAccusesNoOne
  <2>3. QED
    BY <1>1, <1>2, <2>1, <2>2, Zenon DEF Reports, ExpiredAccusesNoOne
<1>5. QED
  BY <1>3, <1>4

\* A whole step of a probe after TLS other than RST.
LEMMA ProbeStep ==
  ASSUME EngineInv, NEW k \in {5, 6, 7, 9, 10, 11}, NEW guilty \in BOOLEAN,
         NEW n, NEW made, Reports(n, made, If(guilty, Precedence[k])),
         ended # "no" => ~guilty,
         made # n => ~guilty \/ Precedence[k] \in Conclusive,
         pc \notin {"finish", "done"}, found \subseteq Before(k),
         pc' \in Steps \ {"control", "dns", "tls"}, Reported(pc') = Before(k + 1),
         v' \in Verdicts,
         UNCHANGED <<control, ip, resets, silent>>,
         v'.type = IF guilty /\ CanSet THEN Precedence[k] ELSE v.type,
         v'.conf = IF guilty /\ CanSet
                   THEN IF k \in {10, 11} THEN "high" ELSE "medium" ELSE v.conf
  PROVE  EngineInv'
<1>1. TypeOK /\ ConfidenceFits /\ LoneResetClaimsNothing /\ ExpiredAccusesNoOne
  BY DEF EngineInv
<1>2. If(guilty, Precedence[k]) \subseteq Types \ {"SNI_FILTERING", "IP_BLOCKING"}
  BY PrecedenceFacts, PrecedenceValues DEF If
<1>3. /\ ended # "no" =>
           If(guilty, Precedence[k]) \subseteq If(ended = "cancelled", "RST_INJECTION")
      /\ made # n => If(guilty, Precedence[k]) \subseteq Conclusive
  BY DEF If
<1>4. /\ ended' \in Ends /\ found' \subseteq Types /\ late' \subseteq Types /\ short' \subseteq Types
      /\ found' = found \cup If(guilty, Precedence[k])
      /\ ExpiredAccusesNoOne'
  BY <1>1, <1>2, <1>3, Reporting
<1>5. TypeOK'
  BY <1>1, <1>4 DEF TypeOK
<1>6. Fresh'
  BY DEF Fresh
<1>7. found' \subseteq Reported(pc')
  <2>1. Before(k + 1) = Before(k) \cup {Precedence[k]}
    BY DEF Before
  <2>2. If(guilty, Precedence[k]) \subseteq {Precedence[k]}
    BY DEF If
  <2>3. QED
    BY <1>4, <2>1, <2>2
<1>8. ByPrecedence'
  <2>1. Strongest
    BY Zenon DEF EngineInv, ByPrecedence, Strongest
  <2>2. silent \in BOOLEAN
    BY <1>1 DEF TypeOK
  <2>3. Strongest'
    BY <1>4, <2>1, <2>2, Folding
  <2>4. QED
    BY <2>3, Zenon DEF ByPrecedence, Strongest
<1>9. ConfidenceFits'
  <2>1. CASE guilty /\ CanSet
    BY <2>1, PrecedenceValues DEF ConfidenceFits
  <2>2. CASE ~(guilty /\ CanSet)
    <3>1. v'.type = v.type /\ v'.conf = v.conf /\ resets' = resets
      BY <2>2
    <3>2. QED
      BY <1>1, <3>1, Zenon DEF ConfidenceFits
  <2>3. QED
    BY <2>1, <2>2
<1>10. LoneResetClaimsNothing'
  BY <1>1, <1>2, <1>4 DEF LoneResetClaimsNothing
<1>11. QED
  BY <1>4, <1>5, <1>6, <1>7, <1>8, <1>9, <1>10, Zenon DEF EngineInv

-----------------------------------------------------------------------------
(* Every statement of Diagnose preserves the invariant. *)

LEMMA MadeType ==
  ASSUME TypeOK, NEW m \in Nat, NEW n \in Made(m)
  PROVE  n \in 0..m /\ (ended # "no" => n = 0)
BY DEF Made, TypeOK, Ends

LEMMA InitInv ==
  ASSUME Init
  PROVE  EngineInv
<1>1. TypeOK
  <2>1. v \in Verdicts
    BY Zenon DEF Init, Verdicts, Types, Attributions
  <2>2. 0 \in 0..Trials
    BY ProbeAssumption
  <2>3. QED
    BY <2>1, <2>2, Zenon DEF Init, TypeOK, Steps
<1>2. Fresh /\ found \subseteq Reported(pc)
  BY DEF Init, Fresh
<1>3. ByPrecedence
  <2>1. found \ If(silent, "RST_INJECTION") = {} /\ ~silent /\ v.type = "OK"
    BY DEF Init
  <2>2. QED
    BY <2>1, Zenon DEF ByPrecedence
<1>4. ConfidenceFits
  BY DEF Init, ConfidenceFits
<1>5. LoneResetClaimsNothing /\ ExpiredAccusesNoOne
  BY DEF Init, LoneResetClaimsNothing, ExpiredAccusesNoOne
<1>6. QED
  BY <1>1, <1>2, <1>3, <1>4, <1>5 DEF EngineInv

LEMMA DowngradeStep ==
  ASSUME EngineInv, Downgrade
  PROVE  EngineInv'
<1>1. PICK n \in Made(2) : \E f \in DowngradeFindings(n) :
        /\ v' = Accuse(ClassifyDowngrade(f), "TLS_DOWNGRADE", "medium")
        /\ Reports(2, n, If(ClassifyDowngrade(f), "TLS_DOWNGRADE"))
  BY Zenon DEF Downgrade
<1>2. PICK f \in DowngradeFindings(n) :
        /\ v' = Accuse(ClassifyDowngrade(f), "TLS_DOWNGRADE", "medium")
        /\ Reports(2, n, If(ClassifyDowngrade(f), "TLS_DOWNGRADE"))
  BY <1>1, Zenon
<1> DEFINE guilty == ClassifyDowngrade(f)
<1>3. /\ pc = "downgrade" /\ pc' = "ech"
      /\ UNCHANGED <<control, ip, resets, silent>>
  BY Zenon DEF Downgrade
<1>4. TypeOK /\ v \in Verdicts /\ found \subseteq Reported(pc)
  BY Zenon DEF EngineInv, TypeOK
<1>5. n \in 0..2 /\ (ended # "no" => n = 0)
  BY <1>4, MadeType
<1>6. guilty \in BOOLEAN
  BY DEF ClassifyDowngrade
<1>7. (ended # "no" => ~guilty) /\ (n # 2 => ~guilty)
  <2>1. n # 2 => n \in 0..1
    BY <1>5
  <2>2. QED
    BY <1>2, <1>5, <2>1, NothingMeasured, CutShort, Zenon
<1>8. /\ v' \in Verdicts
      /\ v'.type = IF guilty /\ CanSet THEN "TLS_DOWNGRADE" ELSE v.type
      /\ v'.conf = IF guilty /\ CanSet THEN "medium" ELSE v.conf
  BY <1>2, <1>4 DEF Accuse, Conclude, Verdicts, Types
<1>9. found \subseteq Before(5) /\ Reported(pc') = Before(5 + 1)
  BY <1>3, <1>4 DEF Reported
<1>10. pc' \in Steps \ {"control", "dns", "tls"}
  BY <1>3, <1>4 DEF TypeOK, Steps
<1>11. 5 \in {5, 6, 7, 9, 10, 11} /\ Precedence[5] = "TLS_DOWNGRADE"
  BY PrecedenceValues
<1>12. Reports(2, n, If(guilty, Precedence[5]))
  BY <1>2, <1>11, Zenon
<1>13. QED
  BY <1>3, <1>6, <1>7, <1>8, <1>9, <1>10, <1>11, <1>12, ProbeStep

LEMMA ECHStep ==
  ASSUME EngineInv, ECH
  PROVE  EngineInv'
<1>1. PICK n \in Made(3) : \E f \in ECHFindings(n) :
        /\ v' = Accuse(ClassifyECH(f), "ECH_BLOCKING", "medium")
        /\ Reports(3, n, If(ClassifyECH(f), "ECH_BLOCKING"))
  BY Zenon DEF ECH
<1>2. PICK f \in ECHFindings(n) :
        /\ v' = Accuse(ClassifyECH(f), "ECH_BLOCKING", "medium")
        /\ Reports(3, n, If(ClassifyECH(f), "ECH_BLOCKING"))
  BY <1>1, Zenon
<1> DEFINE guilty == ClassifyECH(f)
<1>3. /\ pc = "ech" /\ pc' = "quic"
      /\ UNCHANGED <<control, ip, resets, silent>>
  BY Zenon DEF ECH
<1>4. TypeOK /\ v \in Verdicts /\ found \subseteq Reported(pc)
  BY Zenon DEF EngineInv, TypeOK
<1>5. n \in 0..3 /\ (ended # "no" => n = 0)
  BY <1>4, MadeType
<1>6. guilty \in BOOLEAN
  BY DEF ClassifyECH
<1>7. (ended # "no" => ~guilty) /\ (n # 3 => ~guilty)
  <2>1. n # 3 => n \in 0..2
    BY <1>5
  <2>2. QED
    BY <1>2, <1>5, <2>1, NothingMeasured, CutShort, Zenon
<1>8. /\ v' \in Verdicts
      /\ v'.type = IF guilty /\ CanSet THEN "ECH_BLOCKING" ELSE v.type
      /\ v'.conf = IF guilty /\ CanSet THEN "medium" ELSE v.conf
  BY <1>2, <1>4 DEF Accuse, Conclude, Verdicts, Types
<1>9. found \subseteq Before(6) /\ Reported(pc') = Before(6 + 1)
  BY <1>3, <1>4 DEF Reported
<1>10. pc' \in Steps \ {"control", "dns", "tls"}
  BY <1>3, <1>4 DEF TypeOK, Steps
<1>11. 6 \in {5, 6, 7, 9, 10, 11} /\ Precedence[6] = "ECH_BLOCKING"
  BY PrecedenceValues
<1>12. Reports(3, n, If(guilty, Precedence[6]))
  BY <1>2, <1>11, Zenon
<1>13. QED
  BY <1>3, <1>6, <1>7, <1>8, <1>9, <1>10, <1>11, <1>12, ProbeStep

LEMMA QUICStep ==
  ASSUME EngineInv, QUIC
  PROVE  EngineInv'
<1>1. PICK n \in Made(3) : \E f \in QUICFindings(n) :
        /\ v' = Accuse(ClassifyQUIC(f), "QUIC_BLOCKING", "medium")
        /\ Reports(3, n, If(ClassifyQUIC(f), "QUIC_BLOCKING"))
  BY Zenon DEF QUIC
<1>2. PICK f \in QUICFindings(n) :
        /\ v' = Accuse(ClassifyQUIC(f), "QUIC_BLOCKING", "medium")
        /\ Reports(3, n, If(ClassifyQUIC(f), "QUIC_BLOCKING"))
  BY <1>1, Zenon
<1> DEFINE guilty == ClassifyQUIC(f)
<1>3. /\ pc = "quic" /\ pc' = "rst"
      /\ UNCHANGED <<control, ip, resets, silent>>
  BY Zenon DEF QUIC
<1>4. TypeOK /\ v \in Verdicts /\ found \subseteq Reported(pc)
  BY Zenon DEF EngineInv, TypeOK
<1>5. n \in 0..3 /\ (ended # "no" => n = 0)
  BY <1>4, MadeType
<1>6. guilty \in BOOLEAN
  BY DEF ClassifyQUIC
<1>7. ended # "no" => ~guilty
  BY <1>2, <1>5, NothingMeasured, Zenon
<1>8. /\ v' \in Verdicts
      /\ v'.type = IF guilty /\ CanSet THEN "QUIC_BLOCKING" ELSE v.type
      /\ v'.conf = IF guilty /\ CanSet THEN "medium" ELSE v.conf
  BY <1>2, <1>4 DEF Accuse, Conclude, Verdicts, Types
<1>9. found \subseteq Before(7) /\ Reported(pc') = Before(7 + 1)
  BY <1>3, <1>4 DEF Reported
<1>10. pc' \in Steps \ {"control", "dns", "tls"}
  BY <1>3 DEF Steps
<1>11. /\ 7 \in {5, 6, 7, 9, 10, 11} /\ Precedence[7] = "QUIC_BLOCKING"
       /\ Precedence[7] \in Conclusive
  BY PrecedenceValues DEF Conclusive
<1>12. Reports(3, n, If(guilty, Precedence[7]))
  BY <1>2, <1>11, Zenon
<1>13. QED
  BY <1>3, <1>6, <1>7, <1>8, <1>9, <1>10, <1>11, <1>12, ProbeStep

LEMMA ThrottleStep ==
  ASSUME EngineInv, Throttle
  PROVE  EngineInv'
<1>1. PICK n \in Made(2) : \E f \in ThrottleFindings(n) :
        /\ v' = ThrottleVerdict(AssessThrottle(f))
        /\ Reports(2, n, If(AssessThrottle(f), "THROTTLING"))
  BY Zenon DEF Throttle
<1>2. PICK f \in ThrottleFindings(n) :
        /\ v' = ThrottleVerdict(AssessThrottle(f))
        /\ Reports(2, n, If(AssessThrottle(f), "THROTTLING"))
  BY <1>1, Zenon
<1> DEFINE guilty == AssessThrottle(f)
<1>3. /\ pc = "throttle" /\ pc' = "page"
      /\ UNCHANGED <<control, ip, resets, silent>>
  BY Zenon DEF Throttle
<1>4. TypeOK /\ v \in Verdicts /\ found \subseteq Reported(pc)
  BY Zenon DEF EngineInv, TypeOK
<1>5. n \in 0..2 /\ (ended # "no" => n = 0)
  BY <1>4, MadeType
<1>6. guilty \in BOOLEAN
  BY DEF AssessThrottle
<1>7. (ended # "no" => ~guilty) /\ (n # 2 => ~guilty)
  <2>1. n # 2 => n \in 0..1
    BY <1>5
  <2>2. QED
    BY <1>2, <1>5, <2>1, NothingMeasured, CutShort, Zenon
<1>8. /\ v' \in Verdicts
      /\ v'.type = IF guilty /\ CanSet THEN "THROTTLING" ELSE v.type
      /\ v'.conf = IF guilty /\ CanSet THEN "medium" ELSE v.conf
  BY <1>2, <1>4 DEF ThrottleVerdict, Conclude, Verdicts, Types, Attributions
<1>9. found \subseteq Before(9) /\ Reported(pc') = Before(9 + 1)
  BY <1>3, <1>4 DEF Reported
<1>10. pc' \in Steps \ {"control", "dns", "tls"}
  BY <1>3, <1>4 DEF TypeOK, Steps
<1>11. 9 \in {5, 6, 7, 9, 10, 11} /\ Precedence[9] = "THROTTLING"
  BY PrecedenceValues
<1>12. Reports(2, n, If(guilty, Precedence[9]))
  BY <1>2, <1>11, Zenon
<1>13. QED
  BY <1>3, <1>6, <1>7, <1>8, <1>9, <1>10, <1>11, <1>12, ProbeStep

LEMMA BlockPageStep ==
  ASSUME EngineInv, BlockPage
  PROVE  EngineInv'
<1>1. PICK n \in Made(1) : \E named \in BlockPageFindings(n) :
        /\ v' = BlockPageVerdict(named)
        /\ Reports(1, n, If(named, "BLOCK_PAGE"))
  BY Zenon DEF BlockPage
<1>2. PICK named \in BlockPageFindings(n) :
        /\ v' = BlockPageVerdict(named)
        /\ Reports(1, n, If(named, "BLOCK_PAGE"))
  BY <1>1, Zenon
<1> DEFINE guilty == named
<1>3. /\ pc = "page" /\ pc' = "doh"
      /\ UNCHANGED <<control, ip, resets, silent>>
  BY Zenon DEF BlockPage
<1>4. TypeOK /\ v \in Verdicts /\ found \subseteq Reported(pc)
  BY Zenon DEF EngineInv, TypeOK
<1>5. n \in 0..1 /\ (ended # "no" => n = 0)
  BY <1>4, MadeType
<1>6. guilty \in BOOLEAN
  BY <1>5, FindingTypes
<1>7. (ended # "no" => ~guilty) /\ (n # 1 => ~guilty)
  <2>1. n # 1 => n = 0
    BY <1>5
  <2>2. QED
    BY <1>2, <1>5, <2>1, NothingMeasured, Zenon
<1>8. /\ v' \in Verdicts
      /\ v'.type = IF guilty /\ CanSet THEN "BLOCK_PAGE" ELSE v.type
      /\ v'.conf = IF guilty /\ CanSet THEN "high" ELSE v.conf
  BY <1>2, <1>4 DEF BlockPageVerdict, Accuse, Conclude, Verdicts, Types, Attributions
<1>9. found \subseteq Before(10) /\ Reported(pc') = Before(10 + 1)
  BY <1>3, <1>4 DEF Reported
<1>10. pc' \in Steps \ {"control", "dns", "tls"}
  BY <1>3, <1>4 DEF TypeOK, Steps
<1>11. 10 \in {5, 6, 7, 9, 10, 11} /\ Precedence[10] = "BLOCK_PAGE"
  BY PrecedenceValues
<1>12. Reports(1, n, If(guilty, Precedence[10]))
  BY <1>2, <1>11, Zenon
<1>13. QED
  BY <1>3, <1>6, <1>7, <1>8, <1>9, <1>10, <1>11, <1>12, ProbeStep

LEMMA DoHHealthStep ==
  ASSUME EngineInv, DoHHealth
  PROVE  EngineInv'
<1>1. PICK n \in Made(2) : \E f \in DoHFindings(n) :
        /\ v' = Accuse(AssessDoH(f), "DOH_BLOCKING", "high")
        /\ Reports(2, n, If(AssessDoH(f), "DOH_BLOCKING"))
  BY Zenon DEF DoHHealth
<1>2. PICK f \in DoHFindings(n) :
        /\ v' = Accuse(AssessDoH(f), "DOH_BLOCKING", "high")
        /\ Reports(2, n, If(AssessDoH(f), "DOH_BLOCKING"))
  BY <1>1, Zenon
<1> DEFINE guilty == AssessDoH(f)
<1>3. /\ pc = "doh" /\ pc' = "fold"
      /\ UNCHANGED <<control, ip, resets, silent>>
  BY Zenon DEF DoHHealth
<1>4. TypeOK /\ v \in Verdicts /\ found \subseteq Reported(pc)
  BY Zenon DEF EngineInv, TypeOK
<1>5. n \in 0..2 /\ (ended # "no" => n = 0)
  BY <1>4, MadeType
<1>6. guilty \in BOOLEAN
  BY DEF AssessDoH
<1>7. (ended # "no" => ~guilty) /\ (n # 2 => ~guilty)
  <2>1. n # 2 => n \in 0..1
    BY <1>5
  <2>2. QED
    BY <1>2, <1>5, <2>1, NothingMeasured, CutShort, Zenon
<1>8. /\ v' \in Verdicts
      /\ v'.type = IF guilty /\ CanSet THEN "DOH_BLOCKING" ELSE v.type
      /\ v'.conf = IF guilty /\ CanSet THEN "high" ELSE v.conf
  BY <1>2, <1>4 DEF Accuse, Conclude, Verdicts, Types
<1>9. found \subseteq Before(11) /\ Reported(pc') = Before(11 + 1)
  BY <1>3, <1>4 DEF Reported
<1>10. pc' \in Steps \ {"control", "dns", "tls"}
  BY <1>3, <1>4 DEF TypeOK, Steps
<1>11. 11 \in {5, 6, 7, 9, 10, 11} /\ Precedence[11] = "DOH_BLOCKING"
  BY PrecedenceValues
<1>12. Reports(2, n, If(guilty, Precedence[11]))
  BY <1>2, <1>11, Zenon
<1>13. QED
  BY <1>3, <1>6, <1>7, <1>8, <1>9, <1>10, <1>11, <1>12, ProbeStep

LEMMA ControlStep ==
  ASSUME EngineInv, Control
  PROVE  EngineInv'
<1>1. PICK n \in Made(1) : control' \in ControlFindings(n) /\ Reports(1, n, {})
  BY Zenon DEF Control
<1>2. /\ pc = "control" /\ pc' = "dns"
      /\ UNCHANGED <<ip, v, resets, silent>>
  BY Zenon DEF Control
<1>3. /\ TypeOK /\ Fresh /\ ConfidenceFits /\ LoneResetClaimsNothing
      /\ ExpiredAccusesNoOne /\ found \subseteq Reported(pc)
  BY Zenon DEF EngineInv
<1>4. control' \in BOOLEAN
  BY <1>1, <1>3, MadeType, FindingTypes
<1>5. /\ ended' \in Ends /\ found' \subseteq Types /\ late' \subseteq Types /\ short' \subseteq Types
      /\ found' = found \cup {} /\ ExpiredAccusesNoOne'
  BY <1>1, <1>3, Reporting
<1>6. TypeOK'
  BY <1>2, <1>3, <1>4, <1>5 DEF TypeOK, Steps
<1>7. Fresh' /\ found' \subseteq Reported(pc')
  BY <1>2, <1>3, <1>5 DEF Fresh, Reported
<1>8. ByPrecedence'
  <2>1. found = {} /\ ~silent /\ v.type = "OK"
    BY <1>2, <1>3 DEF Reported, Fresh
  <2>2. (found \ If(silent, "RST_INJECTION"))' = {} /\ ~silent' /\ v'.type = "OK"
    BY <1>2, <1>5, <2>1
  <2>3. QED
    BY <2>2, Zenon DEF ByPrecedence
<1>9. ConfidenceFits' /\ LoneResetClaimsNothing'
  BY <1>2, <1>3, <1>5 DEF ConfidenceFits, LoneResetClaimsNothing
<1>10. QED
  BY <1>5, <1>6, <1>7, <1>8, <1>9, Zenon DEF EngineInv

LEMMA DNSStep ==
  ASSUME EngineInv, DNS
  PROVE  EngineInv'
<1>1. PICK n \in Made(5) : \E f \in DNSFindings(n) :
        /\ ip' = PickIP(f)
        /\ pc' = IF PickIP(f) = "none" THEN "page" ELSE "tls"
        /\ v' = Accuse(Tampered(f), "DNS_TAMPERING", "high")
        /\ Reports(5, n, If(Tampered(f), "DNS_TAMPERING"))
  BY Zenon DEF DNS
<1>2. PICK f \in DNSFindings(n) :
        /\ ip' = PickIP(f)
        /\ pc' = IF PickIP(f) = "none" THEN "page" ELSE "tls"
        /\ v' = Accuse(Tampered(f), "DNS_TAMPERING", "high")
        /\ Reports(5, n, If(Tampered(f), "DNS_TAMPERING"))
  BY <1>1, Zenon
<1> DEFINE guilty == Tampered(f)
<1>3. pc = "dns" /\ UNCHANGED <<control, resets, silent>>
  BY Zenon DEF DNS
<1>4. /\ TypeOK /\ Fresh /\ LoneResetClaimsNothing /\ ExpiredAccusesNoOne
      /\ v \in Verdicts /\ found \subseteq Reported(pc)
  BY Zenon DEF EngineInv, TypeOK
<1>5. n \in 0..5 /\ (ended # "no" => n = 0)
  BY <1>4, MadeType
<1>6. guilty \in BOOLEAN /\ ip' \in {"none", "truth"} \cup HasAddress
  BY <1>2, <1>5, FindingTypes
<1>7. ended # "no" => ~guilty
  BY <1>2, <1>5, NothingMeasured, Zenon
<1>8. found = {} /\ ~silent /\ v.type = "OK" /\ v.conf = "low" /\ resets = 0
  BY <1>3, <1>4 DEF Fresh, Reported
<1>9. /\ v' \in Verdicts
      /\ v'.type = IF guilty THEN "DNS_TAMPERING" ELSE "OK"
      /\ v'.conf = IF guilty THEN "high" ELSE "low"
  BY <1>2, <1>4, <1>8 DEF Accuse, Conclude, CanSet, Verdicts, Types
<1>10. /\ If(guilty, "DNS_TAMPERING") \subseteq Types
       /\ ended # "no" =>
            If(guilty, "DNS_TAMPERING") \subseteq If(ended = "cancelled", "RST_INJECTION")
       /\ If(guilty, "DNS_TAMPERING") \subseteq Conclusive
  BY <1>7 DEF If, Types, Conclusive
<1>11. /\ ended' \in Ends /\ found' \subseteq Types /\ late' \subseteq Types /\ short' \subseteq Types
       /\ found' = found \cup If(guilty, "DNS_TAMPERING") /\ ExpiredAccusesNoOne'
  BY <1>2, <1>4, <1>10, Reporting
<1>12. found' = If(guilty, "DNS_TAMPERING")
  BY <1>8, <1>11
<1>13. pc' \in {"page", "tls"}
  BY <1>2
<1>14. TypeOK'
  BY <1>3, <1>4, <1>6, <1>9, <1>11, <1>13 DEF TypeOK, Steps
<1>15. Fresh'
  BY <1>3, <1>8, <1>9, <1>13 DEF Fresh
<1>16. found' \subseteq Reported(pc')
  <2>1. "DNS_TAMPERING" \in Before(10)
    BY PrecedenceValues DEF Before
  <2>2. QED
    BY <1>12, <1>13, <2>1 DEF If, Reported
<1>17. ByPrecedence'
  <2>1. CASE guilty
    <3>1. (found \ If(silent, "RST_INJECTION"))' = {} \cup {Precedence[2]}
      BY <1>3, <1>8, <1>12, <2>1, PrecedenceValues DEF If
    <3>2. v'.type = Precedence[2]
      BY <1>9, <2>1, PrecedenceValues
    <3>3. Prevails(Precedence[2], {} \cup {Precedence[2]})
      <4>1. 2 \in 1..11 /\ {} \subseteq Before(2)
        OBVIOUS
      <4>2. QED
        BY <4>1, Strengthen, Zenon
    <3>4. {} \cup {Precedence[2]} # {}
      OBVIOUS
    <3>5. QED
      BY <3>1, <3>2, <3>3, <3>4, Zenon DEF ByPrecedence
  <2>2. CASE ~guilty
    <3>1. /\ (found \ If(silent, "RST_INJECTION"))' = {}
          /\ ~silent' /\ v'.type = "OK"
      BY <1>3, <1>8, <1>9, <1>12, <2>2 DEF If
    <3>2. QED
      BY <3>1, Zenon DEF ByPrecedence
  <2>3. QED
    BY <2>1, <2>2
<1>18. ConfidenceFits'
  BY <1>6, <1>9 DEF ConfidenceFits
<1>19. LoneResetClaimsNothing'
  BY <1>12 DEF LoneResetClaimsNothing, If
<1>20. QED
  BY <1>11, <1>14, <1>15, <1>16, <1>17, <1>18, <1>19, Zenon DEF EngineInv

LEMMA TLSStep ==
  ASSUME EngineInv, TLS
  PROVE  EngineInv'
<1>1. PICK n \in Made(2) : \E f \in TLSFindings(n) :
        /\ v' = TLSVerdict(f, TLSConclusion(f))
        /\ resets' = f.target.resets
        /\ silent' = (TLSConclusion(f) = "INCONCLUSIVE")
        /\ Reports(2, n, {TLSConclusion(f)} \ {"OK", "INCONCLUSIVE"})
  BY Zenon DEF TLS
<1>2. PICK f \in TLSFindings(n) :
        /\ v' = TLSVerdict(f, TLSConclusion(f))
        /\ resets' = f.target.resets
        /\ silent' = (TLSConclusion(f) = "INCONCLUSIVE")
        /\ Reports(2, n, {TLSConclusion(f)} \ {"OK", "INCONCLUSIVE"})
  BY <1>1, Zenon
<1>3. /\ pc = "tls" /\ pc' = "downgrade"
      /\ UNCHANGED <<control, ip>>
  BY Zenon DEF TLS
<1>4. /\ TypeOK /\ Fresh /\ ByPrecedence /\ ConfidenceFits /\ ExpiredAccusesNoOne
      /\ v \in Verdicts /\ found \subseteq Reported(pc)
  BY Zenon DEF EngineInv, TypeOK
<1>5. n \in 0..2 /\ (ended # "no" => n = 0)
  BY <1>4, MadeType
<1>6. PICK t : t = TLSConclusion(f)
  OBVIOUS
<1>7. /\ resets' \in 0..Trials
      /\ t \in {"TLS_MITM", "SNI_FILTERING", "IP_BLOCKING", "INCONCLUSIVE", "OK"}
      /\ resets' <= 1 => t \notin {"SNI_FILTERING", "IP_BLOCKING"}
      /\ n = 0 => t \in {"INCONCLUSIVE", "OK"}
      /\ n # 2 => t \in {"TLS_MITM", "INCONCLUSIVE", "OK"}
  BY <1>2, <1>5, <1>6, TLSFacts, Zenon
\* What was known before: nothing, or tampering.
<1>8. ~silent /\ found \subseteq {"DNS_TAMPERING"}
  BY <1>3, <1>4 DEF Fresh, Reported
<1>9. \/ found = {} /\ v.type = "OK"
      \/ found = {"DNS_TAMPERING"} /\ v.type = "DNS_TAMPERING"
         /\ Prevails("DNS_TAMPERING", found)
  <2>1. found \ If(silent, "RST_INJECTION") = found
    BY <1>8 DEF If
  <2>2. IF found = {} THEN v.type = "OK" ELSE Prevails(v.type, found)
    BY <1>3, <1>4, <1>8, <2>1, Zenon DEF ByPrecedence
  <2>3. found = {} \/ found = {"DNS_TAMPERING"}
    BY <1>8
  <2>4. QED
    BY <2>2, <2>3, PrevailingType, Zenon
<1>10. v.conf = IF v.type = "OK" THEN "low" ELSE "high"
  BY <1>4, <1>9 DEF ConfidenceFits
<1>11. v' = TLSVerdict(f, t)
  BY <1>2, <1>6
<1>12. /\ v' \in Verdicts
       /\ v'.type = IF \/ t = "SNI_FILTERING"
                       \/ t # "OK" /\ v.type = "OK"
                    THEN t ELSE v.type
  BY <1>4, <1>7, <1>9, <1>11
     DEF TLSVerdict, Accuse, CanSet, Conclude, Verdicts, Types
<1>13. v'.conf = CASE t = "SNI_FILTERING" ->
                        IF resets' = Trials THEN "high" ELSE "medium"
                   [] t \in {"TLS_MITM", "IP_BLOCKING"} /\ v.type = "OK" -> "medium"
                   [] OTHER -> v.conf
  BY <1>2, <1>4, <1>7, <1>9, <1>10, <1>11
     DEF TLSVerdict, Accuse, CanSet, Conclude, Verdicts, Types
<1> DEFINE types == {t} \ {"OK", "INCONCLUSIVE"}
<1>14. /\ types \subseteq Types
       /\ ended # "no" => types \subseteq If(ended = "cancelled", "RST_INJECTION")
       /\ n # 2 => types \subseteq Conclusive
       /\ Reports(2, n, types)
  BY <1>2, <1>5, <1>6, <1>7 DEF Types, Conclusive
<1>15. /\ ended' \in Ends /\ found' \subseteq Types /\ late' \subseteq Types /\ short' \subseteq Types
       /\ found' = found \cup types /\ ExpiredAccusesNoOne'
  BY <1>4, <1>14, Reporting
<1>16. silent' = (t = "INCONCLUSIVE")
  BY <1>2, <1>6
<1>17. TypeOK'
  BY <1>3, <1>4, <1>7, <1>12, <1>15, <1>16 DEF TypeOK, Steps
<1>18. Fresh'
  BY <1>3 DEF Fresh
<1>19. found' \subseteq Reported(pc')
  <2>1. Before(5) = {"SNI_FILTERING", "DNS_TAMPERING", "TLS_MITM", "IP_BLOCKING"}
    BY PrecedenceValues DEF Before
  <2>2. QED
    BY <1>3, <1>7, <1>8, <1>15, <2>1 DEF Reported
<1>20. ByPrecedence'
  <2>1. (found \ If(silent, "RST_INJECTION"))' = found'
    BY <1>7, <1>8, <1>15 DEF If
  <2>2. CASE t = "SNI_FILTERING"
    <3>1. "SNI_FILTERING" \in found' /\ v'.type = "SNI_FILTERING"
      BY <1>12, <1>15, <2>2
    <3>2. Prevails("SNI_FILTERING", found') /\ found' # {}
      BY <3>1, StrongestOfAll, Zenon
    <3>3. QED
      BY <2>1, <3>1, <3>2, Zenon DEF ByPrecedence
  <2>3. ASSUME NEW k \in 3..4, t = Precedence[k] PROVE ByPrecedence'
    <3>1. t \in {"TLS_MITM", "IP_BLOCKING"}
      BY <2>3, PrecedenceValues
    <3>2. found' = found \cup {Precedence[k]} /\ found' # {}
      BY <1>15, <2>3, <3>1
    <3>3. k \in 1..11 /\ found \subseteq Before(k)
      BY <1>8, PrecedenceValues DEF Before
    <3>4. v'.type = IF found = {} THEN Precedence[k] ELSE v.type
      BY <1>9, <1>12, <2>3, <3>1
    <3>5. Prevails(v'.type, found')
      BY <1>9, <3>2, <3>3, <3>4, Strengthen, Zenon
    <3>6. QED
      BY <2>1, <3>2, <3>5, Zenon DEF ByPrecedence
  <2>4. CASE t \in {"OK", "INCONCLUSIVE"}
    <3>1. found' = found
      BY <1>15, <2>4
    <3>2. CASE found = {}
      <4>1. v'.type = IF silent' THEN "INCONCLUSIVE" ELSE "OK"
        BY <1>9, <1>12, <1>16, <2>4, <3>2
      <4>2. QED
        BY <2>1, <3>1, <3>2, <4>1, Zenon DEF ByPrecedence
    <3>3. CASE found # {}
      <4>1. v'.type = v.type /\ Prevails(v.type, found)
        BY <1>9, <1>12, <2>4, <3>3
      <4>2. QED
        BY <2>1, <3>1, <3>3, <4>1, Zenon DEF ByPrecedence
    <3>4. QED
      BY <3>2, <3>3
  <2>5. QED
    <3>1. t = "TLS_MITM" => t = Precedence[3] /\ 3 \in 3..4
      BY PrecedenceValues
    <3>2. t = "IP_BLOCKING" => t = Precedence[4] /\ 4 \in 3..4
      BY PrecedenceValues
    <3>3. QED
      BY <1>7, <2>2, <2>3, <2>4, <3>1, <3>2, Zenon
<1>21. ConfidenceFits'
  BY <1>7, <1>9, <1>10, <1>12, <1>13 DEF ConfidenceFits
<1>22. LoneResetClaimsNothing'
  BY <1>7, <1>8, <1>15 DEF LoneResetClaimsNothing
<1>23. QED
  BY <1>15, <1>17, <1>18, <1>19, <1>20, <1>21, <1>22, Zenon DEF EngineInv

LEMMA RSTStep ==
  ASSUME EngineInv, RST
  PROVE  EngineInv'
<1>1. PICK n \in CaptureMade : \E f \in RSTFindings(n) :
        /\ v' = RSTVerdict(f)
        /\ Reports(1, n, If(f.injected, "RST_INJECTION"))
  BY Zenon DEF RST
<1>2. PICK f \in RSTFindings(n) :
        /\ v' = RSTVerdict(f)
        /\ Reports(1, n, If(f.injected, "RST_INJECTION"))
  BY <1>1, Zenon
<1>3. /\ pc = "rst" /\ pc' = "throttle"
      /\ UNCHANGED <<control, ip, resets, silent>>
  BY Zenon DEF RST
<1>4. /\ TypeOK /\ ByPrecedence /\ ConfidenceFits /\ LoneResetClaimsNothing
      /\ ExpiredAccusesNoOne /\ v \in Verdicts /\ found \subseteq Reported(pc)
      /\ silent \in BOOLEAN
  BY Zenon DEF EngineInv, TypeOK
<1>5. n \in 0..1 /\ (ended = "deadline" => n = 0)
  BY DEF CaptureMade
<1>6. f.injected \in BOOLEAN /\ f.inPath \in BOOLEAN
  BY <1>5, FindingTypes
<1>7. (ended = "deadline" => ~f.injected) /\ (n # 1 => ~f.injected)
  BY <1>5, NothingMeasured
<1>8. /\ v' \in Verdicts
      /\ v'.type = IF f.injected /\ v.type = "OK" THEN "RST_INJECTION" ELSE v.type
      /\ v'.conf = IF f.injected /\ v.type = "OK" THEN "medium" ELSE v.conf
  BY <1>2, <1>4, <1>6 DEF RSTVerdict, Verdicts, Types, Attributions
<1> DEFINE types == If(f.injected, "RST_INJECTION")
<1>9. /\ types \subseteq Types
      /\ ended # "no" => types \subseteq If(ended = "cancelled", "RST_INJECTION")
      /\ n # 1 => types \subseteq Conclusive
  BY <1>4, <1>7 DEF If, Types, TypeOK, Ends
<1>10. /\ ended' \in Ends /\ found' \subseteq Types /\ late' \subseteq Types /\ short' \subseteq Types
       /\ found' = found \cup types /\ ExpiredAccusesNoOne'
  BY <1>2, <1>4, <1>9, Reporting
<1>11. TypeOK'
  BY <1>3, <1>4, <1>8, <1>10 DEF TypeOK, Steps
<1>12. Fresh'
  BY <1>3 DEF Fresh
<1>13. found \subseteq Before(8) /\ found' \subseteq Reported(pc')
  <2>1. Before(9) = Before(8) \cup {"RST_INJECTION"}
    BY PrecedenceValues DEF Before
  <2>2. QED
    BY <1>3, <1>4, <1>10, <2>1 DEF Reported, If
<1>14. ByPrecedence'
  <2>1. IF found \ If(silent, "RST_INJECTION") = {}
        THEN v.type = IF silent THEN "INCONCLUSIVE" ELSE "OK"
        ELSE Prevails(v.type, found \ If(silent, "RST_INJECTION"))
    BY <1>3, <1>4, Zenon DEF ByPrecedence
  <2>2. ASSUME (found \ If(silent, "RST_INJECTION"))' = found \ If(silent, "RST_INJECTION"),
               v'.type = v.type
        PROVE  ByPrecedence'
    BY <1>3, <2>1, <2>2, Zenon DEF ByPrecedence
  <2>3. CASE ~f.injected
    <3>1. found' = found /\ v'.type = v.type
      BY <1>8, <1>10, <2>3 DEF If
    <3>2. QED
      BY <1>3, <2>2, <3>1
  \* A silent address: the reset says nothing.
  <2>4. CASE f.injected /\ silent
    <3>1. (found \ If(silent, "RST_INJECTION"))' = found \ If(silent, "RST_INJECTION")
      BY <1>3, <1>10, <2>4 DEF If
    <3>2. v.type # "OK"
      BY <2>1, <2>4, PrevailingType, Zenon
    <3>3. v'.type = v.type
      BY <1>8, <3>2
    <3>4. QED
      BY <2>2, <3>1, <3>3
  <2>5. CASE f.injected /\ ~silent
    <3>1. /\ found \ If(silent, "RST_INJECTION") = found
          /\ (found \ If(silent, "RST_INJECTION"))' = found \cup {Precedence[8]}
      BY <1>3, <1>10, <2>5, PrecedenceValues DEF If
    <3>2. found \cup {Precedence[8]} # {} /\ 8 \in 1..11
      OBVIOUS
    <3>3. CASE found = {}
      <4>1. v.type = "OK"
        BY <2>1, <2>5, <3>1, <3>3, Zenon
      <4>2. v'.type = Precedence[8]
        BY <1>8, <2>5, <4>1, PrecedenceValues
      <4>3. Prevails(Precedence[8], found \cup {Precedence[8]})
        BY <1>13, <3>2, <3>3, Strengthen, Zenon
      <4>4. QED
        BY <3>1, <3>2, <4>2, <4>3, Zenon DEF ByPrecedence
    <3>4. CASE found # {}
      <4>1. Prevails(v.type, found)
        BY <2>1, <3>1, <3>4, Zenon
      <4>2. v.type # "OK"
        BY <4>1, PrevailingType
      <4>3. v'.type = v.type
        BY <1>8, <4>2
      <4>4. Prevails(v.type, found \cup {Precedence[8]})
        BY <1>13, <3>2, <4>1, Strengthen, Zenon
      <4>5. QED
        BY <3>1, <3>2, <4>3, <4>4, Zenon DEF ByPrecedence
    <3>5. QED
      BY <3>3, <3>4
  <2>6. QED
    BY <1>4, <1>6, <2>3, <2>4, <2>5
<1>15. ConfidenceFits'
  <2>1. CASE f.injected /\ v.type = "OK"
    BY <1>8, <2>1 DEF ConfidenceFits
  <2>2. CASE ~(f.injected /\ v.type = "OK")
    <3>1. v'.type = v.type /\ v'.conf = v.conf /\ resets' = resets
      BY <1>3, <1>8, <2>2
    <3>2. QED
      BY <1>4, <3>1, Zenon DEF ConfidenceFits
  <2>3. QED
    BY <2>1, <2>2
<1>16. LoneResetClaimsNothing'
  BY <1>3, <1>4, <1>10 DEF LoneResetClaimsNothing, If
<1>17. QED
  BY <1>10, <1>11, <1>12, <1>13, <1>14, <1>15, <1>16, Zenon DEF EngineInv

LEMMA FoldControlStep ==
  ASSUME EngineInv, FoldControl
  PROVE  EngineInv'
<1>1. /\ pc = "fold" /\ pc' = "finish" /\ v' = ControlVerdict
      /\ UNCHANGED <<ended, control, ip, found, resets, silent, late, short>>
  BY Zenon DEF FoldControl
<1>2. /\ TypeOK /\ ConfidenceFits /\ LoneResetClaimsNothing /\ ExpiredAccusesNoOne
      /\ v \in Verdicts /\ found \subseteq Reported(pc) /\ control \in BOOLEAN
  BY Zenon DEF EngineInv, TypeOK
<1>3. /\ v' \in Verdicts
      /\ control => v' = v
      /\ ~control => v'.type = "LOCAL_ISSUE" /\ v'.conf = "high"
  BY <1>1, <1>2 DEF ControlVerdict, Conclude, Verdicts, Types, Attributions
<1>4. TypeOK'
  BY <1>1, <1>2, <1>3 DEF TypeOK, Steps
<1>5. Fresh' /\ ByPrecedence'
  BY <1>1 DEF Fresh, ByPrecedence
<1>6. found' \subseteq Reported(pc')
  BY <1>1, <1>2 DEF Reported
<1>7. ConfidenceFits'
  <2>1. CASE control
    BY <1>1, <1>2, <1>3, <2>1, Zenon DEF ConfidenceFits
  <2>2. CASE ~control
    BY <1>3, <2>2 DEF ConfidenceFits
  <2>3. QED
    BY <1>2, <2>1, <2>2
<1>8. LoneResetClaimsNothing' /\ ExpiredAccusesNoOne'
  BY <1>1, <1>2 DEF LoneResetClaimsNothing, ExpiredAccusesNoOne
<1>9. QED
  BY <1>4, <1>5, <1>6, <1>7, <1>8 DEF EngineInv

LEMMA FinishStep ==
  ASSUME EngineInv, Finish
  PROVE  EngineInv'
<1>1. /\ pc = "finish" /\ pc' = "done"
      /\ v' = [v EXCEPT !.nature = NatureOf(v.type)]
      /\ UNCHANGED <<ended, control, ip, found, resets, silent, late, short>>
  BY Zenon DEF Finish
<1>2. /\ TypeOK /\ ConfidenceFits /\ LoneResetClaimsNothing /\ ExpiredAccusesNoOne
      /\ v \in Verdicts /\ found \subseteq Reported(pc)
  BY Zenon DEF EngineInv, TypeOK
<1>3. NatureOf(v.type) \in Natures
  BY DEF NatureOf, Natures
<1>4. v' \in Verdicts /\ v'.type = v.type /\ v'.conf = v.conf
  BY <1>1, <1>2, <1>3 DEF Verdicts
<1>5. TypeOK'
  BY <1>1, <1>2, <1>4 DEF TypeOK, Steps
<1>6. Fresh' /\ ByPrecedence'
  BY <1>1 DEF Fresh, ByPrecedence
<1>7. found' \subseteq Reported(pc')
  BY <1>1, <1>2 DEF Reported
<1>8. ConfidenceFits' /\ LoneResetClaimsNothing' /\ ExpiredAccusesNoOne'
  BY <1>1, <1>2, <1>4, Zenon
     DEF ConfidenceFits, LoneResetClaimsNothing, ExpiredAccusesNoOne
<1>9. QED
  BY <1>5, <1>6, <1>7, <1>8 DEF EngineInv

LEMMA StutterStep ==
  ASSUME EngineInv, UNCHANGED vars
  PROVE  EngineInv'
<1>1. /\ pc' = pc /\ ended' = ended /\ control' = control /\ ip' = ip /\ v' = v
      /\ found' = found /\ resets' = resets /\ silent' = silent /\ late' = late
      /\ short' = short
  BY DEF vars
<1>2. TypeOK' /\ Fresh'
  BY <1>1, Zenon DEF EngineInv, TypeOK, Fresh
<1>3. ByPrecedence' /\ ConfidenceFits'
  BY <1>1, Zenon DEF EngineInv, ByPrecedence, ConfidenceFits
<1>4. LoneResetClaimsNothing' /\ ExpiredAccusesNoOne' /\ found' \subseteq Reported(pc')
  BY <1>1, Zenon DEF EngineInv, LoneResetClaimsNothing, ExpiredAccusesNoOne
<1>5. QED
  BY <1>2, <1>3, <1>4, Zenon DEF EngineInv

-----------------------------------------------------------------------------
(* The theorems. *)

\* The invariant holds at every statement of every diagnosis (engine.go,
\* Diagnose), however many handshakes are made and whenever the context ends.
THEOREM EngineInvariance == Spec => []EngineInv
<1>1. Init => EngineInv
  BY InitInv
<1>2. EngineInv /\ [Next]_vars => EngineInv'
  BY ControlStep, DNSStep, TLSStep, DowngradeStep, ECHStep, QUICStep, RSTStep,
     ThrottleStep, BlockPageStep, DoHHealthStep, FoldControlStep, FinishStep,
     StutterStep, Zenon DEF Next
<1>3. QED
  BY <1>1, <1>2, PTL DEF Spec

\* Every variable of a diagnosis keeps to its type.
THEOREM TypeCorrect == Spec => []TypeOK
<1>1. EngineInv => TypeOK
  BY Zenon DEF EngineInv
<1>2. QED
  BY <1>1, EngineInvariance, PTL

\* The verdict is always the strongest of all that the probes reported, so no
\* Contribute method masks an earlier finding that outranks its own.
THEOREM VerdictByPrecedence == Spec => []ByPrecedence
<1>1. EngineInv => ByPrecedence
  BY Zenon DEF EngineInv
<1>2. QED
  BY <1>1, EngineInvariance, PTL

\* The confidence is always that of the type beside it: no overwriting of a
\* verdict leaves the grade of another finding behind.
THEOREM GradeFitsType == Spec => []ConfidenceFits
<1>1. EngineInv => ConfidenceFits
  BY Zenon DEF EngineInv
<1>2. QED
  BY <1>1, EngineInvariance, PTL

\* For any number of trials, one reset among the handshakes is never filtering
\* or a block of the address (trials.go, ClassifyResetPattern).
THEOREM LoneResetIsNoise == Spec => []LoneResetClaimsNothing
<1>1. EngineInv => LoneResetClaimsNothing
  BY Zenon DEF EngineInv
<1>2. QED
  BY <1>1, EngineInvariance, PTL

\* A context that has ended makes no probe accuse anyone, but for a reset the
\* raw capture really saw after a cancellation.
THEOREM NoAccusationAfterEnd == Spec => []ExpiredAccusesNoOne
<1>1. EngineInv => ExpiredAccusesNoOne
  BY Zenon DEF EngineInv
<1>2. QED
  BY <1>1, EngineInvariance, PTL

-----------------------------------------------------------------------------
(* Who is named. *)

\* An operator is named from the block-page probe on; no probe but the baseline
\* attributes to the local network, and it does so last.
NamedInv ==
  /\ v.named => /\ pc \in {"doh", "fold", "finish", "done"}
                /\ "BLOCK_PAGE" \in found /\ v.attr \in {"self_identified", "local"}
  /\ v.attr = "local" => /\ pc \in {"finish", "done"}
                         /\ v.type = "LOCAL_ISSUE" /\ ~control

\* A finding that counts leaves the attribution and the name alone.
LEMMA AccuseKeeps ==
  ASSUME v \in Verdicts, NEW guilty, NEW t, NEW c
  PROVE  /\ Accuse(guilty, t, c).named = v.named /\ Accuse(guilty, t, c).attr = v.attr
         /\ Conclude(t, c).named = v.named /\ Conclude(t, c).attr = v.attr
BY DEF Accuse, Conclude, Verdicts

LEMMA NamedStep ==
  ASSUME TypeOK, NamedInv, Next
  PROVE  NamedInv'
<1>1. v \in Verdicts
  BY DEF TypeOK
<1>2. CASE Control
  BY <1>2 DEF Control, NamedInv
<1>3. CASE DNS
  BY <1>1, <1>3, AccuseKeeps DEF DNS, NamedInv
<1>4. CASE TLS
  <2>1. PICK f :
          v' = TLSVerdict(f, TLSConclusion(f))
    BY <1>4 DEF TLS
  <2>2. v'.named = v.named /\ v'.attr = v.attr
    BY <1>1, <2>1, AccuseKeeps DEF TLSVerdict
  <2>3. QED
    BY <1>4, <2>2 DEF TLS, NamedInv
<1>5. CASE Downgrade
  BY <1>1, <1>5, AccuseKeeps DEF Downgrade, NamedInv
<1>6. CASE ECH
  BY <1>1, <1>6, AccuseKeeps DEF ECH, NamedInv
<1>7. CASE QUIC
  BY <1>1, <1>7, AccuseKeeps DEF QUIC, NamedInv
<1>8. CASE RST
  <2>1. PICK f : v' = RSTVerdict(f)
    BY <1>8 DEF RST
  <2>2. v'.named = v.named /\ v'.attr \in {v.attr, "in_network"}
    BY <1>1, <2>1 DEF RSTVerdict, Verdicts
  <2>3. QED
    BY <1>8, <2>2 DEF RST, NamedInv
<1>9. CASE Throttle
  <2>1. PICK f :
          v' = ThrottleVerdict(AssessThrottle(f))
    BY <1>9 DEF Throttle
  <2>2. v'.named = v.named /\ v'.attr \in {v.attr, "in_network"}
    BY <1>1, <2>1 DEF ThrottleVerdict, Conclude, Verdicts
  <2>3. QED
    BY <1>9, <2>2 DEF Throttle, NamedInv
<1>10. CASE BlockPage
  <2>1. PICK named :
          /\ v' = BlockPageVerdict(named)
          /\ found' = found \cup If(named, "BLOCK_PAGE")
    BY <1>10 DEF BlockPage, Reports
  <2>2. v.named = FALSE
    BY <1>1, <1>10 DEF BlockPage, NamedInv, Verdicts
  <2>3. Accuse(TRUE, "BLOCK_PAGE", "high") \in [type : Types, conf : {"low", "medium", "high"},
          attr : Attributions, named : BOOLEAN, nature : Natures \cup {""}]
    BY <1>1 DEF Accuse, Conclude, Verdicts, Types
  <2>4. named => v'.attr = "self_identified" /\ "BLOCK_PAGE" \in found'
    BY <2>1, <2>3 DEF BlockPageVerdict, If
  <2>5. ~named => v' = v
    BY <2>1 DEF BlockPageVerdict
  <2>6. QED
    BY <1>10, <2>2, <2>4, <2>5 DEF BlockPage, NamedInv
<1>11. CASE DoHHealth
  <2>1. v'.named = v.named /\ v'.attr = v.attr /\ found \subseteq found'
    BY <1>1, <1>11, AccuseKeeps DEF DoHHealth, Reports
  <2>2. QED
    BY <1>11, <2>1 DEF DoHHealth, NamedInv
<1>12. CASE FoldControl
  <2>1. Conclude("LOCAL_ISSUE", "high") \in [type : Types, conf : {"low", "medium", "high"},
          attr : Attributions, named : BOOLEAN, nature : Natures \cup {""}]
    BY <1>1 DEF Conclude, Verdicts, Types
  <2>2. /\ control => v' = v
        /\ ~control => v'.type = "LOCAL_ISSUE" /\ v'.attr = "local" /\ v'.named = v.named
    BY <1>1, <1>12, <2>1 DEF FoldControl, ControlVerdict, Conclude, Verdicts
  <2>3. QED
    BY <1>12, <2>2 DEF FoldControl, NamedInv
<1>13. CASE Finish
  <2>1. v'.named = v.named /\ v'.attr = v.attr /\ v'.type = v.type
    BY <1>1, <1>13 DEF Finish, Verdicts
  <2>2. QED
    BY <1>13, <2>1 DEF Finish, NamedInv
<1>14. QED
  BY <1>2, <1>3, <1>4, <1>5, <1>6, <1>7, <1>8, <1>9, <1>10, <1>11, <1>12, <1>13 DEF Next

\* What is shown beside a type belongs to it: its grade, and the operator, who
\* is named only where a page of its own was found (BlockPageFinding.Contribute).
THEOREM VerdictIsCoherent == Spec => []VerdictCoherent
<1>1. Init => NamedInv
  <2>1. ASSUME Init PROVE v.named = FALSE /\ v.attr = ""
    BY <2>1 DEF Init
  <2>2. QED
    BY <2>1 DEF NamedInv
<1>2. TypeOK /\ NamedInv /\ [Next]_vars => NamedInv'
  <2>1. ASSUME NamedInv, UNCHANGED vars PROVE NamedInv'
    BY <2>1 DEF NamedInv, vars
  <2>2. QED
    BY <2>1, NamedStep
<1>3. ConfidenceFits /\ NamedInv => VerdictCoherent
  BY DEF NamedInv, VerdictCoherent, NamedByItself
<1>4. QED
  BY <1>1, <1>2, <1>3, TypeCorrect, GradeFitsType, PTL DEF Spec

-----------------------------------------------------------------------------
(* The verdict as it leaves Diagnose. *)

\* Once the baseline is folded in, the type is the strongest finding, or says
\* that the local network is dead.
FoldedIn ==
  pc \in {"finish", "done"} => IF control THEN Strongest ELSE v.type = "LOCAL_ISSUE"

LEMMA FoldedInStep ==
  ASSUME EngineInv, FoldedIn, Next
  PROVE  FoldedIn'
<1>1. v \in Verdicts
  BY DEF EngineInv, TypeOK
<1>2. CASE FoldControl
  <2>1. Strongest
    BY <1>2 DEF FoldControl, EngineInv, ByPrecedence, Strongest
  <2>2. CASE control
    <3>1. UNCHANGED <<v, control, found, silent>>
      BY <1>2, <2>2 DEF FoldControl, ControlVerdict
    <3>2. Strongest'
      BY <2>1, <3>1 DEF Strongest
    <3>3. QED
      BY <2>2, <3>1, <3>2 DEF FoldedIn
  <2>3. CASE ~control
    <3>1. v'.type = "LOCAL_ISSUE" /\ ~control'
      BY <1>1, <1>2, <2>3 DEF FoldControl, ControlVerdict, Conclude, Verdicts
    <3>2. QED
      BY <3>1 DEF FoldedIn
  <2>4. QED
    BY <2>2, <2>3
<1>3. CASE Finish
  <2>1. UNCHANGED <<control, found, silent>> /\ v'.type = v.type /\ pc = "finish"
    BY <1>1, <1>3 DEF Finish, Verdicts
  <2>2. Strongest => Strongest'
    BY <2>1 DEF Strongest
  <2>3. QED
    BY <2>1, <2>2 DEF FoldedIn
<1>4. CASE ~FoldControl /\ ~Finish
  <2>1. pc' \notin {"finish", "done"}
    BY <1>4 DEF Next, Control, DNS, TLS, Downgrade, ECH, QUIC, RST, Throttle,
               BlockPage, DoHHealth
  <2>2. QED
    BY <2>1 DEF FoldedIn
<1>5. QED
  BY <1>2, <1>3, <1>4

\* What a probe reports is interference.
LEMMA ReportedTypes ==
  ASSUME NEW p, NEW t \in Reported(p)
  PROVE  t \in Types \ {"OK", "INCONCLUSIVE", "LOCAL_ISSUE", "GENUINE_OUTAGE"}
<1>1. \A k \in 1..12 : \A x \in Before(k) : \E i \in 1..11 : x = Precedence[i]
  BY DEF Before
<1>2. t \in Before(5) \cup Before(6) \cup Before(7) \cup Before(8) \cup Before(9)
           \cup Before(10) \cup Before(11) \cup Before(12) \cup {"DNS_TAMPERING"}
  BY DEF Reported
<1>3. QED
  BY <1>1, <1>2, PrecedenceFacts, PrecedenceValues

\* What the tables of the front ends make of a type that is interference.
LEMMA Tables ==
  ASSUME NEW t \in Types \ {"OK", "INCONCLUSIVE", "LOCAL_ISSUE", "GENUINE_OUTAGE"}
  PROVE  /\ OONIBlocking(t) # NoBlocking <=> t \notin Unlabelled
         /\ BadInPopup(t) <=> t \notin Unlisted
         /\ ReportBlocked(t) /\ ~Accessible(t)
BY DEF Types, BadInPopup, OONIBlocking, NoBlocking, ReportBlocked, Accessible,
       Unlabelled, Unlisted

\* And what of one that is none.
LEMMA TablesElsewhere ==
  ASSUME NEW t \in {"OK", "INCONCLUSIVE", "LOCAL_ISSUE"}
  PROVE  /\ ~BadInPopup(t) /\ OONIBlocking(t) = NoBlocking
         /\ ReportBlocked(t) <=> t = "LOCAL_ISSUE"
         /\ Accessible(t) <=> t = "OK"
BY DEF BadInPopup, OONIBlocking, NoBlocking, ReportBlocked, Accessible

LEMMA FlagsFromFold ==
  ASSUME EngineInv, FoldedIn
  PROVE  FlagsFollowFindings
<1> SUFFICES ASSUME pc = "done"
             PROVE  /\ OONIBlocking(v.type) # NoBlocking
                         <=> v.type \in found \ Unlabelled
                    /\ BadInPopup(v.type) <=> v.type \in found \ Unlisted
                    /\ ReportBlocked(v.type) <=> v.type \in found \/ ~control
                    /\ Accessible(v.type) <=> found = {} /\ control /\ ~silent
  BY DEF FlagsFollowFindings
<1>1. \A t \in found :
        t \in Types \ {"OK", "INCONCLUSIVE", "LOCAL_ISSUE", "GENUINE_OUTAGE"}
  BY ReportedTypes DEF EngineInv
<1>2. CASE ~control
  <2>1. v.type = "LOCAL_ISSUE"
    BY <1>2 DEF FoldedIn
  <2>2. v.type \notin found
    BY <1>1, <2>1
  <2>3. QED
    BY <1>2, <2>1, <2>2, TablesElsewhere
<1>3. CASE control
  <2> DEFINE counted == found \ If(silent, "RST_INJECTION")
  <2>1. IF counted = {} THEN v.type = IF silent THEN "INCONCLUSIVE" ELSE "OK"
        ELSE Prevails(v.type, counted)
    BY <1>3 DEF FoldedIn, Strongest
  <2>2. CASE counted = {}
    <3>1. v.type = "OK" <=> found = {} /\ ~silent
      BY <2>1, <2>2 DEF If
    <3>2. v.type \in {"OK", "INCONCLUSIVE"}
      BY <2>1, <2>2
    <3>3. v.type \notin found
      BY <1>1, <3>2
    <3>4. QED
      BY <1>3, <3>1, <3>2, <3>3, TablesElsewhere
  <2>3. CASE counted # {}
    <3>1. v.type \in found
      BY <2>1, <2>3, PrevailingType
    <3>2. QED
      BY <1>1, <1>3, <3>1, Tables
  <2>4. QED
    BY <2>2, <2>3
<1>4. QED
  BY <1>2, <1>3

\* The HTML report, the OONI record and the popup, each by its own table
\* (report.go:23, ooni.go:58, popup.js:4), flag what was reported, but for the
\* types their tables lack, and no other but a dead local network: for any
\* number of trials and whenever the context ends.
THEOREM FrontEndsAgree == Spec => []FlagsFollowFindings
<1>1. Init => FoldedIn
  BY DEF Init, FoldedIn
<1>2. EngineInv /\ FoldedIn /\ [Next]_vars => FoldedIn'
  <2>1. ASSUME FoldedIn, UNCHANGED vars PROVE FoldedIn'
    BY <2>1 DEF FoldedIn, Strongest, vars
  <2>2. QED
    BY <2>1, FoldedInStep
<1>3. EngineInv /\ FoldedIn => FlagsFollowFindings
  BY FlagsFromFold
<1>4. QED
  BY <1>1, <1>2, <1>3, EngineInvariance, PTL DEF Spec

-----------------------------------------------------------------------------
(* Loops.  The operators that model them are recursive functions over the     *)
(* number of turns; that such a function exists, and what it is, follows from *)
(* the least turn for which it fails.                                         *)

\* A set of natural numbers that is not empty has a least member.
LEMMA LeastNatural ==
  ASSUME NEW T, T \subseteq Nat, T # {}
  PROVE  \E n \in T : \A m \in T : n <= m
<1> DEFINE R == {ss \in Nat \X Nat : ss[1] < ss[2]}
<1>1. IsWellFoundedOn(R, Nat)
  BY NatLessThanWellFounded DEF OpToRel
<1> HIDE DEF R
<1>2. PICK n \in T : \A m \in T : <<m, n>> \notin R
  BY <1>1, WFMin
<1>3. \A m \in T : ~(m < n)
  BY <1>2 DEF R
<1>4. QED
  BY <1>3

\* A set with 0, and with i whenever it has i - 1, has every number up to n.
LEMMA Induction ==
  ASSUME NEW n \in Nat, NEW P, 0 \in P, \A i \in 1..n : i - 1 \in P => i \in P
  PROVE  0..n \subseteq P
<1> SUFFICES ASSUME (0..n) \ P # {} PROVE FALSE
  OBVIOUS
<1> DEFINE T == (0..n) \ P
<1>1. T \subseteq Nat /\ T # {}
  OBVIOUS
<1> HIDE DEF T
<1>2. PICK i \in T : \A j \in T : i <= j
  BY <1>1, LeastNatural
<1> USE DEF T
<1>3. i \in 1..n /\ i - 1 \in 0..n
  OBVIOUS
<1>4. i - 1 \in P
  BY <1>2, <1>3
<1>5. QED
  BY <1>3, <1>4

\* A step from the value before the i-th to the i-th, and the function that
\* unfolds it from b.
IsStep(F, n, S) == F \in [(1..n) \X S -> S]
Unfolds(f, F, n, S, b) ==
  /\ f \in [0..n -> S] /\ f[0] = b
  /\ \A i \in 1..n : f[i] = F[<<i, f[i - 1]>>]

\* A recursive definition along 0..n defines a function.
LEMMA Recursion ==
  ASSUME NEW n \in Nat, NEW S, NEW b \in S, NEW F, IsStep(F, n, S)
  PROVE  \E f : Unfolds(f, F, n, S, b)
<1> USE DEF IsStep
<1> DEFINE Upto(k, f) == f[0] = b /\ \A i \in 1..k : f[i] = F[<<i, f[i - 1]>>]
           P == {k \in 0..n : \E f \in [0..k -> S] : Upto(k, f)}
<1>1. 0 \in P
  <2> DEFINE g == [i \in 0..0 |-> b]
  <2>1. g \in [0..0 -> S] /\ Upto(0, g)
    OBVIOUS
  <2> HIDE DEF g
  <2>2. QED
    BY <2>1
<1>2. ASSUME NEW k \in 1..n, k - 1 \in P PROVE k \in P
  <2>1. PICK f \in [0..(k - 1) -> S] : Upto(k - 1, f)
    BY <1>2
  <2> DEFINE g == [i \in 0..k |-> IF i = k THEN F[<<k, f[k - 1]>>] ELSE f[i]]
  <2>2. f[k - 1] \in S /\ <<k, f[k - 1]>> \in (1..n) \X S
    OBVIOUS
  <2>3. F[<<k, f[k - 1]>>] \in S
    BY <2>2
  <2>4. \A i \in 0..k : i # k => i \in 0..(k - 1) /\ f[i] \in S
    OBVIOUS
  <2>5. g \in [0..k -> S]
    BY <2>3, <2>4
  <2>6. g[0] = b
    BY <2>1
  <2>7. ASSUME NEW i \in 1..k PROVE g[i] = F[<<i, g[i - 1]>>]
    <3>1. g[i - 1] = f[i - 1]
      OBVIOUS
    <3>2. CASE i = k
      <4>1. g[k] = F[<<k, f[k - 1]>>]
        OBVIOUS
      <4> HIDE DEF g
      <4>2. QED
        BY <3>1, <3>2, <4>1
    <3>3. CASE i # k
      <4>1. i \in 1..(k - 1) /\ g[i] = f[i]
        BY <3>3
      <4>2. QED
        BY <2>1, <3>1, <4>1
    <3>4. QED
      BY <3>2, <3>3
  <2> HIDE DEF g
  <2>8. QED
    BY <2>5, <2>6, <2>7
<1>3. n \in P
  <2> HIDE DEF P
  <2>1. 0..n \subseteq P
    BY <1>1, <1>2, Induction
  <2>2. QED
    BY <2>1
<1>4. QED
  BY <1>3 DEF Unfolds

-----------------------------------------------------------------------------
(* The pool of encrypted resolvers. *)

\* The states of the two loops over the pool.
Truth == [union : SUBSET Nat, reachable : SUBSET Nat, left : Int]
Found == [ips : SUBSET Nat, by : Nat, left : Int]

\* What asking a provider takes and gives.
LEMMA ResolveFacts ==
  ASSUME NEW net \in Networks, NEW p \in DOMAIN Pool, NEW left \in Int
  PROVE  LET r == Resolve(net, p, left)
         IN /\ net[p].ips \in SUBSET Nat /\ net[p].kind \in {"answer", "dark", "error"}
            /\ r.ok <=> net[p].kind = "answer" /\ left > 0
            /\ r.ips = net[p].ips /\ r.left \in Int
            /\ net[p].kind # "dark" => r.left = left
            /\ net[p].kind = "dark" /\ Pool[p] = "json" /\ left >= JSONTimeout =>
                 r.left = left - JSONTimeout
<1>1. net[p] \in Responses /\ JSONTimeout \in Nat
  BY DoHAssumption
<1>2. net[p].ips \in SUBSET Nat /\ net[p].kind \in {"answer", "dark", "error"}
  BY <1>1 DEF Responses
<1>3. Resolve(net, p, left).left =
        IF net[p].kind = "dark"
        THEN left - Least(left, IF Pool[p] = "json" THEN JSONTimeout ELSE left) ELSE left
  BY DEF Resolve, Lookup
<1>4. Resolve(net, p, left).left \in Int
  BY <1>1, <1>3 DEF Least
<1>5. net[p].kind = "dark" /\ Pool[p] = "json" /\ left >= JSONTimeout =>
        Resolve(net, p, left).left = left - JSONTimeout
  <2>1. Least(left, JSONTimeout) <= left /\
          (left >= JSONTimeout => Least(left, JSONTimeout) = JSONTimeout)
    BY <1>1 DEF Least
  <2>2. QED
    BY <1>3, <2>1
<1>6. /\ Resolve(net, p, left).ok <=> net[p].kind = "answer" /\ left > 0
      /\ Resolve(net, p, left).ips = net[p].ips
  BY DEF Resolve, Lookup
<1>7. QED
  BY <1>2, <1>3, <1>4, <1>5, <1>6

\* One turn of groundTruthDoH: a provider that answers adds what it says.
LEMMA AskedFacts ==
  ASSUME NEW net \in Networks, NEW p \in DOMAIN Pool, p \in Nat, NEW g \in Truth
  PROVE  /\ Asked(net, g, p) \in Truth
         /\ Asked(net, g, p).left = Resolve(net, p, g.left).left
         /\ Resolve(net, p, g.left).ok =>
              /\ Asked(net, g, p).union = g.union \cup net[p].ips
              /\ Asked(net, g, p).reachable = g.reachable \cup {p}
         /\ ~Resolve(net, p, g.left).ok =>
              Asked(net, g, p).union = g.union /\ Asked(net, g, p).reachable = g.reachable
<1> DEFINE r == Resolve(net, p, g.left)
<1>1. g.left \in Int
  BY DEF Truth
<1>2. r.ips = net[p].ips /\ net[p].ips \in SUBSET Nat /\ r.left \in Int
  BY <1>1, ResolveFacts
<1>3. Asked(net, g, p) =
        IF r.ok THEN [union |-> g.union \cup r.ips, reachable |-> g.reachable \cup {p},
                      left |-> r.left]
        ELSE [g EXCEPT !.left = r.left]
  BY DEF Asked
<1> HIDE DEF r
<1>4. CASE r.ok
  <2>1. Asked(net, g, p) = [union |-> g.union \cup r.ips,
                            reachable |-> g.reachable \cup {p}, left |-> r.left]
    BY <1>3, <1>4
  <2>2. QED
    BY <1>2, <1>4, <2>1 DEF Truth, r
<1>5. CASE ~r.ok
  <2>1. Asked(net, g, p) = [g EXCEPT !.left = r.left]
    BY <1>3, <1>5
  <2>2. QED
    BY <1>2, <1>5, <2>1 DEF Truth, r
<1>6. QED
  BY <1>4, <1>5

\* What groundTruthDoH has after each provider.
LEMMA TruthSteps ==
  ASSUME NEW net \in Networks, NEW left \in Int
  PROVE  LET n == Len(Pool)
         IN \E f \in [0..n -> Truth] :
              /\ f[0] = [union |-> {}, reachable |-> {}, left |-> left]
              /\ \A i \in 1..n : f[i] = Asked(net, f[i - 1], i)
              /\ GroundTruth(net, left) = f[n]
<1> DEFINE n == Len(Pool)
           first == [union |-> {}, reachable |-> {}, left |-> left]
           F == [z \in (1..n) \X Truth |-> Asked(net, z[2], z[1])]
           Fits(g) == g = [i \in 0..n |-> IF i = 0 THEN first ELSE Asked(net, g[i - 1], i)]
           after == CHOOSE g : Fits(g)
<1>1. n \in Nat /\ DOMAIN Pool = 1..n
  BY DoHAssumption
<1>2. GroundTruth(net, left) = after[n]
  BY DEF GroundTruth
<1> HIDE DEF n
<1>3. ASSUME NEW i \in 1..n, NEW b \in Truth PROVE Asked(net, b, i) \in Truth
  <2>1. i \in DOMAIN Pool /\ i \in Nat
    BY <1>1
  <2>2. QED
    BY <2>1, AskedFacts
<1>4. first \in Truth
  BY DEF Truth
<1> HIDE DEF first
<1>5. IsStep(F, n, Truth)
  BY <1>3 DEF IsStep
<1>6. ASSUME NEW i \in 1..n, NEW b \in Truth PROVE F[<<i, b>>] = Asked(net, b, i)
  OBVIOUS
<1> HIDE DEF F
<1>7. PICK f : Unfolds(f, F, n, Truth, first)
  BY <1>1, <1>4, <1>5, Recursion
<1>8. f \in [0..n -> Truth] /\ f[0] = first /\ \A i \in 1..n : f[i] = F[<<i, f[i - 1]>>]
  BY <1>7 DEF Unfolds
<1>9. ASSUME NEW i \in 1..n PROVE f[i] = Asked(net, f[i - 1], i)
  <2>1. f[i - 1] \in Truth
    BY <1>1, <1>8
  <2>2. QED
    BY <1>6, <1>8, <2>1
<1>10. Fits(f)
  BY <1>1, <1>8, <1>9
<1>11. Fits(after)
  BY <1>10
<1> HIDE DEF after
<1>12. after[0] = first
  BY <1>1, <1>11
<1>13. ASSUME NEW i \in 1..n PROVE after[i] = Asked(net, after[i - 1], i)
  <2>1. i \in 0..n /\ i # 0
    BY <1>1
  <2>2. QED
    BY <1>11, <2>1
<1> HIDE DEF Fits
<1>14. after \in [0..n -> Truth]
  <2> DEFINE P == {i \in 0..n : after[i] \in Truth}
  <2>1. 0 \in P
    BY <1>1, <1>4, <1>12
  <2>2. ASSUME NEW i \in 1..n, i - 1 \in P PROVE i \in P
    <3>1. after[i - 1] \in Truth
      BY <2>2
    <3>2. after[i] \in Truth
      BY <1>3, <1>13, <3>1
    <3>3. QED
      BY <1>1, <3>2
  <2> HIDE DEF P
  <2>3. 0..n \subseteq P
    BY <1>1, <2>1, <2>2, Induction
  <2>4. \A i \in 0..n : after[i] \in Truth
    BY <2>3 DEF P
  <2>5. QED
    BY <1>11, <2>4 DEF Fits
<1>15. QED
  BY <1>1, <1>2, <1>12, <1>13, <1>14 DEF n, first

\* What dark providers cost grows by one timeout for each.
LEMMA Product ==
  ASSUME NEW t \in Nat, NEW a \in Nat, NEW b \in Nat, a <= b
  PROVE  t * a <= t * b /\ t * (a + 1) = t * a + t /\ t * a \in Nat
OBVIOUS

\* Counting the members of a set of resolvers up to the i-th.
LEMMA Counted ==
  ASSUME NEW n \in Nat, NEW D \in SUBSET (1..n), NEW i \in 1..n
  PROVE  /\ Cardinality(D) \in Nat /\ Cardinality(D \cap 1..(i - 1)) \in Nat
         /\ Cardinality(D \cap 1..i) <= Cardinality(D)
<1>1. IsFiniteSet(D)
  <2>1. IsFiniteSet(1..n)
    BY FS_Interval
  <2>2. QED
    BY <2>1, FS_Subset
<1>2. D \cap 1..i \subseteq D /\ D \cap 1..(i - 1) \subseteq D
  OBVIOUS
<1>3. IsFiniteSet(D \cap 1..(i - 1)) /\ Cardinality(D \cap 1..i) <= Cardinality(D)
  BY <1>1, <1>2, FS_Subset
<1>4. QED
  BY <1>1, <1>3, FS_CardinalityType

\* One more of the set is one more in the count.
LEMMA CountedOne ==
  ASSUME NEW n \in Nat, NEW D \in SUBSET (1..n), NEW i \in 1..n, i \in D
  PROVE  Cardinality(D \cap 1..i) = Cardinality(D \cap 1..(i - 1)) + 1
<1>1. D \cap 1..i = (D \cap 1..(i - 1)) \cup {i} /\ i \notin D \cap 1..(i - 1)
  OBVIOUS
<1>2. IsFiniteSet(D \cap 1..(i - 1))
  BY FS_Interval, FS_Subset
<1>3. QED
  BY <1>1, <1>2, FS_AddElement

\* After i providers: what is left is the budget less a timeout for each dark one
\* among them, and every one of them that answers has been heard.
LEMMA NotBlind == BlockedNotBlind
<1> SUFFICES ASSUME NEW net \in Networks, NEW left \in Budgets,
                    \A p \in DOMAIN Pool : net[p].kind = "dark" => Pool[p] = "json",
                    JSONTimeout * Cardinality({p \in DOMAIN Pool : net[p].kind = "dark"}) < left
             PROVE  LET D == {p \in DOMAIN Pool : net[p].kind = "dark"}
                        A == {p \in DOMAIN Pool : net[p].kind = "answer"}
                        g == GroundTruth(net, left)
                    IN /\ g.reachable = A /\ g.left = left - JSONTimeout * Cardinality(D)
                       /\ g.union = UNION {net[p].ips : p \in A}
  BY DEF BlockedNotBlind
<1> DEFINE D == {p \in DOMAIN Pool : net[p].kind = "dark"}
           A == {p \in DOMAIN Pool : net[p].kind = "answer"}
           n == Len(Pool)
           heard(i) == UNION {net[p].ips : p \in A \cap 1..i}
           left1(i) == left - JSONTimeout * Cardinality(D \cap 1..i)
<1>1. n \in Nat /\ DOMAIN Pool = 1..n /\ left \in Nat /\ left \in Int /\ JSONTimeout \in Nat
  BY DoHAssumption
<1>2. PICK f \in [0..n -> Truth] :
         /\ f[0] = [union |-> {}, reachable |-> {}, left |-> left]
         /\ \A i \in 1..n : f[i] = Asked(net, f[i - 1], i)
         /\ GroundTruth(net, left) = f[n]
  BY <1>1, TruthSteps
<1> DEFINE P == {i \in 0..n : /\ f[i].left = left1(i) /\ f[i].reachable = A \cap 1..i
                              /\ f[i].union = heard(i)}
<1> HIDE DEF n
<1>3. 0 \in P
  <2>1. D \cap 1..0 = {} /\ A \cap 1..0 = {}
    OBVIOUS
  <2>2. JSONTimeout * Cardinality({}) = 0
    BY <1>1, FS_EmptySet
  <2>3. left1(0) = left /\ heard(0) = {}
    BY <1>1, <2>1, <2>2
  <2> HIDE DEF left1, heard, A, D
  <2>4. QED
    <3>1. 0 \in 0..n
      BY <1>1
    <3>2. f[0].left = left /\ f[0].reachable = {} /\ f[0].union = {}
      BY <1>2
    <3>3. QED
      BY <2>1, <2>3, <3>1, <3>2
<1>4. ASSUME NEW i \in 1..n, i - 1 \in P PROVE i \in P
  <2>1. /\ i \in DOMAIN Pool /\ i \in Nat /\ f[i - 1] \in Truth /\ f[i - 1].left \in Int
        /\ f[i - 1].left = left1(i - 1) /\ f[i - 1].reachable = A \cap 1..(i - 1)
        /\ f[i - 1].union = heard(i - 1)
    BY <1>1, <1>4 DEF Truth
  <2> DEFINE r == Resolve(net, i, f[i - 1].left)
  <2>2. /\ r.ok <=> net[i].kind = "answer" /\ f[i - 1].left > 0
        /\ net[i].kind # "dark" => r.left = f[i - 1].left
        /\ net[i].kind = "dark" /\ Pool[i] = "json" /\ f[i - 1].left >= JSONTimeout =>
             r.left = f[i - 1].left - JSONTimeout
        /\ net[i].kind \in {"answer", "dark", "error"}
    BY <2>1, ResolveFacts
  <2>3. /\ f[i].left = r.left
        /\ r.ok => /\ f[i].union = f[i - 1].union \cup net[i].ips
                   /\ f[i].reachable = f[i - 1].reachable \cup {i}
        /\ ~r.ok => f[i].union = f[i - 1].union /\ f[i].reachable = f[i - 1].reachable
    BY <1>2, <2>1, AskedFacts
  <2> HIDE DEF r
  <2> DEFINE c == Cardinality(D)
             c0 == Cardinality(D \cap 1..(i - 1))
             c1 == Cardinality(D \cap 1..i)
  <2>4. D \subseteq 1..n
    BY <1>1
  <2>5. /\ c \in Nat /\ c0 \in Nat /\ c1 <= c
        /\ i \in D => c1 = c0 + 1
        /\ i \notin D => D \cap 1..i = D \cap 1..(i - 1)
    <3> HIDE DEF D
    <3>1. n \in Nat /\ i \in 1..n /\ D \in SUBSET (1..n)
      BY <1>1, <2>4
    <3>2. i \in D => c1 = c0 + 1
      BY <3>1, CountedOne
    <3>3. i \notin D => D \cap 1..i = D \cap 1..(i - 1)
      BY <3>1
    <3>4. QED
      BY <3>1, <3>2, <3>3, Counted
  <2>6. left1(i) = left - JSONTimeout * c1 /\ left1(i - 1) = left - JSONTimeout * c0
        /\ JSONTimeout * c < left /\ (i \notin D => c1 = c0)
    BY <2>5
  <2>7. i \in D <=> net[i].kind = "dark"
    BY <2>1
  <2>8. i \in D => Pool[i] = "json"
    BY <2>1
  <2>9. i \in A <=> net[i].kind = "answer"
    BY <2>1
  <2>10. /\ A \cap 1..i = IF i \in A THEN (A \cap 1..(i - 1)) \cup {i} ELSE A \cap 1..(i - 1)
         /\ heard(i) = IF i \in A THEN heard(i - 1) \cup net[i].ips ELSE heard(i - 1)
    <3> HIDE DEF A
    <3>1. A \cap 1..i = IF i \in A THEN (A \cap 1..(i - 1)) \cup {i} ELSE A \cap 1..(i - 1)
      OBVIOUS
    <3>2. CASE i \in A
      <4>1. A \cap 1..i = (A \cap 1..(i - 1)) \cup {i}
        BY <3>1, <3>2
      <4>2. QED
        BY <3>1, <3>2, <4>1
    <3>3. CASE i \notin A
      BY <3>1, <3>3
    <3>4. QED
      BY <3>2, <3>3
  <2> HIDE DEF c, c0, c1, D, A, left1, heard
  <2>11. f[i].left = left1(i) /\ (i \in A => f[i - 1].left > 0)
    <3>1. CASE i \in D
      <4>1. JSONTimeout * c1 <= JSONTimeout * c
            /\ JSONTimeout * c1 = JSONTimeout * c0 + JSONTimeout /\ JSONTimeout * c0 \in Nat
        <5>1. c1 = c0 + 1 /\ c0 \in Nat /\ c0 <= c /\ c1 \in Nat /\ c \in Nat /\ c1 <= c
          BY <2>5, <3>1
        <5>2. JSONTimeout * c1 <= JSONTimeout * c
          BY <1>1, <5>1, Product
        <5>3. JSONTimeout * (c0 + 1) = JSONTimeout * c0 + JSONTimeout /\ JSONTimeout * c0 \in Nat
          BY <1>1, <5>1, Product
        <5>4. QED
          BY <5>1, <5>2, <5>3
      <4>2. JSONTimeout * c1 \in Nat /\ JSONTimeout * c \in Nat
        BY <1>1, <2>5, <3>1, <4>1, Product
      <4>3. f[i - 1].left >= JSONTimeout
        BY <1>1, <2>1, <2>6, <4>1, <4>2
      <4>4. f[i].left = f[i - 1].left - JSONTimeout
        BY <2>2, <2>3, <2>7, <2>8, <3>1, <4>3
      <4>5. QED
        BY <1>1, <2>1, <2>2, <2>6, <2>7, <2>9, <3>1, <4>1, <4>2, <4>4
    <3>2. CASE i \notin D
      <4>1. c1 = c0 /\ c0 <= c
        BY <2>5, <2>6, <3>2
      <4>2. JSONTimeout * c0 <= JSONTimeout * c /\ JSONTimeout * c0 \in Nat
             /\ JSONTimeout * c \in Nat
        BY <1>1, <2>5, <4>1, Product
      <4>3. QED
        BY <1>1, <2>1, <2>2, <2>3, <2>6, <2>7, <3>2, <4>1, <4>2
    <3>3. QED
      BY <3>1, <3>2
  <2>12. f[i].reachable = A \cap 1..i /\ f[i].union = heard(i)
    BY <2>1, <2>2, <2>3, <2>9, <2>10, <2>11
  <2>13. i \in 0..n
    BY <1>1
  <2>14. QED
    BY <2>11, <2>12, <2>13
<1> HIDE DEF P
<1>5. n \in P
  <2>1. 0..n \subseteq P
    BY <1>1, <1>3, <1>4, Induction
  <2>2. QED
    BY <1>1, <2>1
<1>6. f[n].left = left1(n) /\ f[n].reachable = A \cap 1..n /\ f[n].union = heard(n)
  BY <1>5 DEF P
<1>7. A \cap 1..n = A /\ D \cap 1..n = D
  BY <1>1
<1>8. heard(n) = UNION {net[p].ips : p \in A} /\ left1(n) = left - JSONTimeout * Cardinality(D)
  BY <1>7
<1>9. QED
  BY <1>2, <1>6, <1>7, <1>8

\* One turn of resolveDoHPool: the first good answer is kept, and until then time
\* passes as in groundTruthDoH.
LEMMA TriedFacts ==
  ASSUME NEW net \in Networks, NEW p \in DOMAIN Pool, p \in Nat, NEW f \in Found
  PROVE  /\ Tried(net, f, p) \in Found
         /\ f.by # 0 => Tried(net, f, p) = f
         /\ f.by = 0 /\ Good(Resolve(net, p, f.left)) =>
              /\ Resolve(net, p, f.left).ok /\ net[p].ips # {}
              /\ Tried(net, f, p).ips = net[p].ips /\ Tried(net, f, p).by = p
         /\ f.by = 0 /\ ~Good(Resolve(net, p, f.left)) =>
              /\ Resolve(net, p, f.left).ok => net[p].ips = {}
              /\ Tried(net, f, p).ips = {} /\ Tried(net, f, p).by = 0
              /\ Tried(net, f, p).left = Resolve(net, p, f.left).left
<1> DEFINE r == Resolve(net, p, f.left)
<1>1. f.left \in Int
  BY DEF Found
<1>2. r.ips = net[p].ips /\ net[p].ips \in SUBSET Nat /\ r.left \in Int
  BY <1>1, ResolveFacts
<1>3. Tried(net, f, p) =
        IF f.by # 0 THEN f
        ELSE [ips |-> IF Good(r) THEN r.ips ELSE {},
              by |-> IF Good(r) THEN p ELSE 0, left |-> r.left]
  BY DEF Tried
<1>4. Good(r) <=> r.ok /\ r.ips # {}
  BY DEF Good
<1> HIDE DEF r
<1>5. CASE f.by # 0
  BY <1>3, <1>5
<1>6. CASE f.by = 0 /\ Good(r)
  <2>1. Tried(net, f, p) = [ips |-> r.ips, by |-> p, left |-> r.left]
    BY <1>3, <1>6
  <2>2. QED
    BY <1>2, <1>4, <1>6, <2>1 DEF Found, r
<1>7. CASE f.by = 0 /\ ~Good(r)
  <2>1. Tried(net, f, p) = [ips |-> {}, by |-> 0, left |-> r.left]
    BY <1>3, <1>7
  <2>2. QED
    BY <1>2, <1>4, <1>7, <2>1 DEF Found, r
<1>8. QED
  BY <1>5, <1>6, <1>7

\* What resolveDoHPool has after each provider.
LEMMA FoundSteps ==
  ASSUME NEW net \in Networks, NEW left \in Int
  PROVE  LET n == Len(Pool)
         IN \E f \in [0..n -> Found] :
              /\ f[0] = [ips |-> {}, by |-> 0, left |-> left]
              /\ \A i \in 1..n : f[i] = Tried(net, f[i - 1], i)
              /\ ResolveDoH(net, left) = f[n]
<1> DEFINE n == Len(Pool)
           first == [ips |-> {}, by |-> 0, left |-> left]
           F == [z \in (1..n) \X Found |-> Tried(net, z[2], z[1])]
           Fits(g) == g = [i \in 0..n |-> IF i = 0 THEN first ELSE Tried(net, g[i - 1], i)]
           after == CHOOSE g : Fits(g)
<1>1. n \in Nat /\ DOMAIN Pool = 1..n
  BY DoHAssumption
<1>2. ResolveDoH(net, left) = after[n]
  BY DEF ResolveDoH
<1> HIDE DEF n
<1>3. ASSUME NEW i \in 1..n, NEW b \in Found PROVE Tried(net, b, i) \in Found
  <2>1. i \in DOMAIN Pool /\ i \in Nat
    BY <1>1
  <2>2. QED
    BY <2>1, TriedFacts
<1>4. first \in Found
  BY DEF Found
<1> HIDE DEF first
<1>5. IsStep(F, n, Found)
  BY <1>3 DEF IsStep
<1>6. ASSUME NEW i \in 1..n, NEW b \in Found PROVE F[<<i, b>>] = Tried(net, b, i)
  OBVIOUS
<1> HIDE DEF F
<1>7. PICK f : Unfolds(f, F, n, Found, first)
  BY <1>1, <1>4, <1>5, Recursion
<1>8. f \in [0..n -> Found] /\ f[0] = first /\ \A i \in 1..n : f[i] = F[<<i, f[i - 1]>>]
  BY <1>7 DEF Unfolds
<1>9. ASSUME NEW i \in 1..n PROVE f[i] = Tried(net, f[i - 1], i)
  <2>1. f[i - 1] \in Found
    BY <1>1, <1>8
  <2>2. QED
    BY <1>6, <1>8, <2>1
<1>10. Fits(f)
  BY <1>1, <1>8, <1>9
<1>11. Fits(after)
  BY <1>10
<1> HIDE DEF after
<1>12. after[0] = first
  BY <1>1, <1>11
<1>13. ASSUME NEW i \in 1..n PROVE after[i] = Tried(net, after[i - 1], i)
  <2>1. i \in 0..n /\ i # 0
    BY <1>1
  <2>2. QED
    BY <1>11, <2>1
<1> HIDE DEF Fits
<1>14. after \in [0..n -> Found]
  <2> DEFINE P == {i \in 0..n : after[i] \in Found}
  <2>1. 0 \in P
    BY <1>1, <1>4, <1>12
  <2>2. ASSUME NEW i \in 1..n, i - 1 \in P PROVE i \in P
    <3>1. after[i - 1] \in Found
      BY <2>2
    <3>2. after[i] \in Found
      BY <1>3, <1>13, <3>1
    <3>3. QED
      BY <1>1, <3>2
  <2> HIDE DEF P
  <2>3. 0..n \subseteq P
    BY <1>1, <2>1, <2>2, Induction
  <2>4. \A i \in 0..n : after[i] \in Found
    BY <2>3 DEF P
  <2>5. QED
    BY <1>11, <2>4 DEF Fits
<1>15. QED
  BY <1>1, <1>2, <1>12, <1>13, <1>14 DEF n, first

\* The two loops side by side: until the pool resolves the name both have the same
\* time left and no address, and from then on its address is one of the truth.
LEMMA TruthOfOverride == OverrideIsTruth
<1> SUFFICES ASSUME NEW net \in Networks, NEW left \in Budgets
             PROVE  LET f == ResolveDoH(net, left)
                        g == GroundTruth(net, left)
                    IN f.ips \subseteq g.union /\ (f.ips = {} <=> g.union = {})
  BY DEF OverrideIsTruth
<1> DEFINE n == Len(Pool)
<1>1. n \in Nat /\ DOMAIN Pool = 1..n /\ left \in Int
  BY DoHAssumption
<1>2. PICK g \in [0..n -> Truth] :
         /\ g[0] = [union |-> {}, reachable |-> {}, left |-> left]
         /\ \A i \in 1..n : g[i] = Asked(net, g[i - 1], i)
         /\ GroundTruth(net, left) = g[n]
  BY <1>1, TruthSteps
<1>3. PICK f \in [0..n -> Found] :
         /\ f[0] = [ips |-> {}, by |-> 0, left |-> left]
         /\ \A i \in 1..n : f[i] = Tried(net, f[i - 1], i)
         /\ ResolveDoH(net, left) = f[n]
  BY <1>1, FoundSteps
<1> DEFINE Searching(i) == f[i].by = 0 /\ f[i].ips = {} /\ g[i].union = {} /\ f[i].left = g[i].left
           Resolved(i) == f[i].by # 0 /\ f[i].ips # {} /\ f[i].ips \subseteq g[i].union
           P == {i \in 0..n : Searching(i) \/ Resolved(i)}
<1> HIDE DEF n
<1>4. 0 \in P
  BY <1>1, <1>2, <1>3
<1>5. ASSUME NEW i \in 1..n, i - 1 \in P PROVE i \in P
  <2>1. /\ i \in DOMAIN Pool /\ i \in Nat /\ i # 0 /\ f[i - 1] \in Found /\ g[i - 1] \in Truth
        /\ f[i] = Tried(net, f[i - 1], i) /\ g[i] = Asked(net, g[i - 1], i)
        /\ Searching(i - 1) \/ Resolved(i - 1)
    BY <1>1, <1>2, <1>3, <1>5
  <2> DEFINE r == Resolve(net, i, g[i - 1].left)
  <2>2. /\ g[i].left = r.left
        /\ r.ok => g[i].union = g[i - 1].union \cup net[i].ips
        /\ ~r.ok => g[i].union = g[i - 1].union
    BY <2>1, AskedFacts
  <2>3. CASE Resolved(i - 1)
    <3>1. f[i] = f[i - 1]
      BY <2>1, <2>3, TriedFacts
    <3>2. g[i - 1].union \subseteq g[i].union
      BY <2>2
    <3>3. Resolved(i)
      BY <2>3, <3>1, <3>2
    <3>4. QED
      BY <1>1, <3>3
  <2>4. CASE Searching(i - 1)
    <3>1. Resolve(net, i, f[i - 1].left) = r /\ f[i - 1].by = 0 /\ g[i - 1].union = {}
      BY <2>4
    <3>2. CASE Good(r)
      <4>1. r.ok /\ net[i].ips # {} /\ f[i].ips = net[i].ips /\ f[i].by = i
        BY <2>1, <3>1, <3>2, TriedFacts
      <4>2. Resolved(i)
        BY <2>1, <2>2, <3>1, <4>1
      <4>3. QED
        BY <1>1, <4>2
    <3>3. CASE ~Good(r)
      <4>1. /\ r.ok => net[i].ips = {}
            /\ f[i].ips = {} /\ f[i].by = 0 /\ f[i].left = r.left
        BY <2>1, <3>1, <3>3, TriedFacts
      <4>2. Searching(i)
        BY <2>2, <3>1, <4>1
      <4>3. QED
        BY <1>1, <4>2
    <3>4. QED
      BY <3>2, <3>3
  <2>5. QED
    BY <2>1, <2>3, <2>4
<1> HIDE DEF P
<1>6. n \in P
  <2>1. 0..n \subseteq P
    BY <1>1, <1>4, <1>5, Induction
  <2>2. QED
    BY <1>1, <2>1
<1>7. Searching(n) \/ Resolved(n)
  BY <1>6 DEF P
<1>8. QED
  BY <1>2, <1>3, <1>7

\* For every pool, every network whose dark members it may have and every budget:
\* no dark resolver that speaks JSON blinds a diagnosis to the others, and the
\* address of an override is part of the ground truth (dns.go:30, doh.go).
THEOREM PoolIsHeard == Spec => []PoolHeard
<1>1. PoolHeard
  BY NotBlind, TruthOfOverride DEF PoolHeard
<1>2. QED
  BY <1>1, PTL

-----------------------------------------------------------------------------
(* The badge of a tab. *)

\* The greatest of finitely many numbers.
LEMMA Greatest ==
  ASSUME NEW n \in Nat, NEW T, T \subseteq 0..n, T # {}
  PROVE  Max(T) \in T /\ \A t \in T : t <= Max(T)
<1> DEFINE U == {n - t : t \in T}
<1>1. PICK least \in T : TRUE
  OBVIOUS
<1>2. \A x \in T : x \in Int /\ n - x \in Nat
  OBVIOUS
<1>3. U \subseteq Nat /\ U # {}
  BY <1>1, <1>2
<1> HIDE DEF U
<1>4. PICK u \in U : \A w \in U : u <= w
  BY <1>3, LeastNatural
<1>5. PICK m \in T : u = n - m
  BY <1>4 DEF U
<1>6. ASSUME NEW t \in T PROVE m >= t
  <2>1. n - t \in U
    BY DEF U
  <2>2. n - m <= n - t
    BY <1>4, <1>5, <2>1
  <2>3. m \in Int /\ t \in Int
    BY <1>2
  <2>4. QED
    BY <2>2, <2>3
<1>7. Max(T) \in T /\ \A t \in T : Max(T) >= t
  BY <1>6 DEF Max
<1>8. QED
  BY <1>7

\* The badges after each event.
LEMMA BadgedSteps ==
  ASSUME NEW events \in Seq(Navigation)
  PROVE  \E f \in [0..Len(events) -> SUBSET Nat] :
            /\ f[0] = {}
            /\ \A i \in 1..Len(events) : f[i] = OnEvent(f[i - 1], events[i])
            /\ Badged(events) = f[Len(events)]
<1> DEFINE n == Len(events)
           S == SUBSET Nat
           first == {}
           Step(b, i) == OnEvent(b, events[i])
           F == [z \in (1..n) \X S |-> Step(z[2], z[1])]
           Fits(g) == g = [i \in 0..n |-> IF i = 0 THEN first ELSE Step(g[i - 1], i)]
           after == CHOOSE g : Fits(g)
<1>1. n \in Nat /\ Badged(events) = after[n]
  BY DEF Badged
<1>2. ASSUME NEW i \in 1..n, NEW b \in S PROVE Step(b, i) \in S
  <2>1. events[i] \in Navigation
    OBVIOUS
  <2>2. QED
    BY <2>1 DEF OnEvent, OnCompleted, OnErrorOccurred, Navigation
<1>3. first \in S
  OBVIOUS
<1> HIDE DEF n, Step, first, S
<1>4. IsStep(F, n, S)
  BY <1>2 DEF IsStep
<1>5. ASSUME NEW i \in 1..n, NEW b \in S PROVE F[<<i, b>>] = Step(b, i)
  OBVIOUS
<1> HIDE DEF F
<1>6. PICK f : Unfolds(f, F, n, S, first)
  BY <1>1, <1>3, <1>4, Recursion
<1>7. f \in [0..n -> S] /\ f[0] = first /\ \A i \in 1..n : f[i] = F[<<i, f[i - 1]>>]
  BY <1>6 DEF Unfolds
<1>8. ASSUME NEW i \in 1..n PROVE f[i] = Step(f[i - 1], i)
  <2>1. f[i - 1] \in S
    BY <1>1, <1>7
  <2>2. QED
    BY <1>5, <1>7, <2>1
<1>9. Fits(f)
  BY <1>1, <1>7, <1>8
<1>10. Fits(after)
  BY <1>9
<1> HIDE DEF after
<1>11. after[0] = first
  BY <1>1, <1>10
<1>12. ASSUME NEW i \in 1..n PROVE after[i] = Step(after[i - 1], i)
  <2>1. i \in 0..n /\ i # 0
    BY <1>1
  <2>2. QED
    BY <1>10, <2>1
<1> HIDE DEF Fits
<1>13. after \in [0..n -> S]
  <2> DEFINE P == {i \in 0..n : after[i] \in S}
  <2>1. 0 \in P
    BY <1>1, <1>3, <1>11
  <2>2. ASSUME NEW i \in 1..n, i - 1 \in P PROVE i \in P
    <3>1. after[i - 1] \in S
      BY <2>2
    <3>2. after[i] \in S
      BY <1>2, <1>12, <3>1
    <3>3. QED
      BY <1>1, <3>2
  <2> HIDE DEF P
  <2>3. 0..n \subseteq P
    BY <1>1, <2>1, <2>2, Induction
  <2>4. \A i \in 0..n : after[i] \in S
    BY <2>3 DEF P
  <2>5. QED
    BY <1>10, <2>4 DEF Fits
<1>14. QED
  BY <1>1, <1>11, <1>12, <1>13 DEF n, Step, first, S

\* What an event does to the badge of one tab.
LEMMA EventOnTab ==
  ASSUME NEW e \in Navigation, NEW b, NEW tab
  PROVE  tab \in OnEvent(b, e) <=>
           IF e.tab = tab /\ e.frame = 0 /\ e.kind # "other"
           THEN e.kind = "interference" ELSE tab \in b
BY DEF OnEvent, OnCompleted, OnErrorOccurred, Navigation

\* After i events the tab has its badge exactly if the last of its own among them
\* was a failure.
LEMMA BadgeRight == BadgeTells
<1> SUFFICES ASSUME NEW events \in Navigations,
                    NEW tab \in {events[i].tab : i \in DOMAIN events}
             PROVE  LET own == {i \in DOMAIN events : /\ events[i].tab = tab
                                                      /\ events[i].frame = 0
                                                      /\ events[i].kind # "other"}
                    IN tab \in Badged(events) <=>
                         own # {} /\ events[Max(own)].kind = "interference"
  BY DEF BadgeTells
<1> DEFINE n == Len(events)
           own == {i \in DOMAIN events : /\ events[i].tab = tab /\ events[i].frame = 0
                                         /\ events[i].kind # "other"}
           Bad(i) == events[i].kind = "interference"
<1>1. events \in Seq(Navigation)
  BY ExtensionAssumption
<1>2. n \in Nat /\ DOMAIN events = 1..n /\ \A i \in 1..n : events[i] \in Navigation
  BY <1>1
<1>3. PICK f \in [0..n -> SUBSET Nat] :
         /\ f[0] = {}
         /\ \A i \in 1..n : f[i] = OnEvent(f[i - 1], events[i])
         /\ Badged(events) = f[n]
  BY <1>1, BadgedSteps
<1>4. own \subseteq 1..n
  BY <1>2
<1>5. ASSUME NEW i \in 1..n
      PROVE  tab \in f[i] <=> IF i \in own THEN Bad(i) ELSE tab \in f[i - 1]
  BY <1>2, <1>3, EventOnTab
<1> HIDE DEF own, n, Bad
<1> DEFINE Failed(i) == \E j \in own : j <= i /\ Bad(j) /\ \A k \in own : k <= i => k <= j
           P == {i \in 0..n : tab \in f[i] <=> Failed(i)}
<1>6. 0 \in P
  <2>1. ~Failed(0)
    BY <1>2, <1>4
  <2>2. QED
    BY <1>2, <1>3, <2>1
<1>7. ASSUME NEW i \in 1..n, i - 1 \in P PROVE i \in P
  <2>1. i \in Nat /\ i - 1 \in Nat /\ i \in 0..n /\ \A k \in own : k \in Nat
    BY <1>2, <1>4
  <2>2. tab \in f[i - 1] <=> Failed(i - 1)
    BY <1>7
  <2>3. CASE i \in own
    <3>1. Failed(i) <=> Bad(i)
      BY <2>1, <2>3
    <3>2. QED
      BY <1>5, <2>1, <2>3, <3>1
  <2>4. CASE i \notin own
    <3>1. \A k \in own : k <= i <=> k <= i - 1
      BY <2>1, <2>4
    <3>2. Failed(i) <=> Failed(i - 1)
      BY <3>1
    <3>3. QED
      BY <1>5, <2>1, <2>2, <2>4, <3>2
  <2>5. QED
    BY <2>3, <2>4
<1>8. tab \in Badged(events) <=> Failed(n)
  <2> HIDE DEF P
  <2>1. 0..n \subseteq P
    BY <1>2, <1>6, <1>7, Induction
  <2>2. n \in P
    BY <1>2, <2>1
  <2>3. QED
    BY <1>3, <2>2 DEF P
<1>9. CASE own = {}
  BY <1>8, <1>9 DEF own
<1>10. CASE own # {}
  <2>1. Max(own) \in own /\ \A t \in own : t <= Max(own)
    <3>1. own \subseteq 0..n
      BY <1>2, <1>4
    <3>2. QED
      BY <1>2, <1>10, <3>1, Greatest
  <2>2. ASSUME NEW k \in own PROVE k \in Nat /\ k <= n
    <3>1. k \in 1..n
      BY <1>4
    <3>2. QED
      BY <1>2, <3>1
  <2>3. Failed(n) <=> Bad(Max(own))
    BY <2>1, <2>2
  <2>4. QED
    BY <1>8, <1>10, <2>3 DEF own, Bad
<1>11. QED
  BY <1>9, <1>10 DEF own

-----------------------------------------------------------------------------
(* The native host. *)

\* Where messages end.
LEMMA EndSteps ==
  ASSUME NEW messages \in Seq(Message)
  PROVE  LET n == Len(messages)
             end == MessageEnds(messages)
         IN /\ end \in [0..n -> Nat] /\ end[0] = 0
            /\ \A i \in 1..n : end[i] = end[i - 1] + Header + messages[i].len
<1> DEFINE n == Len(messages)
           Step(b, i) == b + Header + messages[i].len
           F == [z \in (1..n) \X Nat |-> Step(z[2], z[1])]
           Fits(g) == g = [i \in 0..n |-> IF i = 0 THEN 0 ELSE Step(g[i - 1], i)]
           end == CHOOSE g : Fits(g)
<1>1. n \in Nat /\ MessageEnds(messages) = end
  BY DEF MessageEnds
<1>2. ASSUME NEW i \in 1..n, NEW b \in Nat PROVE Step(b, i) \in Nat
  <2>1. messages[i] \in Message
    OBVIOUS
  <2>2. QED
    BY <2>1 DEF Message, Header
<1> HIDE DEF n, Step
<1>3. IsStep(F, n, Nat)
  BY <1>2 DEF IsStep
<1>4. ASSUME NEW i \in 1..n, NEW b \in Nat PROVE F[<<i, b>>] = Step(b, i)
  OBVIOUS
<1> HIDE DEF F
<1>5. PICK f : Unfolds(f, F, n, Nat, 0)
  BY <1>1, <1>3, Recursion
<1>6. f \in [0..n -> Nat] /\ f[0] = 0 /\ \A i \in 1..n : f[i] = F[<<i, f[i - 1]>>]
  BY <1>5 DEF Unfolds
<1>7. ASSUME NEW i \in 1..n PROVE f[i] = Step(f[i - 1], i)
  <2>1. f[i - 1] \in Nat
    BY <1>1, <1>6
  <2>2. QED
    BY <1>4, <1>6, <2>1
<1>8. Fits(f)
  BY <1>1, <1>6, <1>7
<1>9. Fits(end)
  BY <1>8
<1> HIDE DEF end
<1>10. end[0] = 0
  BY <1>1, <1>9
<1>11. ASSUME NEW i \in 1..n PROVE end[i] = Step(end[i - 1], i)
  <2>1. i \in 0..n /\ i # 0
    BY <1>1
  <2>2. QED
    BY <1>9, <2>1
<1> HIDE DEF Fits
<1>12. end \in [0..n -> Nat]
  <2> DEFINE P == {i \in 0..n : end[i] \in Nat}
  <2>1. 0 \in P
    BY <1>1, <1>10
  <2>2. ASSUME NEW i \in 1..n, i - 1 \in P PROVE i \in P
    <3>1. end[i - 1] \in Nat
      BY <2>2
    <3>2. end[i] \in Nat
      BY <1>2, <1>11, <3>1
    <3>3. QED
      BY <1>1, <3>2
  <2> HIDE DEF P
  <2>3. 0..n \subseteq P
    BY <1>1, <2>1, <2>2, Induction
  <2>4. \A i \in 0..n : end[i] \in Nat
    BY <2>3 DEF P
  <2>5. QED
    BY <1>9, <2>4 DEF Fits
<1>13. QED
  BY <1>1, <1>10, <1>11, <1>12 DEF n, Step

\* A message ends behind those before it.
LEMMA EndsGrow ==
  ASSUME NEW n \in Nat, NEW end \in [0..n -> Nat],
         \A i \in 1..n : end[i - 1] <= end[i]
  PROVE  \A i \in 0..n : \A j \in 0..i : end[j] <= end[i]
<1> DEFINE P == {i \in 0..n : \A j \in 0..i : end[j] <= end[i]}
<1>1. 0 \in P
  OBVIOUS
<1>2. ASSUME NEW i \in 1..n, i - 1 \in P PROVE i \in P
  <2>1. ASSUME NEW j \in 0..i PROVE end[j] <= end[i]
    <3>1. CASE j = i
      BY <3>1
    <3>2. CASE j # i
      <4>1. j \in 0..(i - 1) /\ j \in 0..n /\ i \in 0..n /\ i - 1 \in 0..n
        BY <3>2
      <4>2. end[j] <= end[i - 1] /\ end[i - 1] <= end[i]
        BY <1>2, <4>1
      <4>3. end[j] \in Nat /\ end[i - 1] \in Nat /\ end[i] \in Nat
        BY <4>1
      <4>4. QED
        BY <4>2, <4>3
    <3>3. QED
      BY <3>1, <3>2
  <2>2. QED
    BY <2>1
<1> HIDE DEF P
<1>3. 0..n \subseteq P
  BY <1>1, <1>2, Induction
<1>4. QED
  BY <1>3 DEF P

\* The state of Serve's loop.
Answer  == {Handle(m) : m \in Message}
Serving == [answers : Seq(Answer), left : Int, end : {"serving", "eof", "error"}]
Has(s, a, l, e) == s.answers = a /\ s.left = l /\ s.end = e

\* One turn of the loop, by what is read.
LEMMA ServeOneFacts ==
  ASSUME NEW s \in Serving, NEW m \in Message, NEW r, r = ReadMessage(m, s.left)
  PROVE  /\ ServeOne(s, m) \in Serving
         /\ s.end # "serving" => ServeOne(s, m) = s
         /\ s.end = "serving" /\ r # "request" =>
              Has(ServeOne(s, m), s.answers, s.left, r)
         /\ s.end = "serving" /\ r = "request" =>
              Has(ServeOne(s, m), Append(s.answers, Handle(m)),
                 s.left - Header - m.len, "serving")
<1>1. r \in {"eof", "error", "request"}
  BY DEF ReadMessage
<1>2. Handle(m) \in Answer /\ Header \in Int /\ m.len \in Int
  BY DEF Answer, Header, Message
<1>3. CASE s.end # "serving"
  BY <1>3 DEF ServeOne
<1>4. CASE s.end = "serving" /\ r # "request"
  <2>1. ServeOne(s, m) = [s EXCEPT !.end = r]
    BY <1>4 DEF ServeOne
  <2>2. QED
    BY <1>1, <1>4, <2>1 DEF Serving, Has
<1>5. CASE s.end = "serving" /\ r = "request"
  <2>1. ServeOne(s, m) = [s EXCEPT !.answers = Append(s.answers, Handle(m)),
                                   !.left = s.left - Header - m.len]
    BY <1>5 DEF ServeOne
  <2>2. Append(s.answers, Handle(m)) \in Seq(Answer) /\ s.left - Header - m.len \in Int
    BY <1>2 DEF Serving
  <2>3. QED
    BY <1>5, <2>1, <2>2 DEF Serving, Has
<1>6. QED
  BY <1>3, <1>4, <1>5

\* The states that the loop goes through, and what Serve makes of the last.
LEMMA ServeSteps ==
  ASSUME NEW messages \in Seq(Message), NEW got \in Int
  PROVE  LET n == Len(messages)
         IN \E f \in [0..n -> Serving] :
              /\ f[0] = [answers |-> <<>>, left |-> got, end |-> "serving"]
              /\ \A i \in 1..n : f[i] = ServeOne(f[i - 1], messages[i])
              /\ Serve(messages, got).answers = f[n].answers
              /\ Serve(messages, got).end = IF f[n].end = "serving" THEN "eof"
                                            ELSE f[n].end
<1> DEFINE n == Len(messages)
           first == [answers |-> <<>>, left |-> got, end |-> "serving"]
           Step(b, i) == ServeOne(b, messages[i])
           F == [z \in (1..n) \X Serving |-> Step(z[2], z[1])]
           Fits(g) == g = [i \in 0..n |-> IF i = 0 THEN first ELSE Step(g[i - 1], i)]
           after == CHOOSE g : Fits(g)
           last == after[n]
<1>1. /\ n \in Nat
      /\ Serve(messages, got) = [last EXCEPT !.end = IF last.end = "serving" THEN "eof"
                                                     ELSE last.end]
  BY DEF Serve
<1>2. ASSUME NEW i \in 1..n, NEW b \in Serving PROVE Step(b, i) \in Serving
  <2>1. messages[i] \in Message
    OBVIOUS
  <2>2. QED
    BY <2>1, ServeOneFacts
<1>3. first \in Serving
  BY DEF Serving
<1> HIDE DEF n, Step, first
<1>4. IsStep(F, n, Serving)
  BY <1>2 DEF IsStep
<1>5. ASSUME NEW i \in 1..n, NEW b \in Serving PROVE F[<<i, b>>] = Step(b, i)
  OBVIOUS
<1> HIDE DEF F
<1>6. PICK f : Unfolds(f, F, n, Serving, first)
  BY <1>1, <1>3, <1>4, Recursion
<1>7. f \in [0..n -> Serving] /\ f[0] = first /\ \A i \in 1..n : f[i] = F[<<i, f[i - 1]>>]
  BY <1>6 DEF Unfolds
<1>8. ASSUME NEW i \in 1..n PROVE f[i] = Step(f[i - 1], i)
  <2>1. f[i - 1] \in Serving
    BY <1>1, <1>7
  <2>2. QED
    BY <1>5, <1>7, <2>1
<1>9. Fits(f)
  BY <1>1, <1>7, <1>8
<1>10. Fits(after)
  BY <1>9
<1> HIDE DEF after
<1>11. after[0] = first
  BY <1>1, <1>10
<1>12. ASSUME NEW i \in 1..n PROVE after[i] = Step(after[i - 1], i)
  <2>1. i \in 0..n /\ i # 0
    BY <1>1
  <2>2. QED
    BY <1>10, <2>1
<1> HIDE DEF Fits
<1>13. after \in [0..n -> Serving]
  <2> DEFINE P == {i \in 0..n : after[i] \in Serving}
  <2>1. 0 \in P
    BY <1>1, <1>3, <1>11
  <2>2. ASSUME NEW i \in 1..n, i - 1 \in P PROVE i \in P
    <3>1. after[i - 1] \in Serving
      BY <2>2
    <3>2. after[i] \in Serving
      BY <1>2, <1>12, <3>1
    <3>3. QED
      BY <1>1, <3>2
  <2> HIDE DEF P
  <2>3. 0..n \subseteq P
    BY <1>1, <2>1, <2>2, Induction
  <2>4. \A i \in 0..n : after[i] \in Serving
    BY <2>3 DEF P
  <2>5. QED
    BY <1>10, <2>4 DEF Fits
<1>14. /\ Serve(messages, got).answers = last.answers
       /\ Serve(messages, got).end = IF last.end = "serving" THEN "eof" ELSE last.end
  <2>1. last \in Serving
    BY <1>1, <1>13
  <2>2. QED
    BY <1>1, <2>1 DEF Serving
<1>15. QED
  BY <1>1, <1>11, <1>12, <1>13, <1>14 DEF n, Step, first

\* One more answer.
LEMMA OneMore ==
  ASSUME NEW messages \in Seq(Message), NEW i \in 1..Len(messages)
  PROVE  Append([k \in 1..(i - 1) |-> Handle(messages[k])], Handle(messages[i]))
           = [k \in 1..i |-> Handle(messages[k])]
<1> DEFINE a == [k \in 1..(i - 1) |-> Handle(messages[k])]
           h == Handle(messages[i])
<1>1. i - 1 \in Nat /\ i \in Nat
  OBVIOUS
<1>2. \A k \in 1..(i - 1) : messages[k] \in Message
  OBVIOUS
<1>3. h \in Answer /\ \A k \in 1..(i - 1) : Handle(messages[k]) \in Answer
  BY <1>2 DEF Answer
<1>4. a \in Seq(Answer) /\ Len(a) = i - 1 /\ \A k \in 1..(i - 1) : a[k] = Handle(messages[k])
  BY <1>1, <1>3
<1> HIDE DEF a, h
<1>5. /\ Append(a, h) \in Seq(Answer) /\ Len(Append(a, h)) = i
      /\ Append(a, h)[i] = h /\ \A k \in 1..(i - 1) : Append(a, h)[k] = a[k]
  BY <1>1, <1>3, <1>4
<1>6. Append(a, h) = [k \in 1..i |-> Append(a, h)[k]]
  <2> DEFINE b == Append(a, h)
  <2>1. b \in Seq(Answer) /\ Len(b) = i
    BY <1>5
  <2> HIDE DEF b
  <2>2. b = [k \in 1..i |-> b[k]]
    BY <2>1
  <2>3. QED
    BY <2>2 DEF b
<1>7. ASSUME NEW k \in 1..i PROVE Append(a, h)[k] = Handle(messages[k])
  <2>1. CASE k = i
    BY <1>5, <2>1 DEF h
  <2>2. CASE k # i
    <3>1. k \in 1..(i - 1)
      BY <1>1, <2>2
    <3>2. QED
      BY <1>4, <1>5, <3>1
  <2>3. QED
    BY <2>1, <2>2
<1>8. QED
  BY <1>6, <1>7 DEF a, h

\* What a message is read as, from what is left of the input.
LEMMA ReadMessageFacts ==
  ASSUME NEW m \in Message, NEW left \in Int, NEW r, r = ReadMessage(m, left)
  PROVE  /\ r = "request" <=>
              m.len \in 1..MaxMessage /\ m.valid /\ left >= Header + m.len
         /\ r = "error" =>
              \/ m.len \notin 1..MaxMessage \/ ~m.valid
              \/ left > Header
         /\ r \in {"request", "error", "eof"}
BY ExtensionAssumption DEF ReadMessage, Header, Message

\* What the popup makes of the host's answers.
LEMMA Shown ==
  ASSUME NEW messages \in Seq(Message), NEW w \in 0..Len(messages)
  PROVE  PopupShows(Relayed([k \in 1..w |-> Handle(messages[k])])) = "verdict" <=>
           w > 0 /\ messages[1].target # ""
<1> DEFINE a == [k \in 1..w |-> Handle(messages[k])]
<1>1. w \in Nat
  OBVIOUS
<1>2. CASE w = 0
  <2>1. a = <<>>
    BY <1>2
  <2>2. Relayed(a) = [error |-> "host has exited", coreMissing |-> TRUE]
    BY <2>1 DEF Relayed
  <2>3. DOMAIN Relayed(a) = {"error", "coreMissing"}
    BY <2>2
  <2>4. QED
    BY <1>2, <2>3 DEF PopupShows
<1>3. CASE w > 0
  <2>1. a # <<>> /\ Head(a) = Handle(messages[1])
    BY <1>1, <1>3
  <2>2. Relayed(a) = Handle(messages[1])
    BY <2>1 DEF Relayed
  <2>3. DOMAIN Handle(messages[1]) = IF messages[1].target = "" THEN {"error"}
                                     ELSE {"verdict"}
    BY DEF Handle
  <2>4. QED
    BY <1>3, <2>2, <2>3 DEF PopupShows
<1>4. w = 0 \/ w > 0
  BY <1>1
<1>5. QED
  BY <1>2, <1>3, <1>4

\* After i messages: up to the last that came whole the host is serving and has
\* answered all, and behind it it has stopped with those answers.
LEMMA HostRight == HostAnswers
<1> SUFFICES ASSUME NEW messages \in Inputs,
                    NEW got \in 0..MessageEnds(messages)[Len(messages)]
             PROVE  LET end == MessageEnds(messages)
                        bad == {i \in DOMAIN messages :
                                  \/ messages[i].len \notin 1..MaxMessage
                                  \/ ~messages[i].valid}
                        whole == Max({i \in 0..Len(messages) :
                                        end[i] <= got /\ \A j \in bad : j > i})
                        r     == Serve(messages, got)
                    IN /\ r.answers = [i \in 1..whole |-> Handle(messages[i])]
                       /\ r.end = "error" => whole + 1 \in bad \/ got > end[whole] + Header
                       /\ PopupShows(Relayed(r.answers)) = "verdict" <=>
                            whole > 0 /\ messages[1].target # ""
  BY DEF HostAnswers
<1> DEFINE n == Len(messages)
           end == MessageEnds(messages)
           bad == {i \in DOMAIN messages : \/ messages[i].len \notin 1..MaxMessage
                                           \/ ~messages[i].valid}
           Wholes == {i \in 0..Len(messages) : end[i] <= got /\ \A j \in bad : j > i}
           w == Max(Wholes)
           r == Serve(messages, got)
<1>1. messages \in Seq(Message)
  BY ExtensionAssumption
<1>2. /\ n \in Nat /\ DOMAIN messages = 1..n
      /\ \A i \in 1..n : messages[i] \in Message /\ messages[i].len \in Nat
  <2>1. n \in Nat /\ DOMAIN messages = 1..n /\ \A i \in 1..n : messages[i] \in Message
    BY <1>1
  <2>2. \A m \in Message : m.len \in Nat
    BY DEF Message
  <2>3. QED
    BY <2>1, <2>2
<1>3. /\ end \in [0..n -> Nat] /\ end[0] = 0
      /\ \A i \in 1..n : end[i] = end[i - 1] + Header + messages[i].len
  BY <1>1, EndSteps
<1>4. got \in Nat
  <2>1. end[n] \in Nat
    BY <1>2, <1>3
  <2>2. QED
    BY <2>1
<1>5. PICK f \in [0..n -> Serving] :
         /\ f[0] = [answers |-> <<>>, left |-> got, end |-> "serving"]
         /\ \A i \in 1..n : f[i] = ServeOne(f[i - 1], messages[i])
         /\ r.answers = f[n].answers
         /\ r.end = IF f[n].end = "serving" THEN "eof" ELSE f[n].end
  BY <1>1, <1>4, ServeSteps
<1>6. bad \subseteq 1..n /\ \A i \in 1..n :
          i \in bad <=> ~(messages[i].len \in 1..MaxMessage /\ messages[i].valid)
  BY <1>2
<1> HIDE DEF end, bad, r
<1>7. /\ w \in 0..n /\ end[w] <= got /\ \A j \in bad : j > w
      /\ \A i \in 0..n : end[i] <= got /\ (\A j \in bad : j > i) => i <= w
  <2>1. Wholes \subseteq 0..n
    OBVIOUS
  <2>2. 0 \in Wholes
    <3>1. end[0] <= got /\ 0 \in 0..n
      BY <1>2, <1>3, <1>4
    <3>2. \A j \in bad : j > 0
      BY <1>2, <1>6
    <3>3. QED
      BY <3>1, <3>2
  <2> HIDE DEF Wholes
  <2>3. w \in Wholes /\ \A t \in Wholes : t <= w
    BY <1>2, <2>1, <2>2, Greatest
  <2>4. QED
    BY <2>3 DEF Wholes
<1> HIDE DEF w, n
<1>8. \A i \in 0..n : \A j \in 0..i : end[j] <= end[i]
  <2>1. ASSUME NEW i \in 1..n PROVE end[i - 1] <= end[i]
    <3>1. i - 1 \in 0..n /\ messages[i].len \in Nat
      BY <1>2
    <3>2. end[i - 1] \in Nat
      BY <1>3, <3>1
    <3>3. QED
      BY <1>3, <3>1, <3>2 DEF Header
  <2>2. QED
    BY <1>2, <1>3, <2>1, EndsGrow
<1> DEFINE Serves(i) == Has(f[i], [k \in 1..i |-> Handle(messages[k])], got - end[i], "serving")
           Behind(i) == /\ f[i].answers = [k \in 1..w |-> Handle(messages[k])]
                        /\ f[i].end \in {"eof", "error"}
                        /\ f[i].end = "error" =>
                             w + 1 \in bad \/ got > end[w] + Header
           P == {i \in 0..n : IF i <= w THEN Serves(i) ELSE Behind(i)}
<1>9. 0 \in P
  <2>1. [k \in 1..0 |-> Handle(messages[k])] = <<>>
    OBVIOUS
  <2>2. Serves(0)
    BY <1>3, <1>4, <1>5, <2>1 DEF Has
  <2> HIDE DEF Serves
  <2>3. QED
    BY <1>2, <1>7, <2>2
<1>10. ASSUME NEW i \in 1..n, i - 1 \in P PROVE i \in P
  <2> DEFINE m == messages[i]
             s == f[i - 1]
             o == ReadMessage(m, s.left)
  <2>1. /\ i \in Nat /\ i - 1 \in 0..n /\ i \in 0..n /\ w \in Nat
        /\ m \in Message /\ m.len \in Nat
    BY <1>2, <1>7
  <2>2. s \in Serving /\ f[i] = ServeOne(s, m)
    BY <1>5, <2>1
  <2>3. end[i - 1] \in Nat /\ end[i] \in Nat /\ end[w] \in Nat
        /\ end[i] = end[i - 1] + Header + m.len
    BY <1>3, <1>7, <2>1
  <2>4. s.left \in Int
    BY <2>2 DEF Serving
  <2>5. /\ o = "request" <=>
              m.len \in 1..MaxMessage /\ m.valid /\ s.left >= Header + m.len
        /\ o = "error" => m.len \notin 1..MaxMessage \/ ~m.valid \/ s.left > Header
        /\ o \in {"request", "error", "eof"}
    BY <2>1, <2>4, ReadMessageFacts
  <2>6. /\ s.end # "serving" => f[i] = s
        /\ s.end = "serving" /\ o # "request" => Has(f[i], s.answers, s.left, o)
        /\ s.end = "serving" /\ o = "request" =>
             Has(f[i], Append(s.answers, Handle(m)), s.left - Header - m.len, "serving")
    BY <2>1, <2>2, ServeOneFacts
  <2>7. i \in bad <=> ~(m.len \in 1..MaxMessage /\ m.valid)
    BY <1>6
  <2> HIDE DEF m, s, o
  <2>8. CASE i <= w
    <3>1. Has(s, [k \in 1..(i - 1) |-> Handle(messages[k])], got - end[i - 1], "serving")
      BY <1>10, <2>1, <2>8 DEF s
    <3>2. i \notin bad /\ end[i] <= end[w]
      BY <1>7, <1>8, <2>1, <2>8
    <3>3. o = "request"
      BY <1>4, <1>7, <2>1, <2>3, <2>5, <2>7, <3>1, <3>2 DEF Has, Header
    <3>4. Has(f[i], Append(s.answers, Handle(m)), s.left - Header - m.len, "serving")
      BY <2>6, <3>1, <3>3 DEF Has
    <3>5. Append(s.answers, Handle(m)) = [k \in 1..i |-> Handle(messages[k])]
      BY <1>1, <3>1, OneMore DEF Has, m, n
    <3>6. s.left - Header - m.len = got - end[i]
      BY <1>4, <2>1, <2>3, <3>1 DEF Has, Header
    <3>7. Serves(i)
      BY <3>4, <3>5, <3>6
    <3> HIDE DEF Serves
    <3>8. QED
      BY <2>1, <2>8, <3>7
  <2>9. CASE i = w + 1
    <3>1. Has(s, [k \in 1..(i - 1) |-> Handle(messages[k])], got - end[i - 1], "serving")
      BY <1>10, <2>1, <2>9 DEF s
    <3>2. i - 1 = w
      BY <2>1, <2>9
    <3>3. o # "request"
      <4>1. i \in bad \/ end[i] > got
        <5>1. ~(i <= w)
          BY <2>1, <2>9
        <5>2. ASSUME i \notin bad, NEW j \in bad PROVE j > i
          <6>1. j > w /\ j # i /\ j \in Nat
            BY <1>2, <1>6, <1>7, <5>2
          <6>2. QED
            BY <2>1, <2>9, <6>1
        <5>3. QED
          BY <1>4, <1>7, <2>1, <2>3, <5>1, <5>2
      <4>2. QED
        BY <1>4, <2>1, <2>3, <2>5, <2>7, <3>1, <4>1 DEF Has, Header
    <3>4. Has(f[i], s.answers, s.left, o)
      BY <2>6, <3>1, <3>3 DEF Has
    <3>5. o = "error" => i \in bad \/ got > end[w] + Header
      BY <1>4, <2>3, <2>5, <2>7, <3>1, <3>2 DEF Has, Header
    <3>6. Behind(i)
      BY <2>5, <2>9, <3>1, <3>2, <3>3, <3>4, <3>5 DEF Has
    <3> HIDE DEF Behind
    <3>7. QED
      BY <2>1, <2>9, <3>6
  <2>10. CASE i > w + 1
    <3>1. Behind(i - 1)
      BY <1>10, <2>1, <2>10
    <3>2. f[i] = s
      BY <2>6, <3>1 DEF s
    <3>3. Behind(i)
      BY <3>1, <3>2 DEF s
    <3> HIDE DEF Behind
    <3>4. QED
      BY <2>1, <2>10, <3>3
  <2>11. QED
    BY <2>1, <2>8, <2>9, <2>10
<1>11. n \in P
  <2> HIDE DEF P
  <2>1. 0..n \subseteq P
    BY <1>2, <1>9, <1>10, Induction
  <2>2. QED
    BY <1>2, <2>1
<1>12. /\ r.answers = [k \in 1..w |-> Handle(messages[k])]
       /\ r.end = "error" => w + 1 \in bad \/ got > end[w] + Header
  <2>1. CASE n <= w
    <3>1. n = w /\ Serves(n)
      BY <1>2, <1>7, <1>11, <2>1
    <3>2. QED
      BY <1>5, <3>1 DEF Has
  <2>2. CASE ~(n <= w)
    <3>1. Behind(n)
      BY <1>11, <2>2
    <3>2. QED
      BY <1>5, <3>1
  <2>3. QED
    BY <2>1, <2>2
<1>13. PopupShows(Relayed(r.answers)) = "verdict" <=> w > 0 /\ messages[1].target # ""
  BY <1>1, <1>7, <1>12, Shown DEF n
<1>14. QED
  BY <1>12, <1>13 DEF w, r, bad, end, n

\* For every sequence of events, messages and every end of the pipe: the badge
\* stands for the last navigation of its tab, the host answers the messages that
\* came whole (background.js, nativemsg.go).
THEOREM ExtensionKeepsWord == Spec => []ExtensionTells
<1>1. ExtensionTells
  BY BadgeRight, HostRight DEF ExtensionTells
<1>2. QED
  BY <1>1, PTL

-----------------------------------------------------------------------------
(* Bundles. *)

\* The fields are listed in their order.
LEMMA SchemaFacts ==
  /\ Len(Schema) \in Nat /\ DOMAIN Schema = 1..Len(Schema)
  /\ \A i \in 1..Len(Schema) : Schema[i] \in ToSet(Schema)
  /\ ToSet(Schema) \subseteq STRING
<1>1. Schema \in Seq(STRING)
  BY EvidenceAssumption
<1>2. QED
  BY <1>1 DEF ToSet

\* A member of a JSON text that stands for a field.
Member == [name : STRING, value : Contents \cup {""}]

\* What one field adds to the members of those before it.
LEMMA WithFieldFacts ==
  ASSUME NEW t \in Seq(Member), NEW m \in Measurements, NEW f \in ToSet(Schema)
  PROVE  /\ WithField(t, m, f) \in Seq(Member)
         /\ f \in OmitEmpty /\ m[f] = "" => WithField(t, m, f) = t
         /\ ~(f \in OmitEmpty /\ m[f] = "") =>
              /\ Len(WithField(t, m, f)) = Len(t) + 1
              /\ \A j \in 1..Len(t) : WithField(t, m, f)[j] = t[j]
              /\ WithField(t, m, f)[Len(t) + 1] = [name |-> f, value |-> m[f]]
<1>1. f \in STRING /\ m[f] \in Contents \cup {""}
  BY SchemaFacts DEF Measurements
<1>2. [name |-> f, value |-> m[f]] \in Member
  BY <1>1 DEF Member
<1>3. CASE f \in OmitEmpty /\ m[f] = ""
  BY <1>3 DEF WithField
<1>4. CASE ~(f \in OmitEmpty /\ m[f] = "")
  <2> DEFINE e == [name |-> f, value |-> m[f]]
  <2>1. WithField(t, m, f) = Append(t, e) /\ e \in Member
    BY <1>2, <1>4 DEF WithField
  <2> HIDE DEF e
  <2>2. /\ Append(t, e) \in Seq(Member) /\ Len(Append(t, e)) = Len(t) + 1
        /\ \A j \in 1..Len(t) : Append(t, e)[j] = t[j]
        /\ Append(t, e)[Len(t) + 1] = e
    BY <2>1
  <2>3. QED
    BY <1>4, <2>1, <2>2 DEF e
<1>5. QED
  BY <1>3, <1>4

\* What Marshal has after each field.
LEMMA MarshalSteps ==
  ASSUME NEW m \in Measurements
  PROVE  LET n == Len(Schema)
         IN \E f \in [0..n -> Seq(Member)] :
              /\ f[0] = <<>>
              /\ \A i \in 1..n : f[i] = WithField(f[i - 1], m, Schema[i])
              /\ Marshal(m) = [indented |-> FALSE, members |-> f[n]]
<1> DEFINE n == Len(Schema)
           Lists == Seq(Member)
           first == <<>>
           Step(b, i) == WithField(b, m, Schema[i])
           F == [z \in (1..n) \X Lists |-> Step(z[2], z[1])]
           Fits(g) == g = [i \in 0..n |-> IF i = 0 THEN first ELSE Step(g[i - 1], i)]
           after == CHOOSE g : Fits(g)
<1>1. n \in Nat /\ DOMAIN Schema = 1..n /\ \A i \in 1..n : Schema[i] \in ToSet(Schema)
  BY SchemaFacts
<1>2. Marshal(m) = [indented |-> FALSE, members |-> after[n]]
  BY DEF Marshal
<1>3. ASSUME NEW i \in 1..n, NEW b \in Lists PROVE Step(b, i) \in Lists
  <2>1. Schema[i] \in ToSet(Schema)
    BY <1>1
  <2>2. QED
    BY <2>1, WithFieldFacts
<1>4. first \in Lists
  OBVIOUS
<1> HIDE DEF n, Lists, first, Step
<1>5. IsStep(F, n, Lists)
  BY <1>3 DEF IsStep
<1>6. ASSUME NEW i \in 1..n, NEW b \in Lists PROVE F[<<i, b>>] = Step(b, i)
  OBVIOUS
<1> HIDE DEF F
<1>7. PICK f : Unfolds(f, F, n, Lists, first)
  BY <1>1, <1>4, <1>5, Recursion
<1>8. f \in [0..n -> Lists] /\ f[0] = first /\ \A i \in 1..n : f[i] = F[<<i, f[i - 1]>>]
  BY <1>7 DEF Unfolds
<1>9. ASSUME NEW i \in 1..n PROVE f[i] = Step(f[i - 1], i)
  <2>1. f[i - 1] \in Lists
    BY <1>1, <1>8
  <2>2. QED
    BY <1>6, <1>8, <2>1
<1>10. Fits(f)
  BY <1>1, <1>8, <1>9
<1>11. Fits(after)
  BY <1>10
<1> HIDE DEF after
<1>12. after[0] = first
  BY <1>1, <1>11
<1>13. ASSUME NEW i \in 1..n PROVE after[i] = Step(after[i - 1], i)
  <2>1. i \in 0..n /\ i # 0
    BY <1>1
  <2>2. QED
    BY <1>11, <2>1
<1> HIDE DEF Fits
<1>14. after \in [0..n -> Lists]
  <2> DEFINE P == {i \in 0..n : after[i] \in Lists}
  <2>1. 0 \in P
    BY <1>1, <1>4, <1>12
  <2>2. ASSUME NEW i \in 1..n, i - 1 \in P PROVE i \in P
    <3>1. after[i - 1] \in Lists
      BY <2>2
    <3>2. after[i] \in Lists
      BY <1>3, <1>13, <3>1
    <3>3. QED
      BY <1>1, <3>2
  <2> HIDE DEF P
  <2>3. 0..n \subseteq P
    BY <1>1, <2>1, <2>2, Induction
  <2>4. \A i \in 0..n : after[i] \in Lists
    BY <2>3 DEF P
  <2>5. QED
    BY <1>11, <2>4 DEF Fits
<1>15. QED
  BY <1>1, <1>2, <1>12, <1>13, <1>14 DEF n, Lists, first, Step

\* The members t are those of m: each is of a field and says what it holds, and
\* every field that is not empty has one.
Tells(m, t)    == \A j \in 1..Len(t) :
                    t[j].value = m[t[j].name] /\ t[j].name \in ToSet(Schema)
Holds(t, f)    == \E j \in 1..Len(t) : t[j].name = f
MembersOf(m, t) ==
  /\ t \in Seq(Member) /\ Tells(m, t)
  /\ \A f \in ToSet(Schema) : m[f] # "" => Holds(t, f)

\* After i fields the members tell, and hold every one of those so far that is
\* not empty.
LEMMA MembersOfFields ==
  ASSUME NEW m \in Measurements
  PROVE  MembersOf(m, Marshal(m).members)
<1> DEFINE n == Len(Schema)
<1>1. n \in Nat /\ DOMAIN Schema = 1..n /\ \A i \in 1..n : Schema[i] \in ToSet(Schema)
  BY SchemaFacts
<1>2. PICK u \in [0..n -> Seq(Member)] :
         /\ u[0] = <<>>
         /\ \A i \in 1..n : u[i] = WithField(u[i - 1], m, Schema[i])
         /\ Marshal(m) = [indented |-> FALSE, members |-> u[n]]
  BY MarshalSteps
<1> HIDE DEF n
<1> DEFINE P == {i \in 0..n : /\ Tells(m, u[i])
                              /\ \A p \in 1..i : m[Schema[p]] # "" => Holds(u[i], Schema[p])}
<1>3. 0 \in P
  <2>1. Tells(m, u[0])
    BY <1>2 DEF Tells
  <2>2. 0 \in 0..n /\ 1..0 = {}
    BY <1>1
  <2>3. QED
    BY <2>1, <2>2
<1>4. ASSUME NEW i \in 1..n, i - 1 \in P PROVE i \in P
  <2> DEFINE s == u[i - 1]
             w == u[i]
             g == Schema[i]
  <2>1. i \in 0..n /\ i - 1 \in 0..n /\ s \in Seq(Member) /\ g \in ToSet(Schema)
        /\ w = WithField(s, m, g) /\ w \in Seq(Member)
    BY <1>1, <1>2
  <2>2. Tells(m, s) /\ \A p \in 1..(i - 1) : m[Schema[p]] # "" => Holds(s, Schema[p])
    BY <1>4
  <2>3. Len(s) \in Nat
    BY <2>1
  <2>4. \A p \in 1..i : p = i \/ p \in 1..(i - 1)
    BY <1>1
  <2> HIDE DEF s, w
  <2>5. CASE g \in OmitEmpty /\ m[g] = ""
    <3>1. w = s
      BY <2>1, <2>5, WithFieldFacts
    <3>2. \A p \in 1..i : m[Schema[p]] # "" => Holds(w, Schema[p])
      BY <2>2, <2>4, <2>5, <3>1
    <3>3. QED
      BY <2>1, <2>2, <3>1, <3>2 DEF w
  <2>6. CASE ~(g \in OmitEmpty /\ m[g] = "")
    <3> HIDE DEF g
    <3>1. Len(w) = Len(s) + 1 /\ w[Len(s) + 1] = [name |-> g, value |-> m[g]]
      BY <2>1, <2>6, WithFieldFacts
    <3>2. \A j \in 1..Len(s) : w[j] = s[j]
      BY <2>1, <2>6, WithFieldFacts
    <3>3. Tells(m, w)
      <4>1. ASSUME NEW j \in 1..Len(w)
            PROVE  w[j].value = m[w[j].name] /\ w[j].name \in ToSet(Schema)
        <5>1. CASE j = Len(s) + 1
          BY <2>1, <3>1, <5>1
        <5>2. CASE j # Len(s) + 1
          <6>1. j \in 1..Len(s)
            BY <2>3, <3>1, <5>2
          <6>2. QED
            BY <2>2, <3>2, <6>1 DEF Tells
        <5>3. QED
          BY <5>1, <5>2
      <4>2. QED
        BY <4>1 DEF Tells
    <3>4. Holds(w, g)
      BY <2>3, <3>1 DEF Holds
    <3>5. ASSUME NEW f, Holds(s, f) PROVE Holds(w, f)
      BY <2>3, <3>1, <3>2, <3>5 DEF Holds
    <3>6. \A p \in 1..i : m[Schema[p]] # "" => Holds(w, Schema[p])
      BY <2>2, <2>4, <3>4, <3>5 DEF g
    <3>7. QED
      BY <2>1, <3>3, <3>6 DEF w
  <2>7. QED
    BY <2>5, <2>6
<1> HIDE DEF P
<1>5. n \in P
  <2>1. 0..n \subseteq P
    BY <1>1, <1>3, <1>4, Induction
  <2>2. QED
    BY <1>1, <2>1
<1>6. Tells(m, u[n]) /\ \A p \in 1..n : m[Schema[p]] # "" => Holds(u[n], Schema[p])
  BY <1>5 DEF P
<1>7. Marshal(m).members = u[n] /\ u[n] \in Seq(Member)
  BY <1>1, <1>2
<1>8. ASSUME NEW f \in ToSet(Schema), m[f] # "" PROVE Holds(u[n], f)
  <2>1. PICK p \in 1..n : f = Schema[p]
    BY <1>1 DEF ToSet
  <2>2. QED
    BY <1>6, <1>8, <2>1
<1>9. QED
  BY <1>6, <1>7, <1>8 DEF MembersOf

\* "the struct round-trips deterministically" (evidence.go:123), in whatever format.
LEMMA RoundTrip ==
  ASSUME NEW m \in Measurements, NEW text, text.members = Marshal(m).members
  PROVE  ParseMeasurement(text) = m /\ Parses(text)
<1> DEFINE t == text.members
           n == Len(t)
<1>1. MembersOf(m, t)
  BY MembersOfFields
<1>2. /\ n \in Nat /\ DOMAIN t = 1..n
      /\ \A j \in 1..n : t[j].value = m[t[j].name] /\ t[j].name \in ToSet(Schema)
      /\ \A f \in ToSet(Schema) : m[f] # "" => \E j \in 1..n : t[j].name = f
  <2> HIDE DEF t
  <2>1. t \in Seq(Member)
    BY <1>1 DEF MembersOf
  <2>2. n \in Nat /\ DOMAIN t = 1..n
    BY <2>1
  <2>3. \A j \in 1..n : t[j].value = m[t[j].name] /\ t[j].name \in ToSet(Schema)
    BY <1>1 DEF MembersOf, Tells
  <2>4. \A f \in ToSet(Schema) : m[f] # "" => \E j \in 1..n : t[j].name = f
    BY <1>1 DEF MembersOf, Holds
  <2>5. QED
    BY <2>2, <2>3, <2>4
<1>3. \A f \in ToSet(Schema) : m[f] \in Contents \cup {""}
  BY DEF Measurements
<1>4. Parses(text)
  <2>1. ASSUME NEW j \in DOMAIN t PROVE t[j].value # "mistyped"
    <3>1. t[j].value \in Contents \cup {""}
      BY <1>2, <1>3
    <3>2. QED
      BY <3>1, EvidenceAssumption
  <2>2. QED
    BY <2>1 DEF Parses
<1>5. ASSUME NEW f \in ToSet(Schema) PROVE Lift(text, f) = m[f]
  <2> DEFINE at == {i \in DOMAIN t : t[i].name = f}
  <2>0. /\ \A j \in DOMAIN t : t[j].value # "null"
        /\ Saying(text, f) = at
    <3>1. ASSUME NEW j \in DOMAIN t
          PROVE  t[j].value # "null" /\ FieldOf(t[j]) = t[j].name
      <4>1. t[j].value \in Contents \cup {""}
        BY <1>2, <1>3
      <4>2. t[j].name \notin DOMAIN OtherCase
        BY <1>2, EvidenceAssumption
      <4>3. QED
        BY <4>1, <4>2, EvidenceAssumption DEF FieldOf
    <3>2. QED
      BY <3>1 DEF Saying
  <2>1. Lift(text, f) = IF at = {} \/ t[Max(at)].value = "null" THEN ""
                        ELSE t[Max(at)].value
    BY <2>0 DEF Lift
  <2>2. CASE at = {}
    <3>1. m[f] = ""
      BY <1>2, <2>2
    <3>2. QED
      BY <2>1, <2>2, <3>1
  <2>3. CASE at # {}
    <3> HIDE DEF t, n
    <3>1. at \subseteq 0..n
      <4>1. n \in Nat
        BY <1>2
      <4>2. 1..n \subseteq 0..n
        BY <4>1
      <4>3. QED
        BY <1>2, <4>2
    <3> HIDE DEF at
    <3>2. Max(at) \in at
      BY <1>2, <2>3, <3>1, Greatest
    <3>3. t[Max(at)].name = f /\ Max(at) \in 1..n
      BY <1>2, <3>2 DEF at
    <3>4. t[Max(at)].value # "null"
      BY <1>2, <2>0, <3>3
    <3>5. QED
      BY <1>2, <2>1, <2>3, <3>3, <3>4
  <2>4. QED
    BY <2>2, <2>3
<1>6. ParseMeasurement(text) = [f \in ToSet(Schema) |-> m[f]]
  BY <1>5 DEF ParseMeasurement
<1>7. m = [f \in ToSet(Schema) |-> m[f]]
  BY DEF Measurements
<1>8. QED
  BY <1>4, <1>6, <1>7

\* What was signed verifies after it was written to a file.
LEMMA SignedVerifies ==
  ASSUME NEW m \in Measurements, NEW k \in Holders
  PROVE  Verify(Encode(SignedBy(m, k)))
<1> DEFINE text == [Marshal(m) EXCEPT !.indented = TRUE]
           b == Encode(SignedBy(m, k))
<1>1. /\ b.measurement = text /\ b.digest = Marshal(m) /\ b.alg = "ed25519"
      /\ b.publicKey = k /\ b.keyId = k /\ b.value = [by |-> k, of |-> Marshal(m)]
  BY DEF Encode, SignedBy
<1>2. text.members = Marshal(m).members
  BY DEF Marshal
<1> HIDE DEF text, b
<1>3. ParseMeasurement(text) = m /\ Parses(text)
  BY <1>2, RoundTrip
<1>4. k # Nobody
  BY EvidenceAssumption
<1>5. QED
  BY <1>1, <1>3, <1>4 DEF Verify, Decodable, CanonicalMeasurement, b

\* A bundle verifies exactly if it is what someone signed, but for its format.
LEMMA OnlyGenuine ==
  ASSUME NEW b \in Bundles
  PROVE  Verify(b) <=> Genuine(b)
<1> DEFINE m == ParseMeasurement(b.measurement)
           canonical == Marshal(m)
           c == [b EXCEPT !.measurement = canonical]
<1>1. CanonicalMeasurement(b.measurement) = canonical
  BY DEF CanonicalMeasurement
<1>2. /\ c = [measurement |-> canonical, digest |-> b.digest, alg |-> b.alg,
              publicKey |-> b.publicKey, keyId |-> b.keyId, value |-> b.value]
      /\ b.publicKey \in Holders \cup {Nobody}
  BY DEF Bundles
<1>3. \A k : SignedBy(m, k) = [measurement |-> canonical, digest |-> canonical,
                              alg |-> "ed25519", publicKey |-> k, keyId |-> k,
                              value |-> [by |-> k, of |-> canonical]]
  BY DEF SignedBy
<1>4. Genuine(b) <=> Parses(b.measurement) /\ \E k \in Holders : c = SignedBy(m, k)
  BY DEF Genuine
<1>5. Nobody \notin Holders
  BY EvidenceAssumption
<1> HIDE DEF m, canonical, c
<1>6. ASSUME Verify(b) PROVE Genuine(b)
  <2>1. /\ Parses(b.measurement) /\ b.publicKey \in Holders /\ b.alg = "ed25519"
        /\ b.digest = canonical /\ b.keyId = b.publicKey
        /\ b.value = [by |-> b.publicKey, of |-> canonical]
    BY <1>1, <1>2, <1>6 DEF Verify, Decodable
  <2>2. c = SignedBy(m, b.publicKey)
    BY <1>2, <1>3, <2>1
  <2>3. QED
    BY <1>4, <2>1, <2>2
<1>7. ASSUME Genuine(b) PROVE Verify(b)
  <2>1. PICK k \in Holders : c = SignedBy(m, k)
    BY <1>4, <1>7
  <2>2. /\ b.digest = canonical /\ b.alg = "ed25519" /\ b.publicKey = k /\ b.keyId = k
        /\ b.value = [by |-> k, of |-> canonical]
    BY <1>2, <1>3, <2>1
  <2>3. Parses(b.measurement) /\ k # Nobody /\ b.value.by = k
    BY <1>4, <1>5, <1>7, <2>2
  <2>4. QED
    BY <1>1, <2>2, <2>3 DEF Verify, Decodable
<1>8. QED
  BY <1>6, <1>7

\* The worker judges what is pushed to it as lumra judged the bundle.
LEMMA WorkerAgrees ==
  ASSUME NEW b \in Bundles, Parses(b.measurement)
  PROVE  /\ VerifyBundle(Pushed(b)) <=> Verify(b)
         /\ Verify(b) => Pushed(b).measurement = b.value.of
<1> DEFINE canonical == CanonicalMeasurement(b.measurement)
           p == Pushed(b)
<1>1. /\ p.measurement = canonical /\ p.digest = b.digest /\ p.alg = b.alg
      /\ p.publicKey = b.publicKey /\ p.keyId = b.keyId /\ p.value = b.value
  BY DEF Pushed, Bundles
<1> HIDE DEF p, canonical
<1>2. VerifyBundle(p) <=>
        /\ b.alg = "ed25519" /\ b.publicKey # Nobody /\ b.value.by # Nobody
        /\ b.keyId = b.publicKey /\ canonical = b.digest
        /\ b.value = [by |-> b.publicKey, of |-> canonical]
  BY <1>1 DEF VerifyBundle, Decodable
<1>3. Verify(b) <=>
        /\ b.alg = "ed25519" /\ b.publicKey # Nobody /\ b.value.by # Nobody
        /\ b.keyId = b.publicKey /\ canonical = b.digest
        /\ b.value = [by |-> b.publicKey, of |-> canonical]
  BY DEF Verify, Decodable, canonical
<1>4. Verify(b) => p.measurement = b.value.of
  BY <1>1, <1>3
<1>5. QED
  BY <1>2, <1>3, <1>4 DEF p

\* Only the round trip looks into a text; the rest is about what is compared with
\* what.
LEMMA BundlesRight == BundlesHold
<1>1. \A m \in Measurements : \A k \in Holders : Verify(Encode(SignedBy(m, k)))
  BY SignedVerifies
<1>2. ASSUME NEW b \in Bundles
      PROVE  /\ Verify(b) <=> Genuine(b)
             /\ Parses(b.measurement) => (VerifyBundle(Pushed(b)) <=> Verify(b))
             /\ Verify(b) => \A f \in ToSet(Schema) :
                               Lift(Pushed(b).measurement, f) = Lift(b.value.of, f)
  <2>1. Verify(b) => Parses(b.measurement)
    BY DEF Verify
  <2>2. Verify(b) => Pushed(b).measurement = b.value.of
    BY <2>1, WorkerAgrees
  <2>3. QED
    BY <2>1, <2>2, OnlyGenuine, WorkerAgrees
<1>3. QED
  BY <1>1, <1>2 DEF BundlesHold

\* For any fields, contents, holders and texts: what was signed verifies however
\* it was reformatted, nothing else does, and the worker judges alike
\* (evidence.go:123, index.ts:73).
THEOREM BundlesStand == Spec => []BundlesVerify
<1>1. BundlesVerify
  BY BundlesRight DEF BundlesVerify
<1>2. QED
  BY <1>1, PTL

-----------------------------------------------------------------------------
(* Turns of a loop, and the lowest of numbers. *)

\* A function that follows a recursive definition wherever it has a value of the
\* right kind unfolds it.
LEMMA Unfolded ==
  ASSUME NEW n \in Nat, NEW S, NEW F, IsStep(F, n, S),
         NEW f, f = [i \in 0..n |-> f[i]], f[0] \in S,
         \A i \in 1..n : f[i - 1] \in S => f[i] = F[<<i, f[i - 1]>>]
  PROVE  Unfolds(f, F, n, S, f[0])
<1> DEFINE P == {i \in 0..n : f[i] \in S}
<1>1. 0 \in P
  OBVIOUS
<1>2. ASSUME NEW i \in 1..n, i - 1 \in P PROVE i \in P
  <2>1. f[i - 1] \in S /\ i \in 0..n
    BY <1>2
  <2>2. F[<<i, f[i - 1]>>] \in S
    BY <2>1 DEF IsStep
  <2>3. QED
    BY <2>1, <2>2
<1> HIDE DEF P
<1>3. 0..n \subseteq P
  BY <1>1, <1>2, Induction
<1>4. \A i \in 0..n : f[i] \in S
  BY <1>3 DEF P
<1>5. f \in [0..n -> S]
  BY <1>4
<1>6. ASSUME NEW i \in 1..n PROVE f[i] = F[<<i, f[i - 1]>>]
  <2>1. i - 1 \in 0..n
    OBVIOUS
  <2>2. QED
    BY <1>4, <2>1
<1>7. QED
  BY <1>5, <1>6 DEF Unfolds

\* The minimum of numbers is one of them, and none is lower.
LEMMA Lowest ==
  ASSUME NEW T, T \subseteq Nat, T # {}
  PROVE  Min(T) \in T /\ \A x \in T : Min(T) <= x
<1>1. PICK u \in T : \A y \in T : u <= y
  BY LeastNatural
<1>2. QED
  BY <1>1 DEF Min

-----------------------------------------------------------------------------
(* Sorting.  The place of an address in the sorted answer is the number of    *)
(* those that come before it; two sorted answers with the same addresses,     *)
(* each as often, are the same, for they cannot differ first anywhere.        *)

InOrder(s) == \A j \in 1..Len(s) : \A i \in 1..j : s[i] <= s[j]
SameTimes(s, t) == \A a \in Nat : Times(s, a) = Times(t, a)

\* The positions of an address are finitely many.
LEMMA TimesFacts ==
  ASSUME NEW s \in Seq(Nat), NEW a \in Nat
  PROVE  LET T == {k \in 1..Len(s) : s[k] = a}
         IN IsFiniteSet(T) /\ Times(s, a) = Cardinality(T) /\ Times(s, a) \in Nat
            /\ (Times(s, a) = 0 <=> T = {})
<1> DEFINE T == {k \in 1..Len(s) : s[k] = a}
<1>1. Len(s) \in Nat
  OBVIOUS
<1>2. IsFiniteSet(1..Len(s))
  BY <1>1, FS_Interval
<1>3. T \subseteq 1..Len(s)
  OBVIOUS
<1>4. Times(s, a) = Cardinality(T)
  BY DEF Times
<1> HIDE DEF T
<1>5. IsFiniteSet(T)
  BY <1>2, <1>3, FS_Subset
<1>6. Cardinality(T) \in Nat /\ (Cardinality(T) = 0 <=> T = {})
  BY <1>5, FS_CardinalityType, FS_EmptySet
<1>7. QED
  BY <1>4, <1>5, <1>6 DEF T

\* Of two sets of positions, one in the other and one position short, one is the
\* smaller.
LEMMA Smaller ==
  ASSUME NEW S, IsFiniteSet(S), NEW T, T \subseteq S, NEW x \in S, x \notin T
  PROVE  /\ Cardinality(T) \in Nat /\ Cardinality(S) \in Nat
         /\ Cardinality(T) < Cardinality(S)
<1>1. IsFiniteSet(T) /\ Cardinality(T) <= Cardinality(S)
      /\ (Cardinality(T) = Cardinality(S) => T = S)
  BY FS_Subset
<1>2. Cardinality(T) \in Nat /\ Cardinality(S) \in Nat
  BY <1>1, FS_CardinalityType
<1>3. QED
  BY <1>1, <1>2

\* An answer can be sorted.
LEMMA Sorts ==
  ASSUME NEW ips \in Seq(Nat)
  PROVE  LET n == Len(ips)
             there == {ips[k] : k \in 1..n}
         IN \E s \in [1..n -> there] :
              /\ \A j \in 1..n : \A i \in 1..j : s[i] <= s[j]
              /\ \A a \in there : Times(s, a) = Times(ips, a)
<1> DEFINE n == Len(ips)
           there == {ips[k] : k \in 1..n}
           Earlier(j, i) == ips[j] < ips[i] \/ (ips[j] = ips[i] /\ j <= i)
           NotLater(i) == {j \in 1..n : Earlier(j, i)}
           rank == [i \in 1..n |-> Cardinality(NotLater(i))]
           q == [k \in 1..n |-> CHOOSE i \in 1..n : rank[i] = k]
           s == [k \in 1..n |-> ips[q[k]]]
<1>1. n \in Nat /\ \A i \in 1..n : ips[i] \in Nat
  BY ElementOfSeq
<1>2. IsFiniteSet(1..n) /\ Cardinality(1..n) = n
  BY <1>1, FS_Interval
<1> HIDE DEF n
<1>3. ASSUME NEW i \in 1..n
      PROVE  IsFiniteSet(NotLater(i)) /\ Cardinality(NotLater(i)) \in 1..n
  <2>1. NotLater(i) \subseteq 1..n /\ i \in NotLater(i)
    BY <1>1
  <2> HIDE DEF NotLater
  <2>2. IsFiniteSet(NotLater(i)) /\ Cardinality(NotLater(i)) <= n
    BY <1>2, <2>1, FS_Subset
  <2>3. Cardinality(NotLater(i)) \in Nat /\ Cardinality(NotLater(i)) # 0
    BY <2>1, <2>2, FS_CardinalityType, FS_EmptySet
  <2>4. QED
    BY <1>1, <2>2, <2>3
<1>4. ASSUME NEW i \in 1..n, NEW j \in 1..n, i # j, Earlier(i, j)
      PROVE  rank[i] < rank[j]
  <2>1. NotLater(i) \subseteq NotLater(j) /\ j \in NotLater(j) /\ j \notin NotLater(i)
    <3>1. \A k \in 1..n : Earlier(k, i) => Earlier(k, j)
      BY <1>1, <1>4
    <3>2. Earlier(j, j) /\ ~Earlier(j, i)
      BY <1>1, <1>4
    <3>3. QED
      BY <3>1, <3>2
  <2>2. rank[i] = Cardinality(NotLater(i)) /\ rank[j] = Cardinality(NotLater(j))
    OBVIOUS
  <2>3. IsFiniteSet(NotLater(j))
    BY <1>3
  <2> HIDE DEF NotLater, rank
  <2>4. QED
    BY <2>1, <2>2, <2>3, Smaller
<1>5. rank \in [1..n -> 1..n]
  BY <1>3
<1> HIDE DEF rank, NotLater
<1>6. \A i, j \in 1..n : i # j => Earlier(i, j) \/ Earlier(j, i)
  BY <1>1
<1>7. \A i \in 1..n : rank[i] \in Nat
  BY <1>1, <1>5
<1>8. ASSUME NEW i \in 1..n, NEW j \in 1..n, rank[i] = rank[j] PROVE i = j
  <2> SUFFICES ASSUME i # j PROVE FALSE
    OBVIOUS
  <2>1. rank[i] < rank[j] \/ rank[j] < rank[i]
    BY <1>4, <1>6
  <2>2. QED
    BY <1>7, <1>8, <2>1
<1>9. rank \in Injection(1..n, 1..n)
  BY <1>5, <1>8 DEF Injection, IsInjective
<1>10. rank \in Surjection(1..n, 1..n)
  BY <1>2, <1>9, FS_Injection
<1>11. \A k \in 1..n : \E i \in 1..n : rank[i] = k
  BY <1>10 DEF Surjection
<1>12. \A k \in 1..n : q[k] \in 1..n /\ rank[q[k]] = k
  BY <1>11
<1>13. \A i \in 1..n : q[rank[i]] = i
  <2> TAKE i \in 1..n
  <2>1. rank[i] \in 1..n
    BY <1>5
  <2>2. q[rank[i]] \in 1..n /\ rank[q[rank[i]]] = rank[i]
    BY <1>12, <2>1
  <2> HIDE DEF q
  <2>3. QED
    BY <1>8, <2>2
<1> HIDE DEF q
<1>14. s \in [1..n -> there] /\ \A k \in 1..n : s[k] = ips[q[k]] /\ s[k] \in Nat
  BY <1>1, <1>12
<1> HIDE DEF s
<1>15. ASSUME NEW j \in 1..n, NEW i \in 1..j PROVE s[i] <= s[j]
  <2>1. i \in 1..n /\ i <= j
    BY <1>1
  <2>2. s[i] \in Nat /\ s[j] \in Nat /\ s[i] = ips[q[i]] /\ s[j] = ips[q[j]]
    BY <1>14, <2>1
  <2>3. CASE s[j] < s[i]
    <3>1. q[i] \in 1..n /\ q[j] \in 1..n /\ rank[q[i]] = i /\ rank[q[j]] = j
      BY <1>12, <2>1
    <3>2. q[j] # q[i] /\ Earlier(q[j], q[i])
      BY <2>2, <2>3
    <3>3. j < i
      BY <1>4, <3>1, <3>2
    <3>4. QED
      BY <1>1, <2>1, <3>3
  <2>4. QED
    BY <2>2, <2>3
<1>16. ASSUME NEW a \in there PROVE Times(s, a) = Times(ips, a)
  <2> DEFINE S == {k \in 1..n : s[k] = a}
             T == {k \in 1..n : ips[k] = a}
             f == [k \in S |-> q[k]]
  <2>1. Len(s) = n
    BY <1>1, <1>14
  <2>2. Times(s, a) = Cardinality(S) /\ Times(ips, a) = Cardinality(T)
    BY <2>1 DEF Times, n
  <2>3. f \in [S -> T]
    BY <1>12, <1>14
  <2>4. f \in Injection(S, T)
    <3>1. \A k, l \in S : f[k] = f[l] => k = l
      BY <1>12
    <3>2. QED
      BY <2>3, <3>1 DEF Injection, IsInjective
  <2>5. f \in Surjection(S, T)
    <3>1. ASSUME NEW i \in T PROVE \E k \in S : f[k] = i
      <4>1. rank[i] \in 1..n /\ q[rank[i]] = i
        BY <1>5, <1>13
      <4>2. s[rank[i]] = a
        BY <1>14, <4>1
      <4>3. QED
        BY <4>1, <4>2
    <3> HIDE DEF f, S, T
    <3>2. QED
      BY <2>3, <3>1 DEF Surjection
  <2>6. IsFiniteSet(S)
    BY <1>2, FS_Subset
  <2> HIDE DEF f, S, T
  <2>7. ExistsBijection(S, T)
    BY <2>4, <2>5 DEF ExistsBijection, Bijection
  <2>8. QED
    BY <2>2, <2>6, <2>7, FS_Bijection
<1>17. QED
  BY <1>14, <1>15, <1>16 DEF n

\* What distinctAnswerSets keeps of an answer.
LEMMA AnswerSetFacts ==
  ASSUME NEW ips \in Seq(Nat)
  PROVE  LET s == AnswerSet(ips)
         IN s \in Seq(Nat) /\ InOrder(s) /\ SameTimes(s, ips)
<1> DEFINE n == Len(ips)
           there == {ips[k] : k \in 1..n}
           s == AnswerSet(ips)
           Right(t) == /\ \A j \in 1..n : \A i \in 1..j : t[i] <= t[j]
                       /\ \A a \in there : Times(t, a) = Times(ips, a)
<1>1. n \in Nat /\ \A i \in 1..n : ips[i] \in Nat
  BY ElementOfSeq
<1>2. s = CHOOSE t \in [1..n -> there] : Right(t)
  BY DEF AnswerSet
<1>3. \E t \in [1..n -> there] : Right(t)
  BY Sorts
<1> HIDE DEF s, Right
<1>4. s \in [1..n -> there] /\ Right(s)
  BY <1>2, <1>3
<1>5. there \subseteq Nat
  BY <1>1
<1> HIDE DEF there
<1>6. s \in [1..n -> Nat]
  BY <1>4, <1>5
<1> HIDE DEF n
<1>7. s \in Seq(Nat) /\ Len(s) = n
  BY <1>1, <1>6
<1>8. InOrder(s)
  BY <1>4, <1>7 DEF InOrder, Right
<1>9. ASSUME NEW a \in Nat PROVE Times(s, a) = Times(ips, a)
  <2>1. CASE a \in there
    BY <1>4, <2>1 DEF Right
  <2>2. CASE a \notin there
    <3>1. {k \in 1..Len(s) : s[k] = a} = {}
      BY <1>4, <1>7, <2>2
    <3>2. {k \in 1..Len(ips) : ips[k] = a} = {}
      BY <2>2 DEF there, n
    <3>3. QED
      BY <3>1, <3>2 DEF Times
  <2>3. QED
    BY <2>1, <2>2
<1>10. QED
  BY <1>7, <1>8, <1>9 DEF SameTimes, s

\* Where one of two sorted answers first has a lesser address, it has it more
\* often.
LEMMA MoreThere ==
  ASSUME NEW s \in Seq(Nat), NEW t \in Seq(Nat), InOrder(t), NEW i \in 1..Len(s),
         \A k \in 1..i - 1 : k \in 1..Len(t) /\ s[k] = t[k],
         i \in 1..Len(t) => s[i] < t[i]
  PROVE  Times(s, s[i]) # Times(t, s[i])
<1> DEFINE a == s[i]
           S == {k \in 1..Len(s) : s[k] = a}
           T == {k \in 1..Len(t) : t[k] = a}
<1>1. a \in Nat /\ Len(s) \in Nat /\ Len(t) \in Nat
  BY ElementOfSeq
<1>2. \A k \in 1..Len(t) : t[k] \in Nat
  BY ElementOfSeq
<1>3. ASSUME NEW k \in T PROVE k \in S /\ k # i
  <2>1. k \in 1..Len(t) /\ t[k] = a
    OBVIOUS
  <2>2. k < i
    <3> SUFFICES ASSUME i <= k PROVE FALSE
      BY <1>1, <2>1
    <3>1. i \in 1..Len(t) /\ i \in 1..k
      BY <1>1, <2>1
    <3>2. t[i] <= t[k] /\ a < t[i]
      BY <2>1, <3>1 DEF InOrder
    <3> HIDE DEF a
    <3>3. t[i] \in Nat
      BY <1>2, <3>1
    <3>4. QED
      BY <1>1, <2>1, <3>2, <3>3
  <2>3. k \in 1..i - 1 /\ k \in 1..Len(s)
    BY <1>1, <2>1, <2>2
  <2>4. s[k] = t[k]
    BY <2>3
  <2>5. QED
    BY <1>1, <2>1, <2>2, <2>3, <2>4
<1>4. i \in S
  OBVIOUS
<1>5. IsFiniteSet(S) /\ Times(s, a) = Cardinality(S) /\ Times(t, a) = Cardinality(T)
  BY <1>1, TimesFacts
<1> HIDE DEF S, T, a
<1>6. T \subseteq S /\ i \notin T
  BY <1>3
<1>7. Cardinality(T) < Cardinality(S) /\ Cardinality(T) \in Nat /\ Cardinality(S) \in Nat
  BY <1>4, <1>5, <1>6, Smaller
<1>8. QED
  BY <1>5, <1>7 DEF a

\* Sorted answers with the same addresses, each as often, are the same.
LEMMA SortedSame ==
  ASSUME NEW s \in Seq(Nat), NEW t \in Seq(Nat), InOrder(s), InOrder(t), SameTimes(s, t)
  PROVE  s = t
<1> SUFFICES ASSUME s # t PROVE FALSE
  OBVIOUS
<1> DEFINE Same(k) == k \in 1..Len(s) /\ k \in 1..Len(t) /\ s[k] = t[k]
           D == {k \in Nat : (k \in 1..Len(s) \/ k \in 1..Len(t)) /\ ~Same(k)}
<1>1. Len(s) \in Nat /\ Len(t) \in Nat
  OBVIOUS
<1>2. D # {}
  <2> SUFFICES ASSUME D = {} PROVE FALSE
    OBVIOUS
  <2>1. \A k \in 1..Len(s) : k \in 1..Len(t) /\ s[k] = t[k]
    <3> TAKE k \in 1..Len(s)
    <3>1. k \in Nat
      BY <1>1
    <3>2. k \in D => FALSE
      <4> HIDE DEF D
      <4>1. QED
        OBVIOUS
    <3>3. QED
      BY <3>1, <3>2
  <2>2. \A k \in 1..Len(t) : k \in 1..Len(s)
    <3> TAKE k \in 1..Len(t)
    <3>1. k \in Nat
      BY <1>1
    <3>2. k \in D => FALSE
      <4> HIDE DEF D
      <4>1. QED
        OBVIOUS
    <3>3. QED
      BY <3>1, <3>2
  <2>3. Len(s) = Len(t)
    <3>1. Len(s) <= Len(t)
      <4>1. CASE Len(s) = 0
        BY <1>1, <4>1
      <4>2. CASE Len(s) # 0
        <5>1. Len(s) \in 1..Len(s)
          BY <1>1, <4>2
        <5>2. Len(s) \in 1..Len(t)
          BY <2>1, <5>1
        <5>3. QED
          BY <1>1, <5>2
      <4>3. QED
        BY <4>1, <4>2
    <3>2. Len(t) <= Len(s)
      <4>1. CASE Len(t) = 0
        BY <1>1, <4>1
      <4>2. CASE Len(t) # 0
        <5>1. Len(t) \in 1..Len(t)
          BY <1>1, <4>2
        <5>2. Len(t) \in 1..Len(s)
          BY <2>2, <5>1
        <5>3. QED
          BY <1>1, <5>2
      <4>3. QED
        BY <4>1, <4>2
    <3>3. QED
      BY <1>1, <3>1, <3>2
  <2>4. QED
    BY <2>1, <2>3, SeqEqual
<1>3. PICK i \in D : \A k \in D : i <= k
  BY <1>2, LeastNatural
<1>4. \A k \in 1..i - 1 : Same(k)
  <2> TAKE k \in 1..i - 1
  <2>1. k \in Nat /\ k < i /\ i \in Nat
    BY <1>3
  <2>2. k \notin D
    BY <1>3, <2>1
  <2>3. k \in 1..Len(s) \/ k \in 1..Len(t)
    BY <1>1, <1>3, <2>1
  <2>4. QED
    BY <2>1, <2>2, <2>3
<1>5. (i \in 1..Len(s) \/ i \in 1..Len(t)) /\ ~Same(i)
  BY <1>3
<1> HIDE DEF D
<1>6. /\ i \in 1..Len(s) => s[i] \in Nat
      /\ i \in 1..Len(t) => t[i] \in Nat
  BY ElementOfSeq
<1>7. CASE i \in 1..Len(s) /\ (i \in 1..Len(t) => s[i] < t[i])
  <2>1. Times(s, s[i]) # Times(t, s[i])
    BY <1>4, <1>7, MoreThere
  <2>2. QED
    BY <1>6, <1>7, <2>1 DEF SameTimes
<1>8. CASE i \in 1..Len(t) /\ (i \in 1..Len(s) => t[i] < s[i])
  <2>0. \A k \in 1..i - 1 : k \in 1..Len(s) /\ t[k] = s[k]
    BY <1>4
  <2>1. Times(t, t[i]) # Times(s, t[i])
    BY <1>8, <2>0, MoreThere
  <2>2. QED
    BY <1>6, <1>8, <2>1 DEF SameTimes
<1>9. QED
  BY <1>5, <1>6, <1>7, <1>8

-----------------------------------------------------------------------------
(* Replies that race each other.  Those read are the ones that arrive within  *)
(* the wait, however the deadline moves: the first one read is the first to   *)
(* arrive, and no later one brings the deadline nearer.                       *)

Listening == [read : Seq(Reply), deadline : Nat]
Members(s) == {s[j] : j \in 1..Len(s)}

\* One more member at the end.
LEMMA OneMoreMember ==
  ASSUME NEW S, NEW s \in Seq(S), NEW x \in S
  PROVE  Append(s, x) \in Seq(S) /\ Members(Append(s, x)) = Members(s) \cup {x}
<1> DEFINE t == Append(s, x)
<1>1. t \in Seq(S) /\ Len(t) = Len(s) + 1 /\ Len(s) \in Nat
  OBVIOUS
<1>2. \A j \in 1..Len(s) : t[j] = s[j]
  OBVIOUS
<1>3. t[Len(s) + 1] = x
  OBVIOUS
<1> HIDE DEF t
<1>4. ASSUME NEW y \in Members(t) PROVE y \in Members(s) \cup {x}
  <2>1. PICK j \in 1..Len(t) : y = t[j]
    BY DEF Members
  <2>2. CASE j = Len(s) + 1
    BY <1>3, <2>1, <2>2
  <2>3. CASE j # Len(s) + 1
    <3>1. j \in 1..Len(s)
      BY <1>1, <2>3
    <3>2. QED
      BY <1>2, <2>1, <3>1 DEF Members
  <2>4. QED
    BY <2>2, <2>3
<1>5. ASSUME NEW y \in Members(s) \cup {x} PROVE y \in Members(t)
  <2>1. CASE y = x
    <3>1. Len(s) + 1 \in 1..Len(t)
      BY <1>1
    <3>2. QED
      BY <1>3, <2>1, <3>1 DEF Members
  <2>2. CASE y \in Members(s)
    <3>1. PICK j \in 1..Len(s) : y = s[j]
      BY <2>2 DEF Members
    <3>2. j \in 1..Len(t) /\ y = t[j]
      BY <1>1, <1>2, <3>1
    <3>3. QED
      BY <3>2 DEF Members
  <2>3. QED
    BY <2>1, <2>2
<1>6. QED
  BY <1>1, <1>4, <1>5 DEF t

\* What a reply is.
LEMMA ReplyFacts ==
  ASSUME NEW replies \in Replies
  PROVE  /\ replies \in Seq(Reply) /\ Len(replies) \in Nat
         /\ \A i \in 1..Len(replies) : replies[i] \in Reply /\ replies[i].at \in Nat
         /\ \A i \in 1..Len(replies) : replies[1].at <= replies[i].at
<1> DEFINE n == Len(replies)
           P == {i \in 0..n : i >= 1 => replies[1].at <= replies[i].at}
<1>1. replies \in Seq(Reply) /\ \A i \in 2..n : replies[i - 1].at <= replies[i].at
  BY ResolverAssumption
<1>2. n \in Nat /\ \A i \in 1..n : replies[i] \in Reply
  BY <1>1, ElementOfSeq
<1>3. \A i \in 1..n : replies[i].at \in Nat
  BY <1>2 DEF Reply
<1> HIDE DEF n
<1>4. 0 \in P
  BY <1>2
<1>5. ASSUME NEW i \in 1..n, i - 1 \in P PROVE i \in P
  <2>1. i \in 0..n /\ i \in Nat /\ 1 \in 1..n
    BY <1>2
  <2>2. CASE i = 1
    BY <1>3, <2>1, <2>2
  <2>3. CASE i # 1
    <3>1. i \in 2..n /\ i - 1 \in 1..n /\ i - 1 >= 1
      BY <1>2, <2>3
    <3>2. replies[1].at <= replies[i - 1].at /\ replies[i - 1].at <= replies[i].at
      BY <1>1, <1>5, <3>1
    <3>3. replies[1].at <= replies[i].at
      BY <1>3, <2>1, <3>1, <3>2
    <3>4. QED
      BY <2>1, <3>3
  <2>4. QED
    BY <2>2, <2>3
<1>6. 0..n \subseteq P
  <2> HIDE DEF P
  <2>1. QED
    BY <1>2, <1>4, <1>5, Induction
<1>7. \A i \in 1..n : replies[1].at <= replies[i].at
  <2> TAKE i \in 1..n
  <2>1. i \in P /\ i >= 1
    BY <1>2, <1>6
  <2>2. QED
    BY <2>1
<1>8. QED
  BY <1>1, <1>2, <1>3, <1>7 DEF n

\* A turn of the loop keeps the state well typed.
LEMMA HearType ==
  ASSUME NEW c \in Listening, NEW r \in Reply
  PROVE  Hear(c, r) \in Listening
<1>1. c.read \in Seq(Reply) /\ c.deadline \in Nat /\ r.at \in Nat /\ Grace \in Nat
  BY ResolverAssumption DEF Listening, Reply
<1>2. Append(c.read, r) \in Seq(Reply) /\ Least(c.deadline, r.at + Grace) \in Nat
  BY <1>1 DEF Least
<1>3. QED
  BY <1>2 DEF Hear, Listening

\* The replies read, by how many have arrived.
HearRun(replies, left, f) ==
  LET n == Len(replies)
  IN /\ f \in [0..n -> Listening]
     /\ f[0] = [read |-> <<>>, deadline |-> Least(Window, left)]
     /\ \A i \in 1..n : f[i] = Hear(f[i - 1], replies[i])
     /\ Collected(replies, left) = f[n].read

\* What the probe has heard after every turn is a state of the loop.
LEMMA HearSteps ==
  ASSUME NEW replies \in Replies, NEW left \in Nat
  PROVE  \E f : HearRun(replies, left, f)
<1> DEFINE n == Len(replies)
           S == Listening
           First == [read |-> <<>>, deadline |-> Least(Window, left)]
           Step(b, i) == Hear(b, replies[i])
           F == [z \in (1..n) \X S |-> Step(z[2], z[1])]
           Fits(g) == g = [i \in 0..n |-> IF i = 0 THEN First ELSE Step(g[i - 1], i)]
           after == CHOOSE g : Fits(g)
<1>1. Collected(replies, left) = after[n].read
  BY DEF Collected
<1>2. n \in Nat /\ \A i \in 1..n : replies[i] \in Reply
  BY ReplyFacts
<1>3. First \in S
  <2>1. Least(Window, left) \in Nat
    BY ResolverAssumption DEF Least
  <2>2. QED
    BY <2>1 DEF Listening
<1>4. ASSUME NEW i \in 1..n, NEW b \in S PROVE Step(b, i) \in S
  BY <1>2, HearType
<1> HIDE DEF n, S, Step, First
<1>5. IsStep(F, n, S)
  BY <1>4 DEF IsStep
<1>6. ASSUME NEW i \in 1..n, NEW b \in S PROVE F[<<i, b>>] = Step(b, i)
  OBVIOUS
<1> HIDE DEF F
<1>7. PICK f : Unfolds(f, F, n, S, First)
  BY <1>2, <1>3, <1>5, Recursion
<1>8. f \in [0..n -> S] /\ f[0] = First /\ \A i \in 1..n : f[i] = F[<<i, f[i - 1]>>]
  BY <1>7 DEF Unfolds
<1>9. ASSUME NEW i \in 1..n PROVE f[i] = Step(f[i - 1], i)
  <2>1. i - 1 \in 0..n
    BY <1>2
  <2>2. f[i - 1] \in S
    BY <1>8, <2>1
  <2>3. f[i] = F[<<i, f[i - 1]>>]
    BY <1>8
  <2>4. F[<<i, f[i - 1]>>] = Step(f[i - 1], i)
    BY <1>6, <2>2
  <2>5. QED
    BY <2>3, <2>4
<1>10. Fits(f)
  BY <1>2, <1>8, <1>9
<1>11. Fits(after)
  BY <1>10
<1> HIDE DEF after
<1>12. after[0] = First /\ after = [i \in 0..n |-> after[i]]
  BY <1>2, <1>11
<1>13. ASSUME NEW i \in 1..n PROVE after[i] = Step(after[i - 1], i)
  <2>1. i \in 0..n /\ i # 0
    BY <1>2
  <2>2. QED
    BY <1>11, <2>1
<1> HIDE DEF Fits
<1>14. Unfolds(after, F, n, S, after[0])
  <2>1. \A i \in 1..n : after[i - 1] \in S => after[i] = F[<<i, after[i - 1]>>]
    BY <1>6, <1>13
  <2>2. QED
    BY <1>2, <1>3, <1>5, <1>12, <2>1, Unfolded
<1>15. after \in [0..n -> S]
  BY <1>14 DEF Unfolds
<1>16. HearRun(replies, left, after)
  BY <1>1, <1>12, <1>13, <1>15 DEF HearRun, n, S, Step, First
<1>17. QED
  BY <1>16

\* Of the first k to arrive, those within the wait.
Timely(replies, left, k) ==
  {i \in 1..k : /\ replies[i].at < Least(Window, left)
                /\ replies[i].at < replies[1].at + Grace \/ i = 1}

\* What has been read of them, and how long the wait is.
Listened(replies, left, k, c) ==
  LET w == Least(Window, left)
  IN /\ Members(c.read) = {replies[i] : i \in Timely(replies, left, k)}
     /\ c.deadline = IF k >= 1 /\ replies[1].at < w
                     THEN Least(w, replies[1].at + Grace) ELSE w

\* A turn reads the next reply exactly if it is timely.
LEMMA HearOne ==
  ASSUME NEW replies \in Replies, NEW left \in Nat, NEW k \in 1..Len(replies),
         NEW c \in Listening, Listened(replies, left, k - 1, c)
  PROVE  Listened(replies, left, k, Hear(c, replies[k]))
<1> DEFINE n == Len(replies)
           w == Least(Window, left)
           r == replies[k]
           x == r.at
           y == replies[1].at
           d == c.deadline
           T(i) == Timely(replies, left, i)
           e == Least(d, x + Grace)
<1>1. n \in Nat /\ k \in Nat /\ 1 \in 1..n /\ k >= 1 /\ k <= n
  BY ReplyFacts
<1>2. x \in Nat /\ y \in Nat /\ y <= x /\ r \in Reply
  BY <1>1, ReplyFacts
<1>3. w \in Nat /\ Grace \in Nat
  BY ResolverAssumption DEF Least
<1>4. d \in Nat /\ c.read \in Seq(Reply)
  BY DEF Listening
<1>5. /\ Members(c.read) = {replies[i] : i \in T(k - 1)}
      /\ d = IF k - 1 >= 1 /\ y < w THEN Least(w, y + Grace) ELSE w
  BY DEF Listened
<1>6. k \in T(k) <=> x < w /\ (x < y + Grace \/ k = 1)
  BY <1>1 DEF Timely
<1>7. T(k) = T(k - 1) \cup (IF k \in T(k) THEN {k} ELSE {})
  <2>1. \A i : i \in 1..k <=> i \in 1..(k - 1) \/ i = k
    BY <1>1
  <2>2. QED
    BY <2>1 DEF Timely
<1>8. /\ x >= d => Hear(c, r) = c
      /\ x < d => Hear(c, r) = [read |-> Append(c.read, r), deadline |-> e]
  BY <1>2, <1>4 DEF Hear
<1>9. k = 1 => x = y
  OBVIOUS
<1> HIDE DEF n, w, x, y, d, T, e
<1>10. k \in T(k) <=> x < d
  BY <1>1, <1>2, <1>3, <1>4, <1>5, <1>6, <1>9 DEF Least
<1>11. (IF k >= 1 /\ y < w THEN Least(w, y + Grace) ELSE w) = IF x < d THEN e ELSE d
  BY <1>1, <1>2, <1>3, <1>4, <1>5, <1>9 DEF Least, e
<1>12. CASE x < d
  <2> DEFINE h == Hear(c, r)
  <2>1. h.read = Append(c.read, r) /\ h.deadline = e
    BY <1>8, <1>12
  <2>2. T(k) = T(k - 1) \cup {k}
    BY <1>7, <1>10, <1>12
  <2>3. Members(h.read) = Members(c.read) \cup {r}
    BY <1>2, <1>4, <2>1, OneMoreMember
  <2> HIDE DEF h
  <2>4. Members(h.read) = {replies[i] : i \in T(k)}
    BY <1>5, <2>2, <2>3
  <2>5. QED
    BY <1>11, <1>12, <2>1, <2>4 DEF Listened, T, w, y, h
<1>13. CASE ~(x < d)
  <2>1. Hear(c, r) = c
    BY <1>2, <1>4, <1>8, <1>13
  <2>2. T(k) = T(k - 1)
    BY <1>7, <1>10, <1>13
  <2>3. Members(c.read) = {replies[i] : i \in T(k)}
    BY <1>5, <2>2
  <2>4. d = IF k >= 1 /\ y < w THEN Least(w, y + Grace) ELSE w
    BY <1>11, <1>13
  <2>5. QED
    BY <2>1, <2>3, <2>4 DEF Listened, T, w, y, d
<1>14. QED
  BY <1>12, <1>13

\* What was read when the loop ended is what came in time.
LEMMA HeardInTime ==
  ASSUME NEW replies \in Replies, NEW left \in Nat
  PROVE  LET read == Collected(replies, left)
         IN /\ read \in Seq(Reply)
            /\ Members(read) = {replies[i] : i \in Timely(replies, left, Len(replies))}
<1> DEFINE n == Len(replies)
<1>1. n \in Nat
  BY ReplyFacts
<1>2. PICK f : HearRun(replies, left, f)
  BY HearSteps
<1>3. /\ f \in [0..n -> Listening]
      /\ f[0] = [read |-> <<>>, deadline |-> Least(Window, left)]
      /\ \A i \in 1..n : f[i] = Hear(f[i - 1], replies[i])
      /\ Collected(replies, left) = f[n].read
  BY <1>2 DEF HearRun
<1> DEFINE P == {k \in 0..n : Listened(replies, left, k, f[k])}
<1>4. 0 \in P
  <2>1. Timely(replies, left, 0) = {}
    BY DEF Timely
  <2>2. Members(f[0].read) = {}
    BY <1>3 DEF Members
  <2>3. f[0].deadline = Least(Window, left)
    BY <1>3
  <2>4. Listened(replies, left, 0, f[0])
    BY <2>1, <2>2, <2>3 DEF Listened
  <2>5. QED
    BY <1>1, <2>4
<1>5. ASSUME NEW i \in 1..n, i - 1 \in P PROVE i \in P
  <2>1. i \in 0..n /\ i - 1 \in 0..n
    BY <1>1
  <2>2. f[i - 1] \in Listening /\ f[i] = Hear(f[i - 1], replies[i])
    BY <1>3, <2>1
  <2>3. Listened(replies, left, i - 1, f[i - 1])
    BY <1>5
  <2>4. Listened(replies, left, i, f[i])
    BY <2>2, <2>3, HearOne
  <2>5. QED
    BY <2>1, <2>4
<1>6. n \in P
  <2> HIDE DEF P
  <2>1. 0..n \subseteq P
    BY <1>1, <1>4, <1>5, Induction
  <2>2. QED
    BY <1>1, <2>1
<1>7. Members(f[n].read) = {replies[i] : i \in Timely(replies, left, n)}
  BY <1>6 DEF Listened
<1>8. f[n] \in Listening
  BY <1>1, <1>3
<1>9. f[n].read \in Seq(Reply)
  BY <1>8 DEF Listening
<1>10. QED
  BY <1>3, <1>7, <1>9

-----------------------------------------------------------------------------
(* Forgeries. *)

\* A finite set has two members or more if two of them differ.
LEMMA TwoOrMore ==
  ASSUME NEW S, IsFiniteSet(S)
  PROVE  Cardinality(S) >= 2 <=> \E x, y \in S : x # y
<1>1. Cardinality(S) \in Nat
  BY FS_CardinalityType
<1>2. ASSUME NEW x \in S, NEW y \in S, x # y PROVE Cardinality(S) >= 2
  <2>1. IsFiniteSet({x}) /\ Cardinality({x}) = 1
    BY FS_Singleton
  <2> DEFINE T == {x}
  <2>2. IsFiniteSet(T) /\ Cardinality(T) = 1 /\ y \notin T /\ T \cup {y} \subseteq S
    BY <1>2, <2>1
  <2> HIDE DEF T
  <2>3. Cardinality(T \cup {y}) = 2
    BY <2>2, FS_AddElement
  <2>4. Cardinality(T \cup {y}) <= Cardinality(S)
    BY <2>2, FS_Subset
  <2>5. QED
    BY <1>1, <2>3, <2>4
<1>3. ASSUME \A x, y \in S : x = y PROVE Cardinality(S) < 2
  <2>1. CASE S = {}
    BY <2>1, FS_EmptySet
  <2>2. CASE S # {}
    <3>0. PICK x \in S : TRUE
      BY <2>2
    <3>1. S = {x}
      BY <1>3, <3>0
    <3>2. Cardinality(S) = 1
      BY <3>1, FS_Singleton
    <3>3. QED
      BY <3>2
  <2>3. QED
    BY <2>1, <2>2
<1>4. QED
  BY <1>1, <1>2, <1>3

\* One answer has an address another has not so often.
Differ(s, t) == \E k \in 1..Len(s) : Times(s, s[k]) # Times(t, s[k])

\* Answers are told apart exactly if they differ in an address.
LEMMA ToldApart ==
  ASSUME NEW s \in Seq(Nat), NEW t \in Seq(Nat)
  PROVE  AnswerSet(s) # AnswerSet(t) <=> Differ(s, t) \/ Differ(t, s)
<1>1. /\ AnswerSet(s) \in Seq(Nat) /\ InOrder(AnswerSet(s)) /\ SameTimes(AnswerSet(s), s)
      /\ AnswerSet(t) \in Seq(Nat) /\ InOrder(AnswerSet(t)) /\ SameTimes(AnswerSet(t), t)
  BY AnswerSetFacts
<1>2. /\ \A k \in 1..Len(s) : s[k] \in Nat
      /\ \A k \in 1..Len(t) : t[k] \in Nat
  BY ElementOfSeq
<1>3. AnswerSet(s) = AnswerSet(t) => \A a \in Nat : Times(s, a) = Times(t, a)
  BY <1>1 DEF SameTimes
<1>4. ASSUME Differ(s, t) \/ Differ(t, s) PROVE AnswerSet(s) # AnswerSet(t)
  BY <1>2, <1>3, <1>4 DEF Differ
<1>5. ASSUME ~Differ(s, t), ~Differ(t, s) PROVE AnswerSet(s) = AnswerSet(t)
  <2>1. ASSUME NEW a \in Nat PROVE Times(s, a) = Times(t, a)
    <3>1. CASE \E k \in 1..Len(s) : s[k] = a
      BY <1>5, <3>1 DEF Differ
    <3>2. CASE \E k \in 1..Len(t) : t[k] = a
      BY <1>5, <3>2 DEF Differ
    <3>3. CASE ~(\E k \in 1..Len(s) : s[k] = a) /\ ~(\E k \in 1..Len(t) : t[k] = a)
      <4>1. {k \in 1..Len(s) : s[k] = a} = {} /\ {k \in 1..Len(t) : t[k] = a} = {}
        BY <3>3
      <4>2. QED
        BY <4>1, TimesFacts
    <3>4. QED
      BY <3>1, <3>2, <3>3
  <2>2. SameTimes(AnswerSet(s), AnswerSet(t))
    BY <1>1, <2>1 DEF SameTimes
  <2>3. QED
    BY <1>1, <2>2, SortedSame
<1>6. QED
  BY <1>4, <1>5

\* A forgery is concluded exactly if two replies in time differ (dns.go:288).
LEMMA ForgeriesToldApart == ForgeryNeedsTwo
<1>1. ASSUME NEW replies \in Replies, NEW left \in Budgets
      PROVE  LET heard == {i \in 1..Len(replies) :
                    /\ replies[i].at < Least(Window, left)
                    /\ replies[i].at < replies[1].at + Grace \/ i = 1
                    /\ Accepted(replies[i])}
             IN Duplicated(replies, left) <=>
                  \E i, j \in heard : Differ(replies[i].ips, replies[j].ips)
  <2> DEFINE n == Len(replies)
             heard == {i \in 1..n :
                    /\ replies[i].at < Least(Window, left)
                    /\ replies[i].at < replies[1].at + Grace \/ i = 1
                    /\ Accepted(replies[i])}
             read == Collected(replies, left)
             A(i) == AnswerSet(replies[i].ips)
             X == {A(i) : i \in heard}
  <2>1. left \in Nat
    BY DoHAssumption
  <2>2. n \in Nat /\ \A i \in 1..n : replies[i] \in Reply
    BY ReplyFacts
  <2>3. \A i \in heard : replies[i].ips \in Seq(Nat)
    BY <2>2 DEF Reply
  <2>4. Members(read) = {replies[i] : i \in Timely(replies, left, n)}
    BY <2>1, HeardInTime
  <2>5. heard = {i \in Timely(replies, left, n) : Accepted(replies[i])}
    BY DEF Timely
  <2>6. {read[i] : i \in {j \in 1..Len(read) : Accepted(read[j])}}
          = {m \in Members(read) : Accepted(m)}
    BY DEF Members
  <2> HIDE DEF read, heard
  <2>7. {m \in Members(read) : Accepted(m)} = {replies[i] : i \in heard}
    BY <2>4, <2>5
  <2>8. DistinctAnswerSets(read) = X
    BY <2>6, <2>7 DEF DistinctAnswerSets
  <2>9. IsFiniteSet(X)
    <3> HIDE DEF A
    <3> DEFINE f == [i \in heard |-> A(i)]
    <3>1. IsFiniteSet(heard)
      <4>1. IsFiniteSet(1..n)
        BY <2>2, FS_Interval
      <4>2. heard \subseteq 1..n
        BY DEF heard
      <4>3. QED
        BY <4>1, <4>2, FS_Subset
    <3>2. f \in [heard -> X] /\ \A x \in X : \E i \in heard : f[i] = x
      OBVIOUS
    <3>3. f \in Surjection(heard, X)
      BY <3>2 DEF Surjection
    <3> HIDE DEF f, X
    <3>4. QED
      BY <3>1, <3>3, FS_Surjection
  <2>10. Duplicated(replies, left) <=> \E x, y \in X : x # y
    <3>1. Duplicated(replies, left) <=> Cardinality(X) >= 2
      BY <2>8 DEF Duplicated, read
    <3> HIDE DEF X
    <3>2. QED
      BY <2>9, <3>1, TwoOrMore
  <2>11. (\E x, y \in X : x # y) <=> \E i, j \in heard : A(i) # A(j)
    <3> HIDE DEF A
    <3>1. QED
      OBVIOUS
  <2>12. \A i, j \in heard :
           A(i) # A(j) <=> \/ Differ(replies[i].ips, replies[j].ips)
                           \/ Differ(replies[j].ips, replies[i].ips)
    BY <2>3, ToldApart
  <2> HIDE DEF A, X
  <2>13. (\E i, j \in heard : A(i) # A(j)) <=>
           \E i, j \in heard : Differ(replies[i].ips, replies[j].ips)
    BY <2>12
  <2>14. QED
    BY <2>10, <2>11, <2>13 DEF heard
<1>2. QED
  BY <1>1 DEF ForgeryNeedsTwo, Differ

-----------------------------------------------------------------------------
(* Records. *)

\* What a record's bytes say of its name and its parameters.
LEMMA RecordFacts ==
  ASSUME NEW r \in Records
  PROVE  LET n == Len(r.labels)
             m == Len(r.params)
         IN /\ n \in Nat /\ n >= 1 /\ m \in Nat
            /\ r.bytes \in Seq(Nat) /\ Len(r.bytes) \in Nat
            /\ \A i \in 1..n : r.labels[i] \in Nat
            /\ r.labels[1] = 2
            /\ \A i \in 1..n - 1 :
                 /\ r.labels[i] + 1 < r.labels[i + 1]
                 /\ r.bytes[r.labels[i] + 1] = r.labels[i + 1] - r.labels[i] - 1
            /\ NameEnd(r) = r.labels[n] + 1 /\ NameEnd(r) \in Nat
            /\ r.bytes[r.labels[n] + 1] = 0
            /\ \A i \in 1..m :
                 /\ r.params[i].at \in Nat /\ r.params[i].len \in Nat
                 /\ r.params[i].key \in Nat /\ ParamEnd(r.params[i]) \in Nat
                 /\ ParamEnd(r.params[i]) = r.params[i].at + 4 + r.params[i].len
                 /\ r.params[i].at = Start(r, i)
                 /\ Start(r, i + 1) = ParamEnd(r.params[i])
                 /\ U16(r.bytes, r.params[i].at + 1) = r.params[i].key
                 /\ U16(r.bytes, r.params[i].at + 3) = r.params[i].len
            /\ Start(r, 1) = NameEnd(r)
            /\ \A i \in 1..m + 1 : Start(r, i) \in Nat
            /\ Len(r.bytes) = Start(r, m + 1)
<1> DEFINE n == Len(r.labels)
           m == Len(r.params)
           Param == [key : Nat, at : Nat, len : Nat]
<1>1. /\ r.bytes \in Seq(Nat) /\ r.labels \in Seq(Nat) /\ r.params \in Seq(Param)
      /\ Laid(r)
  BY ResolverAssumption DEF Record
<1>2. n \in Nat /\ m \in Nat /\ Len(r.bytes) \in Nat
  BY <1>1
<1>3. \A i \in 1..n : r.labels[i] \in Nat
  BY <1>1, ElementOfSeq
<1>4. \A i \in 1..m : r.params[i] \in Param
  BY <1>1, ElementOfSeq
<1>5. \A i \in 1..m : /\ r.params[i].at \in Nat /\ r.params[i].len \in Nat
                      /\ r.params[i].key \in Nat
  BY <1>4
<1>6. /\ n >= 1 /\ r.labels[1] = 2
      /\ \A i \in 1..n - 1 :
           /\ r.labels[i] + 1 < r.labels[i + 1]
           /\ r.bytes[r.labels[i] + 1] = r.labels[i + 1] - r.labels[i] - 1
      /\ r.bytes[r.labels[n] + 1] = 0
      /\ \A i \in 1..m :
           /\ r.params[i].at = Start(r, i)
           /\ U16(r.bytes, r.params[i].at + 1) = r.params[i].key
           /\ U16(r.bytes, r.params[i].at + 3) = r.params[i].len
      /\ Len(r.bytes) = Start(r, m + 1)
  BY <1>1 DEF Laid
<1> HIDE DEF n, m
<1>7. NameEnd(r) = r.labels[n] + 1 /\ NameEnd(r) \in Nat
  <2>1. n \in 1..n
    BY <1>2, <1>6
  <2>2. r.labels[n] \in Nat
    BY <1>3, <2>1
  <2>3. NameEnd(r) = r.labels[n] + 1
    BY DEF NameEnd, n
  <2>4. QED
    BY <2>2, <2>3
<1>8. \A i \in 1..m : /\ ParamEnd(r.params[i]) = r.params[i].at + 4 + r.params[i].len
                      /\ ParamEnd(r.params[i]) \in Nat
  BY <1>5 DEF ParamEnd
<1>9. Start(r, 1) = NameEnd(r)
  BY DEF Start
<1>10. \A i \in 1..m : Start(r, i + 1) = ParamEnd(r.params[i])
  <2> TAKE i \in 1..m
  <2>1. i + 1 # 1 /\ (i + 1) - 1 = i
    BY <1>2
  <2>2. QED
    BY <2>1 DEF Start
<1>11. \A i \in 1..m + 1 : Start(r, i) \in Nat
  <2> TAKE i \in 1..m + 1
  <2>1. CASE i = 1
    BY <1>7, <1>9, <2>1
  <2>2. CASE i # 1
    <3>1. i - 1 \in 1..m /\ (i - 1) + 1 = i
      BY <1>2, <2>2
    <3>2. QED
      BY <1>8, <1>10, <3>1
  <2>3. QED
    BY <2>1, <2>2
<1>12. QED
  BY <1>1, <1>2, <1>3, <1>5, <1>6, <1>7, <1>8, <1>9, <1>10, <1>11 DEF n, m

\* No label begins behind the name.
LEMMA LabelsWithin ==
  ASSUME NEW r \in Records, NEW i \in 1..Len(r.labels)
  PROVE  r.labels[i] < NameEnd(r)
<1> DEFINE n == Len(r.labels)
           L(k) == r.labels[k]
           P == {k \in 0..n - 1 : L(n - k) < NameEnd(r)}
<1>1. n \in Nat /\ n >= 1 /\ NameEnd(r) = L(n) + 1 /\ NameEnd(r) \in Nat
  BY RecordFacts
<1>2. \A k \in 1..n : L(k) \in Nat
  BY RecordFacts
<1>3. \A k \in 1..n - 1 : L(k) + 1 < L(k + 1)
  BY RecordFacts
<1> HIDE DEF L
<1>4. 0 \in P
  <2>1. n - 0 = n /\ L(n) \in Nat /\ 0 \in 0..n - 1
    BY <1>1, <1>2
  <2>2. QED
    BY <1>1, <2>1
<1>5. ASSUME NEW k \in 1..n - 1, k - 1 \in P PROVE k \in P
  <2>1. n - k \in 1..n - 1 /\ (n - k) + 1 = n - (k - 1) /\ n - k \in 1..n
        /\ (n - k) + 1 \in 1..n /\ k \in 0..n - 1
    BY <1>1
  <2>2. L(n - k) + 1 < L((n - k) + 1)
    BY <1>3, <2>1
  <2>3. L((n - k) + 1) < NameEnd(r)
    BY <1>5, <2>1
  <2>4. L(n - k) \in Nat /\ L((n - k) + 1) \in Nat
    BY <1>2, <2>1
  <2>5. L(n - k) < NameEnd(r)
    BY <1>1, <2>2, <2>3, <2>4
  <2>6. QED
    BY <2>1, <2>5
<1>6. 0..(n - 1) \subseteq P
  <2> HIDE DEF P
  <2>1. n - 1 \in Nat
    BY <1>1
  <2>2. QED
    BY <1>4, <1>5, <2>1, Induction
<1>7. n - i \in 0..(n - 1) /\ n - (n - i) = i
  BY <1>1
<1>8. QED
  BY <1>6, <1>7 DEF L

\* A later parameter begins no earlier.
LEMMA StartsGrow ==
  ASSUME NEW r \in Records, NEW i \in 1..Len(r.params) + 1,
         NEW j \in 1..Len(r.params) + 1, i <= j
  PROVE  Start(r, i) <= Start(r, j)
<1> DEFINE m == Len(r.params)
           P == {k \in 0..m : i <= k + 1 => Start(r, i) <= Start(r, k + 1)}
<1>1. m \in Nat /\ \A k \in 1..m + 1 : Start(r, k) \in Nat
  BY RecordFacts
<1>2. ASSUME NEW k \in 1..m PROVE Start(r, k) <= Start(r, k + 1)
  <2>1. /\ Start(r, k + 1) = r.params[k].at + 4 + r.params[k].len
        /\ Start(r, k) = r.params[k].at
        /\ r.params[k].at \in Nat /\ r.params[k].len \in Nat
    BY RecordFacts
  <2>2. QED
    BY <2>1
<1> HIDE DEF m
<1>3. 0 \in P
  <2>1. i <= 0 + 1 => i = 1
    BY <1>1 DEF m
  <2>2. Start(r, 1) \in Nat /\ 0 + 1 = 1
    BY <1>1
  <2>3. QED
    BY <1>1, <2>1, <2>2
<1>4. ASSUME NEW k \in 1..m, k - 1 \in P PROVE k \in P
  <2>1. k \in 0..m /\ k \in Nat /\ k \in 1..m + 1 /\ k + 1 \in 1..m + 1 /\ (k - 1) + 1 = k
    BY <1>1
  <2>2. Start(r, k) <= Start(r, k + 1)
    BY <1>2
  <2>3. Start(r, k) \in Nat /\ Start(r, k + 1) \in Nat /\ Start(r, i) \in Nat
    BY <1>1, <2>1 DEF m
  <2>4. ASSUME i <= k + 1 PROVE Start(r, i) <= Start(r, k + 1)
    <3>1. CASE i = k + 1
      BY <2>3, <3>1
    <3>2. CASE i # k + 1
      <4>1. i <= k
        BY <2>1, <2>4, <3>2 DEF m
      <4>2. Start(r, i) <= Start(r, k)
        BY <1>4, <2>1, <4>1
      <4>3. QED
        BY <2>2, <2>3, <4>2
    <3>3. QED
      BY <3>1, <3>2
  <2>5. QED
    BY <2>1, <2>4
<1>5. 0..m \subseteq P
  <2> HIDE DEF P
  <2>1. QED
    BY <1>1, <1>3, <1>4, Induction
<1>6. j - 1 \in 0..m /\ (j - 1) + 1 = j
  BY <1>1 DEF m
<1>7. QED
  BY <1>5, <1>6

\* What is left of a record that is cut.
LEMMA CutFacts ==
  ASSUME NEW b \in Seq(Nat), NEW cut \in 0..Len(b)
  PROVE  LET s == SubSeq(b, 1, cut)
         IN /\ cut \in Nat /\ s \in Seq(Nat) /\ Len(s) = cut
            /\ \A i \in 1..cut : s[i] = b[i] /\ b[i] \in Nat
<1>1. cut \in Nat /\ Len(b) \in Nat /\ cut \in Int /\ 1 \in Int /\ cut <= Len(b)
  OBVIOUS
<1>2. \A i \in 1..cut : b[i] \in Nat
  <2> TAKE i \in 1..cut
  <2>1. i \in 1..Len(b)
    BY <1>1
  <2>2. QED
    BY <2>1, ElementOfSeq
<1> DEFINE s == SubSeq(b, 1, cut)
<1>3. /\ s \in Seq(Nat)
      /\ Len(s) = IF 1 <= cut THEN cut - 1 + 1 ELSE 0
      /\ \A i \in 1..cut - 1 + 1 : s[i] = b[1 + i - 1]
  BY <1>1, <1>2, SubSeqProperties
<1> HIDE DEF s
<1>4. Len(s) = cut
  BY <1>1, <1>3
<1>5. \A i \in 1..cut : s[i] = b[i]
  <2> TAKE i \in 1..cut
  <2>1. i \in 1..cut - 1 + 1 /\ 1 + i - 1 = i
    BY <1>1
  <2>2. QED
    BY <1>3, <2>1
<1>6. QED
  BY <1>1, <1>2, <1>3, <1>4, <1>5 DEF s

\* A part that the cut spares is the part.
LEMMA Spared ==
  ASSUME NEW b \in Seq(Nat), NEW cut \in 0..Len(b), NEW x \in Nat, NEW y \in Nat,
         x >= 1, y <= cut
  PROVE  /\ SubSeq(SubSeq(b, 1, cut), x, y) = SubSeq(b, x, y)
         /\ SubSeq(b, x, y) \in Seq(Nat)
<1> DEFINE s == SubSeq(b, 1, cut)
           u == SubSeq(s, x, y)
           z == SubSeq(b, x, y)
<1>1. cut \in Nat /\ \A i \in 1..cut : s[i] = b[i] /\ b[i] \in Nat
  BY CutFacts
<1> HIDE DEF s
<1>2. \A i \in x..y : s[i] = b[i] /\ b[i] \in Nat /\ s[i] \in Nat
  <2> TAKE i \in x..y
  <2>1. i \in 1..cut
    BY <1>1
  <2>2. QED
    BY <1>1, <2>1
<1>3. x \in Int /\ y \in Int
  OBVIOUS
<1>4. /\ u \in Seq(Nat) /\ Len(u) = IF x <= y THEN y - x + 1 ELSE 0
      /\ \A i \in 1..y - x + 1 : u[i] = s[x + i - 1]
  BY <1>2, <1>3, SubSeqProperties
<1>5. /\ z \in Seq(Nat) /\ Len(z) = IF x <= y THEN y - x + 1 ELSE 0
      /\ \A i \in 1..y - x + 1 : z[i] = b[x + i - 1]
  BY <1>2, <1>3, SubSeqProperties
<1> HIDE DEF u, z
<1>6. \A i \in 1..Len(u) : u[i] = z[i]
  <2> TAKE i \in 1..Len(u)
  <2>1. i \in 1..y - x + 1 /\ x + i - 1 \in x..y
    BY <1>4
  <2>2. s[x + i - 1] = b[x + i - 1]
    BY <1>2, <2>1
  <2>3. u[i] = s[x + i - 1] /\ z[i] = b[x + i - 1]
    BY <1>4, <1>5, <2>1
  <2>4. QED
    BY <2>2, <2>3
<1>7. u = z
  BY <1>4, <1>5, <1>6, SeqEqual
<1>8. QED
  BY <1>5, <1>7 DEF u, z, s

-----------------------------------------------------------------------------
(* The name of a record. *)

Skipping == [going : BOOLEAN, ok : BOOLEAN, at : Nat]

\* A turn of the first loop of svcParam hands a state of the loop to the next.
LEMMA SkipType ==
  ASSUME NEW s \in Seq(Nat), NEW w \in Skipping
  PROVE  SkipLabel(s, w) \in Skipping
<1>1. w.going \in BOOLEAN /\ w.ok \in BOOLEAN /\ w.at \in Nat /\ Len(s) \in Nat
  BY DEF Skipping
<1>2. /\ [w EXCEPT !.going = FALSE] \in Skipping
      /\ [w EXCEPT !.going = FALSE, !.ok = FALSE] \in Skipping
  BY DEF Skipping
<1>3. [w EXCEPT !.going = FALSE, !.at = @ + 1] \in Skipping
  <2>1. w.at + 1 \in Nat
    BY <1>1
  <2>2. QED
    BY <2>1 DEF Skipping
<1>4. ASSUME ~(w.at >= Len(s)) PROVE [w EXCEPT !.at = @ + 1 + s[w.at + 1]] \in Skipping
  <2>1. w.at + 1 \in 1..Len(s)
    BY <1>1, <1>4
  <2>2. s[w.at + 1] \in Nat
    BY <2>1, ElementOfSeq
  <2>3. w.at + 1 + s[w.at + 1] \in Nat
    BY <1>1, <2>2
  <2>4. QED
    BY <2>3 DEF Skipping
<1>5. QED
  BY <1>2, <1>3, <1>4 DEF SkipLabel

\* The first loop of svcParam, by the number of turns.
SkipFirst == [going |-> TRUE, ok |-> TRUE, at |-> 2]
SkipRun(s, f) ==
  LET n == Len(s)
  IN /\ f \in [0..n -> Skipping] /\ f[0] = SkipFirst
     /\ \A i \in 1..n : f[i] = SkipLabel(s, f[i - 1])
     /\ SkipName(s) = f[n]

\* The first loop of svcParam is its turns, one after the other.
LEMMA SkipSteps ==
  ASSUME NEW s \in Seq(Nat)
  PROVE  \E f : SkipRun(s, f)
<1> DEFINE n == Len(s)
           S == Skipping
           First == SkipFirst
           Step(b, i) == SkipLabel(s, b)
           F == [z \in (1..n) \X S |-> Step(z[2], z[1])]
           Fits(g) == g = [i \in 0..n |-> IF i = 0 THEN First ELSE Step(g[i - 1], i)]
           after == CHOOSE g : Fits(g)
<1>1. SkipName(s) = after[n]
  BY DEF SkipName, SkipFirst
<1>2. n \in Nat
  OBVIOUS
<1>3. First \in S
  BY DEF SkipFirst, Skipping
<1>4. ASSUME NEW i \in 1..n, NEW b \in S PROVE Step(b, i) \in S
  BY SkipType
<1> HIDE DEF n, S, Step, First
<1>5. IsStep(F, n, S)
  BY <1>4 DEF IsStep
<1>6. ASSUME NEW i \in 1..n, NEW b \in S PROVE F[<<i, b>>] = Step(b, i)
  OBVIOUS
<1> HIDE DEF F
<1>7. PICK f : Unfolds(f, F, n, S, First)
  BY <1>2, <1>3, <1>5, Recursion
<1>8. f \in [0..n -> S] /\ f[0] = First /\ \A i \in 1..n : f[i] = F[<<i, f[i - 1]>>]
  BY <1>7 DEF Unfolds
<1>9. ASSUME NEW i \in 1..n PROVE f[i] = Step(f[i - 1], i)
  <2>1. i - 1 \in 0..n
    BY <1>2
  <2>2. f[i - 1] \in S
    BY <1>8, <2>1
  <2>3. f[i] = F[<<i, f[i - 1]>>]
    BY <1>8
  <2>4. F[<<i, f[i - 1]>>] = Step(f[i - 1], i)
    BY <1>6, <2>2
  <2>5. QED
    BY <2>3, <2>4
<1>10. Fits(f)
  BY <1>2, <1>8, <1>9
<1>11. Fits(after)
  BY <1>10
<1> HIDE DEF after
<1>12. after[0] = First /\ after = [i \in 0..n |-> after[i]]
  BY <1>2, <1>11
<1>13. ASSUME NEW i \in 1..n PROVE after[i] = Step(after[i - 1], i)
  <2>1. i \in 0..n /\ i # 0
    BY <1>2
  <2>2. QED
    BY <1>11, <2>1
<1> HIDE DEF Fits
<1>14. Unfolds(after, F, n, S, after[0])
  <2>1. \A i \in 1..n : after[i - 1] \in S => after[i] = F[<<i, after[i - 1]>>]
    BY <1>6, <1>13
  <2>2. QED
    BY <1>2, <1>3, <1>5, <1>12, <2>1, Unfolded
<1>15. after \in [0..n -> S]
  BY <1>14 DEF Unfolds
<1>16. SkipRun(s, after)
  BY <1>1, <1>12, <1>13, <1>15 DEF SkipRun, n, S, Step, First
<1>17. QED
  BY <1>16

\* Where the loop is after k turns over a record that is cut.
Skipped(r, cut, k, w) ==
  /\ w.going => /\ w.ok /\ k + 1 <= Len(r.labels) /\ w.at = r.labels[k + 1]
                /\ w.at <= cut /\ w.at >= 2 + k
  /\ ~w.going => \/ w.ok /\ w.at = NameEnd(r) /\ NameEnd(r) <= cut
                 \/ cut < NameEnd(r) /\ (w.ok => w.at = cut)

\* A turn moves to the next label, or ends behind the name or at the cut.
LEMMA SkipOne ==
  ASSUME NEW r \in Records, NEW cut \in 0..Len(r.bytes), NEW k \in 1..cut,
         NEW w \in Skipping, Skipped(r, cut, k - 1, w)
  PROVE  Skipped(r, cut, k, SkipLabel(SubSeq(r.bytes, 1, cut), w))
<1> DEFINE n == Len(r.labels)
           b == r.bytes
           s == SubSeq(b, 1, cut)
           z == SkipLabel(s, w)
           e == NameEnd(r)
           l == s[w.at + 1]
           L(i) == r.labels[i]
<1>1. /\ n \in Nat /\ n >= 1 /\ \A i \in 1..n : L(i) \in Nat
      /\ \A i \in 1..n - 1 : L(i) + 1 < L(i + 1) /\ b[L(i) + 1] = L(i + 1) - L(i) - 1
      /\ e = L(n) + 1 /\ e \in Nat /\ b[L(n) + 1] = 0 /\ b \in Seq(Nat) /\ Len(b) \in Nat
  BY RecordFacts
<1>2. /\ cut \in Nat /\ s \in Seq(Nat) /\ Len(s) = cut
      /\ \A i \in 1..cut : s[i] = b[i] /\ b[i] \in Nat
  BY <1>1, CutFacts
<1>3. w.going \in BOOLEAN /\ w.ok \in BOOLEAN /\ w.at \in Nat /\ k \in Nat /\ (k - 1) + 1 = k
  BY <1>2 DEF Skipping
<1>4. /\ w.going => w.ok /\ k <= n /\ w.at = L(k) /\ w.at <= cut /\ w.at >= 2 + (k - 1)
      /\ ~w.going => \/ w.ok /\ w.at = e /\ e <= cut
                     \/ cut < e /\ (w.ok => w.at = cut)
  BY <1>3 DEF Skipped
<1>5. \A i \in 1..n : L(i) < e
  BY LabelsWithin
<1> HIDE DEF n, e, b, s, L
<1> SUFFICES /\ z.going => z.ok /\ k + 1 <= n /\ z.at = L(k + 1) /\ z.at <= cut /\ z.at >= 2 + k
             /\ ~z.going => \/ z.ok /\ z.at = e /\ e <= cut
                            \/ cut < e /\ (z.ok => z.at = cut)
  BY DEF Skipped, n, e, b, s, L
<1>6. CASE ~w.going
  BY <1>4, <1>6 DEF SkipLabel
<1>7. CASE w.going /\ w.at >= cut
  <2>1. z = [w EXCEPT !.going = FALSE]
    BY <1>2, <1>7 DEF SkipLabel
  <2> HIDE DEF z
  <2>2. ~z.going /\ z.at = w.at
    BY <2>1 DEF Skipping
  <2>3. k \in 1..n
    BY <1>1, <1>3, <1>4, <1>7
  <2>4. L(k) < e /\ L(k) \in Nat
    BY <1>1, <1>5, <2>3
  <2>5. w.at = cut /\ cut < e
    BY <1>2, <1>3, <1>4, <1>7, <2>4
  <2>6. QED
    BY <2>2, <2>5
<1>8. CASE w.going /\ ~(w.at >= cut)
  <2> HIDE DEF z, l
  <2>0. w.ok /\ k <= n /\ w.at = L(k) /\ w.at <= cut /\ w.at >= 2 + (k - 1)
    BY <1>4, <1>8
  <2>1. k \in 1..n /\ w.at = L(k) /\ w.at + 1 \in 1..cut /\ w.at >= k + 1 /\ w.ok
    BY <1>1, <1>2, <1>3, <1>8, <2>0
  <2>2. l = b[L(k) + 1]
    BY <1>2, <2>1 DEF l
  <2>3. CASE k = n
    <3>1. l = 0
      BY <1>1, <2>2, <2>3
    <3>2. z = [w EXCEPT !.going = FALSE, !.at = @ + 1]
      BY <1>2, <1>8, <3>1 DEF SkipLabel, l, z
    <3>3. ~z.going /\ z.ok /\ z.at = w.at + 1
      BY <2>1, <3>2 DEF Skipping
    <3>4. w.at + 1 = e /\ e <= cut
      BY <1>1, <1>2, <2>1, <2>3
    <3>5. QED
      BY <3>3, <3>4
  <2>4. CASE k # n
    <3>1. k \in 1..n - 1 /\ k + 1 \in 1..n /\ k + 1 <= n
      BY <1>1, <2>1, <2>4
    <3>2. L(k) + 1 < L(k + 1) /\ l = L(k + 1) - L(k) - 1 /\ L(k) \in Nat /\ L(k + 1) \in Nat
      BY <1>1, <2>1, <2>2, <3>1
    <3>3. l \in Nat /\ l # 0 /\ w.at + 1 + l = L(k + 1) /\ L(k + 1) >= 2 + k
      BY <1>3, <2>1, <3>2
    <3>4. CASE w.at + 1 + l > cut
      <4>1. z = [w EXCEPT !.going = FALSE, !.ok = FALSE]
        BY <1>2, <1>8, <3>3, <3>4 DEF SkipLabel, l, z
      <4>2. ~z.going /\ ~z.ok
        BY <4>1 DEF Skipping
      <4>3. L(k + 1) < e
        BY <1>5, <3>1
      <4>4. cut < e
        BY <1>1, <1>2, <3>2, <3>3, <3>4, <4>3
      <4>5. QED
        BY <4>2, <4>4
    <3>5. CASE ~(w.at + 1 + l > cut)
      <4>1. z = [w EXCEPT !.at = @ + 1 + l]
        BY <1>2, <1>8, <3>3, <3>5 DEF SkipLabel, l, z
      <4>2. z.going /\ z.ok /\ z.at = w.at + 1 + l
        BY <1>8, <2>1, <4>1 DEF Skipping
      <4>3. z.at = L(k + 1) /\ z.at <= cut /\ z.at >= 2 + k
        BY <1>2, <3>2, <3>3, <3>5, <4>2
      <4>4. QED
        BY <3>1, <4>2, <4>3
    <3>6. QED
      BY <3>4, <3>5
  <2>5. QED
    BY <2>3, <2>4
<1>9. QED
  BY <1>3, <1>6, <1>7, <1>8

\* The name of a record cut behind its priority is skipped if it is all there; if
\* not, nothing is behind it.
LEMMA NameSkipped ==
  ASSUME NEW r \in Records, NEW cut \in 0..Len(r.bytes), cut >= 2
  PROVE  LET w == SkipName(SubSeq(r.bytes, 1, cut))
         IN /\ w \in Skipping
            /\ \/ w.ok /\ w.at = NameEnd(r) /\ NameEnd(r) <= cut
               \/ cut < NameEnd(r) /\ (w.ok => w.at = cut)
<1> DEFINE s == SubSeq(r.bytes, 1, cut)
<1>1. r.bytes \in Seq(Nat) /\ Len(r.labels) >= 1 /\ Len(r.labels) \in Nat /\ r.labels[1] = 2
  BY RecordFacts
<1>2. s \in Seq(Nat) /\ Len(s) = cut /\ cut \in Nat
  BY <1>1, CutFacts
<1>3. PICK f : SkipRun(s, f)
  BY <1>2, SkipSteps
<1>4. /\ f \in [0..cut -> Skipping] /\ f[0] = SkipFirst
      /\ \A i \in 1..cut : f[i] = SkipLabel(s, f[i - 1])
      /\ SkipName(s) = f[cut]
  BY <1>2, <1>3 DEF SkipRun
<1> DEFINE P == {k \in 0..cut : Skipped(r, cut, k, f[k])}
<1>5. 0 \in P
  <2>1. f[0].going /\ f[0].ok /\ f[0].at = 2
    BY <1>4 DEF SkipFirst
  <2>2. 0 + 1 <= Len(r.labels) /\ 2 = r.labels[0 + 1] /\ 2 <= cut /\ 2 >= 2 + 0
    BY <1>1, <1>2
  <2>3. Skipped(r, cut, 0, f[0])
    BY <2>1, <2>2 DEF Skipped
  <2>4. QED
    BY <1>2, <2>3
<1>6. ASSUME NEW i \in 1..cut, i - 1 \in P PROVE i \in P
  <2>1. i \in 0..cut /\ i - 1 \in 0..cut
    BY <1>2
  <2>2. f[i - 1] \in Skipping /\ f[i] = SkipLabel(s, f[i - 1])
    BY <1>4, <2>1
  <2>3. Skipped(r, cut, i - 1, f[i - 1])
    BY <1>6
  <2>4. Skipped(r, cut, i, f[i])
    BY <2>2, <2>3, SkipOne
  <2>5. QED
    BY <2>1, <2>4
<1>7. cut \in P
  <2> HIDE DEF P
  <2>1. 0..cut \subseteq P
    BY <1>2, <1>5, <1>6, Induction
  <2>2. QED
    BY <1>2, <2>1
<1> DEFINE w == f[cut]
<1>8. w \in Skipping
  <2>1. cut \in 0..cut
    BY <1>2
  <2>2. QED
    BY <1>4, <2>1
<1>9. Skipped(r, cut, cut, w)
  BY <1>7
<1> HIDE DEF w
<1>10. ~w.going
  <2>1. w.at \in Nat /\ (w.going => w.at <= cut /\ w.at >= 2 + cut)
    BY <1>8, <1>9 DEF Skipping, Skipped
  <2>2. QED
    BY <1>2, <2>1
<1>11. QED
  BY <1>4, <1>8, <1>9, <1>10 DEF Skipped, w

-----------------------------------------------------------------------------
(* The parameters of a record. *)

ParamFound == {NotThere} \cup [ok : {TRUE}, value : Seq(Nat)]
Reading == [going : BOOLEAN, at : Nat, found : ParamFound]

\* Stopping, finding and going on keep what a turn hands to the next.
LEMMA ReadingKept ==
  ASSUME NEW w \in Reading, NEW x \in Nat, NEW y \in Seq(Nat)
  PROVE  /\ [w EXCEPT !.going = FALSE] \in Reading
         /\ [w EXCEPT !.going = FALSE, !.found = [ok |-> TRUE, value |-> y]] \in Reading
         /\ [w EXCEPT !.at = x] \in Reading
         /\ w.going \in BOOLEAN /\ w.at \in Nat /\ w.found \in ParamFound
<1>1. [ok |-> TRUE, value |-> y] \in ParamFound
  BY DEF ParamFound
<1> HIDE DEF ParamFound
<1>2. QED
  BY <1>1 DEF Reading

\* What two bytes of a record that is cut say, and the value of a parameter that
\* the cut leaves whole.
LEMMA SparedParam ==
  ASSUME NEW b \in Seq(Nat), NEW cut \in 0..Len(b), NEW a \in Nat, a + 4 <= cut
  PROVE  LET s == SubSeq(b, 1, cut)
         IN /\ U16(s, a + 1) = U16(b, a + 1) /\ U16(s, a + 3) = U16(b, a + 3)
            /\ U16(s, a + 1) \in Nat /\ U16(s, a + 3) \in Nat
            /\ \A l \in Nat : a + 4 + l <= cut =>
                 /\ SubSeq(s, a + 5, a + 4 + l) = SubSeq(b, a + 5, a + 4 + l)
                 /\ SubSeq(b, a + 5, a + 4 + l) \in Seq(Nat)
<1> DEFINE s == SubSeq(b, 1, cut)
<1>1. cut \in Nat /\ \A i \in 1..cut : s[i] = b[i] /\ b[i] \in Nat
  BY CutFacts
<1>2. \A l \in Nat : a + 4 + l <= cut =>
        /\ SubSeq(s, a + 5, a + 4 + l) = SubSeq(b, a + 5, a + 4 + l)
        /\ SubSeq(b, a + 5, a + 4 + l) \in Seq(Nat)
  <2> TAKE l \in Nat
  <2> HAVE a + 4 + l <= cut
  <2>1. a + 5 \in Nat /\ a + 4 + l \in Nat /\ a + 5 >= 1
    OBVIOUS
  <2>2. QED
    BY <2>1, Spared
<1> HIDE DEF s
<1>3. a + 1 \in 1..cut /\ a + 2 \in 1..cut /\ a + 3 \in 1..cut /\ a + 4 \in 1..cut
  BY <1>1
<1>4. (a + 1) + 1 = a + 2 /\ (a + 3) + 1 = a + 4
  OBVIOUS
<1>5. /\ s[a + 1] = b[a + 1] /\ s[a + 2] = b[a + 2]
      /\ s[a + 3] = b[a + 3] /\ s[a + 4] = b[a + 4]
      /\ b[a + 1] \in Nat /\ b[a + 2] \in Nat /\ b[a + 3] \in Nat /\ b[a + 4] \in Nat
  BY <1>1, <1>3
<1>6. /\ U16(s, a + 1) = 256 * s[a + 1] + s[a + 2] /\ U16(b, a + 1) = 256 * b[a + 1] + b[a + 2]
      /\ U16(s, a + 3) = 256 * s[a + 3] + s[a + 4] /\ U16(b, a + 3) = 256 * b[a + 3] + b[a + 4]
  BY <1>4 DEF U16
<1>7. 256 * b[a + 1] + b[a + 2] \in Nat /\ 256 * b[a + 3] + b[a + 4] \in Nat
  <2>1. \A x, y \in Nat : 256 * x + y \in Nat
    OBVIOUS
  <2>2. QED
    BY <1>5, <2>1
<1>8. QED
  BY <1>2, <1>5, <1>6, <1>7 DEF s

\* A turn of the second loop hands a state of the loop to the next.
LEMMA ReadParamType ==
  ASSUME NEW s \in Seq(Nat), NEW key, NEW w \in Reading
  PROVE  ReadParam(s, key, w) \in Reading
<1> DEFINE l == U16(s, w.at + 3)
<1>1. w.at \in Nat /\ [w EXCEPT !.going = FALSE] \in Reading
  <2>1. <<>> \in Seq(Nat) /\ 0 \in Nat
    OBVIOUS
  <2>2. QED
    BY <2>1, ReadingKept
<1>2. ASSUME ~(w.at + 4 > Len(s)), ~(w.at + 4 + l > Len(s))
      PROVE  /\ [w EXCEPT !.going = FALSE,
                          !.found = [ok |-> TRUE,
                                     value |-> SubSeq(s, w.at + 5, w.at + 4 + l)]] \in Reading
             /\ [w EXCEPT !.at = @ + 4 + l] \in Reading
  <2>1. Len(s) \in 0..Len(s) /\ w.at + 4 <= Len(s)
    BY <1>1, <1>2
  <2>2. SubSeq(s, 1, Len(s)) = s
    <3>1. Len(SubSeq(s, 1, Len(s))) = Len(s) /\ SubSeq(s, 1, Len(s)) \in Seq(Nat)
          /\ \A i \in 1..Len(s) : SubSeq(s, 1, Len(s))[i] = s[i]
      BY <2>1, CutFacts
    <3>2. QED
      BY <3>1, SeqEqual
  <2>3. l \in Nat
    BY <1>1, <2>1, <2>2, SparedParam
  <2>4. SubSeq(s, w.at + 5, w.at + 4 + l) \in Seq(Nat)
    <3> HIDE DEF l
    <3>1. w.at + 4 + l <= Len(s)
      BY <1>1, <1>2, <2>3
    <3>2. QED
      BY <1>1, <2>1, <2>3, <3>1, SparedParam
  <2> HIDE DEF l
  <2>5. w.at + 4 + l \in Nat
    BY <1>1, <2>3
  <2>6. QED
    BY <2>4, <2>5, ReadingKept
<1> HIDE DEF Reading
<1>3. CASE ~w.going
  BY <1>3 DEF ReadParam
<1>4. CASE w.going /\ (w.at + 4 > Len(s) \/ w.at + 4 + l > Len(s))
  BY <1>1, <1>4 DEF ReadParam
<1>5. CASE w.going /\ ~(w.at + 4 > Len(s)) /\ ~(w.at + 4 + l > Len(s))
  <2>1. CASE U16(s, w.at + 1) = key
    BY <1>2, <1>5, <2>1 DEF ReadParam
  <2>2. CASE U16(s, w.at + 1) # key
    BY <1>2, <1>5, <2>2 DEF ReadParam
  <2>3. QED
    BY <2>1, <2>2
<1>6. QED
  BY <1>3, <1>4, <1>5

\* The second loop of svcParam, by the number of turns.
ParamFirst(from) == [going |-> TRUE, at |-> from, found |-> NotThere]
ParamRun(s, from, key, f) ==
  LET n == Len(s)
  IN /\ f \in [0..n -> Reading] /\ f[0] = ParamFirst(from)
     /\ \A i \in 1..n : f[i] = ReadParam(s, key, f[i - 1])
     /\ Params(s, from, key) = f[n].found

\* The second loop of svcParam is its turns, one after the other.
LEMMA ParamSteps ==
  ASSUME NEW s \in Seq(Nat), NEW from \in Nat, NEW key
  PROVE  \E f : ParamRun(s, from, key, f)
<1> DEFINE n == Len(s)
           S == Reading
           First == ParamFirst(from)
           Step(b, i) == ReadParam(s, key, b)
           F == [z \in (1..n) \X S |-> Step(z[2], z[1])]
           Fits(g) == g = [i \in 0..n |-> IF i = 0 THEN First ELSE Step(g[i - 1], i)]
           after == CHOOSE g : Fits(g)
<1>1. Params(s, from, key) = after[n].found
  BY DEF Params, ParamFirst
<1>2. n \in Nat
  OBVIOUS
<1>3. First \in S
  BY DEF ParamFirst, Reading, ParamFound
<1>4. ASSUME NEW i \in 1..n, NEW b \in S PROVE Step(b, i) \in S
  BY ReadParamType
<1> HIDE DEF n, S, Step, First
<1>5. IsStep(F, n, S)
  BY <1>4 DEF IsStep
<1>6. ASSUME NEW i \in 1..n, NEW b \in S PROVE F[<<i, b>>] = Step(b, i)
  OBVIOUS
<1> HIDE DEF F
<1>7. PICK f : Unfolds(f, F, n, S, First)
  BY <1>2, <1>3, <1>5, Recursion
<1>8. f \in [0..n -> S] /\ f[0] = First /\ \A i \in 1..n : f[i] = F[<<i, f[i - 1]>>]
  BY <1>7 DEF Unfolds
<1>9. ASSUME NEW i \in 1..n PROVE f[i] = Step(f[i - 1], i)
  <2>1. i - 1 \in 0..n
    BY <1>2
  <2>2. f[i - 1] \in S
    BY <1>8, <2>1
  <2>3. f[i] = F[<<i, f[i - 1]>>]
    BY <1>8
  <2>4. F[<<i, f[i - 1]>>] = Step(f[i - 1], i)
    BY <1>6, <2>2
  <2>5. QED
    BY <2>3, <2>4
<1>10. Fits(f)
  BY <1>2, <1>8, <1>9
<1>11. Fits(after)
  BY <1>10
<1> HIDE DEF after
<1>12. after[0] = First /\ after = [i \in 0..n |-> after[i]]
  BY <1>2, <1>11
<1>13. ASSUME NEW i \in 1..n PROVE after[i] = Step(after[i - 1], i)
  <2>1. i \in 0..n /\ i # 0
    BY <1>2
  <2>2. QED
    BY <1>11, <2>1
<1> HIDE DEF Fits
<1>14. Unfolds(after, F, n, S, after[0])
  <2>1. \A i \in 1..n : after[i - 1] \in S => after[i] = F[<<i, after[i - 1]>>]
    BY <1>6, <1>13
  <2>2. QED
    BY <1>2, <1>3, <1>5, <1>12, <2>1, Unfolded
<1>15. after \in [0..n -> S]
  BY <1>14 DEF Unfolds
<1>16. ParamRun(s, from, key, after)
  BY <1>1, <1>12, <1>13, <1>15 DEF ParamRun, n, S, Step, First
<1>17. QED
  BY <1>16

\* The parameters of a key that a cut leaves whole, and what a reader is to get.
Whole(r, cut, key) ==
  {i \in 1..Len(r.params) : r.params[i].key = key /\ ParamEnd(r.params[i]) <= cut}
ValueOf(r, i) == SubSeq(r.bytes, r.params[i].at + 5, ParamEnd(r.params[i]))
Sought(r, cut, key) ==
  IF Whole(r, cut, key) = {} THEN NotThere
  ELSE [ok |-> TRUE, value |-> ValueOf(r, Min(Whole(r, cut, key)))]

\* Nothing whole is behind a parameter that is not.
LEMMA NoneBeyond ==
  ASSUME NEW r \in Records, NEW cut \in 0..Len(r.bytes), NEW key,
         NEW k \in 1..Len(r.params), ParamEnd(r.params[k]) > cut,
         \A i \in Whole(r, cut, key) : k <= i
  PROVE  Sought(r, cut, key) = NotThere
<1> DEFINE m == Len(r.params)
           T == Whole(r, cut, key)
<1>1. /\ m \in Nat /\ Len(r.bytes) \in Nat
      /\ \A i \in 1..m : /\ ParamEnd(r.params[i]) \in Nat
                         /\ Start(r, i + 1) = ParamEnd(r.params[i])
  BY RecordFacts
<1>2. ASSUME NEW i \in T PROVE FALSE
  <2>1. i \in 1..m /\ ParamEnd(r.params[i]) <= cut
    BY DEF Whole
  <2>2. k <= i
    BY <1>2
  <2>3. i + 1 \in 1..m + 1 /\ k + 1 \in 1..m + 1 /\ k + 1 <= i + 1
    BY <1>1, <2>1, <2>2
  <2>4. Start(r, k + 1) <= Start(r, i + 1)
    BY <2>3, StartsGrow
  <2>5. ParamEnd(r.params[k]) <= ParamEnd(r.params[i])
    BY <1>1, <2>1, <2>4
  <2>6. ParamEnd(r.params[k]) \in Nat /\ ParamEnd(r.params[i]) \in Nat /\ cut \in Nat
    BY <1>1, <2>1
  <2>7. QED
    BY <2>1, <2>5, <2>6
<1>3. QED
  BY <1>2 DEF Sought

\* Where the loop is after k turns over a record that is cut.
ReadUpTo(r, cut, key, k, w) ==
  /\ w.going => /\ w.found = NotThere /\ k <= Len(r.params) /\ w.at = Start(r, k + 1)
                /\ w.at <= cut /\ w.at >= 3 + k
                /\ \A i \in Whole(r, cut, key) : k < i
  /\ ~w.going => w.found = Sought(r, cut, key)

\* A turn moves to the next parameter, or ends with what is sought.
LEMMA ReadOne ==
  ASSUME NEW r \in Records, NEW cut \in 0..Len(r.bytes), NEW key, NEW k \in 1..cut,
         NEW w \in Reading, ReadUpTo(r, cut, key, k - 1, w)
  PROVE  ReadUpTo(r, cut, key, k, ReadParam(SubSeq(r.bytes, 1, cut), key, w))
<1> DEFINE m == Len(r.params)
           b == r.bytes
           s == SubSeq(b, 1, cut)
           z == ReadParam(s, key, w)
           T == Whole(r, cut, key)
           p == r.params[k]
<1>1. /\ m \in Nat /\ b \in Seq(Nat) /\ Len(b) \in Nat /\ Len(b) = Start(r, m + 1)
      /\ \A i \in 1..m :
           /\ r.params[i].at \in Nat /\ r.params[i].len \in Nat
           /\ ParamEnd(r.params[i]) = r.params[i].at + 4 + r.params[i].len
           /\ r.params[i].at = Start(r, i) /\ Start(r, i + 1) = ParamEnd(r.params[i])
           /\ U16(b, r.params[i].at + 1) = r.params[i].key
           /\ U16(b, r.params[i].at + 3) = r.params[i].len
  BY RecordFacts
<1>2. cut \in Nat /\ s \in Seq(Nat) /\ Len(s) = cut
  BY <1>1, CutFacts
<1>3. /\ w.going \in BOOLEAN /\ w.at \in Nat /\ w.found \in ParamFound
      /\ k \in Nat /\ (k - 1) + 1 = k
  <2>1. w.going \in BOOLEAN /\ w.at \in Nat /\ w.found \in ParamFound
    BY DEF Reading
  <2>2. QED
    BY <1>2, <2>1
<1>4. /\ w.going => /\ w.found = NotThere /\ k - 1 <= m /\ w.at = Start(r, k)
                    /\ w.at <= cut /\ w.at >= 3 + (k - 1)
                    /\ \A i \in T : k - 1 < i
      /\ ~w.going => w.found = Sought(r, cut, key)
  BY <1>3 DEF ReadUpTo
<1>5. \A i \in T : i \in 1..m
  BY DEF Whole
<1> SUFFICES /\ z.going => /\ z.found = NotThere /\ k <= m /\ z.at = Start(r, k + 1)
                           /\ z.at <= cut /\ z.at >= 3 + k
                           /\ \A i \in T : k < i
             /\ ~z.going => z.found = Sought(r, cut, key)
  BY DEF ReadUpTo
<1>6. CASE ~w.going
  BY <1>4, <1>6 DEF ReadParam
<1>7. CASE w.going
  <2> HIDE DEF m, b, s, z, T, p
  <2>1. /\ w.found = NotThere /\ k - 1 <= m /\ w.at = Start(r, k)
        /\ w.at <= cut /\ w.at >= 3 + (k - 1) /\ \A i \in T : k - 1 < i
    BY <1>4, <1>7
  <2>2. \A i \in T : k <= i
    <3> TAKE i \in T
    <3>1. k - 1 < i /\ i \in 1..m
      BY <1>5, <2>1
    <3>2. QED
      BY <1>1, <1>3, <3>1
  <2>3. ASSUME z = [w EXCEPT !.going = FALSE], Sought(r, cut, key) = NotThere
        PROVE  ~z.going /\ z.found = Sought(r, cut, key)
    BY <2>1, <2>3 DEF Reading
  <2>4. CASE k > m
    <3>1. k = m + 1
      BY <1>1, <1>3, <2>1, <2>4
    <3>2. w.at >= cut
      BY <1>1, <1>2, <2>1, <3>1 DEF b
    <3>3. w.at + 4 > Len(s)
      BY <1>2, <1>3, <3>2
    <3>4. z = [w EXCEPT !.going = FALSE]
      BY <1>7, <3>3 DEF ReadParam, z
    <3>5. T = {}
      <4>1. ASSUME NEW i \in T PROVE FALSE
        BY <1>1, <1>3, <1>5, <2>2, <3>1
      <4>2. QED
        BY <4>1
    <3>6. Sought(r, cut, key) = NotThere
      BY <3>5 DEF Sought, T
    <3>7. QED
      BY <2>3, <3>4, <3>6
  <2>5. CASE ~(k > m)
    <3>1. k \in 1..m
      BY <1>1, <1>3, <2>5
    <3>2. /\ p.at \in Nat /\ p.len \in Nat /\ ParamEnd(p) = p.at + 4 + p.len
          /\ w.at = p.at /\ Start(r, k + 1) = ParamEnd(p)
          /\ U16(b, w.at + 1) = p.key /\ U16(b, w.at + 3) = p.len
      BY <1>1, <2>1, <3>1 DEF p
    <3>3. CASE w.at + 4 > cut
      <4>1. z = [w EXCEPT !.going = FALSE]
        BY <1>2, <1>7, <3>3 DEF ReadParam, z
      <4>2. ParamEnd(p) > cut
        BY <1>2, <3>2, <3>3
      <4>3. Sought(r, cut, key) = NotThere
        BY <2>2, <3>1, <4>2, NoneBeyond DEF T, p, m
      <4>4. QED
        BY <2>3, <4>1, <4>3
    <3>4. CASE ~(w.at + 4 > cut)
      <4>1. w.at + 4 <= cut
        BY <1>2, <1>3, <3>4
      <4>2. U16(s, w.at + 1) = p.key /\ U16(s, w.at + 3) = p.len
        BY <1>1, <1>3, <3>2, <4>1, SparedParam DEF s, b
      <4>3. CASE w.at + 4 + p.len > cut
        <5>1. z = [w EXCEPT !.going = FALSE]
          BY <1>2, <1>7, <3>4, <4>2, <4>3 DEF ReadParam, z
        <5>2. ParamEnd(p) > cut
          BY <3>2, <4>3
        <5>3. Sought(r, cut, key) = NotThere
          BY <2>2, <3>1, <5>2, NoneBeyond DEF T, p, m
        <5>4. QED
          BY <2>3, <5>1, <5>3
      <4>4. CASE ~(w.at + 4 + p.len > cut) /\ p.key = key
        <5>1. w.at + 4 + p.len <= cut /\ ParamEnd(p) <= cut
          BY <1>2, <3>2, <4>4
        <5>2. k \in T
          BY <3>1, <4>4, <5>1 DEF T, Whole, p, m
        <5>3. Min(T) = k
          <6>1. T \subseteq Nat /\ T # {}
            BY <1>1, <1>5, <5>2
          <6>2. Min(T) \in T /\ Min(T) <= k
            BY <5>2, <6>1, Lowest
          <6>3. k <= Min(T) /\ Min(T) \in Nat
            BY <2>2, <6>1, <6>2
          <6>4. QED
            BY <1>3, <6>2, <6>3
        <5>4. Sought(r, cut, key) = [ok |-> TRUE, value |-> ValueOf(r, k)]
          BY <5>2, <5>3 DEF Sought, T
        <5>5. ValueOf(r, k) = SubSeq(b, w.at + 5, w.at + 4 + p.len)
          BY <3>2 DEF ValueOf, b, p
        <5>6. SubSeq(s, w.at + 5, w.at + 4 + p.len) = SubSeq(b, w.at + 5, w.at + 4 + p.len)
          <6>1. \A l \in Nat : w.at + 4 + l <= cut =>
                  SubSeq(s, w.at + 5, w.at + 4 + l) = SubSeq(b, w.at + 5, w.at + 4 + l)
            BY <1>1, <1>3, <4>1, SparedParam DEF s, b
          <6>2. QED
            BY <3>2, <5>1, <6>1
        <5>7. z = [w EXCEPT !.going = FALSE,
                            !.found = [ok |-> TRUE,
                                       value |-> SubSeq(s, w.at + 5, w.at + 4 + p.len)]]
          BY <1>2, <1>7, <3>4, <4>2, <4>4 DEF ReadParam, z
        <5>8. ~z.going /\ z.found = [ok |-> TRUE, value |-> SubSeq(s, w.at + 5, w.at + 4 + p.len)]
          BY <5>7 DEF Reading
        <5>9. QED
          BY <5>4, <5>5, <5>6, <5>8
      <4>5. CASE ~(w.at + 4 + p.len > cut) /\ p.key # key
        <5>1. z = [w EXCEPT !.at = @ + 4 + p.len]
          BY <1>2, <1>7, <3>4, <4>2, <4>5 DEF ReadParam, z
        <5>2. z.going /\ z.found = NotThere /\ z.at = w.at + 4 + p.len
          BY <1>7, <2>1, <5>1 DEF Reading
        <5>3. z.at = Start(r, k + 1)
          BY <3>2, <5>2
        <5>4. z.at <= cut
          BY <1>2, <1>3, <3>2, <4>5, <5>2
        <5>5. z.at >= 3 + k /\ k <= m
          BY <1>3, <2>1, <2>5, <3>1, <3>2, <5>2
        <5>6. k \notin T
          BY <4>5 DEF T, Whole, p
        <5>7. \A i \in T : k < i
          <6> TAKE i \in T
          <6>1. k <= i /\ i # k /\ i \in 1..m
            BY <1>5, <2>2, <5>6
          <6>2. QED
            BY <1>1, <1>3, <6>1
        <5>8. QED
          BY <5>2, <5>3, <5>4, <5>5, <5>7
      <4>6. QED
        BY <4>3, <4>4, <4>5
    <3>5. QED
      BY <3>3, <3>4
  <2>6. QED
    BY <2>4, <2>5
<1>8. QED
  BY <1>3, <1>6, <1>7

\* From behind the name, the loop finds what is sought.
LEMMA ParamsRead ==
  ASSUME NEW r \in Records, NEW cut \in 0..Len(r.bytes), NEW key, NameEnd(r) <= cut
  PROVE  Params(SubSeq(r.bytes, 1, cut), NameEnd(r), key) = Sought(r, cut, key)
<1> DEFINE s == SubSeq(r.bytes, 1, cut)
           e == NameEnd(r)
<1>1. /\ r.bytes \in Seq(Nat) /\ Len(r.labels) >= 1 /\ Len(r.labels) \in Nat
      /\ r.labels[1] = 2 /\ e \in Nat /\ Start(r, 1) = e /\ Len(r.params) \in Nat
  BY RecordFacts
<1>2. s \in Seq(Nat) /\ Len(s) = cut /\ cut \in Nat
  BY <1>1, CutFacts
<1>3. e >= 3
  <2>1. 1 \in 1..Len(r.labels)
    BY <1>1
  <2>2. r.labels[1] < e
    BY <2>1, LabelsWithin
  <2>3. QED
    BY <1>1, <2>2
<1>4. PICK f : ParamRun(s, e, key, f)
  BY <1>1, <1>2, ParamSteps
<1>5. /\ f \in [0..cut -> Reading] /\ f[0] = ParamFirst(e)
      /\ \A i \in 1..cut : f[i] = ReadParam(s, key, f[i - 1])
      /\ Params(s, e, key) = f[cut].found
  BY <1>2, <1>4 DEF ParamRun
<1> DEFINE P == {k \in 0..cut : ReadUpTo(r, cut, key, k, f[k])}
<1>6. 0 \in P
  <2>1. f[0].going /\ f[0].found = NotThere /\ f[0].at = e
    BY <1>5 DEF ParamFirst
  <2>2. 0 <= Len(r.params) /\ e = Start(r, 0 + 1) /\ e <= cut /\ e >= 3 + 0
    BY <1>1, <1>3
  <2>3. \A i \in Whole(r, cut, key) : 0 < i
    BY <1>1 DEF Whole
  <2>4. ReadUpTo(r, cut, key, 0, f[0])
    BY <2>1, <2>2, <2>3 DEF ReadUpTo
  <2>5. QED
    BY <1>2, <2>4
<1>7. ASSUME NEW i \in 1..cut, i - 1 \in P PROVE i \in P
  <2>1. i \in 0..cut /\ i - 1 \in 0..cut
    BY <1>2
  <2>2. f[i - 1] \in Reading /\ f[i] = ReadParam(s, key, f[i - 1])
    BY <1>5, <2>1
  <2>3. ReadUpTo(r, cut, key, i - 1, f[i - 1])
    BY <1>7
  <2>4. ReadUpTo(r, cut, key, i, f[i])
    BY <2>2, <2>3, ReadOne
  <2>5. QED
    BY <2>1, <2>4
<1>8. cut \in P
  <2> HIDE DEF P
  <2>1. 0..cut \subseteq P
    BY <1>2, <1>6, <1>7, Induction
  <2>2. QED
    BY <1>2, <2>1
<1> DEFINE w == f[cut]
<1>9. w \in Reading
  <2>1. cut \in 0..cut
    BY <1>2
  <2>2. QED
    BY <1>5, <2>1
<1>10. ReadUpTo(r, cut, key, cut, w)
  BY <1>8
<1> HIDE DEF w
<1>11. ~w.going
  <2>1. w.at \in Nat /\ (w.going => w.at <= cut /\ w.at >= 3 + cut)
    BY <1>9, <1>10 DEF Reading, ReadUpTo
  <2>2. QED
    BY <1>2, <2>1
<1>12. QED
  BY <1>5, <1>10, <1>11 DEF ReadUpTo, w

\* At the end of the bytes nothing is found.
LEMMA NothingBehind ==
  ASSUME NEW s \in Seq(Nat), NEW key
  PROVE  Params(s, Len(s), key) = NotThere
<1> DEFINE n == Len(s)
<1>1. n \in Nat
  OBVIOUS
<1>2. PICK f : ParamRun(s, n, key, f)
  BY <1>1, ParamSteps
<1>3. /\ f \in [0..n -> Reading] /\ f[0] = ParamFirst(n)
      /\ \A i \in 1..n : f[i] = ReadParam(s, key, f[i - 1])
      /\ Params(s, n, key) = f[n].found
  BY <1>2 DEF ParamRun
<1> DEFINE P == {k \in 0..n : f[k].found = NotThere /\ (f[k].going => f[k].at = n)}
<1>4. 0 \in P
  BY <1>1, <1>3 DEF ParamFirst
<1>5. ASSUME NEW i \in 1..n, i - 1 \in P PROVE i \in P
  <2> DEFINE w == f[i - 1]
  <2>1. i \in 0..n /\ i - 1 \in 0..n
    BY <1>1
  <2>2. w \in Reading /\ f[i] = ReadParam(s, key, w)
    BY <1>3, <2>1
  <2>3. w.found = NotThere /\ (w.going => w.at = n)
    BY <1>5
  <2> HIDE DEF w
  <2>4. CASE ~w.going
    <3>1. f[i] = w
      BY <2>2, <2>4 DEF ReadParam
    <3>2. QED
      BY <2>1, <2>3, <3>1
  <2>5. CASE w.going
    <3>1. w.at + 4 > n
      BY <1>1, <2>3, <2>5
    <3>2. f[i] = [w EXCEPT !.going = FALSE]
      BY <2>2, <2>5, <3>1 DEF ReadParam
    <3>3. f[i].found = NotThere /\ ~f[i].going
      BY <2>2, <2>3, <3>2 DEF Reading
    <3>4. QED
      BY <2>1, <3>3
  <2>6. QED
    BY <2>4, <2>5
<1>6. n \in P
  <2> HIDE DEF P
  <2>1. 0..n \subseteq P
    BY <1>1, <1>4, <1>5, Induction
  <2>2. QED
    BY <1>1, <2>1
<1>7. QED
  BY <1>3, <1>6

\* svcParam finds, in a record cut anywhere, the first parameter of a key if it is
\* there whole, and nothing if none is.
LEMMA ParamWhole ==
  ASSUME NEW r \in Records, NEW cut \in 0..Len(r.bytes), NEW key
  PROVE  SvcParam(SubSeq(r.bytes, 1, cut), key) = Sought(r, cut, key)
<1> DEFINE s == SubSeq(r.bytes, 1, cut)
           e == NameEnd(r)
           w == SkipName(s)
<1>1. /\ r.bytes \in Seq(Nat) /\ Len(r.labels) >= 1 /\ Len(r.labels) \in Nat
      /\ r.labels[1] = 2 /\ e \in Nat /\ Start(r, 1) = e /\ Len(r.params) \in Nat
      /\ \A i \in 1..Len(r.params) :
           /\ ParamEnd(r.params[i]) \in Nat /\ Start(r, i + 1) = ParamEnd(r.params[i])
  BY RecordFacts
<1>2. s \in Seq(Nat) /\ Len(s) = cut /\ cut \in Nat
  BY <1>1, CutFacts
<1>3. e >= 3
  <2>1. 1 \in 1..Len(r.labels)
    BY <1>1
  <2>2. r.labels[1] < e
    BY <2>1, LabelsWithin
  <2>3. QED
    BY <1>1, <2>2
<1> HIDE DEF s, e
<1>4. CASE cut < e
  <2>1. SvcParam(s, key) = NotThere
    <3>1. CASE cut < 2
      BY <1>2, <3>1 DEF SvcParam
    <3>2. CASE ~(cut < 2)
      <4>1. w.ok => w.at = cut
        <5>1. cut >= 2
          BY <1>2, <3>2
        <5>2. \/ w.ok /\ w.at = e /\ e <= cut
              \/ cut < e /\ (w.ok => w.at = cut)
          BY <5>1, NameSkipped DEF s, e
        <5> HIDE DEF w
        <5>3. QED
          BY <1>1, <1>2, <1>4, <5>2
      <4>2. CASE ~w.ok
        BY <4>2 DEF SvcParam
      <4>3. CASE w.ok
        <5>1. Params(s, w.at, key) = NotThere
          BY <1>2, <4>1, <4>3, NothingBehind
        <5>2. QED
          BY <5>1 DEF SvcParam
      <4>4. QED
        BY <4>2, <4>3
    <3>3. QED
      BY <3>1, <3>2
  <2>2. Whole(r, cut, key) = {}
    <3>1. ASSUME NEW i \in Whole(r, cut, key) PROVE FALSE
      <4>1. i \in 1..Len(r.params) /\ ParamEnd(r.params[i]) <= cut
        BY DEF Whole
      <4>2. i + 1 \in 1..Len(r.params) + 1 /\ 1 \in 1..Len(r.params) + 1 /\ 1 <= i + 1
        BY <1>1, <4>1
      <4>3. Start(r, 1) <= Start(r, i + 1)
        BY <4>2, StartsGrow
      <4>4. e <= ParamEnd(r.params[i]) /\ ParamEnd(r.params[i]) \in Nat
        BY <1>1, <4>1, <4>3
      <4>5. QED
        BY <1>1, <1>2, <1>4, <4>1, <4>4
    <3>2. QED
      BY <3>1
  <2>3. QED
    BY <2>1, <2>2 DEF Sought, s
<1>5. CASE ~(cut < e)
  <2>1. e <= cut /\ cut >= 2 /\ ~(cut < 2)
    BY <1>1, <1>2, <1>3, <1>5
  <2>2. w.ok /\ w.at = e
    <3>1. \/ w.ok /\ w.at = e /\ e <= cut
          \/ cut < e /\ (w.ok => w.at = cut)
      BY <2>1, NameSkipped DEF s, e
    <3>2. QED
      BY <1>5, <3>1
  <2>3. Params(s, e, key) = Sought(r, cut, key)
    BY <2>1, ParamsRead DEF s, e
  <2>4. QED
    BY <1>2, <2>1, <2>2, <2>3 DEF SvcParam, s
<1>6. QED
  BY <1>4, <1>5

-----------------------------------------------------------------------------
(* The protocols of a parameter. *)

Looking == [going : BOOLEAN, at : Nat, h3 : BOOLEAN]

\* The name of HTTP/3 is listed: behind a length of two.
ListedAt(alpn, k) == SubSeq(alpn, k, k + 2) = <<2>> \o H3
Listed(alpn) == \E k \in 1..Len(alpn) : ListedAt(alpn, k)

\* The elements of a part.
LEMMA PartFacts ==
  ASSUME NEW s \in Seq(Nat), NEW x \in Nat, NEW y \in Nat, x >= 1, y <= Len(s)
  PROVE  LET u == SubSeq(s, x, y)
         IN /\ u \in Seq(Nat) /\ Len(u) = IF x <= y THEN y - x + 1 ELSE 0
            /\ \A i \in 1..y - x + 1 : u[i] = s[x + i - 1]
<1>1. \A i \in x..y : s[i] \in Nat
  <2> TAKE i \in x..y
  <2>1. i \in 1..Len(s)
    OBVIOUS
  <2>2. QED
    BY <2>1, ElementOfSeq
<1>2. x \in Int /\ y \in Int
  OBVIOUS
<1>3. QED
  BY <1>1, <1>2, SubSeqProperties

\* Three bytes of a list, taken together.
LEMMA ThreeBytes ==
  ASSUME NEW s \in Seq(Nat), NEW k \in Nat, k >= 1, k + 2 <= Len(s),
         s[k] = 2, s[k + 1] = 104, s[k + 2] = 51
  PROVE  ListedAt(s, k)
<1> DEFINE u == SubSeq(s, k, k + 2)
           h == <<2, 104, 51>>
<1>1. k + 2 \in Nat /\ k <= k + 2 /\ (k + 2) - k + 1 = 3
  OBVIOUS
<1>2. u \in Seq(Nat) /\ Len(u) = 3 /\ \A i \in 1..3 : u[i] = s[k + i - 1]
  BY <1>1, PartFacts
<1> HIDE DEF u
<1>3. u[1] = 2 /\ u[2] = 104 /\ u[3] = 51
  <2>1. /\ 1 \in 1..3 /\ 2 \in 1..3 /\ 3 \in 1..3
        /\ k + 1 - 1 = k /\ k + 2 - 1 = k + 1 /\ k + 3 - 1 = k + 2
    OBVIOUS
  <2>2. u[1] = s[k] /\ u[2] = s[k + 1] /\ u[3] = s[k + 2]
    BY <1>2, <2>1
  <2>3. QED
    BY <2>2
<1>4. h \in Seq(Nat) /\ Len(h) = 3 /\ h[1] = 2 /\ h[2] = 104 /\ h[3] = 51
  OBVIOUS
<1> HIDE DEF h
<1>5. \A i \in 1..Len(u) : u[i] = h[i]
  <2> TAKE i \in 1..Len(u)
  <2>1. i = 1 \/ i = 2 \/ i = 3
    BY <1>2
  <2>2. QED
    BY <1>3, <1>4, <2>1
<1>6. u = h
  BY <1>2, <1>4, <1>5, SeqEqual
<1>7. h = <<2>> \o H3
  BY DEF h, H3
<1>8. QED
  BY <1>6, <1>7 DEF u, ListedAt

IsH3(s, x, y) == SubSeq(s, x, y) = H3

\* A part that is "h3" has the length and the bytes of it.
LEMMA PartIsH3 ==
  ASSUME NEW s \in Seq(Nat), NEW x \in Nat, NEW y \in Nat, x >= 1, y <= Len(s),
         IsH3(s, x, y)
  PROVE  y = x + 1 /\ s[x] = 104 /\ s[x + 1] = 51
<1> DEFINE u == SubSeq(s, x, y)
<1>1. /\ Len(u) = IF x <= y THEN y - x + 1 ELSE 0
      /\ \A i \in 1..y - x + 1 : u[i] = s[x + i - 1]
  BY PartFacts
<1>2. u = H3
  BY DEF IsH3
<1> HIDE DEF u
<1>3. Len(u) = 2 /\ u[1] = 104 /\ u[2] = 51
  BY <1>2 DEF H3
<1>4. y = x + 1
  <2>1. 2 = IF x <= y THEN y - x + 1 ELSE 0
    BY <1>1, <1>3
  <2>2. QED
    BY <2>1
<1>5. 1 \in 1..y - x + 1 /\ 2 \in 1..y - x + 1 /\ x + 1 - 1 = x /\ x + 2 - 1 = x + 1
  BY <1>4
<1>6. u[1] = s[x] /\ u[2] = s[x + 1]
  BY <1>1, <1>5
<1>7. QED
  BY <1>3, <1>4, <1>6

\* A protocol that is "h3" is two bytes long.
LEMMA ProtocolIsH3 ==
  ASSUME NEW s \in Seq(Nat), NEW a \in Nat, NEW l \in Nat, a + 1 + l <= Len(s),
         IsH3(s, a + 2, a + 1 + l)
  PROVE  l = 2 /\ s[a + 2] = 104 /\ s[a + 3] = 51
<1>1. a + 2 \in Nat /\ a + 1 + l \in Nat /\ a + 2 >= 1 /\ (a + 2) + 1 = a + 3
  OBVIOUS
<1>2. a + 1 + l = (a + 2) + 1 /\ s[a + 2] = 104 /\ s[(a + 2) + 1] = 51
  BY <1>1, PartIsH3
<1>3. QED
  BY <1>1, <1>2

\* A turn of advertisesHTTP3 hands a state of the loop to the next.
LEMMA ProtocolType ==
  ASSUME NEW s \in Seq(Nat), NEW w \in Looking
  PROVE  NextProtocol(s, w) \in Looking
<1>1. w.going \in BOOLEAN /\ w.h3 \in BOOLEAN /\ w.at \in Nat /\ Len(s) \in Nat
  BY DEF Looking
<1>2. /\ [w EXCEPT !.going = FALSE] \in Looking
      /\ [w EXCEPT !.going = FALSE, !.h3 = TRUE] \in Looking
  BY DEF Looking
<1>3. ASSUME ~(w.at >= Len(s)) PROVE [w EXCEPT !.at = @ + 1 + s[w.at + 1]] \in Looking
  <2>1. w.at + 1 \in 1..Len(s)
    BY <1>1, <1>3
  <2>2. s[w.at + 1] \in Nat
    BY <2>1, ElementOfSeq
  <2>3. w.at + 1 + s[w.at + 1] \in Nat
    BY <1>1, <2>2
  <2>4. QED
    BY <2>3 DEF Looking
<1> HIDE DEF Looking
<1>4. QED
  BY <1>2, <1>3 DEF NextProtocol

\* Behind a length, "h3" is listed.
LEMMA FoundListed ==
  ASSUME NEW s \in Seq(Nat), NEW a \in Nat, ~(a >= Len(s)), ~(a + 1 + s[a + 1] > Len(s)),
         IsH3(s, a + 2, a + 1 + s[a + 1])
  PROVE  Listed(s)
<1>1. Len(s) \in Nat /\ a + 1 \in 1..Len(s) /\ a + 1 \in Nat /\ a + 1 >= 1
  OBVIOUS
<1>2. s[a + 1] \in Nat
  BY <1>1, ElementOfSeq
<1>3. \A l \in Nat : a + 1 + l <= Len(s) /\ IsH3(s, a + 2, a + 1 + l) =>
        l = 2 /\ s[a + 2] = 104 /\ s[a + 3] = 51
  BY ProtocolIsH3
<1>4. a + 1 + s[a + 1] <= Len(s)
  BY <1>1, <1>2
<1>5. s[a + 1] = 2 /\ s[a + 2] = 104 /\ s[a + 3] = 51
  BY <1>2, <1>3, <1>4
<1>6. (a + 1) + 1 = a + 2 /\ (a + 1) + 2 = a + 3 /\ (a + 1) + 2 <= Len(s)
  BY <1>1, <1>4, <1>5
<1>7. ListedAt(s, a + 1)
  BY <1>1, <1>5, <1>6, ThreeBytes
<1>8. QED
  BY <1>1, <1>7 DEF Listed

\* A turn that finds "h3" finds it listed.
LEMMA ProtocolOne ==
  ASSUME NEW s \in Seq(Nat), NEW w \in Looking, w.h3 => Listed(s)
  PROVE  NextProtocol(s, w).h3 => Listed(s)
<1> DEFINE l == s[w.at + 1]
<1>1. w.at \in Nat /\ w.h3 \in BOOLEAN /\ Len(s) \in Nat
  BY DEF Looking
<1>2. /\ [w EXCEPT !.going = FALSE].h3 = w.h3
      /\ \A x : [w EXCEPT !.at = x].h3 = w.h3
  BY DEF Looking
<1>3. CASE /\ ~(w.at >= Len(s)) /\ ~(w.at + 1 + l > Len(s))
           /\ IsH3(s, w.at + 2, w.at + 1 + l)
  BY <1>1, <1>3, FoundListed
<1>4. CASE ~(/\ ~(w.at >= Len(s)) /\ ~(w.at + 1 + l > Len(s))
             /\ IsH3(s, w.at + 2, w.at + 1 + l))
  <2>1. NextProtocol(s, w).h3 = w.h3
    BY <1>2, <1>4 DEF NextProtocol, IsH3
  <2>2. QED
    BY <2>1
<1>5. QED
  BY <1>3, <1>4

\* The loop of advertisesHTTP3, by the number of turns.
LookFirst == [going |-> TRUE, at |-> 0, h3 |-> FALSE]
LookRun(s, f) ==
  LET n == Len(s) + 1
  IN /\ f \in [0..n -> Looking] /\ f[0] = LookFirst
     /\ \A i \in 1..n : f[i] = NextProtocol(s, f[i - 1])
     /\ ListsH3(s) = f[n].h3

\* The loop of advertisesHTTP3 is its turns, one after the other.
LEMMA LookSteps ==
  ASSUME NEW s \in Seq(Nat)
  PROVE  \E f : LookRun(s, f)
<1> DEFINE n == Len(s) + 1
           S == Looking
           First == LookFirst
           Step(b, i) == NextProtocol(s, b)
           F == [z \in (1..n) \X S |-> Step(z[2], z[1])]
           Fits(g) == g = [i \in 0..n |-> IF i = 0 THEN First ELSE Step(g[i - 1], i)]
           after == CHOOSE g : Fits(g)
<1>1. ListsH3(s) = after[n].h3
  BY DEF ListsH3, LookFirst
<1>2. n \in Nat
  OBVIOUS
<1>3. First \in S
  BY DEF LookFirst, Looking
<1>4. ASSUME NEW i \in 1..n, NEW b \in S PROVE Step(b, i) \in S
  BY ProtocolType
<1> HIDE DEF n, S, Step, First
<1>5. IsStep(F, n, S)
  BY <1>4 DEF IsStep
<1>6. ASSUME NEW i \in 1..n, NEW b \in S PROVE F[<<i, b>>] = Step(b, i)
  OBVIOUS
<1> HIDE DEF F
<1>7. PICK f : Unfolds(f, F, n, S, First)
  BY <1>2, <1>3, <1>5, Recursion
<1>8. f \in [0..n -> S] /\ f[0] = First /\ \A i \in 1..n : f[i] = F[<<i, f[i - 1]>>]
  BY <1>7 DEF Unfolds
<1>9. ASSUME NEW i \in 1..n PROVE f[i] = Step(f[i - 1], i)
  <2>1. i - 1 \in 0..n
    BY <1>2
  <2>2. f[i - 1] \in S
    BY <1>8, <2>1
  <2>3. f[i] = F[<<i, f[i - 1]>>]
    BY <1>8
  <2>4. F[<<i, f[i - 1]>>] = Step(f[i - 1], i)
    BY <1>6, <2>2
  <2>5. QED
    BY <2>3, <2>4
<1>10. Fits(f)
  BY <1>2, <1>8, <1>9
<1>11. Fits(after)
  BY <1>10
<1> HIDE DEF after
<1>12. after[0] = First /\ after = [i \in 0..n |-> after[i]]
  BY <1>2, <1>11
<1>13. ASSUME NEW i \in 1..n PROVE after[i] = Step(after[i - 1], i)
  <2>1. i \in 0..n /\ i # 0
    BY <1>2
  <2>2. QED
    BY <1>11, <2>1
<1> HIDE DEF Fits
<1>14. Unfolds(after, F, n, S, after[0])
  <2>1. \A i \in 1..n : after[i - 1] \in S => after[i] = F[<<i, after[i - 1]>>]
    BY <1>6, <1>13
  <2>2. QED
    BY <1>2, <1>3, <1>5, <1>12, <2>1, Unfolded
<1>15. after \in [0..n -> S]
  BY <1>14 DEF Unfolds
<1>16. LookRun(s, after)
  BY <1>1, <1>12, <1>13, <1>15 DEF LookRun, n, S, Step, First
<1>17. QED
  BY <1>16

\* "h3" is found only where it is listed.
LEMMA OnlyListed ==
  ASSUME NEW s \in Seq(Nat), ListsH3(s)
  PROVE  Listed(s)
<1> DEFINE n == Len(s) + 1
<1>1. n \in Nat
  OBVIOUS
<1>2. PICK f : LookRun(s, f)
  BY LookSteps
<1>3. /\ f \in [0..n -> Looking] /\ f[0] = LookFirst
      /\ \A i \in 1..n : f[i] = NextProtocol(s, f[i - 1])
      /\ ListsH3(s) = f[n].h3
  BY <1>2 DEF LookRun
<1> HIDE DEF n
<1> DEFINE P == {k \in 0..n : f[k].h3 => Listed(s)}
<1>4. 0 \in P
  BY <1>1, <1>3 DEF LookFirst
<1>5. ASSUME NEW i \in 1..n, i - 1 \in P PROVE i \in P
  <2>1. i \in 0..n /\ i - 1 \in 0..n
    BY <1>1
  <2>2. f[i - 1] \in Looking /\ f[i] = NextProtocol(s, f[i - 1])
    BY <1>3, <2>1
  <2>3. f[i - 1].h3 => Listed(s)
    BY <1>5
  <2>4. f[i].h3 => Listed(s)
    BY <2>2, <2>3, ProtocolOne
  <2>5. QED
    BY <2>1, <2>4
<1>6. n \in P
  <2> HIDE DEF P
  <2>1. 0..n \subseteq P
    BY <1>1, <1>4, <1>5, Induction
  <2>2. QED
    BY <1>1, <2>1
<1>7. QED
  BY <1>3, <1>6

\* What is sought is a parameter's value.
LEMMA SoughtIs ==
  ASSUME NEW r \in Records, NEW cut \in 0..Len(r.bytes), NEW key
  PROVE  /\ Sought(r, cut, key).ok <=> Whole(r, cut, key) # {}
         /\ Sought(r, cut, key).ok =>
              /\ Sought(r, cut, key).value = ValueOf(r, Min(Whole(r, cut, key)))
              /\ Min(Whole(r, cut, key)) \in Whole(r, cut, key)
<1> DEFINE T == Whole(r, cut, key)
<1>1. CASE T = {}
  BY <1>1 DEF Sought, NotThere
<1>2. CASE T # {}
  <2>1. T \subseteq Nat
    <3>1. Len(r.params) \in Nat
      BY RecordFacts
    <3>2. QED
      BY <3>1 DEF Whole
  <2>2. Min(T) \in T
    BY <1>2, <2>1, Lowest
  <2>3. Sought(r, cut, key) = [ok |-> TRUE, value |-> ValueOf(r, Min(T))]
    BY <1>2 DEF Sought
  <2>4. QED
    BY <1>2, <2>2, <2>3
<1>3. QED
  BY <1>1, <1>2

\* The value of a parameter that a cut leaves whole is a sequence of bytes.
LEMMA ValueType ==
  ASSUME NEW r \in Records, NEW cut \in 0..Len(r.bytes), NEW key,
         NEW i \in Whole(r, cut, key)
  PROVE  ValueOf(r, i) \in Seq(Nat)
<1>1. i \in 1..Len(r.params) /\ ParamEnd(r.params[i]) <= cut
  BY DEF Whole
<1>2. /\ r.bytes \in Seq(Nat) /\ r.params[i].at \in Nat
      /\ ParamEnd(r.params[i]) \in Nat
  BY <1>1, RecordFacts
<1>3. r.params[i].at + 5 \in Nat /\ r.params[i].at + 5 >= 1
  BY <1>2
<1>4. QED
  BY <1>1, <1>2, <1>3, Spared DEF ValueOf

\* Whole parameters only, wherever a record is cut.
LEMMA RecordsWhole == WholeParamsOnly
<1> SUFFICES ASSUME NEW r \in Records, NEW cut \in 0..Len(r.bytes), NEW key \in {1, 5}
             PROVE  LET there == Whole(r, cut, key)
                        rdata == SubSeq(r.bytes, 1, cut)
                        param == SvcParam(rdata, key)
                    IN /\ param.ok <=> there # {}
                       /\ param.ok => param.value = ValueOf(r, Min(there))
                       /\ AdvertisesHTTP3(rdata) =>
                            \E i \in 1..Len(r.params) :
                              r.params[i].key = 1 /\ Listed(ValueOf(r, i))
  BY DEF WholeParamsOnly, Whole, ValueOf, Listed, ListedAt
<1> DEFINE rdata == SubSeq(r.bytes, 1, cut)
<1>1. SvcParam(rdata, key) = Sought(r, cut, key)
  BY ParamWhole
<1>2. /\ Sought(r, cut, key).ok <=> Whole(r, cut, key) # {}
      /\ Sought(r, cut, key).ok =>
           Sought(r, cut, key).value = ValueOf(r, Min(Whole(r, cut, key)))
  BY SoughtIs
<1>3. ASSUME AdvertisesHTTP3(rdata)
      PROVE  \E i \in 1..Len(r.params) : r.params[i].key = 1 /\ Listed(ValueOf(r, i))
  <2>1. SvcParam(rdata, 1) = Sought(r, cut, 1)
    BY ParamWhole
  <2> DEFINE i == Min(Whole(r, cut, 1))
  <2>2. Sought(r, cut, 1).ok /\ ListsH3(Sought(r, cut, 1).value)
    BY <1>3, <2>1 DEF AdvertisesHTTP3
  <2>3. Sought(r, cut, 1).value = ValueOf(r, i) /\ i \in Whole(r, cut, 1)
    BY <2>2, SoughtIs
  <2> HIDE DEF i
  <2>4. ValueOf(r, i) \in Seq(Nat)
    BY <2>3, ValueType
  <2>5. Listed(ValueOf(r, i))
    BY <2>2, <2>3, <2>4, OnlyListed
  <2>6. i \in 1..Len(r.params) /\ r.params[i].key = 1
    BY <2>3 DEF Whole
  <2>7. QED
    BY <2>5, <2>6
<1> HIDE DEF rdata
<1>4. QED
  BY <1>1, <1>2, <1>3 DEF rdata

\* For replies of any number to a query and records of any length, cut anywhere, a
\* forgery is concluded exactly if two replies in time differ, and a parameter is
\* found exactly if it is there whole (dnsDuplicateResponse, svcParam,
\* advertisesHTTP3).
THEOREM AnswersAreRead == Spec => []AnswersRead
<1>1. AnswersRead
  BY ForgeriesToldApart, RecordsWhole DEF AnswersRead
<1>2. QED
  BY <1>1, PTL
=============================================================================
