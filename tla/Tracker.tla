------------------------------ MODULE Tracker ------------------------------
(***************************************************************************)
(* The live board (internal/live/tracker.go): one flow record per domain,  *)
(* fed by the passive tap and by the results of active diagnoses.  Every   *)
(* method holds the tracker's mutex from its first to its last statement,  *)
(* so each is one atomic step.  The module has no specification of its     *)
(* own: Tap and Escalator drive it.                                        *)
(*                                                                         *)
(* Domains are numbers because PendingAnalysis sorts them.  Wall-clock     *)
(* times are abstracted to what is asked of them: "due" says that the      *)
(* flow's AnalyzedAt is at least Reanalyze in the past.                    *)
(***************************************************************************)
EXTENDS Naturals, Verdict

CONSTANTS Domains,   \* the domain names that can appear
          NoDomain   \* the empty string of the code

ASSUME DomainsAssumption == Domains \subseteq Nat /\ NoDomain \notin Domains

VARIABLE flows       \* the map from a seen domain to its Flow

Flow == [hits : Nat, resets : Nat, handshake : BOOLEAN,
         certChecked : BOOLEAN, certUntrusted : BOOLEAN,
         dnsInjected : BOOLEAN,
         analyzed : BOOLEAN, due : BOOLEAN, deepType : Types,
         action : Actions, enforced : BOOLEAN]

\* The zero Flow a first event creates.  The zero value of DeepType is the
\* empty string, which reads as no conclusion: it stands as INCONCLUSIVE and
\* is looked at only in flows that are analyzed.
NewFlow == [hits |-> 0, resets |-> 0, handshake |-> FALSE,
            certChecked |-> FALSE, certUntrusted |-> FALSE,
            dnsInjected |-> FALSE,
            analyzed |-> FALSE, due |-> FALSE, deepType |-> "INCONCLUSIVE",
            action |-> "none", enforced |-> FALSE]

\* What the tap can report: bad is the Untrusted flag of a Cert event and the
\* Suspicious flag of a DNS event.
Event == [kind : {"client_hello", "server_hello", "reset", "cert", "dns"},
          domain : Domains \cup {NoDomain}, bad : BOOLEAN]

Put(d, f) == [x \in DOMAIN flows \cup {d} |-> IF x = d THEN f ELSE flows[x]]

\* How one event changes the record of its domain.
Folded(f, e) ==
  CASE e.kind = "client_hello" -> [f EXCEPT !.hits = @ + 1]
    [] e.kind = "server_hello" -> [f EXCEPT !.handshake = TRUE]
    [] e.kind = "reset"        -> [f EXCEPT !.resets = @ + 1]
    [] e.kind = "cert"         -> [f EXCEPT !.certChecked = TRUE,
                                            !.certUntrusted = e.bad]
    [] e.kind = "dns"          -> [f EXCEPT !.dnsInjected = @ \/ e.bad]

Seen(d) == IF d \in DOMAIN flows THEN flows[d] ELSE NewFlow

Observe(e) ==
  flows' = IF e.domain = NoDomain THEN flows
           ELSE Put(e.domain, Folded(Seen(e.domain), e))

\* Flow.Nature: the verdict once there is one, else the passive guess.
Nature(f) ==
  IF f.analyzed THEN NatureOf(f.deepType)
  ELSE IF f.certUntrusted THEN "surveillance"
  ELSE IF f.dnsInjected \/ (f.resets > 0 /\ ~f.handshake) THEN "control"
  ELSE IF f.handshake THEN "none"
  ELSE "unknown"

\* A verdict for a domain the board does not hold is dropped.
SetVerdict(d, t) ==
  flows' = IF d \notin DOMAIN flows THEN flows
           ELSE [flows EXCEPT ![d].analyzed = TRUE,
                              ![d].due = FALSE,
                              ![d].deepType = t,
                              ![d].action = Recommend(t)]

SetEnforced(d) ==
  flows' = IF d \notin DOMAIN flows THEN flows
           ELSE [flows EXCEPT ![d].enforced = TRUE]

HasOutcome(f) == f.handshake \/ f.resets > 0 \/ f.dnsInjected

\* Mutant of NeedsAnalysis: a verdict is trusted for ever.
NeedsFirstAnalysis(f) == HasOutcome(f) /\ ~f.analyzed

NeedsAnalysis(f) == HasOutcome(f) /\ (~f.analyzed \/ f.due)

\* The domains a sweep is told to diagnose.
PendingAnalysis == {d \in DOMAIN flows : NeedsAnalysis(flows[d])}

\* The clock: Reanalyze has passed since the domain's verdict was recorded.
Age(d) ==
  /\ d \in DOMAIN flows
  /\ flows[d].analyzed /\ ~flows[d].due
  /\ flows' = [flows EXCEPT ![d].due = TRUE]

TrackerInit == flows = [d \in {} |-> NewFlow]

TrackerTypeOK ==
  /\ DOMAIN flows \subseteq Domains
  /\ flows \in [DOMAIN flows -> Flow]
=============================================================================
