----------------------------- MODULE FrontEnds -----------------------------
(***************************************************************************)
(* What the front ends make of a diagnosis: the HTML report                *)
(* (internal/report), the OONI record (internal/evidence/ooni.go) and the  *)
(* browser extension's popup each have a table of their own of what counts *)
(* as interference; and beside the record stands the signed bundle.        *)
(***************************************************************************)
EXTENDS Engine, Extension, Evidence

-----------------------------------------------------------------------------
(* Tables. *)

\* report.HTML: what gets the colour of a block.
ReportBlocked(t) == t \notin {"OK", "INCONCLUSIVE"}

NoBlocking == "false"

\* Mutant of OONIBlocking: whatever has no label of its own is taken for TLS.
OONIBlockingByDefault(t) ==
  CASE t = "OK" -> NoBlocking
    [] t = "DNS_TAMPERING" -> "dns"
    [] t \in {"IP_BLOCKING", "RST_INJECTION"} -> "tcp_ip"
    [] t = "BLOCK_PAGE" -> "http-diff"
    [] t = "THROTTLING" -> "throttling"
    [] OTHER -> "tls"

OONIBlocking(t) ==
  CASE t = "DNS_TAMPERING" -> "dns"
    [] t \in {"IP_BLOCKING", "RST_INJECTION"} -> "tcp_ip"
    [] t \in {"SNI_FILTERING", "TLS_MITM", "TLS_DOWNGRADE"} -> "tls"
    [] t = "BLOCK_PAGE" -> "http-diff"
    [] t = "THROTTLING" -> "throttling"
    [] OTHER -> NoBlocking

Accessible(t) == t = "OK"

\* BAD_TYPES of the popup.
BadInPopup(t) ==
  t \in {"DNS_TAMPERING", "SNI_FILTERING", "RST_INJECTION", "IP_BLOCKING",
         "TLS_MITM", "BLOCK_PAGE", "THROTTLING"}

-----------------------------------------------------------------------------
(* Properties. *)

\* Types that ooniBlocking has no label for, and those that BAD_TYPES lacks.
Unlabelled == {"ECH_BLOCKING", "QUIC_BLOCKING", "DOH_BLOCKING"}
Unlisted == Unlabelled \cup {"TLS_DOWNGRADE"}

\* The three tables, kept by hand in two languages beside the list of types,
\* against what the probes reported, and exactly: the record has a label, and the
\* popup a warning, if and only if a probe reported the type concluded and the
\* table has it; the report colours all that was reported and, besides, a dead
\* local network; a site is accessible if and only if nothing was reported, the
\* baseline answered and the target was reached.
FlagsFollowFindings ==
  pc = "done" =>
    /\ OONIBlocking(v.type) # NoBlocking <=> v.type \in found \ Unlabelled
    /\ BadInPopup(v.type) <=> v.type \in found \ Unlisted
    /\ ReportBlocked(v.type) <=> v.type \in found \/ ~control
    /\ Accessible(v.type) <=> found = {} /\ control /\ ~silent

\* "false when no interference, otherwise a short mechanism label" (ooni.go:45):
\* a record without a label stands for a diagnosis that concluded none.  It does
\* not hold of the types that are Unlabelled.
UnlabelledMeansNone ==
  pc = "done" /\ OONIBlocking(v.type) = NoBlocking => v.type \notin found

\* "any interference concluded" (report.go:19): what the report colours as a
\* block is something that a probe reported.  It does not hold of a dead local
\* network.
ColouredIsInterference == pc = "done" /\ ReportBlocked(v.type) => v.type \in found

\* However frames, tabs and errors follow one another, a badge stands for the
\* last navigation of its tab; wherever its pipe closes, the native host answers
\* the messages that came whole.  Looked at in the initial states, for neither
\* depends on a diagnosis.
ExtensionTells == Init => BadgeTells /\ HostAnswers

\* A bundle holds through any reformatting, with lumra and the worker alike,
\* and through nothing else; looked at in the initial states, too.
BundlesVerify == Init => BundlesHold
=============================================================================
