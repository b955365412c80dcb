------------------------------ MODULE Verdict ------------------------------
(***************************************************************************)
(* The result model every part of lumra shares (internal/verdict) and the  *)
(* protective policy derived from it (internal/live/policy.go).  A verdict *)
(* is abstracted to the fields some decision reads; its wording is left    *)
(* out.                                                                    *)
(***************************************************************************)

\* What a diagnosis can conclude.
Types == {"OK", "DNS_TAMPERING", "SNI_FILTERING", "RST_INJECTION",
          "IP_BLOCKING", "TLS_MITM", "TLS_DOWNGRADE", "ECH_BLOCKING",
          "DOH_BLOCKING", "BLOCK_PAGE", "QUIC_BLOCKING", "THROTTLING",
          "LOCAL_ISSUE", "GENUINE_OUTAGE", "INCONCLUSIVE"}

\* The character of an interference, as a user reads it off the board.
Natures == {"none", "control", "surveillance", "degradation", "fault",
            "unknown"}

Attributions == {"", "in_network", "destination", "local", "self_identified"}

\* The nature is a function of the type; it is never measured.
NatureOf(t) ==
  CASE t = "OK" -> "none"
    [] t \in {"DNS_TAMPERING", "SNI_FILTERING", "RST_INJECTION",
              "IP_BLOCKING", "BLOCK_PAGE", "DOH_BLOCKING"} -> "control"
    [] t \in {"TLS_MITM", "TLS_DOWNGRADE", "ECH_BLOCKING"} -> "surveillance"
    [] t \in {"THROTTLING", "QUIC_BLOCKING"} -> "degradation"
    [] t \in {"LOCAL_ISSUE", "GENUINE_OUTAGE"} -> "fault"
    [] OTHER -> "unknown"

Actions == {"none", "use-DoH", "require-TLS1.3", "caution", "blocked"}

\* The lever lumra picks for a verdict on its own.
Recommend(t) ==
  CASE t = "DNS_TAMPERING" -> "use-DoH"
    [] t \in {"SNI_FILTERING", "TLS_DOWNGRADE"} -> "require-TLS1.3"
    [] t = "TLS_MITM" -> "caution"
    [] t \in {"RST_INJECTION", "IP_BLOCKING", "BLOCK_PAGE"} -> "blocked"
    [] OTHER -> "none"
=============================================================================
