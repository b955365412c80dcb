------------------------------- MODULE Board -------------------------------
(***************************************************************************)
(* The rows of the live board (internal/live/render.go): what a user reads *)
(* off one flow.  RenderBoard and Rows show the same; wording, glyphs and  *)
(* columns are left out.                                                   *)
(***************************************************************************)
EXTENDS Tracker

Statuses == {"clean", "verdict", "watched", "redirected", "blocked",
             "clean_cert", "handshake", "waiting"}

\* statusNote: the verdict once there is one, else what the tap has seen.
StatusNote(f) ==
  CASE f.analyzed -> IF Nature(f) = "none" THEN "clean" ELSE "verdict"
    [] ~f.analyzed /\ Nature(f) = "surveillance" -> "watched"
    [] ~f.analyzed /\ Nature(f) = "control" ->
         IF f.dnsInjected THEN "redirected" ELSE "blocked"
    [] ~f.analyzed /\ Nature(f) = "none" ->
         IF f.certChecked THEN "clean_cert" ELSE "handshake"
    [] OTHER -> "waiting"

\* The lines below a row: only of an analyzed flow that is not clean.
DrillDown(f) == f.analyzed /\ Nature(f) # "none"

Row(f) == [nature  |-> Nature(f),
           status  |-> StatusNote(f),
           action  |-> IF DrillDown(f) THEN f.action ELSE "none",
           applied |-> DrillDown(f) /\ f.enforced]

\* Rows, by domain; the order of rows is left out.
Rows == [d \in DOMAIN flows |-> Row(flows[d])]

\* whoLine: who a row names for a verdict's type, attribution and authority.
WhoLine(t, attribution, named) ==
  CASE t = "GENUINE_OUTAGE" -> "no_one"
    [] t # "GENUINE_OUTAGE" /\ named -> "operator"
    [] t # "GENUINE_OUTAGE" /\ ~named
         /\ attribution \in {"in_network", "destination", "local"} -> attribution
    [] OTHER -> "unsaid"
=============================================================================
