---------------------------- MODULE OverrideFile ----------------------------
(***************************************************************************)
(* What the enforcer promises of the managed hosts file, without writers,  *)
(* locks or temporary files: overrides are accepted one at a time, and the *)
(* file is the whole of what had been accepted when it was last replaced.  *)
(* A restart forgets what was accepted and keeps the file.                 *)
(*                                                                         *)
(* The code does not keep the promise unconditionally.  An acceptance may  *)
(* disturb the replacement of another; from then on a reader may find      *)
(* anything, until a replacement that nothing disturbs restores the file,  *)
(* complete and up to date.                                                *)
(***************************************************************************)
CONSTANTS Names,  \* domains that can be overridden
          IPs,    \* addresses they can be mapped to
          NoIP,   \* stands for the absence of an override
          Broken  \* what a reader finds in a file that is not whole

VARIABLES accepted,  \* the overrides accepted since the last restart
          content,   \* the overrides a reader of the file finds
          calm       \* nothing has disturbed the file since it was whole

Table == [Names -> IPs \cup {NoIP}]
NoOverrides == [d \in Names |-> NoIP]

Init == accepted = NoOverrides /\ content = NoOverrides /\ calm = TRUE

Accept(d, ip) ==
  /\ accepted' = [accepted EXCEPT ![d] = ip]
  /\ calm' \in {calm, FALSE}
  /\ UNCHANGED content

Replace == content' = accepted /\ calm' = TRUE /\ UNCHANGED accepted

Disturbed ==
  /\ ~calm
  /\ content' \in Table \cup Broken
  /\ UNCHANGED <<accepted, calm>>

Restart == accepted' = NoOverrides /\ UNCHANGED <<content, calm>>

Next ==
  \/ \E d \in Names, ip \in IPs : Accept(d, ip)
  \/ Replace
  \/ Disturbed
  \/ Restart

Spec == Init /\ [][Next]_<<accepted, content, calm>>
=============================================================================
