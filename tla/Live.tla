-------------------------------- MODULE Live --------------------------------
(***************************************************************************)
(* Live mode with automatic enforcement (cmd/lumra/main.go, runLive): the  *)
(* escalator's goroutines call one enforcer, and a renderer reads the      *)
(* board.  A goroutine that stands at its call of Enforce steps through    *)
(* the enforcer's statements; the other goroutines, the tap and the clock  *)
(* go on meanwhile.  runLive returns when its context is done or its tap   *)
(* fails, without waiting for the escalator, and the process may be killed *)
(* at any moment: both end it between two steps of its goroutines, and the *)
(* user starts it again beside the file it left.                           *)
(***************************************************************************)
EXTENDS Escalator, Board

CONSTANTS IPs, NoIP, Inodes, NoFile, Empty, Torn,
          MaxCalls     \* bound: calls of the enforcer that get an address

ASSUME LiveAssumption ==
  /\ NoIP \notin IPs /\ NoFile \notin Inodes /\ Empty # Torn
  /\ MaxCalls \in Nat

VARIABLES
  at,          \* where each goroutine is inside Enforce
  host,        \* the domain of its call
  overrides, hosts, tmp, disk, snapshot, fd, applied, solo, apart, calls

File == INSTANCE Enforcer WITH Names <- Domains, NoName <- NoDomain,
                               Writers <- Goroutines, pc <- at, dom <- host

fileVars == <<at, host, overrides, hosts, tmp, disk, snapshot, fd, applied,
              solo, apart, calls>>
liveVars == <<vars, fileVars>>

LiveInit == Init /\ File!Init

-----------------------------------------------------------------------------
Calls(g) == pc[g] = "enforce" /\ Recommend(val[g].type) = "use-DoH"

\* Enforce returns at once: no lever of its own, or (the bound) no address.
Advisory(g) ==
  /\ ~Calls(g) \/ (at[g] = "idle" /\ calls = MaxCalls)
  /\ NotEnforced(g)
  /\ UNCHANGED fileVars

Enter(g) ==
  /\ Calls(g)
  /\ File!Call(g, dom[g], val[g].type)
  /\ UNCHANGED vars

\* Inside Enforce, up to the rename.
Inside(g) ==
  /\ \/ \E ip \in IPs : File!Update(g, ip)
     \/ File!Open(g)
     \/ File!Write(g)
  /\ UNCHANGED vars

\* Mutant of Fails: a failed write is reported as applied.
FailsUnchecked(g) ==
  /\ \/ File!ResolveFails(g) /\ NotEnforced(g)
     \/ File!WriteFails(g) /\ Enforced(g)

\* Enforce returns ok = false.
Fails(g) == (File!ResolveFails(g) \/ File!WriteFails(g)) /\ NotEnforced(g)

\* Enforce returns ok = true; analyze goes on to mark the row.
Succeeds(g) == File!Rename(g) /\ Enforced(g)

\* The other steps of a goroutine, none of which touches the file.
Elsewhere(g) ==
  /\ \/ Acquire(g) \/ GiveUp(g) \/ Diagnose(g) \/ Record(g) \/ Mark(g)
     \/ Release(g) \/ Delete(g) \/ WgDone(g)
  /\ UNCHANGED fileVars

\* The end of the process and a new start: the board, Run, its goroutines and
\* the enforcer's map begin anew; the files and the network are as they were.
Restart ==
  /\ File!Restart
  /\ flows' = [d \in {} |-> NewFlow]
  /\ runPc' = "select" /\ tick' = FALSE /\ todo' = {} /\ cancelled' = FALSE
  /\ inFlight' = {} /\ sem' = 0 /\ wg' = 0
  /\ pc' = [g \in Goroutines |-> "idle"]
  /\ dom' = [g \in Goroutines |-> NoDomain]
  /\ val' = [g \in Goroutines |-> [type |-> NilVerdict, epoch |-> 0]]
  /\ recorded' = [d \in Domains |-> 0]
  /\ UNCHANGED answer

LiveNext ==
  \/ (Run \/ SeeCancel \/ Environment \/ Finished) /\ UNCHANGED fileVars
  \/ \E g \in Goroutines :
       \/ Elsewhere(g) \/ Advisory(g) \/ Enter(g) \/ Inside(g)
       \/ Fails(g) \/ Succeeds(g)
  \/ Restart

LiveSpec == LiveInit /\ [][LiveNext]_liveVars

-----------------------------------------------------------------------------
(* Properties. *)

\* The types of both parts; a goroutine inside Enforce is called for its own
\* domain and has not left analyze.
LiveTypeOK ==
  /\ TypeOK
  /\ File!TypeOK
  /\ \A g \in Goroutines : at[g] # "idle" => Calls(g) /\ host[g] = dom[g]

\* A row that shows "applied" (render.go:118) is true of the managed file: a
\* reader finds a whole file with an override for the domain, from the moment
\* the row is marked, through later failures, later writes for any domain and
\* later verdicts of another kind.  Writings that overlap may take it away
\* (README, section 6), and the next that none overlaps brings it back.
AppliedRowInFile ==
  apart => \A d \in DOMAIN flows :
             Rows[d].applied => File!Content \in File!Table
                                /\ File!Content[d] # NoIP

\* Enforcer does not keep calls for one domain apart; were there two, the older
\* address could be written last.  The escalator's inFlight map keeps them
\* apart: no two goroutines are ever at Enforce for the same domain.
CallsApart ==
  \A g, h \in Goroutines :
    Calls(g) /\ at[h] # "idle" /\ host[h] = dom[g] => g = h

\* Live mode keeps the promise of OverrideFile with any number of domains and
\* slots.
FilePromise == File!Implements
=============================================================================
