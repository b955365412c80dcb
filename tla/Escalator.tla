----------------------------- MODULE Escalator -----------------------------
(***************************************************************************)
(* The automatic escalation loop (internal/live/escalate.go) over the live *)
(* board.  Run sweeps the board on a ticker and starts one goroutine per   *)
(* pending domain; a goroutine takes a slot of a counting semaphore,       *)
(* diagnoses, records the verdict, applies the lever, and leaves through   *)
(* its deferred calls.  The tap feeds the board and the context may be     *)
(* cancelled at any moment.                                                *)
(*                                                                         *)
(* The Diagnoser and the Enforcer are parameters of the code: answer is    *)
(* what a diagnosis finishing now would report, which the network may      *)
(* change; whether an enforcement succeeds is free.                        *)
(***************************************************************************)
EXTENDS Tracker, FiniteSets

CONSTANTS Goroutines,    \* identities for the goroutines Run starts
          Concurrency,   \* slots of the semaphore
          HasEnforcer,   \* whether Escalator.Enforcer is set
          TapEvents,     \* the events the tap may report
          Answers,       \* the types diagnoses report
          NilVerdict,    \* the nil a Diagnoser may return
          MaxCount,      \* bound: hits and resets of a flow
          MaxChanges     \* bound: how often the answer for a domain changes

ASSUME EscalatorAssumption ==
  /\ Concurrency \in Nat \ {0}
  /\ HasEnforcer \in BOOLEAN
  /\ TapEvents \subseteq Event
  /\ NilVerdict \notin Types
  /\ Answers \subseteq Types \cup {NilVerdict}
  /\ Answers # {}
  /\ MaxCount \in Nat
  /\ MaxChanges \in Nat

VARIABLES
  runPc,      \* where Run is: its select, its loop over todo, wg.Wait, gone
  tick,       \* the ticker's channel holds a tick
  todo,       \* the domains PendingAnalysis returned that are still to visit
  cancelled,  \* ctx is done
  inFlight,   \* the sync.Map
  sem,        \* occupied slots of the semaphore
  wg,         \* the WaitGroup's counter
  pc,         \* the statement a goroutine is about to execute
  dom,        \* the domain of a goroutine
  val,        \* the verdict a goroutine holds
  answer,     \* what a diagnosis of a domain would report, and its age
  recorded    \* history: the epoch of the answer last written to the board

runVars == <<runPc, tick, todo, cancelled>>
poolVars == <<inFlight, sem, wg, pc, dom, val>>
vars == <<flows, runVars, poolVars, answer, recorded>>

Answer == [type : Types \cup {NilVerdict}, epoch : Nat]

\* A goroutine owns its domain from its start until it has deleted the
\* inFlight entry, and a slot from Acquire to Release.
Holding == {"diagnose", "record", "enforce", "mark", "release"}
Owning  == Holding \cup {"acquire", "delete"}
PCs     == Owning \cup {"idle", "done"}

Init ==
  /\ TrackerInit
  /\ runPc = "select" /\ tick = FALSE /\ todo = {} /\ cancelled = FALSE
  /\ inFlight = {} /\ sem = 0 /\ wg = 0
  /\ pc = [g \in Goroutines |-> "idle"]
  /\ dom = [g \in Goroutines |-> NoDomain]
  /\ answer \in [Domains -> {[type |-> t, epoch |-> 0] : t \in Answers}]
  /\ val = [g \in Goroutines |-> [type |-> NilVerdict, epoch |-> 0]]
  /\ recorded = [d \in Domains |-> 0]

-----------------------------------------------------------------------------
(* The environment: tap, clock, network, user. *)

TapObserve(e) ==
  /\ Seen(e.domain).hits < MaxCount \/ e.kind # "client_hello"
  /\ Seen(e.domain).resets < MaxCount \/ e.kind # "reset"
  /\ Observe(e)
  /\ UNCHANGED <<runVars, poolVars, answer, recorded>>

Elapse(d) ==
  /\ Age(d)
  /\ UNCHANGED <<runVars, poolVars, answer, recorded>>

\* The ticker's channel has room for one tick; a tick nobody took is dropped.
Tick ==
  /\ ~tick /\ runPc # "returned"
  /\ tick' = TRUE
  /\ UNCHANGED <<flows, runPc, todo, cancelled, poolVars, answer, recorded>>

Cancel ==
  /\ ~cancelled
  /\ cancelled' = TRUE
  /\ UNCHANGED <<flows, runPc, tick, todo, poolVars, answer, recorded>>

NetworkChange(d) ==
  /\ answer[d].epoch < MaxChanges
  /\ \E t \in Answers :
       answer' = [answer EXCEPT ![d] = [type |-> t, epoch |-> @.epoch + 1]]
  /\ UNCHANGED <<flows, runVars, poolVars, recorded>>

-----------------------------------------------------------------------------
(* Run. *)

\* The select takes the tick, also when ctx is done: Go picks either of two
\* ready cases.  The sweep then asks the tracker once.
Sweep ==
  /\ runPc = "select" /\ tick
  /\ tick' = FALSE
  /\ runPc' = "sweep"
  /\ todo' = PendingAnalysis
  /\ UNCHANGED <<flows, cancelled, poolVars, answer, recorded>>

First(d) == d \in todo /\ \A e \in todo : d <= e

Skip ==
  /\ runPc = "sweep"
  /\ \E d \in inFlight : First(d) /\ todo' = todo \ {d}
  /\ UNCHANGED <<flows, runPc, tick, cancelled, poolVars, answer, recorded>>

\* Mutant of Start: LoadOrStore's "busy" result is not looked at.
StartBusy(g) ==
  /\ runPc = "sweep"
  /\ pc[g] = "idle"
  /\ \E d \in Domains :
       /\ First(d)
       /\ todo' = todo \ {d}
       /\ inFlight' = inFlight \cup {d}
       /\ dom' = [dom EXCEPT ![g] = d]
  /\ wg' = wg + 1
  /\ pc' = [pc EXCEPT ![g] = "acquire"]
  /\ UNCHANGED <<flows, runPc, tick, cancelled, sem, val, answer, recorded>>

Start(g) ==
  /\ runPc = "sweep"
  /\ pc[g] = "idle"
  /\ \E d \in Domains \ inFlight :
       /\ First(d)
       /\ todo' = todo \ {d}
       /\ inFlight' = inFlight \cup {d}
       /\ dom' = [dom EXCEPT ![g] = d]
  /\ wg' = wg + 1
  /\ pc' = [pc EXCEPT ![g] = "acquire"]
  /\ UNCHANGED <<flows, runPc, tick, cancelled, sem, val, answer, recorded>>

SweepEnd ==
  /\ runPc = "sweep" /\ todo = {}
  /\ runPc' = "select"
  /\ UNCHANGED <<flows, tick, todo, cancelled, poolVars, answer, recorded>>

SeeCancel ==
  /\ runPc = "select" /\ cancelled
  /\ runPc' = "wait"
  /\ UNCHANGED <<flows, tick, todo, cancelled, poolVars, answer, recorded>>

\* Mutant of Return: Run does not wait for its goroutines.
ReturnAtOnce ==
  /\ runPc = "wait"
  /\ runPc' = "returned"
  /\ UNCHANGED <<flows, tick, todo, cancelled, poolVars, answer, recorded>>

Return ==
  /\ runPc = "wait" /\ wg = 0
  /\ runPc' = "returned"
  /\ UNCHANGED <<flows, tick, todo, cancelled, poolVars, answer, recorded>>

-----------------------------------------------------------------------------
(* The goroutine of one diagnosis. *)

Goto(g, from, to) == pc[g] = from /\ pc' = [pc EXCEPT ![g] = to]

\* Mutant of Acquire: inFlight.Delete(d) is called where it should be deferred.
AcquireNotDeferred(g) ==
  /\ Goto(g, "acquire", "diagnose")
  /\ sem < Concurrency
  /\ sem' = sem + 1
  /\ inFlight' = inFlight \ {dom[g]}
  /\ UNCHANGED <<flows, runVars, wg, dom, val, answer, recorded>>

Acquire(g) ==
  /\ Goto(g, "acquire", "diagnose")
  /\ sem < Concurrency
  /\ sem' = sem + 1
  /\ UNCHANGED <<flows, runVars, inFlight, wg, dom, val, answer, recorded>>

\* Mutant of GiveUp: the early return comes before the deferred calls.
GiveUpSilently(g) ==
  /\ cancelled
  /\ Goto(g, "acquire", "idle")
  /\ UNCHANGED <<flows, runVars, inFlight, sem, wg, dom, val, answer, recorded>>

GiveUp(g) ==
  /\ cancelled
  /\ Goto(g, "acquire", "delete")
  /\ UNCHANGED <<flows, runVars, inFlight, sem, wg, dom, val, answer, recorded>>

\* Mutant of Diagnose: the return on a nil verdict skips the release of the slot.
DiagnoseLeaking(g) ==
  /\ pc[g] = "diagnose"
  /\ val' = [val EXCEPT ![g] = answer[dom[g]]]
  /\ Goto(g, "diagnose",
          IF answer[dom[g]].type = NilVerdict THEN "delete" ELSE "record")
  /\ UNCHANGED <<flows, runVars, inFlight, sem, wg, dom, answer, recorded>>

Diagnose(g) ==
  /\ pc[g] = "diagnose"
  /\ val' = [val EXCEPT ![g] = answer[dom[g]]]
  /\ Goto(g, "diagnose",
          IF answer[dom[g]].type = NilVerdict THEN "release" ELSE "record")
  /\ UNCHANGED <<flows, runVars, inFlight, sem, wg, dom, answer, recorded>>

Record(g) ==
  /\ Goto(g, "record", IF HasEnforcer THEN "enforce" ELSE "release")
  /\ SetVerdict(dom[g], val[g].type)
  /\ recorded' = [recorded EXCEPT ![dom[g]] = val[g].epoch]
  /\ UNCHANGED <<runVars, inFlight, sem, wg, dom, val, answer>>

\* Enforce reports ok only for the DoH lever, and not always for that one.
Enforced(g) ==
  /\ Goto(g, "enforce", "mark")
  /\ Recommend(val[g].type) = "use-DoH"
  /\ UNCHANGED <<flows, runVars, inFlight, sem, wg, dom, val, answer, recorded>>

\* Mutant of NotEnforced: this early return skips the release of the slot.
NotEnforcedLeaking(g) ==
  /\ Goto(g, "enforce", "delete")
  /\ UNCHANGED <<flows, runVars, inFlight, sem, wg, dom, val, answer, recorded>>

NotEnforced(g) ==
  /\ Goto(g, "enforce", "release")
  /\ UNCHANGED <<flows, runVars, inFlight, sem, wg, dom, val, answer, recorded>>

Mark(g) ==
  /\ Goto(g, "mark", "release")
  /\ SetEnforced(dom[g])
  /\ UNCHANGED <<runVars, inFlight, sem, wg, dom, val, answer, recorded>>

\* The deferred calls run last-in first-out: <-sem, inFlight.Delete, wg.Done.

\* Mutant of Release: the slot is not given back.
ReleaseNothing(g) ==
  /\ Goto(g, "release", "delete")
  /\ UNCHANGED <<flows, runVars, inFlight, sem, wg, dom, val, answer, recorded>>

Release(g) ==
  /\ Goto(g, "release", "delete")
  /\ sem' = sem - 1
  /\ UNCHANGED <<flows, runVars, inFlight, wg, dom, val, answer, recorded>>

Delete(g) ==
  /\ Goto(g, "delete", "done")
  /\ inFlight' = inFlight \ {dom[g]}
  /\ UNCHANGED <<flows, runVars, sem, wg, dom, val, answer, recorded>>

WgDone(g) ==
  /\ Goto(g, "done", "idle")
  /\ wg' = wg - 1
  /\ dom' = [dom EXCEPT ![g] = NoDomain]
  /\ val' = [val EXCEPT ![g] = [type |-> NilVerdict, epoch |-> 0]]
  /\ UNCHANGED <<flows, runVars, inFlight, sem, answer, recorded>>

-----------------------------------------------------------------------------
\* The steps of analyze and of the deferred calls: none of them waits.
Work(g) ==
  \/ Diagnose(g) \/ Record(g) \/ Enforced(g) \/ NotEnforced(g) \/ Mark(g)
  \/ Release(g) \/ Delete(g) \/ WgDone(g)

Run == Sweep \/ Skip \/ (\E g \in Goroutines : Start(g)) \/ SweepEnd \/ Return

Environment ==
  \/ \E e \in TapEvents : TapObserve(e)
  \/ \E d \in Domains : Elapse(d) \/ NetworkChange(d)
  \/ Tick \/ Cancel

\* Run has returned: nothing more has to happen.
Finished == runPc = "returned" /\ UNCHANGED vars

Next ==
  \/ Run \/ SeeCancel
  \/ \E g \in Goroutines : Acquire(g) \/ GiveUp(g) \/ Work(g)
  \/ Environment
  \/ Finished

\* Every goroutine keeps running; PerDiagnosis bounds the one call that could
\* block.  Strong fairness where readiness comes and goes: blocked senders of
\* a channel are served first-in first-out, and a select draws at random
\* among its ready cases.  Time passes.  Nothing makes the tap, the network
\* or the user act.
Fairness ==
  /\ WF_vars(Run) /\ SF_vars(SeeCancel)
  /\ \A g \in Goroutines : WF_vars(Work(g)) /\ SF_vars(Acquire(g))
  /\ WF_vars(Tick)
  /\ \A d \in Domains : WF_vars(Elapse(d))

Spec == Init /\ [][Next]_vars
FairSpec == Spec /\ Fairness

-----------------------------------------------------------------------------
(* Properties. *)

\* Every variable keeps to its type.
TypeOK ==
  /\ TrackerTypeOK
  /\ runPc \in {"select", "sweep", "wait", "returned"}
  /\ tick \in BOOLEAN /\ cancelled \in BOOLEAN
  /\ todo \subseteq DOMAIN flows
  /\ inFlight \subseteq Domains
  /\ sem \in Nat /\ wg \in Nat
  /\ pc \in [Goroutines -> PCs]
  /\ dom \in [Goroutines -> Domains \cup {NoDomain}]
  /\ \A g \in Goroutines : pc[g] \in Owning => dom[g] \in DOMAIN flows
  /\ val \in [Goroutines -> Answer]
  /\ answer \in [Domains -> Answer]
  /\ recorded \in [Domains -> Nat]

\* "domain -> struct{}, so a slow diagnosis is not re-queued" (escalate.go:55):
\* a domain is listed in inFlight exactly while one goroutine owns it, and two
\* goroutines never own the same domain, whatever order the deferred calls of
\* one and the sweep of Run take.
OneDiagnosisPerDomain ==
  /\ inFlight = {dom[g] : g \in {h \in Goroutines : pc[h] \in Owning}}
  /\ \A g, h \in Goroutines :
       pc[g] \in Owning /\ pc[h] \in Owning /\ dom[g] = dom[h] => g = h

Holders == {g \in Goroutines : pc[g] \in Holding}
Live    == {g \in Goroutines : pc[g] # "idle"}

\* "Concurrency bounds simultaneous active diagnoses so the sweep cannot flood
\* the network" (escalate.go:32): no more than Concurrency goroutines are
\* between taking and giving back a slot, through every early return.
ConcurrencyBound == Cardinality(Holders) <= Concurrency

\* The slots counted as taken are those some goroutine still gives back, so
\* none is lost or freed twice on any path out of analyze.
SlotsAccounted == sem = Cardinality(Holders)

\* Run returns only after its goroutines (wg.Wait, escalate.go:63): once it
\* has, no goroutine is left that could still write to the board.
QuietAfterReturn ==
  runPc = "returned" => /\ Live = {} /\ inFlight = {} /\ sem = 0

\* A verdict is never replaced by the result of an older measurement, although
\* diagnoses of one domain overlap with sweeps that list it again.
NoStaleOverwrite == [][\A d \in Domains : recorded[d] <= recorded'[d]]_vars

\* analyze writes a verdict and the mark of its enforcement in two critical
\* sections with network calls between them (escalate.go:95,100).  From the one
\* to the other the board shows the goroutine's own verdict, so a row is marked
\* as enforced, for the first time or again, only while it shows the verdict
\* that called for the lever.  (A later verdict leaves an old mark: SetVerdict
\* does not clear it.)
EnforcedUnderItsVerdict ==
  \A g \in Goroutines :
    /\ pc[g] \in {"enforce", "mark"} =>
         /\ flows[dom[g]].analyzed
         /\ flows[dom[g]].deepType = val[g].type
         /\ flows[dom[g]].action = Recommend(val[g].type)
    /\ pc[g] = "mark" => Recommend(val[g].type) = "use-DoH"

\* "runs a full active diagnosis for any domain with an outcome ... so the
\* badge resolves itself" (escalate.go:17): a domain with an outcome is
\* analyzed in the end, unless its diagnoses return nil or ctx is cancelled.
BadgeResolves ==
  \A d \in Domains :
    HasOutcome(Seen(d))
      ~> \/ Seen(d).analyzed
         \/ cancelled
         \/ answer[d].type = NilVerdict

\* "so a state change is eventually picked up" (escalate.go:30): the board
\* catches up with what a diagnosis would answer, again and again.
ChangePickedUp ==
  \A d \in Domains :
    []<>( \/ ~HasOutcome(Seen(d))
          \/ Seen(d).deepType = answer[d].type
          \/ answer[d].type = NilVerdict
          \/ cancelled )

\* After a cancellation Run comes to its end.
ShutdownCompletes == cancelled ~> runPc = "returned"
=============================================================================
