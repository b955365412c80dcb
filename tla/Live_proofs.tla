---------------------------- MODULE Live_proofs ----------------------------
(***************************************************************************)
(* What live mode guarantees for any domains, addresses, goroutines, slots *)
(* and network, and any behaviour of the tap.                              *)
(*                                                                         *)
(* First the escalator.  Its invariant IInv has four parts besides the     *)
(* types.  Ownership: inFlight lists exactly the domains of the goroutines *)
(* that own one, and no two own the same.  Counts: the semaphore and the   *)
(* WaitGroup count what they stand for.  Values: a goroutine about to      *)
(* write a verdict holds one at least as recent as the board's; this rests *)
(* on ownership, for otherwise another goroutine could write in between.   *)
(* EnforcedUnderItsVerdict: between the two critical sections of analyze   *)
(* the board still shows the goroutine's own verdict.                      *)
(*                                                                         *)
(* Then the whole.  A step of Live is a step of Escalator, leaves its      *)
(* variables alone, or starts the process again, which restores IInv; and  *)
(* it is a step of Enforcer or leaves that one's variables alone, so its   *)
(* theorems hold of Live.  What remains is to relate the marks on the      *)
(* board to the calls that were reported as applied, which outlive         *)
(* neither: both are gone when the process ends.                           *)
(***************************************************************************)
EXTENDS Live, FiniteSetTheorems, TLAPS

FileProofs == INSTANCE Enforcer_proofs WITH Names <- Domains,
                NoName <- NoDomain, Writers <- Goroutines, pc <- at, dom <- host

-----------------------------------------------------------------------------
(* The board. *)

\* Every type has a lever, if only "none".
LEMMA RecommendType == \A t : Recommend(t) \in Actions
BY DEF Recommend, Actions

\* Folding an event into a flow yields a flow and leaves the results of
\* diagnoses in it alone.
LEMMA FoldedType ==
  ASSUME NEW f \in Flow, NEW e \in Event
  PROVE  /\ Folded(f, e) \in Flow
         /\ Folded(f, e).analyzed = f.analyzed
         /\ Folded(f, e).action = f.action
         /\ Folded(f, e).deepType = f.deepType
         /\ Folded(f, e).enforced = f.enforced
<1>1. CASE e.kind = "client_hello"
  <2>1. Folded(f, e) = [f EXCEPT !.hits = @ + 1]
    BY <1>1 DEF Folded
  <2>2. QED
    BY <2>1 DEF Flow
<1>2. CASE e.kind = "server_hello"
  <2>1. Folded(f, e) = [f EXCEPT !.handshake = TRUE]
    BY <1>2 DEF Folded
  <2>2. QED
    BY <2>1 DEF Flow
<1>3. CASE e.kind = "reset"
  <2>1. Folded(f, e) = [f EXCEPT !.resets = @ + 1]
    BY <1>3 DEF Folded
  <2>2. QED
    BY <2>1 DEF Flow
<1>4. CASE e.kind = "cert"
  <2>1. Folded(f, e) = [f EXCEPT !.certChecked = TRUE, !.certUntrusted = e.bad]
    BY <1>4 DEF Folded
  <2>2. QED
    BY <2>1 DEF Flow, Event
<1>5. CASE e.kind = "dns"
  <2>1. Folded(f, e) = [f EXCEPT !.dnsInjected = @ \/ e.bad]
    BY <1>5 DEF Folded
  <2>2. (f.dnsInjected \/ e.bad) \in BOOLEAN
    OBVIOUS
  <2>3. QED
    BY <2>1, <2>2 DEF Flow
<1>6. QED
  BY <1>1, <1>2, <1>3, <1>4, <1>5 DEF Event

\* The flow a first event starts from is a flow.
LEMMA NewFlowType == NewFlow \in Flow
BY DEF NewFlow, Flow, Types, Actions

\* An event keeps the board well typed and never removes a domain from it, nor
\* does it touch what a diagnosis has written.
LEMMA ObserveFacts ==
  ASSUME TrackerTypeOK, NEW e \in Event, Observe(e)
  PROVE  /\ TrackerTypeOK'
         /\ DOMAIN flows \subseteq DOMAIN flows'
         /\ \A d \in DOMAIN flows :
              /\ flows'[d].analyzed = flows[d].analyzed
              /\ flows'[d].action = flows[d].action
              /\ flows'[d].deepType = flows[d].deepType
              /\ flows'[d].enforced = flows[d].enforced
<1>1. CASE e.domain = NoDomain
  BY <1>1 DEF Observe, TrackerTypeOK
<1>2. CASE e.domain # NoDomain
  <2> DEFINE d0 == e.domain
             f0 == Folded(Seen(d0), e)
  <2>1. d0 \in Domains
    BY <1>2 DEF Event
  <2>2. Seen(d0) \in Flow
    BY NewFlowType DEF Seen, TrackerTypeOK
  <2>3. f0 \in Flow
    BY <2>2, FoldedType
  <2>4. /\ f0.analyzed = Seen(d0).analyzed
        /\ f0.action = Seen(d0).action
        /\ f0.deepType = Seen(d0).deepType
        /\ f0.enforced = Seen(d0).enforced
    BY <2>2, FoldedType
  <2>5. flows' = Put(d0, f0)
    BY <1>2 DEF Observe
  <2> HIDE DEF f0
  <2>6. QED
    BY <2>1, <2>3, <2>4, <2>5 DEF Put, Seen, TrackerTypeOK
<1>3. QED
  BY <1>1, <1>2

\* Recording a verdict changes only the flow of its domain.
LEMMA SetVerdictFacts ==
  ASSUME TrackerTypeOK, NEW d \in DOMAIN flows, NEW t \in Types,
         SetVerdict(d, t)
  PROVE  /\ TrackerTypeOK'
         /\ DOMAIN flows' = DOMAIN flows
         /\ flows'[d].analyzed /\ flows'[d].action = Recommend(t)
         /\ flows'[d].deepType = t
         /\ flows'[d].enforced = flows[d].enforced
         /\ \A x \in DOMAIN flows \ {d} : flows'[x] = flows[x]
<1>1. flows[d] \in Flow
  BY DEF TrackerTypeOK
<1>2. Recommend(t) \in Actions
  BY RecommendType
<1> DEFINE f == [flows[d] EXCEPT !.analyzed = TRUE, !.due = FALSE,
                                 !.deepType = t, !.action = Recommend(t)]
<1>3. f \in Flow /\ f.analyzed /\ f.action = Recommend(t) /\ f.deepType = t
      /\ f.enforced = flows[d].enforced
  BY <1>1, <1>2 DEF Flow
<1>4. flows' = [flows EXCEPT ![d] = f]
  BY DEF SetVerdict
<1> HIDE DEF f
<1>5. QED
  BY <1>3, <1>4 DEF TrackerTypeOK

\* Marking an enforcement changes only that mark.
LEMMA SetEnforcedFacts ==
  ASSUME TrackerTypeOK, NEW d \in DOMAIN flows, SetEnforced(d)
  PROVE  /\ TrackerTypeOK'
         /\ DOMAIN flows' = DOMAIN flows
         /\ \A x \in DOMAIN flows :
              /\ flows'[x].analyzed = flows[x].analyzed
              /\ flows'[x].action = flows[x].action
              /\ flows'[x].deepType = flows[x].deepType
         /\ \A x \in DOMAIN flows \ {d} : flows'[x] = flows[x]
<1>1. flows[d] \in Flow
  BY DEF TrackerTypeOK
<1> DEFINE f == [flows[d] EXCEPT !.enforced = TRUE]
<1>2. f \in Flow /\ f.analyzed = flows[d].analyzed
      /\ f.action = flows[d].action /\ f.deepType = flows[d].deepType
  BY <1>1 DEF Flow
<1>3. flows' = [flows EXCEPT ![d] = f]
  BY DEF SetEnforced
<1> HIDE DEF f
<1>4. QED
  BY <1>2, <1>3 DEF TrackerTypeOK

\* The clock changes only the mark of age.
LEMMA AgeFacts ==
  ASSUME TrackerTypeOK, NEW d, Age(d)
  PROVE  /\ TrackerTypeOK'
         /\ DOMAIN flows' = DOMAIN flows
         /\ \A x \in DOMAIN flows :
              /\ flows'[x].analyzed = flows[x].analyzed
              /\ flows'[x].action = flows[x].action
              /\ flows'[x].deepType = flows[x].deepType
              /\ flows'[x].enforced = flows[x].enforced
<1>1. d \in DOMAIN flows /\ flows[d] \in Flow
  BY DEF TrackerTypeOK, Age
<1> DEFINE f == [flows[d] EXCEPT !.due = TRUE]
<1>2. f \in Flow /\ f.analyzed = flows[d].analyzed
      /\ f.action = flows[d].action /\ f.enforced = flows[d].enforced
      /\ f.deepType = flows[d].deepType
  BY <1>1 DEF Flow
<1>3. flows' = [flows EXCEPT ![d] = f]
  BY DEF Age
<1> HIDE DEF f
<1>4. QED
  BY <1>1, <1>2, <1>3 DEF TrackerTypeOK

-----------------------------------------------------------------------------
(* The escalator's invariant. *)

Counts ==
  /\ IsFiniteSet(Live) /\ wg = Cardinality(Live)
  /\ SlotsAccounted /\ sem <= Concurrency
  /\ runPc = "returned" => wg = 0

Values ==
  /\ \A d \in Domains : recorded[d] <= answer[d].epoch
  /\ \A g \in Goroutines :
       pc[g] \in {"record", "enforce", "mark"} =>
         /\ val[g].type \in Types
         /\ recorded[dom[g]] <= val[g].epoch
         /\ val[g].epoch <= answer[dom[g]].epoch

IInv ==
  /\ TypeOK /\ OneDiagnosisPerDomain /\ Counts /\ Values
  /\ EnforcedUnderItsVerdict

-----------------------------------------------------------------------------
(* Ownership. *)

\* A step of a goroutine inside the stretch where it owns its domain.
LEMMA OwnerMoves ==
  ASSUME TypeOK, OneDiagnosisPerDomain, NEW g \in Goroutines,
         pc[g] \in Owning, NEW to \in Owning,
         pc' = [pc EXCEPT ![g] = to], UNCHANGED <<inFlight, dom>>
  PROVE  OneDiagnosisPerDomain'
<1>1. \A h \in Goroutines : pc'[h] \in Owning <=> pc[h] \in Owning
  BY DEF TypeOK
<1>2. QED
  BY <1>1 DEF OneDiagnosisPerDomain

\* Starting a goroutine for a domain nobody owns.
LEMMA OwnerStarts ==
  ASSUME TypeOK, OneDiagnosisPerDomain, NEW g \in Goroutines, Start(g)
  PROVE  OneDiagnosisPerDomain'
<1>1. PICK d \in Domains \ inFlight :
        inFlight' = inFlight \cup {d} /\ dom' = [dom EXCEPT ![g] = d]
  BY DEF Start
<1>2. pc[g] \notin Owning /\ pc' = [pc EXCEPT ![g] = "acquire"]
  BY DEF Start, Owning, Holding
<1>3. /\ dom'[g] = d /\ pc'[g] \in Owning
      /\ \A h \in Goroutines \ {g} : dom'[h] = dom[h] /\ pc'[h] = pc[h]
  BY <1>1, <1>2 DEF TypeOK, Owning
<1>4. \A h \in Goroutines : pc[h] \in Owning => dom[h] # d
  BY <1>1 DEF OneDiagnosisPerDomain
<1>5. \A h, k \in Goroutines :
        pc'[h] \in Owning /\ pc'[k] \in Owning /\ dom'[h] = dom'[k] => h = k
  BY <1>3, <1>4 DEF OneDiagnosisPerDomain
<1>6. inFlight' = {dom'[h] : h \in {k \in Goroutines : pc'[k] \in Owning}}
  BY <1>1, <1>2, <1>3 DEF OneDiagnosisPerDomain
<1>7. QED
  BY <1>5, <1>6 DEF OneDiagnosisPerDomain

\* Deleting the entry of the one goroutine that owns the domain.
LEMMA OwnerLeaves ==
  ASSUME TypeOK, OneDiagnosisPerDomain, NEW g \in Goroutines, Delete(g)
  PROVE  OneDiagnosisPerDomain'
<1>1. /\ pc[g] \in Owning /\ pc'[g] \notin Owning
      /\ \A h \in Goroutines \ {g} : pc'[h] = pc[h]
      /\ dom' = dom /\ inFlight' = inFlight \ {dom[g]}
  BY DEF Delete, Goto, TypeOK, Owning, Holding
<1>2. \A h, k \in Goroutines :
        pc'[h] \in Owning /\ pc'[k] \in Owning /\ dom'[h] = dom'[k] => h = k
  BY <1>1 DEF OneDiagnosisPerDomain
<1>3. inFlight' = {dom'[h] : h \in {k \in Goroutines : pc'[k] \in Owning}}
  BY <1>1 DEF OneDiagnosisPerDomain
<1>4. QED
  BY <1>2, <1>3 DEF OneDiagnosisPerDomain

\* The last step of a goroutine, which owns nothing any more.
LEMMA OwnerGone ==
  ASSUME TypeOK, OneDiagnosisPerDomain, NEW g \in Goroutines, WgDone(g)
  PROVE  OneDiagnosisPerDomain'
<1>1. /\ pc[g] \notin Owning /\ pc'[g] \notin Owning
      /\ \A h \in Goroutines \ {g} : pc'[h] = pc[h] /\ dom'[h] = dom[h]
      /\ inFlight' = inFlight
  BY DEF WgDone, Goto, TypeOK, Owning, Holding
<1>2. \A h, k \in Goroutines :
        pc'[h] \in Owning /\ pc'[k] \in Owning /\ dom'[h] = dom'[k] => h = k
  BY <1>1 DEF OneDiagnosisPerDomain
<1>3. inFlight' = {dom'[h] : h \in {k \in Goroutines : pc'[k] \in Owning}}
  BY <1>1 DEF OneDiagnosisPerDomain
<1>4. QED
  BY <1>2, <1>3 DEF OneDiagnosisPerDomain

\* Ownership is preserved by every step.
LEMMA OwnershipStep == IInv /\ [Next]_vars => OneDiagnosisPerDomain'
<1> SUFFICES ASSUME TypeOK, OneDiagnosisPerDomain, [Next]_vars
             PROVE  OneDiagnosisPerDomain'
  BY DEF IInv
<1>1. CASE UNCHANGED <<inFlight, pc, dom>>
  BY <1>1 DEF OneDiagnosisPerDomain
<1>2. ASSUME NEW g \in Goroutines, Start(g)
      PROVE  OneDiagnosisPerDomain'
  BY <1>2, OwnerStarts
<1>3. ASSUME NEW g \in Goroutines, Acquire(g) \/ GiveUp(g)
      PROVE  OneDiagnosisPerDomain'
  BY <1>3, OwnerMoves DEF Acquire, GiveUp, Goto, Owning, Holding
<1>4. ASSUME NEW g \in Goroutines,
             Diagnose(g) \/ Record(g) \/ Enforced(g) \/ NotEnforced(g)
               \/ Mark(g) \/ Release(g)
      PROVE  OneDiagnosisPerDomain'
  <2>1. CASE Diagnose(g)
    BY <2>1, OwnerMoves DEF Diagnose, Goto, Owning, Holding
  <2>2. CASE Record(g)
    BY <2>2, OwnerMoves DEF Record, Goto, Owning, Holding
  <2>3. CASE Enforced(g) \/ NotEnforced(g)
    BY <2>3, OwnerMoves DEF Enforced, NotEnforced, Goto, Owning, Holding
  <2>4. CASE Mark(g) \/ Release(g)
    BY <2>4, OwnerMoves DEF Mark, Release, Goto, Owning, Holding
  <2>5. QED
    BY <1>4, <2>1, <2>2, <2>3, <2>4
<1>5. ASSUME NEW g \in Goroutines, Delete(g) \/ WgDone(g)
      PROVE  OneDiagnosisPerDomain'
  BY <1>5, OwnerLeaves, OwnerGone
<1>6. CASE Sweep \/ Skip \/ SweepEnd \/ Return \/ SeeCancel
  BY <1>1, <1>6 DEF Sweep, Skip, SweepEnd, Return, SeeCancel, poolVars
<1>7. CASE Environment
  BY <1>1, <1>7 DEF Environment, TapObserve, Elapse, NetworkChange, Tick,
                    Cancel, poolVars
<1>8. CASE Finished \/ UNCHANGED vars
  BY <1>1, <1>8 DEF Finished, vars, poolVars
<1>9. QED
  BY <1>2, <1>3, <1>4, <1>5, <1>6, <1>7, <1>8 DEF Next, Run, Work

-----------------------------------------------------------------------------
(* Counts. *)

\* The holders of slots are among the goroutines that live.
LEMMA HoldersFinite ==
  ASSUME TypeOK, Counts
  PROVE  IsFiniteSet(Holders) /\ Cardinality(Holders) \in Nat
<1>1. Holders \subseteq Live
  BY DEF Holders, Live, Holding
<1>2. QED
  BY <1>1, FS_Subset, FS_CardinalityType DEF Counts

\* A goroutine starts: one more lives, and the counter goes up.
LEMMA StartCounts ==
  ASSUME TypeOK, Counts, NEW g \in Goroutines, Start(g)
  PROVE  Counts'
<1>1. g \notin Live /\ Live' = Live \cup {g} /\ Holders' = Holders
  BY DEF Start, Live, Holders, Holding, TypeOK
<1>2. IsFiniteSet(Live') /\ Cardinality(Live') = Cardinality(Live) + 1
  BY <1>1, FS_AddElement DEF Counts
<1>3. wg' = wg + 1 /\ sem' = sem /\ runPc' = "sweep"
  BY DEF Start
<1>4. QED
  BY <1>1, <1>2, <1>3 DEF Counts, SlotsAccounted

\* A goroutine leaves: one less lives, and the counter goes down.
LEMMA WgDoneCounts ==
  ASSUME TypeOK, Counts, NEW g \in Goroutines, WgDone(g)
  PROVE  Counts' /\ wg' \in Nat
<1>1. g \in Live /\ Live' = Live \ {g} /\ Holders' = Holders
  BY DEF WgDone, Goto, Live, Holders, Holding, TypeOK
<1>2. IsFiniteSet(Live') /\ Cardinality(Live') = Cardinality(Live) - 1
  BY <1>1, FS_RemoveElement DEF Counts
<1>3. Cardinality(Live') \in Nat
  BY <1>2, FS_CardinalityType
<1>4. wg' = wg - 1 /\ sem' = sem /\ runPc' = runPc
  BY DEF WgDone, runVars
<1>5. runPc # "returned"
  <2>1. Cardinality(Live) # 0
    BY <1>1, FS_EmptySet DEF Counts
  <2>2. QED
    BY <2>1 DEF Counts
<1>6. QED
  BY <1>1, <1>2, <1>3, <1>4, <1>5 DEF Counts, SlotsAccounted

\* A goroutine takes a slot.
LEMMA AcquireCounts ==
  ASSUME TypeOK, Counts, NEW g \in Goroutines, Acquire(g)
  PROVE  Counts'
<1>1. g \notin Holders /\ Holders' = Holders \cup {g} /\ Live' = Live
  BY DEF Acquire, Goto, Live, Holders, Holding, TypeOK
<1>2. Cardinality(Holders') = Cardinality(Holders) + 1
  BY <1>1, HoldersFinite, FS_AddElement
<1>3. sem < Concurrency /\ sem' = sem + 1 /\ wg' = wg /\ runPc' = runPc
  BY DEF Acquire, runVars
<1>4. QED
  BY <1>1, <1>2, <1>3, EscalatorAssumption DEF Counts, SlotsAccounted, TypeOK

\* A goroutine gives its slot back.
LEMMA ReleaseCounts ==
  ASSUME TypeOK, Counts, NEW g \in Goroutines, Release(g)
  PROVE  Counts' /\ sem' \in Nat
<1>1. g \in Holders /\ Holders' = Holders \ {g} /\ Live' = Live
  BY DEF Release, Goto, Live, Holders, Holding, TypeOK
<1>2. /\ IsFiniteSet(Holders')
      /\ Cardinality(Holders') = Cardinality(Holders) - 1
  BY <1>1, HoldersFinite, FS_RemoveElement
<1>3. Cardinality(Holders') \in Nat
  BY <1>2, FS_CardinalityType
<1>4. sem' = sem - 1 /\ wg' = wg /\ runPc' = runPc
  BY DEF Release, runVars
<1>5. QED
  BY <1>1, <1>2, <1>3, <1>4, EscalatorAssumption DEF Counts, SlotsAccounted, TypeOK

\* A step of a goroutine on one side of the two counted stretches.
LEMMA MoveCounts ==
  ASSUME TypeOK, Counts, NEW g \in Goroutines, NEW to \in Owning,
         pc[g] \in Owning, pc[g] \in Holding <=> to \in Holding,
         pc' = [pc EXCEPT ![g] = to], UNCHANGED <<sem, wg, runPc>>
  PROVE  Counts'
<1>1. Live' = Live /\ Holders' = Holders
  BY DEF Live, Holders, Owning, Holding, TypeOK
<1>2. QED
  BY <1>1 DEF Counts, SlotsAccounted

\* The counts are preserved by every step, and stay natural numbers.
LEMMA CountsStep == IInv /\ [Next]_vars => Counts' /\ sem' \in Nat /\ wg' \in Nat
<1> SUFFICES ASSUME TypeOK, Counts, [Next]_vars
             PROVE  Counts' /\ sem' \in Nat /\ wg' \in Nat
  BY DEF IInv
<1>0. sem \in Nat /\ wg \in Nat
  BY DEF TypeOK
<1>1. CASE UNCHANGED <<sem, wg, pc, runPc>>
  BY <1>0, <1>1 DEF Counts, SlotsAccounted, Live, Holders
<1>2. ASSUME NEW g \in Goroutines, Start(g)
      PROVE  Counts' /\ sem' \in Nat /\ wg' \in Nat
  <2>1. wg' = wg + 1 /\ sem' = sem
    BY <1>2 DEF Start
  <2>2. Counts'
    BY <1>2, StartCounts
  <2>3. QED
    BY <1>0, <2>1, <2>2
<1>3. ASSUME NEW g \in Goroutines, Acquire(g) \/ GiveUp(g)
      PROVE  Counts' /\ sem' \in Nat /\ wg' \in Nat
  <2>1. CASE Acquire(g)
    BY <1>0, <2>1, AcquireCounts DEF Acquire
  <2>2. CASE GiveUp(g)
    BY <1>0, <2>2, MoveCounts DEF GiveUp, Goto, Owning, Holding, runVars
  <2>3. QED
    BY <1>3, <2>1, <2>2
<1>4. ASSUME NEW g \in Goroutines, Work(g)
      PROVE  Counts' /\ sem' \in Nat /\ wg' \in Nat
  <2>1. CASE Diagnose(g)
    BY <1>0, <2>1, MoveCounts DEF Diagnose, Goto, Owning, Holding, runVars
  <2>2. CASE Record(g)
    BY <1>0, <2>2, MoveCounts DEF Record, Goto, Owning, Holding, runVars
  <2>3. CASE Enforced(g) \/ NotEnforced(g)
    BY <1>0, <2>3, MoveCounts
    DEF Enforced, NotEnforced, Goto, Owning, Holding, runVars
  <2>4. CASE Mark(g)
    BY <1>0, <2>4, MoveCounts DEF Mark, Goto, Owning, Holding, runVars
  <2>5. CASE Release(g)
    BY <1>0, <2>5, ReleaseCounts DEF Release
  <2>6. CASE Delete(g)
    <3>1. Live' = Live /\ Holders' = Holders
      BY <2>6 DEF Delete, Goto, Live, Holders, Holding, TypeOK
    <3>2. QED
      BY <1>0, <2>6, <3>1 DEF Delete, Counts, SlotsAccounted, runVars
  <2>7. CASE WgDone(g)
    BY <1>0, <2>7, WgDoneCounts DEF WgDone
  <2>8. QED
    BY <1>4, <2>1, <2>2, <2>3, <2>4, <2>5, <2>6, <2>7 DEF Work
<1>5. CASE Sweep \/ Skip \/ SweepEnd \/ Return \/ SeeCancel
  <2>1. Live' = Live /\ Holders' = Holders /\ UNCHANGED <<sem, wg>>
    BY <1>5 DEF Sweep, Skip, SweepEnd, Return, SeeCancel, poolVars, Live, Holders
  <2>2. runPc' = "returned" => wg = 0
    BY <1>5 DEF Sweep, Skip, SweepEnd, Return, SeeCancel, Counts
  <2>3. QED
    BY <1>0, <2>1, <2>2 DEF Counts, SlotsAccounted
<1>6. CASE Environment
  BY <1>1, <1>6 DEF Environment, TapObserve, Elapse, NetworkChange, Tick,
                    Cancel, poolVars, runVars
<1>7. CASE Finished \/ UNCHANGED vars
  BY <1>1, <1>7 DEF Finished, vars, poolVars, runVars
<1>8. QED
  BY <1>2, <1>3, <1>4, <1>5, <1>6, <1>7 DEF Next, Run

-----------------------------------------------------------------------------
(* Values: verdicts reach the board in the order they were measured. *)

\* Recording: no other goroutine that holds a verdict owns this domain.
LEMMA RecordValues ==
  ASSUME TypeOK, OneDiagnosisPerDomain, Values, NEW g \in Goroutines, Record(g)
  PROVE  Values'
<1>1. /\ pc[g] = "record" /\ pc'[g] \in {"enforce", "release"}
      /\ \A h \in Goroutines \ {g} : pc'[h] = pc[h]
      /\ dom' = dom /\ val' = val /\ answer' = answer
      /\ recorded' = [recorded EXCEPT ![dom[g]] = val[g].epoch]
  BY DEF Record, Goto, TypeOK
<1>2. dom[g] \in Domains
  BY <1>1 DEF TypeOK, TrackerTypeOK, Owning, Holding
<1>3. \A d \in Domains : recorded'[d] <= answer'[d].epoch
  BY <1>1, <1>2 DEF Values, TypeOK, Answer
<1>4. ASSUME NEW h \in Goroutines, pc'[h] \in {"record", "enforce", "mark"}
      PROVE  /\ val'[h].type \in Types
             /\ recorded'[dom'[h]] <= val'[h].epoch
             /\ val'[h].epoch <= answer'[dom'[h]].epoch
  <2>1. CASE h = g
    BY <1>1, <1>2, <2>1 DEF Values, TypeOK, Answer
  <2>2. CASE h # g
    <3>1. dom[h] # dom[g]
      BY <1>1, <1>4, <2>2 DEF OneDiagnosisPerDomain, Owning, Holding
    <3>2. QED
      BY <1>1, <1>2, <1>4, <2>2, <3>1 DEF Values, TypeOK
  <2>3. QED
    BY <2>1, <2>2
<1>5. QED
  BY <1>3, <1>4 DEF Values

\* Diagnosing: the goroutine takes the present answer.
LEMMA DiagnoseValues ==
  ASSUME TypeOK, Values, NEW g \in Goroutines, Diagnose(g)
  PROVE  Values'
<1>1. /\ pc[g] = "diagnose"
      /\ pc' = [pc EXCEPT ![g] = IF answer[dom[g]].type = NilVerdict
                                 THEN "release" ELSE "record"]
      /\ val' = [val EXCEPT ![g] = answer[dom[g]]]
      /\ UNCHANGED <<dom, answer, recorded>>
  BY DEF Diagnose, Goto
<1>2. dom[g] \in Domains
  BY <1>1 DEF TypeOK, TrackerTypeOK, Owning, Holding
<1>3. answer[dom[g]] \in Answer /\ answer[dom[g]].epoch \in Nat
  BY <1>2 DEF TypeOK, Answer
<1>4. pc'[g] = "record" => answer[dom[g]].type \in Types
  BY <1>1, <1>3 DEF TypeOK, Answer
<1>5. ASSUME NEW h \in Goroutines, pc'[h] \in {"record", "enforce", "mark"}
      PROVE  /\ val'[h].type \in Types
             /\ recorded'[dom'[h]] <= val'[h].epoch
             /\ val'[h].epoch <= answer'[dom'[h]].epoch
  <2>1. CASE h = g
    <3>1. pc'[g] = "record" /\ val'[g] = answer[dom[g]]
      BY <1>1, <1>5, <2>1 DEF TypeOK
    <3>2. QED
      BY <1>1, <1>2, <1>3, <1>4, <2>1, <3>1 DEF Values
  <2>2. CASE h # g
    BY <1>1, <1>5, <2>2 DEF Values, TypeOK
  <2>3. QED
    BY <2>1, <2>2
<1>6. QED
  BY <1>1, <1>5 DEF Values

\* A new answer is younger than every verdict held.
LEMMA ChangeValues ==
  ASSUME TypeOK, Values, NEW d \in Domains, NetworkChange(d)
  PROVE  Values'
<1>1. PICK t : answer' = [answer EXCEPT ![d] = [type |-> t, epoch |-> @.epoch + 1]]
  BY DEF NetworkChange
<1>2. \A x \in Domains : /\ answer[x].epoch \in Nat
                         /\ answer'[x].epoch \in Nat
                         /\ answer[x].epoch <= answer'[x].epoch
  BY <1>1 DEF TypeOK, Answer
<1>3. UNCHANGED <<pc, dom, val, recorded>>
  BY DEF NetworkChange, poolVars
<1>4. \A h \in Goroutines : pc[h] \in {"record", "enforce", "mark"}
                              => dom[h] \in Domains /\ val[h].epoch \in Nat
  BY DEF TypeOK, TrackerTypeOK, Owning, Holding, Answer
<1>5. \A x \in Domains : recorded[x] \in Nat
  BY DEF TypeOK
<1>6. QED
  BY <1>2, <1>3, <1>4, <1>5 DEF Values

\* A step that leaves the answers, the board's epochs and every verdict about
\* to be recorded alone.
LEMMA OtherValues ==
  ASSUME TypeOK, Values, UNCHANGED <<answer, recorded>>,
         \A h \in Goroutines :
           pc'[h] \in {"record", "enforce", "mark"} =>
             /\ pc[h] \in {"record", "enforce", "mark"}
             /\ dom'[h] = dom[h] /\ val'[h] = val[h]
  PROVE  Values'
BY DEF Values

\* The order of verdicts is preserved by every step.
LEMMA ValuesStep == IInv /\ [Next]_vars => Values'
<1> SUFFICES ASSUME TypeOK, OneDiagnosisPerDomain, Values, [Next]_vars
             PROVE  Values'
  BY DEF IInv
<1>1. CASE UNCHANGED <<pc, dom, val, answer, recorded>>
  BY <1>1, OtherValues
<1>2. ASSUME NEW g \in Goroutines, Start(g)
      PROVE  Values'
  <2>1. /\ pc'[g] = "acquire" /\ UNCHANGED <<val, answer, recorded>>
        /\ \A h \in Goroutines \ {g} : pc'[h] = pc[h] /\ dom'[h] = dom[h]
    BY <1>2 DEF Start, TypeOK
  <2>2. QED
    BY <2>1, OtherValues
<1>3. ASSUME NEW g \in Goroutines,
             Acquire(g) \/ GiveUp(g) \/ Release(g) \/ Delete(g) \/ WgDone(g)
      PROVE  Values'
  <2>1. /\ pc'[g] \in {"diagnose", "delete", "done", "idle"}
        /\ UNCHANGED <<answer, recorded>>
        /\ \A h \in Goroutines \ {g} :
             pc'[h] = pc[h] /\ dom'[h] = dom[h] /\ val'[h] = val[h]
    BY <1>3 DEF Acquire, GiveUp, Release, Delete, WgDone, Goto, TypeOK
  <2>2. QED
    BY <2>1, OtherValues
<1>4. ASSUME NEW g \in Goroutines, Enforced(g) \/ NotEnforced(g) \/ Mark(g)
      PROVE  Values'
  <2>1. /\ pc[g] \in {"enforce", "mark"}
        /\ UNCHANGED <<dom, val, answer, recorded>>
        /\ \A h \in Goroutines \ {g} : pc'[h] = pc[h]
    BY <1>4 DEF Enforced, NotEnforced, Mark, Goto, TypeOK
  <2>2. QED
    BY <2>1, OtherValues
<1>5. ASSUME NEW g \in Goroutines, Diagnose(g) \/ Record(g)
      PROVE  Values'
  BY <1>5, DiagnoseValues, RecordValues
<1>6. CASE Sweep \/ Skip \/ SweepEnd \/ Return \/ SeeCancel
  BY <1>1, <1>6 DEF Sweep, Skip, SweepEnd, Return, SeeCancel, poolVars
<1>7. CASE Environment
  <2>1. CASE \E d \in Domains : NetworkChange(d)
    BY <2>1, ChangeValues
  <2>2. CASE UNCHANGED <<poolVars, answer, recorded>>
    BY <1>1, <2>2 DEF poolVars
  <2>3. QED
    BY <1>7, <2>1, <2>2 DEF Environment, TapObserve, Elapse, Tick, Cancel
<1>8. CASE Finished \/ UNCHANGED vars
  BY <1>1, <1>8 DEF Finished, vars, poolVars
<1>9. QED
  BY <1>2, <1>3, <1>4, <1>5, <1>6, <1>7, <1>8 DEF Next, Run, Work

-----------------------------------------------------------------------------
(* What the board shows between the two critical sections. *)

\* A step that keeps the verdicts on the board and moves nobody between the
\* two critical sections.
LEMMA OtherLevers ==
  ASSUME TypeOK, EnforcedUnderItsVerdict,
         \A d \in DOMAIN flows : /\ flows'[d].analyzed = flows[d].analyzed
                                 /\ flows'[d].action = flows[d].action
                                 /\ flows'[d].deepType = flows[d].deepType,
         \A h \in Goroutines :
           /\ pc'[h] \in {"enforce", "mark"} =>
                pc[h] \in {"enforce", "mark"} /\ dom'[h] = dom[h] /\ val'[h] = val[h]
           /\ pc'[h] = "mark" /\ pc[h] # "mark" =>
                Recommend(val[h].type) = "use-DoH"
  PROVE  EnforcedUnderItsVerdict'
<1>1. ASSUME NEW h \in Goroutines, pc'[h] \in {"enforce", "mark"}
      PROVE  dom[h] \in DOMAIN flows
  BY <1>1 DEF TypeOK, Owning, Holding
<1>2. QED
  BY <1>1 DEF EnforcedUnderItsVerdict

\* Recording: the verdict of g goes to the one domain g owns.
LEMMA RecordLevers ==
  ASSUME TypeOK, OneDiagnosisPerDomain, Values, EnforcedUnderItsVerdict,
         NEW g \in Goroutines, Record(g)
  PROVE  EnforcedUnderItsVerdict'
<1>1. /\ pc[g] = "record" /\ pc'[g] \in {"enforce", "release"}
      /\ \A h \in Goroutines \ {g} : pc'[h] = pc[h]
      /\ dom' = dom /\ val' = val
  BY DEF Record, Goto, TypeOK
<1>2. dom[g] \in DOMAIN flows /\ val[g].type \in Types
  BY <1>1 DEF TypeOK, Values, Owning, Holding
<1>3. /\ flows'[dom[g]].analyzed
      /\ flows'[dom[g]].action = Recommend(val[g].type)
      /\ flows'[dom[g]].deepType = val[g].type
      /\ \A x \in DOMAIN flows \ {dom[g]} : flows'[x] = flows[x]
  BY <1>2, SetVerdictFacts DEF Record, TypeOK
<1>4. ASSUME NEW h \in Goroutines \ {g}, pc'[h] \in {"enforce", "mark"}
      PROVE  dom[h] \in DOMAIN flows \ {dom[g]}
  BY <1>1, <1>4 DEF TypeOK, OneDiagnosisPerDomain, Owning, Holding
<1>5. QED
  BY <1>1, <1>3, <1>4 DEF EnforcedUnderItsVerdict

\* The levers are preserved by every step.
LEMMA LeversStep == IInv /\ [Next]_vars => EnforcedUnderItsVerdict'
<1> SUFFICES ASSUME TypeOK, OneDiagnosisPerDomain, Values,
                    EnforcedUnderItsVerdict, [Next]_vars
             PROVE  EnforcedUnderItsVerdict'
  BY DEF IInv
<1>1. CASE UNCHANGED <<flows, pc, dom, val>>
  BY <1>1 DEF EnforcedUnderItsVerdict
<1>2. ASSUME NEW g \in Goroutines, Start(g)
      PROVE  EnforcedUnderItsVerdict'
  <2>1. /\ pc'[g] = "acquire" /\ UNCHANGED <<flows, val>>
        /\ \A h \in Goroutines \ {g} : pc'[h] = pc[h] /\ dom'[h] = dom[h]
    BY <1>2 DEF Start, TypeOK
  <2>2. QED
    BY <2>1, OtherLevers
<1>3. ASSUME NEW g \in Goroutines,
             \/ Acquire(g) \/ GiveUp(g) \/ Release(g) \/ Delete(g) \/ WgDone(g)
             \/ Diagnose(g) \/ NotEnforced(g)
      PROVE  EnforcedUnderItsVerdict'
  <2>1. /\ pc'[g] \notin {"enforce", "mark"}
        /\ UNCHANGED flows
        /\ \A h \in Goroutines \ {g} :
             pc'[h] = pc[h] /\ dom'[h] = dom[h] /\ val'[h] = val[h]
    BY <1>3 DEF Acquire, GiveUp, Release, Delete, WgDone, Diagnose, NotEnforced,
                Goto, TypeOK
  <2>2. QED
    BY <2>1, OtherLevers
<1>4. ASSUME NEW g \in Goroutines, Enforced(g)
      PROVE  EnforcedUnderItsVerdict'
  <2>1. /\ pc[g] = "enforce" /\ Recommend(val[g].type) = "use-DoH"
        /\ UNCHANGED <<flows, dom, val>>
        /\ \A h \in Goroutines \ {g} : pc'[h] = pc[h]
    BY <1>4 DEF Enforced, Goto, TypeOK
  <2>2. QED
    BY <2>1, OtherLevers
<1>5. ASSUME NEW g \in Goroutines, Mark(g)
      PROVE  EnforcedUnderItsVerdict'
  <2>1. /\ pc[g] = "mark" /\ pc'[g] = "release"
        /\ UNCHANGED <<dom, val>>
        /\ \A h \in Goroutines \ {g} : pc'[h] = pc[h]
    BY <1>5 DEF Mark, Goto, TypeOK
  <2>2. dom[g] \in DOMAIN flows
    BY <2>1 DEF TypeOK, Owning, Holding
  <2>3. \A x \in DOMAIN flows : /\ flows'[x].analyzed = flows[x].analyzed
                                /\ flows'[x].action = flows[x].action
                                /\ flows'[x].deepType = flows[x].deepType
    BY <1>5, <2>2, SetEnforcedFacts DEF Mark, TypeOK
  <2>4. QED
    BY <2>1, <2>3, OtherLevers
<1>6. ASSUME NEW g \in Goroutines, Record(g)
      PROVE  EnforcedUnderItsVerdict'
  BY <1>6, RecordLevers
<1>7. CASE Sweep \/ Skip \/ SweepEnd \/ Return \/ SeeCancel
  BY <1>1, <1>7 DEF Sweep, Skip, SweepEnd, Return, SeeCancel, poolVars
<1>8. CASE Environment
  <2>1. CASE \E e \in TapEvents : TapObserve(e)
    <3>1. PICK e \in Event : Observe(e)
      BY <2>1, EscalatorAssumption DEF TapObserve
    <3>2. \A x \in DOMAIN flows : /\ flows'[x].analyzed = flows[x].analyzed
                                  /\ flows'[x].action = flows[x].action
                                  /\ flows'[x].deepType = flows[x].deepType
      BY <3>1, ObserveFacts DEF TypeOK
    <3>3. UNCHANGED <<pc, dom, val>>
      BY <2>1 DEF TapObserve, poolVars
    <3>4. QED
      BY <3>2, <3>3, OtherLevers
  <2>2. CASE \E d \in Domains : Elapse(d)
    <3>1. \A x \in DOMAIN flows : /\ flows'[x].analyzed = flows[x].analyzed
                                  /\ flows'[x].action = flows[x].action
                                  /\ flows'[x].deepType = flows[x].deepType
      BY <2>2, AgeFacts DEF Elapse, TypeOK
    <3>2. UNCHANGED <<pc, dom, val>>
      BY <2>2 DEF Elapse, poolVars
    <3>3. QED
      BY <3>1, <3>2, OtherLevers
  <2>3. CASE Tick \/ Cancel \/ \E d \in Domains : NetworkChange(d)
    BY <1>1, <2>3 DEF Tick, Cancel, NetworkChange, poolVars
  <2>4. QED
    BY <1>8, <2>1, <2>2, <2>3 DEF Environment
<1>9. CASE Finished \/ UNCHANGED vars
  BY <1>1, <1>9 DEF Finished, vars, poolVars
<1>10. QED
  BY <1>2, <1>3, <1>4, <1>5, <1>6, <1>7, <1>8, <1>9 DEF Next, Run, Work

-----------------------------------------------------------------------------
(* Types. *)

\* What is typed besides the board, the counters and the goroutines' state.
\* The board never loses a domain, so whatever was listed or owned stays on it.
LEMMA BoardStep ==
  ASSUME TypeOK, Values, [Next]_vars
  PROVE  TrackerTypeOK' /\ DOMAIN flows \subseteq DOMAIN flows'
<1>1. CASE UNCHANGED flows
  BY <1>1 DEF TypeOK, TrackerTypeOK
<1>2. ASSUME NEW g \in Goroutines, Record(g)
      PROVE  TrackerTypeOK' /\ DOMAIN flows \subseteq DOMAIN flows'
  <2>1. dom[g] \in DOMAIN flows /\ val[g].type \in Types
    BY <1>2 DEF Record, Goto, TypeOK, Values, Owning, Holding
  <2>2. QED
    BY <1>2, <2>1, SetVerdictFacts DEF Record, TypeOK
<1>3. ASSUME NEW g \in Goroutines, Mark(g)
      PROVE  TrackerTypeOK' /\ DOMAIN flows \subseteq DOMAIN flows'
  <2>1. dom[g] \in DOMAIN flows
    BY <1>3 DEF Mark, Goto, TypeOK, Owning, Holding
  <2>2. QED
    BY <1>3, <2>1, SetEnforcedFacts DEF Mark, TypeOK
<1>4. ASSUME NEW g \in Goroutines,
             \/ Start(g) \/ Acquire(g) \/ GiveUp(g) \/ Diagnose(g)
             \/ Enforced(g) \/ NotEnforced(g) \/ Release(g) \/ Delete(g)
             \/ WgDone(g)
      PROVE  UNCHANGED flows
  BY <1>4 DEF Start, Acquire, GiveUp, Diagnose, Enforced, NotEnforced,
              Release, Delete, WgDone
<1>5. CASE Sweep \/ Skip \/ SweepEnd \/ Return \/ SeeCancel
  BY <1>1, <1>5 DEF Sweep, Skip, SweepEnd, Return, SeeCancel
<1>6. CASE Environment
  <2>1. CASE \E e \in TapEvents : TapObserve(e)
    BY <2>1, ObserveFacts, EscalatorAssumption DEF TapObserve, TypeOK
  <2>2. CASE \E d \in Domains : Elapse(d)
    BY <2>2, AgeFacts DEF Elapse, TypeOK
  <2>3. CASE UNCHANGED flows
    BY <1>1, <2>3
  <2>4. QED
    BY <1>6, <2>1, <2>2, <2>3 DEF Environment, Tick, Cancel, NetworkChange
<1>7. CASE Finished \/ UNCHANGED vars
  BY <1>1, <1>7 DEF Finished, vars
<1>8. QED
  BY <1>1, <1>2, <1>3, <1>4, <1>5, <1>6, <1>7 DEF Next, Run, Work

\* A step of a goroutine, or a new one, for a domain on the board.
LEMMA GoroutineTypes ==
  ASSUME TypeOK, DOMAIN flows \subseteq DOMAIN flows',
         NEW g \in Goroutines, NEW to \in PCs,
         pc' = [pc EXCEPT ![g] = to],
         dom' \in [Goroutines -> Domains \cup {NoDomain}],
         \A h \in Goroutines \ {g} : dom'[h] = dom[h],
         to \in Owning => dom'[g] \in DOMAIN flows
  PROVE  /\ pc' \in [Goroutines -> PCs]
         /\ \A h \in Goroutines : pc'[h] \in Owning => dom'[h] \in DOMAIN flows'
BY DEF TypeOK

\* The types of everything a goroutine or Run writes.
LEMMA TypeStep == IInv /\ [Next]_vars => TypeOK'
<1> SUFFICES ASSUME IInv, [Next]_vars
             PROVE  TypeOK'
  OBVIOUS
<1> USE DEF IInv
<1>1. TrackerTypeOK' /\ DOMAIN flows \subseteq DOMAIN flows'
  BY BoardStep
<1>2. sem' \in Nat /\ wg' \in Nat
  BY CountsStep
<1>3. /\ runPc' \in {"select", "sweep", "wait", "returned"}
      /\ tick' \in BOOLEAN /\ cancelled' \in BOOLEAN
      /\ todo' \subseteq DOMAIN flows
  <2>1. CASE UNCHANGED runVars
    BY <2>1 DEF runVars, TypeOK
  <2>2. ASSUME NEW g \in Goroutines, Start(g)
        PROVE  UNCHANGED <<runPc, tick, cancelled>> /\ todo' \subseteq todo
    BY <2>2 DEF Start
  <2>3. ASSUME NEW g \in Goroutines, Acquire(g) \/ GiveUp(g) \/ Work(g)
        PROVE  UNCHANGED runVars
    BY <2>3 DEF Acquire, GiveUp, Work, Diagnose, Record, Enforced, NotEnforced,
                Mark, Release, Delete, WgDone
  <2>4. CASE Sweep \/ Skip \/ SweepEnd \/ Return \/ SeeCancel
    BY <2>4 DEF Sweep, Skip, SweepEnd, Return, SeeCancel, PendingAnalysis, TypeOK
  <2>5. CASE Environment
    BY <2>5 DEF Environment, TapObserve, Elapse, NetworkChange, Tick, Cancel,
                runVars, TypeOK
  <2>6. CASE Finished \/ UNCHANGED vars
    BY <2>1, <2>6 DEF Finished, vars
  <2>7. QED
    BY <2>1, <2>2, <2>3, <2>4, <2>5, <2>6 DEF Next, Run, TypeOK
<1>4. inFlight' \subseteq Domains
  <2>1. CASE UNCHANGED inFlight
    BY <2>1 DEF TypeOK
  <2>2. ASSUME NEW g \in Goroutines, Start(g) \/ Delete(g)
        PROVE  inFlight' \subseteq Domains
    BY <2>2 DEF Start, Delete, TypeOK
  <2>3. ASSUME NEW g \in Goroutines,
               \/ Acquire(g) \/ GiveUp(g) \/ Diagnose(g) \/ Record(g)
               \/ Enforced(g) \/ NotEnforced(g) \/ Mark(g) \/ Release(g)
               \/ WgDone(g)
        PROVE  UNCHANGED inFlight
    BY <2>3 DEF Acquire, GiveUp, Diagnose, Record, Enforced, NotEnforced, Mark,
                Release, WgDone
  <2>4. CASE Sweep \/ Skip \/ SweepEnd \/ Return \/ SeeCancel
    BY <2>1, <2>4 DEF Sweep, Skip, SweepEnd, Return, SeeCancel, poolVars
  <2>5. CASE Environment
    BY <2>1, <2>5 DEF Environment, TapObserve, Elapse, NetworkChange, Tick,
                      Cancel, poolVars
  <2>6. CASE Finished \/ UNCHANGED vars
    BY <2>1, <2>6 DEF Finished, vars, poolVars
  <2>7. QED
    BY <2>1, <2>2, <2>3, <2>4, <2>5, <2>6 DEF Next, Run, Work
<1>5. /\ val' \in [Goroutines -> Answer]
      /\ answer' \in [Domains -> Answer]
      /\ recorded' \in [Domains -> Nat]
  <2>1. CASE UNCHANGED <<val, answer, recorded>>
    BY <2>1 DEF TypeOK
  <2>2. ASSUME NEW g \in Goroutines, Diagnose(g)
        PROVE  val' \in [Goroutines -> Answer] /\ UNCHANGED <<answer, recorded>>
    <3>1. dom[g] \in Domains
      BY <2>2 DEF Diagnose, TypeOK, TrackerTypeOK, Owning, Holding
    <3>2. QED
      BY <2>2, <3>1 DEF Diagnose, TypeOK
  <2>3. ASSUME NEW g \in Goroutines, Record(g)
        PROVE  recorded' \in [Domains -> Nat] /\ UNCHANGED <<val, answer>>
    BY <2>3 DEF Record, TypeOK, Answer
  <2>4. ASSUME NEW g \in Goroutines, WgDone(g)
        PROVE  val' \in [Goroutines -> Answer] /\ UNCHANGED <<answer, recorded>>
    <3>1. [type |-> NilVerdict, epoch |-> 0] \in Answer
      BY DEF Answer
    <3>2. QED
      BY <2>4, <3>1 DEF WgDone, TypeOK
  <2>5. ASSUME NEW g \in Goroutines,
               \/ Start(g) \/ Acquire(g) \/ GiveUp(g) \/ Enforced(g)
               \/ NotEnforced(g) \/ Mark(g) \/ Release(g) \/ Delete(g)
        PROVE  UNCHANGED <<val, answer, recorded>>
    BY <2>5 DEF Start, Acquire, GiveUp, Enforced, NotEnforced, Mark, Release,
                Delete
  <2>6. CASE Sweep \/ Skip \/ SweepEnd \/ Return \/ SeeCancel
    BY <2>1, <2>6 DEF Sweep, Skip, SweepEnd, Return, SeeCancel, poolVars
  <2>7. CASE Environment
    <3>1. ASSUME NEW d \in Domains, NetworkChange(d)
          PROVE  answer' \in [Domains -> Answer] /\ UNCHANGED <<val, recorded>>
      <4>1. PICK t \in Answers :
              answer' = [answer EXCEPT ![d] = [type |-> t, epoch |-> @.epoch + 1]]
        BY <3>1 DEF NetworkChange
      <4>2. answer[d].epoch + 1 \in Nat /\ t \in Types \cup {NilVerdict}
        BY EscalatorAssumption DEF TypeOK, Answer
      <4>3. [type |-> t, epoch |-> answer[d].epoch + 1] \in Answer
        BY <4>2 DEF Answer
      <4>4. QED
        BY <3>1, <4>1, <4>3 DEF NetworkChange, poolVars, TypeOK
    <3>2. QED
      BY <2>1, <2>7, <3>1 DEF Environment, TapObserve, Elapse, Tick, Cancel,
                              poolVars, TypeOK
  <2>8. CASE Finished \/ UNCHANGED vars
    BY <2>1, <2>8 DEF Finished, vars, poolVars
  <2>9. QED
    BY <2>1, <2>2, <2>3, <2>4, <2>5, <2>6, <2>7, <2>8
    DEF Next, Run, Work, TypeOK
<1> DEFINE Placed ==
             /\ pc \in [Goroutines -> PCs]
             /\ dom \in [Goroutines -> Domains \cup {NoDomain}]
             /\ \A h \in Goroutines : pc[h] \in Owning => dom[h] \in DOMAIN flows
<1>6. Placed'
  <2>1. CASE UNCHANGED <<pc, dom>>
    BY <1>1, <2>1 DEF TypeOK
  <2>2. ASSUME NEW g \in Goroutines, Start(g)
        PROVE  Placed'
    <3>1. PICK d \in Domains : First(d) /\ dom' = [dom EXCEPT ![g] = d]
      BY <2>2 DEF Start
    <3>2. d \in DOMAIN flows
      BY <3>1 DEF First, TypeOK
    <3>3. /\ pc' = [pc EXCEPT ![g] = "acquire"] /\ "acquire" \in PCs
          /\ dom'[g] = d /\ \A h \in Goroutines \ {g} : dom'[h] = dom[h]
          /\ dom' \in [Goroutines -> Domains \cup {NoDomain}]
      BY <2>2, <3>1 DEF Start, TypeOK, PCs, Owning
    <3>4. QED
      BY <1>1, <3>2, <3>3, GoroutineTypes
  <2>3. ASSUME NEW g \in Goroutines, Acquire(g) \/ GiveUp(g) \/ Work(g)
        PROVE  Placed'
    <3>1. PICK to \in PCs :
            pc' = [pc EXCEPT ![g] = to] /\ (to \in Owning => pc[g] \in Owning /\ dom' = dom)
      BY <2>3 DEF Acquire, GiveUp, Work, Diagnose, Record, Enforced, NotEnforced,
                  Mark, Release, Delete, WgDone, Goto, PCs, Owning, Holding
    <3>2. /\ dom' \in [Goroutines -> Domains \cup {NoDomain}]
          /\ \A h \in Goroutines \ {g} : dom'[h] = dom[h]
      BY <2>3 DEF Acquire, GiveUp, Work, Diagnose, Record, Enforced, NotEnforced,
                  Mark, Release, Delete, WgDone, TypeOK
    <3>3. to \in Owning => dom'[g] \in DOMAIN flows
      BY <3>1 DEF TypeOK
    <3>4. QED
      BY <1>1, <3>1, <3>2, <3>3, GoroutineTypes
  <2>4. CASE Sweep \/ Skip \/ SweepEnd \/ Return \/ SeeCancel
    BY <2>1, <2>4 DEF Sweep, Skip, SweepEnd, Return, SeeCancel, poolVars
  <2>5. CASE Environment
    BY <2>1, <2>5 DEF Environment, TapObserve, Elapse, NetworkChange, Tick,
                      Cancel, poolVars
  <2>6. CASE Finished \/ UNCHANGED vars
    BY <2>1, <2>6 DEF Finished, vars, poolVars
  <2>7. QED
    BY <2>2, <2>3, <2>4, <2>5, <2>6 DEF Next, Run
<1>7. QED
  BY <1>1, <1>2, <1>3, <1>4, <1>5, <1>6 DEF TypeOK

-----------------------------------------------------------------------------
(* The theorems. *)

\* The inductive invariant holds initially.
LEMMA InitIInv == Init => IInv
<1> SUFFICES ASSUME Init
             PROVE  IInv
  OBVIOUS
<1>1. Live = {} /\ Holders = {}
  BY DEF Init, Live, Holders, Holding
<1>2. IsFiniteSet({}) /\ Cardinality({}) = 0
  BY FS_EmptySet
<1>3. Counts
  BY <1>1, <1>2, EscalatorAssumption DEF Init, Counts, SlotsAccounted
<1>4. PICK a \in [Domains -> {[type |-> t, epoch |-> 0] : t \in Answers}] :
        answer = a
  BY DEF Init
<1>5. answer \in [Domains -> Answer] /\ \A d \in Domains : answer[d].epoch = 0
  BY <1>4, EscalatorAssumption DEF Answer
<1>6. TypeOK
  BY <1>5 DEF Init, TypeOK, TrackerInit, TrackerTypeOK, PCs, Owning, Holding,
              Answer
<1>7. OneDiagnosisPerDomain
  BY DEF Init, OneDiagnosisPerDomain, Owning, Holding
<1>8. Values /\ EnforcedUnderItsVerdict
  BY <1>5 DEF Init, Values, EnforcedUnderItsVerdict
<1>9. QED
  BY <1>3, <1>6, <1>7, <1>8 DEF IInv

\* The inductive invariant is preserved by every step.
LEMMA IInvStep == IInv /\ [Next]_vars => IInv'
BY TypeStep, OwnershipStep, CountsStep, ValuesStep, LeversStep DEF IInv

\* The inductive invariant holds of every reachable state.
THEOREM Invariance == Spec => []IInv
BY InitIInv, IInvStep, PTL DEF Spec

\* Every variable of the escalator keeps to its type; that the semaphore and
\* the WaitGroup never go negative is part of it.
THEOREM TypeCorrect == Spec => []TypeOK
<1>1. IInv => TypeOK
  BY DEF IInv
<1>2. QED
  BY Invariance, <1>1, PTL

\* However sweeps and deferred calls interleave, no domain is diagnosed by two
\* goroutines at a time (the inFlight map of Escalator.Run).
THEOREM ExclusiveDiagnosis == Spec => []OneDiagnosisPerDomain
<1>1. IInv => OneDiagnosisPerDomain
  BY DEF IInv
<1>2. QED
  BY Invariance, <1>1, PTL

\* The semaphore of Escalator.Run bounds the diagnoses under way.
THEOREM BoundedConcurrency == Spec => []ConcurrencyBound
<1>1. IInv => ConcurrencyBound
  BY DEF IInv, Counts, SlotsAccounted, ConcurrencyBound
<1>2. QED
  BY Invariance, <1>1, PTL

\* On no path out of analyze is a slot lost or given back twice.
THEOREM SlotsAreAccounted == Spec => []SlotsAccounted
<1>1. IInv => SlotsAccounted
  BY DEF IInv, Counts
<1>2. QED
  BY Invariance, <1>1, PTL

\* Once Run has returned, nothing it started is left: no goroutine, no entry
\* in inFlight, no taken slot.
THEOREM CleanReturn == Spec => []QuietAfterReturn
<1>1. IInv => QuietAfterReturn
  <2> SUFFICES ASSUME IInv, runPc = "returned"
               PROVE  Live = {} /\ inFlight = {} /\ sem = 0
    BY DEF QuietAfterReturn
  <2>1. Live = {}
    BY FS_EmptySet DEF IInv, Counts
  <2>2. Holders = {} /\ \A g \in Goroutines : pc[g] \notin Owning
    BY <2>1 DEF Live, Holders, Owning, Holding
  <2>3. inFlight = {}
    BY <2>2 DEF IInv, OneDiagnosisPerDomain
  <2>4. sem = 0
    BY <2>2, FS_EmptySet DEF IInv, Counts, SlotsAccounted
  <2>5. QED
    BY <2>1, <2>3, <2>4
<1>2. QED
  BY Invariance, <1>1, PTL

\* Verdicts reach the board in the order their measurements were made.
THEOREM VerdictsInOrder == Spec => NoStaleOverwrite
<1>1. IInv /\ [Next]_vars =>
        [\A d \in Domains : recorded[d] <= recorded'[d]]_vars
  <2> SUFFICES ASSUME IInv, Next
               PROVE  \A d \in Domains : recorded[d] <= recorded'[d]
    BY DEF IInv
  <2>1. \A d \in Domains : recorded[d] \in Nat
    BY DEF IInv, TypeOK
  <2>2. CASE UNCHANGED recorded
    BY <2>1, <2>2
  <2>3. ASSUME NEW g \in Goroutines, Record(g)
        PROVE  \A d \in Domains : recorded[d] <= recorded'[d]
    <3>1. recorded[dom[g]] <= val[g].epoch
      BY <2>3 DEF Record, Goto, IInv, Values
    <3>2. recorded' = [recorded EXCEPT ![dom[g]] = val[g].epoch]
      BY <2>3 DEF Record
    <3>3. QED
      BY <2>1, <3>1, <3>2 DEF IInv, TypeOK
  <2>4. ASSUME NEW g \in Goroutines,
               \/ Start(g) \/ Acquire(g) \/ GiveUp(g) \/ Diagnose(g)
               \/ Enforced(g) \/ NotEnforced(g) \/ Mark(g) \/ Release(g)
               \/ Delete(g) \/ WgDone(g)
        PROVE  UNCHANGED recorded
    BY <2>4 DEF Start, Acquire, GiveUp, Diagnose, Enforced, NotEnforced, Mark,
                Release, Delete, WgDone
  <2>5. CASE Sweep \/ Skip \/ SweepEnd \/ Return \/ SeeCancel
    BY <2>2, <2>5 DEF Sweep, Skip, SweepEnd, Return, SeeCancel
  <2>6. CASE Environment
    BY <2>2, <2>6 DEF Environment, TapObserve, Elapse, NetworkChange, Tick, Cancel
  <2>7. CASE Finished
    BY <2>2, <2>7 DEF Finished, vars
  <2>8. QED
    BY <2>2, <2>3, <2>4, <2>5, <2>6, <2>7 DEF Next, Run, Work
<1>2. QED
  BY Invariance, <1>1, PTL DEF Spec, NoStaleOverwrite

\* From recording a verdict to marking its enforcement the board shows that
\* verdict and its lever, although analyze writes them at different times.
THEOREM LeverMatchesVerdict == Spec => []EnforcedUnderItsVerdict
<1>1. IInv => EnforcedUnderItsVerdict
  BY DEF IInv
<1>2. QED
  BY Invariance, <1>1, PTL

-----------------------------------------------------------------------------
(* Live mode over the escalator and the enforcer. *)

\* The steps of the escalator that Live takes on behalf of the enforcer.
LEMMA EscalatorStep == [LiveNext]_liveVars => [Next]_vars \/ Restart
<1> USE DEF Next, Work
<1>1. ASSUME NEW g \in Goroutines, Elsewhere(g)
      PROVE  Next
  BY <1>1 DEF Elsewhere
<1>2. ASSUME NEW g \in Goroutines, Advisory(g) \/ Fails(g) \/ Succeeds(g)
      PROVE  Next
  BY <1>2 DEF Advisory, Fails, Succeeds
<1>3. ASSUME NEW g \in Goroutines, Enter(g) \/ Inside(g)
      PROVE  UNCHANGED vars
  BY <1>3 DEF Enter, Inside
<1>4. QED
  BY <1>1, <1>2, <1>3 DEF LiveNext, liveVars

\* A new process meets the invariant, whatever the old one was doing.
LEMMA RestartIInv == IInv /\ Restart => IInv'
<1> SUFFICES ASSUME IInv, Restart
             PROVE  IInv'
  OBVIOUS
<1>1. Live' = {} /\ Holders' = {}
  BY DEF Restart, Live, Holders, Holding
<1>2. IsFiniteSet({}) /\ Cardinality({}) = 0
  BY FS_EmptySet
<1>3. Counts'
  BY <1>1, <1>2, EscalatorAssumption DEF Restart, Counts, SlotsAccounted
<1>4. TypeOK'
  BY DEF Restart, IInv, TypeOK, TrackerTypeOK, PCs, Owning, Holding, Answer
<1>5. OneDiagnosisPerDomain'
  BY DEF Restart, OneDiagnosisPerDomain, Owning, Holding
<1>6. Values' /\ EnforcedUnderItsVerdict'
  BY DEF Restart, Values, EnforcedUnderItsVerdict, IInv, TypeOK, Answer
<1>7. QED
  BY <1>3, <1>4, <1>5, <1>6 DEF IInv

\* The escalator's invariant, of live mode.
LEMMA EscalatorInv == LiveSpec => [](IInv /\ TypeOK)
<1>1. LiveInit => IInv
  BY InitIInv DEF LiveInit
<1>2. IInv /\ [LiveNext]_liveVars => IInv'
  BY IInvStep, RestartIInv, EscalatorStep
<1>3. IInv => TypeOK
  BY DEF IInv
<1>4. QED
  BY <1>1, <1>2, <1>3, PTL DEF LiveSpec

\* The enforcer's steps; the lever of a call is DNS tampering's.
LEMMA FileStep == [LiveNext]_liveVars /\ TypeOK => [File!Next]_(File!vars)
<1> SUFFICES ASSUME [LiveNext]_liveVars, TypeOK
             PROVE  File!Next \/ UNCHANGED File!vars
  OBVIOUS
<1>1. ASSUME UNCHANGED fileVars
      PROVE  UNCHANGED File!vars
  BY <1>1 DEF fileVars, File!vars, File!files
<1>2. ASSUME NEW g \in Goroutines, Enter(g)
      PROVE  File!Next
  <2>1. val[g].type = "DNS_TAMPERING"
    BY <1>2 DEF Enter, Calls, Recommend
  <2>2. dom[g] \in Domains
    BY <1>2 DEF Enter, Calls, TypeOK, TrackerTypeOK, Owning, Holding
  <2>3. File!Call(g, dom[g], "DNS_TAMPERING")
    BY <1>2, <2>1 DEF Enter
  <2>4. QED
    BY <2>2, <2>3 DEF File!Next
<1>3. ASSUME NEW g \in Goroutines, Inside(g) \/ Fails(g) \/ Succeeds(g)
      PROVE  File!Next
  BY <1>3 DEF Inside, Fails, Succeeds, File!Next
<1>4. ASSUME NEW g \in Goroutines, Elsewhere(g) \/ Advisory(g)
      PROVE  UNCHANGED fileVars
  BY <1>4 DEF Elsewhere, Advisory
<1>5. ASSUME Restart
      PROVE  File!Next
  BY <1>5 DEF Restart, File!Next
<1>6. QED
  BY <1>1, <1>2, <1>3, <1>4, <1>5 DEF LiveNext, liveVars

\* What live mode does to the file, the enforcer does.
LEMMA LiveIsEnforcer == LiveSpec => File!Spec
<1>1. LiveInit => File!Init
  BY DEF LiveInit
<1>2. QED
  BY <1>1, EscalatorInv, FileStep, PTL DEF LiveSpec, File!Spec

-----------------------------------------------------------------------------
(* The types, and whose call is under way. *)

\* A goroutine inside Enforce stands at its call, made for its own domain.
Calling == \A g \in Goroutines : at[g] # "idle" => Calls(g) /\ host[g] = dom[g]

\* A goroutine's stand and what its call is for change only by its own steps.
LEMMA OthersStand ==
  ASSUME TypeOK, NEW g \in Goroutines,
         Acquire(g) \/ GiveUp(g) \/ Work(g)
  PROVE  \A h \in Goroutines \ {g} :
           pc'[h] = pc[h] /\ val'[h] = val[h] /\ dom'[h] = dom[h]
BY DEF Acquire, GiveUp, Work, Diagnose, Record, Enforced, NotEnforced, Mark,
       Release, Delete, WgDone, Goto, TypeOK, poolVars, runVars

\* Run starts only goroutines that are idle; the environment moves none.
LEMMA RunStand ==
  ASSUME TypeOK, Run \/ SeeCancel \/ Environment \/ Finished,
         NEW h \in Goroutines, pc[h] # "idle"
  PROVE  pc'[h] = pc[h] /\ val'[h] = val[h] /\ dom'[h] = dom[h]
BY DEF Run, Sweep, Skip, Start, SweepEnd, Return, SeeCancel, Environment,
       TapObserve, Elapse, NetworkChange, Tick, Cancel, Finished, TypeOK,
       poolVars, runVars, vars

LEMMA CallingStep ==
  ASSUME TypeOK, Calling, File!TypeOK, [LiveNext]_liveVars
  PROVE  Calling'
<1> USE DEF Calling, Calls
<1>1. CASE (Run \/ SeeCancel \/ Environment \/ Finished) /\ UNCHANGED fileVars
  BY <1>1, RunStand DEF fileVars
<1>2. ASSUME NEW g \in Goroutines, Elsewhere(g)
      PROVE  Calling'
  <2>1. at[g] = "idle"
    BY <1>2 DEF Elsewhere, Acquire, GiveUp, Diagnose, Record, Mark, Release,
                Delete, WgDone, Goto
  <2>2. \A h \in Goroutines \ {g} :
          pc'[h] = pc[h] /\ val'[h] = val[h] /\ dom'[h] = dom[h]
    BY <1>2, OthersStand DEF Elsewhere, Work
  <2>3. UNCHANGED <<at, host>>
    BY <1>2 DEF Elsewhere, fileVars
  <2>4. QED
    BY <2>1, <2>2, <2>3
<1>3. ASSUME NEW g \in Goroutines, Advisory(g)
      PROVE  Calling'
  <2>1. at[g] = "idle" /\ UNCHANGED <<at, host>>
    BY <1>3 DEF Advisory, fileVars
  <2>2. \A h \in Goroutines \ {g} :
          pc'[h] = pc[h] /\ val'[h] = val[h] /\ dom'[h] = dom[h]
    BY <1>3, OthersStand DEF Advisory, Work
  <2>3. QED
    BY <2>1, <2>2
<1>4. ASSUME NEW g \in Goroutines, Enter(g)
      PROVE  Calling'
  BY <1>4 DEF Enter, File!Call, File!TypeOK, vars, poolVars
<1>5. ASSUME NEW g \in Goroutines, Inside(g)
      PROVE  Calling'
  BY <1>5 DEF Inside, File!Update, File!Open, File!Write, File!TypeOK, vars,
              poolVars
<1>6. ASSUME NEW g \in Goroutines, Fails(g) \/ Succeeds(g)
      PROVE  Calling'
  <2>1. at' = [at EXCEPT ![g] = "idle"] /\ host' = [host EXCEPT ![g] = NoDomain]
    BY <1>6 DEF Fails, Succeeds, File!ResolveFails, File!WriteFails,
                File!Rename, File!Leave
  <2>2. \A h \in Goroutines \ {g} :
          pc'[h] = pc[h] /\ val'[h] = val[h] /\ dom'[h] = dom[h]
    BY <1>6, OthersStand DEF Fails, Succeeds, Work
  <2>3. QED
    BY <2>1, <2>2 DEF File!TypeOK
<1>7. CASE UNCHANGED liveVars
  BY <1>7 DEF liveVars, fileVars, vars, poolVars
<1>8. CASE Restart
  BY <1>8 DEF Restart, File!Restart
<1>9. QED
  BY <1>1, <1>2, <1>3, <1>4, <1>5, <1>6, <1>7, <1>8 DEF LiveNext

\* The premises of the enforcer's module, for its instance here.
LEMMA FileAssumption ==
  /\ NoDomain \notin Domains /\ NoIP \notin IPs /\ NoFile \notin Inodes
  /\ Empty # Torn /\ MaxCalls \in Nat
BY LiveAssumption, DomainsAssumption

\* Enforcer and its proofs are instantiated with the same substitution.
LEMMA SameEnforcer ==
  /\ File!Init <=> FileProofs!Init
  /\ [File!Next]_(File!vars) <=> [FileProofs!Next]_(FileProofs!vars)
  /\ File!TypeOK <=> FileProofs!TypeOK
<1>1. File!Init <=> FileProofs!Init
  BY
     DEF File!Init, File!NoOverrides, FileProofs!Init,
         FileProofs!NoOverrides
<1>2. [File!Next]_(File!vars) <=> [FileProofs!Next]_(FileProofs!vars)
  BY
     DEF File!Next, File!vars, File!files, File!Call, File!Update,
         File!ResolveFails, File!Open, File!Write, File!WriteFails,
         File!Rename, File!Restart, File!Recommend, File!OthersWriting,
         File!Writing, File!Overwritten, File!Leave, File!NoOverrides,
         FileProofs!Next, FileProofs!vars, FileProofs!files,
         FileProofs!Call, FileProofs!Update, FileProofs!ResolveFails,
         FileProofs!Open, FileProofs!Write, FileProofs!WriteFails,
         FileProofs!Rename, FileProofs!Restart, FileProofs!Recommend,
         FileProofs!OthersWriting, FileProofs!Writing,
         FileProofs!Overwritten, FileProofs!Leave,
         FileProofs!NoOverrides
<1>3. File!TypeOK <=> FileProofs!TypeOK
  BY
     DEF File!TypeOK, File!Table, File!Writing, FileProofs!TypeOK,
         FileProofs!Table, FileProofs!Writing
<1>4. QED
  BY <1>1, <1>2, <1>3

\* The enforcer's types, of live mode.
LEMMA FileTypes == LiveSpec => []File!TypeOK
<1>1. FileProofs!Spec => []FileProofs!TypeOK
  BY FileAssumption, FileProofs!TypeCorrect
<1>2. QED
  BY LiveIsEnforcer, SameEnforcer, <1>1, PTL DEF File!Spec, FileProofs!Spec

\* Both parts keep to their types, and a goroutine inside Enforce stands at
\* its call in analyze.
THEOREM LiveTypes == LiveSpec => []LiveTypeOK
<1>1. LiveInit => Calling
  BY DEF LiveInit, File!Init, Calling
<1>2. TypeOK /\ File!TypeOK /\ Calling /\ [LiveNext]_liveVars => Calling'
  BY CallingStep
<1>3. TypeOK /\ File!TypeOK /\ Calling => LiveTypeOK
  BY DEF LiveTypeOK, Calling
<1>4. QED
  BY EscalatorInv, FileTypes, <1>1, <1>2, <1>3, PTL DEF LiveSpec

\* With any number of slots no goroutine comes to Enforce while another is
\* inside for the same domain: escalate.go:55 keeps them apart.
THEOREM CallsAreApart == LiveSpec => []CallsApart
<1>1. LiveTypeOK /\ IInv => CallsApart
  <2> SUFFICES ASSUME LiveTypeOK, OneDiagnosisPerDomain,
                      NEW g \in Goroutines, NEW h \in Goroutines,
                      Calls(g), at[h] # "idle", host[h] = dom[g]
               PROVE  g = h
    BY DEF CallsApart, IInv
  <2>1. pc[g] = "enforce" /\ pc[h] = "enforce" /\ dom[g] = dom[h]
    BY DEF LiveTypeOK, Calls
  <2>2. QED
    BY <2>1 DEF OneDiagnosisPerDomain, Owning, Holding
<1>2. QED
  BY LiveTypes, EscalatorInv, <1>1, PTL

\* With any number of slots, a write of the managed file that no other overlaps
\* puts every override resolved so far into it, whatever overlapping writes have
\* left there before.
THEOREM AnySlotsRepair == LiveSpec => File!SoloWriteRepairs
<1>1. FileProofs!Spec => FileProofs!SoloWriteRepairs
  BY FileAssumption, FileProofs!SoloRepairs
<1>2. FileProofs!Spec => File!SoloWriteRepairs
  BY <1>1
  DEF File!SoloWriteRepairs, FileProofs!SoloWriteRepairs, File!vars,
      FileProofs!vars, File!files, FileProofs!files
<1>3. QED
  BY LiveIsEnforcer, SameEnforcer, <1>2, PTL DEF File!Spec, FileProofs!Spec

\* With any number of slots and domains, live mode implements OverrideFile:
\* until two writings overlap, and again from the next that none overlaps, the
\* file is all that was accepted at some moment, through any failure and any
\* end of the process.
THEOREM PromiseKept == LiveSpec => FilePromise
<1>1. FileProofs!Spec => FileProofs!Implements
  BY FileAssumption, FileProofs!Implementation
<1>2. FileProofs!Spec => FilePromise
  BY <1>1
  DEF FilePromise, File!Implements, FileProofs!Implements,
      File!Promise!Spec, FileProofs!Promise!Spec,
      File!Promise!Init, FileProofs!Promise!Init,
      File!Promise!Next, FileProofs!Promise!Next,
      File!Promise!Accept, FileProofs!Promise!Accept,
      File!Promise!Replace, FileProofs!Promise!Replace,
      File!Promise!Disturbed, FileProofs!Promise!Disturbed,
      File!Promise!Restart, FileProofs!Promise!Restart,
      File!Promise!Table, FileProofs!Promise!Table,
      File!Promise!NoOverrides, FileProofs!Promise!NoOverrides,
      File!Content, FileProofs!Content,
      File!NoOverrides, FileProofs!NoOverrides
<1>3. QED
  BY LiveIsEnforcer, SameEnforcer, <1>2, PTL DEF File!Spec, FileProofs!Spec

-----------------------------------------------------------------------------
(* Marks on the board. *)

\* A body about to be written holds the override it was rendered for.
Rendered ==
  \A g \in Goroutines :
    at[g] \in File!Writing => snapshot[g][host[g]] # NoIP

\* A domain marked, or about to be marked, was reported as applied.
Marks ==
  /\ \A d \in DOMAIN flows : flows[d].enforced => applied[d] # NoIP
  /\ \A g \in Goroutines : pc[g] = "mark" => applied[dom[g]] # NoIP

\* The tap, the clock and a new verdict mark nothing.
LEMMA NothingMarked ==
  ASSUME TypeOK, [Next]_vars, \A g \in Goroutines : ~Mark(g),
         NEW d \in DOMAIN flows', flows'[d].enforced
  PROVE  d \in DOMAIN flows /\ flows[d].enforced
<1>1. CASE UNCHANGED flows
  BY <1>1
<1>2. ASSUME NEW e \in TapEvents, TapObserve(e)
      PROVE  d \in DOMAIN flows /\ flows[d].enforced
  <2>1. e.kind \in {"client_hello", "server_hello", "reset", "cert", "dns"}
    BY EscalatorAssumption DEF Event
  <2>2. \A f : f \in Flow => Folded(f, e).enforced = f.enforced
    BY <2>1 DEF Folded, Flow
  <2>3. Seen(e.domain) \in Flow /\ (e.domain \notin DOMAIN flows => ~Seen(e.domain).enforced)
    BY DEF Seen, NewFlow, Flow, TypeOK, TrackerTypeOK, Types, Actions
  <2>4. flows' = flows \/ flows' = Put(e.domain, Folded(Seen(e.domain), e))
    BY <1>2 DEF TapObserve, Observe
  <2>5. QED
    BY <2>2, <2>3, <2>4 DEF Put, Seen
<1>3. ASSUME NEW g \in Goroutines, Record(g)
      PROVE  d \in DOMAIN flows /\ flows[d].enforced
  BY <1>3 DEF Record, SetVerdict, TypeOK, TrackerTypeOK, Flow
<1>4. ASSUME NEW c \in Domains, Elapse(c)
      PROVE  d \in DOMAIN flows /\ flows[d].enforced
  BY <1>4 DEF Elapse, Age, TypeOK, TrackerTypeOK, Flow
<1>5. QED
  BY <1>1, <1>2, <1>3, <1>4
  DEF Next, Run, Environment, Work, Sweep, Skip, Start, SweepEnd, Return,
      SeeCancel, Acquire, GiveUp, Diagnose, Enforced, NotEnforced, Release,
      Delete, WgDone, NetworkChange, Tick, Cancel, Finished, vars

\* Only a success of Enforce adds to what was applied, and nothing but the end
\* of the process takes away.
LEMMA AppliedGrows ==
  ASSUME File!TypeOK, Rendered, [LiveNext]_liveVars, ~Restart
  PROVE  \A d \in Domains : applied[d] # NoIP => applied'[d] # NoIP
<1>1. ASSUME NEW g \in Goroutines, Succeeds(g)
      PROVE  \A d \in Domains : applied[d] # NoIP => applied'[d] # NoIP
  <2>1. at[g] = "rename"
        /\ applied' = [applied EXCEPT ![host[g]] = snapshot[g][host[g]]]
    BY <1>1 DEF Succeeds, File!Rename
  <2>2. snapshot[g][host[g]] # NoIP
    BY <2>1 DEF Rendered, File!Writing
  <2>3. QED
    BY <2>1, <2>2 DEF File!TypeOK, File!Table
<1>2. ASSUME NEW g \in Goroutines,
             Elsewhere(g) \/ Advisory(g) \/ Enter(g) \/ Inside(g) \/ Fails(g)
      PROVE  applied' = applied
  BY <1>2 DEF Elsewhere, Advisory, Enter, Inside, Fails, fileVars, File!Call,
              File!Update, File!Open, File!Write, File!ResolveFails,
              File!WriteFails
<1>3. QED
  BY <1>1, <1>2 DEF LiveNext, liveVars, fileVars

LEMMA RenderedStep ==
  ASSUME File!TypeOK, Rendered, [LiveNext]_liveVars
  PROVE  Rendered'
<1> USE DEF Rendered, File!Writing
<1>1. ASSUME NEW g \in Goroutines, Inside(g)
      PROVE  Rendered'
  <2>1. CASE \E ip \in IPs : File!Update(g, ip)
    BY <2>1, LiveAssumption DEF File!Update, File!TypeOK, File!Table
  <2>2. CASE File!Open(g) \/ File!Write(g)
    BY <2>2 DEF File!Open, File!Write, File!TypeOK
  <2>3. QED
    BY <1>1, <2>1, <2>2 DEF Inside
<1>2. ASSUME NEW g \in Goroutines, Enter(g)
      PROVE  Rendered'
  BY <1>2 DEF Enter, File!Call, File!TypeOK
<1>3. ASSUME NEW g \in Goroutines, Fails(g) \/ Succeeds(g)
      PROVE  Rendered'
  BY <1>3 DEF Fails, Succeeds, File!ResolveFails, File!WriteFails, File!Rename,
              File!Leave, File!TypeOK
<1>4. ASSUME UNCHANGED fileVars
      PROVE  Rendered'
  BY <1>4 DEF fileVars
<1>5. CASE Restart
  BY <1>5 DEF Restart, File!Restart
<1>6. QED
  BY <1>1, <1>2, <1>3, <1>4, <1>5 DEF LiveNext, liveVars, Elsewhere, Advisory

\* A goroutine about to mark its row has just returned from a success.
LEMMA AboutToMark ==
  ASSUME TypeOK, File!TypeOK, Calling, Rendered, Marks, [LiveNext]_liveVars,
         ~Restart, NEW g \in Goroutines, pc'[g] = "mark"
  PROVE  applied'[dom'[g]] # NoIP
<1>1. ASSUME pc[g] = "mark", dom'[g] = dom[g]
      PROVE  applied'[dom'[g]] # NoIP
  <2>1. dom[g] \in Domains
    BY <1>1 DEF TypeOK, TrackerTypeOK, Owning, Holding
  <2>2. QED
    BY <1>1, <2>1, AppliedGrows DEF Marks
<1>2. ASSUME NEW h \in Goroutines,
             Elsewhere(h) \/ Advisory(h) \/ Enter(h) \/ Inside(h) \/ Fails(h)
      PROVE  pc[g] = "mark" /\ dom'[g] = dom[g]
  BY <1>2 DEF Elsewhere, Advisory, Enter, Inside, Fails, Acquire, GiveUp,
              Diagnose, Record, NotEnforced, Mark, Release, Delete, WgDone,
              Goto, TypeOK, vars, poolVars
<1>3. ASSUME NEW h \in Goroutines, Succeeds(h)
      PROVE  applied'[dom'[g]] # NoIP
  <2>1. dom' = dom /\ pc' = [pc EXCEPT ![h] = "mark"]
    BY <1>3 DEF Succeeds, Enforced, Goto
  <2>2. CASE g # h
    BY <1>1, <2>1, <2>2 DEF TypeOK
  <2>3. CASE g = h
    <3>1. at[g] = "rename" /\ host[g] = dom[g]
          /\ applied' = [applied EXCEPT ![host[g]] = snapshot[g][host[g]]]
      BY <1>3, <2>3 DEF Succeeds, File!Rename, Calling
    <3>2. host[g] \in Domains /\ snapshot[g][host[g]] # NoIP
      BY <3>1 DEF File!TypeOK, Rendered, File!Writing
    <3>3. QED
      BY <2>1, <3>1, <3>2 DEF File!TypeOK, File!Table
  <2>4. QED
    BY <2>2, <2>3
<1>4. CASE Run \/ SeeCancel \/ Environment \/ Finished \/ UNCHANGED liveVars
  <2>1. pc[g] = "mark"
    BY <1>4 DEF Run, Sweep, Skip, Start, SweepEnd, Return, SeeCancel,
       Environment, TapObserve, Elapse, NetworkChange, Tick, Cancel, Finished,
       TypeOK, poolVars, runVars, vars, liveVars
  <2>2. dom'[g] = dom[g]
    BY <1>4, <2>1, RunStand DEF liveVars, vars, poolVars
  <2>3. QED
    BY <1>1, <2>1, <2>2
<1>5. QED
  BY <1>1, <1>2, <1>3, <1>4 DEF LiveNext

LEMMA MarksStep ==
  ASSUME TypeOK, File!TypeOK, Calling, Rendered, Marks, [LiveNext]_liveVars
  PROVE  Marks'
<1>1. ASSUME ~Restart, NEW d \in DOMAIN flows', flows'[d].enforced
      PROVE  applied'[d] # NoIP
  <2>1. ASSUME NEW g \in Goroutines, Mark(g)
        PROVE  applied[d] # NoIP /\ d \in Domains
    BY <1>1, <2>1 DEF Mark, SetEnforced, Goto, Marks, TypeOK, TrackerTypeOK,
                      Flow
  <2>2. ASSUME \A g \in Goroutines : ~Mark(g)
        PROVE  applied[d] # NoIP /\ d \in Domains
    BY <1>1, <2>2, EscalatorStep, NothingMarked DEF Marks, TypeOK, TrackerTypeOK
  <2>3. QED
    BY <1>1, <2>1, <2>2, AppliedGrows
<1>2. CASE Restart
  BY <1>2 DEF Restart, Marks
<1>3. QED
  BY <1>1, <1>2, AboutToMark DEF Marks

\* Marks on the board stand for calls that were reported as applied, with any
\* number of slots.
LEMMA MarksKept == LiveSpec => []Marks
<1>1. LiveInit => Rendered /\ Marks
  BY DEF LiveInit, Init, TrackerInit, File!Init, Rendered, Marks, File!Writing
<1>2. LiveTypeOK => TypeOK /\ File!TypeOK /\ Calling
  BY DEF LiveTypeOK, Calling
<1>3. LiveTypeOK /\ Rendered /\ Marks /\ [LiveNext]_liveVars => Rendered' /\ Marks'
  BY <1>2, RenderedStep, MarksStep
<1>4. QED
  BY LiveTypes, <1>1, <1>3, PTL DEF LiveSpec

\* With any number of slots and domains a row that shows "applied" is true of
\* the managed file, until two writings overlap and again from the next that
\* none overlaps: Enforced outlives the verdict that asked for it
\* (tracker.go:160), and so does the line in the file.
THEOREM RowsTrue == LiveSpec => []AppliedRowInFile
<1>1. FileProofs!Spec => [](FileProofs!AppliedInv /\ FileProofs!FileInv)
  BY FileAssumption, FileProofs!AppliedKept, PTL
<1>2. LiveTypeOK /\ Marks /\ FileProofs!AppliedInv /\ FileProofs!FileInv
        => AppliedRowInFile
  BY DEF AppliedRowInFile, Rows, Row, Marks, FileProofs!AppliedInv,
         FileProofs!FileInv, File!Content, File!Table, FileProofs!Table,
         LiveTypeOK, TypeOK, TrackerTypeOK
<1>3. QED
  BY LiveTypes, MarksKept, LiveIsEnforcer, SameEnforcer, <1>1, <1>2,
     PTL DEF File!Spec, FileProofs!Spec
=============================================================================
