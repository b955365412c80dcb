---------------------------- MODULE Watch_proofs ----------------------------
(***************************************************************************)
(* What continuous monitoring guarantees for any path to the target,       *)
(* however it changes, and for polls that are cut off anywhere.            *)
(***************************************************************************)
EXTENDS Watch, TLAPS

-----------------------------------------------------------------------------
(* Readings. *)

\* A diagnosis, cut off or not, ends with a type.
LEMMA ReadingType ==
  ASSUME NEW t \in Paths, NEW cut \in BOOLEAN
  PROVE  Reading(t, cut) \in (SUBSET Types) \ {{}}
<1>1. t \in Types /\ t \in Reading(t, cut)
  BY PathsAssumption DEF Reading, CutOff
<1>2. CutOff(t) \subseteq Types
  BY <1>1 DEF CutOff, Types
<1>3. QED
  BY <1>1, <1>2 DEF Reading

-----------------------------------------------------------------------------
(* The inductive invariant: the Monitor remembers the type of the event it    *)
(* emitted last, and has emitted one once it has started.                     *)

Remembered ==
  /\ event.type = prev
  /\ started <=> event.kind # "none"
  /\ started \/ pc = "poll"

WatchInv == TypeOK /\ Remembered

\* What Poll does to the event and the Monitor, of whatever type it comes to.
LEMMA PollStep ==
  ASSUME WatchInv, Poll
  PROVE  \E t \in seen :
           /\ t \in Types /\ prev' = t /\ started'
           /\ event'.type = t /\ event'.kind # "none"
           /\ event' # event =>
                /\ t # prev /\ event'.prev = prev
                /\ event'.kind = classify(prev, t, ~started)
<1>1. PICK t \in seen : Emit(t) /\ prev' = t
  BY DEF Poll
<1>2. t \in Types
  BY DEF WatchInv, TypeOK
<1>3. started'
  BY DEF Poll
<1>4. CASE ~started \/ t # prev
  <2>1. event' = [kind |-> classify(prev, t, ~started), type |-> t,
                  prev |-> prev, at |-> now, mixed |-> halves # {}]
    BY <1>1, <1>4 DEF Emit
  <2>2. t # prev
    BY <1>2, <1>4 DEF WatchInv, TypeOK, Types
  <2>3. classify(prev, t, ~started) # "none"
    BY DEF classify
  <2>4. QED
    BY <1>1, <1>2, <1>3, <2>1, <2>2, <2>3
<1>5. CASE started /\ t = prev
  <2>1. event' = event
    BY <1>1, <1>5 DEF Emit
  <2>2. QED
    BY <1>1, <1>2, <1>3, <1>5, <2>1 DEF WatchInv, Remembered
<1>6. QED
  BY <1>4, <1>5 DEF WatchInv, TypeOK

\* The kind of an event is one.
LEMMA ClassifyType ==
  \A from, t, first : classify(from, t, first) \in {"start", "recovered", "blocked", "changed"}
BY DEF classify

\* The Monitor keeps its type and its memory through every step.
LEMMA WatchInvStep == WatchInv /\ [Next]_vars => WatchInv'
<1> SUFFICES ASSUME WatchInv, [Next]_vars
             PROVE  WatchInv'
  OBVIOUS
<1> USE DEF WatchInv, TypeOK, Remembered
<1>1. CASE Poll
  <2>1. PICK t \in seen : /\ t \in Types /\ prev' = t /\ started'
                          /\ event'.type = t /\ event'.kind # "none"
                          /\ event' # event =>
                               event'.kind = classify(prev, t, ~started)
    BY <1>1, PollStep
  <2>2. event'.kind \in {"none", "start", "blocked", "recovered", "changed"}
    <3>1. CASE event' = event
      BY <3>1
    <3>2. CASE event' # event
      <4> DEFINE first == ~started
      <4>1. classify(prev, prev', first) \in {"start", "recovered", "blocked", "changed"}
        BY ClassifyType
      <4>2. event'.kind = classify(prev, prev', first)
        BY <2>1, <3>2
      <4>3. QED
        BY <4>1, <4>2
    <3>3. QED
      BY <3>1, <3>2
  <2>3. QED
    BY <1>1, <2>1, <2>2 DEF Poll
<1>2. CASE TakeTick
  <2>1. seen' \in (SUBSET Types) \ {{}}
    BY <1>2, ReadingType DEF TakeTick, Types
  <2>2. QED
    BY <1>2, <2>1 DEF TakeTick
<1>3. CASE Return
  BY <1>3 DEF Return
<1>4. CASE Tick
  BY <1>4 DEF Tick
<1>5. CASE Cancel
  <2>1. Reading(path, TRUE) \in (SUBSET Types) \ {{}}
    BY ReadingType
  <2>2. seen' = IF pc = "poll" THEN seen \cup Reading(path, TRUE) ELSE seen
    BY <1>5 DEF Cancel
  <2>3. seen' \subseteq Types /\ (pc = "poll" <=> seen' # {})
    BY <2>1, <2>2
  <2>4. QED
    BY <1>5, <2>3 DEF Cancel
<1>6. CASE Network
  <2>1. CASE pc = "poll" /\ ~cancelled
    <3>1. Reading(path, TRUE) \in (SUBSET Types) \ {{}}
      BY ReadingType
    <3>2. Reading(path', slow') \in (SUBSET Types) \ {{}}
      BY <1>6, ReadingType DEF Network
    <3>3. seen' = seen \cup Reading(path, TRUE) \cup Reading(path', slow')
                      \cup (halves' \cap SecondArms(path', slow'))
      BY <1>6, <2>1 DEF Network, Reading
    <3>4. halves' \subseteq Types
      BY <1>6, <2>1 DEF Network, FirstArms
    <3>5. seen' \subseteq Types /\ seen' # {}
      BY <3>1, <3>2, <3>3, <3>4
    <3>6. QED
      BY <1>6, <2>1, <3>4, <3>5 DEF Network
  <2>2. CASE ~(pc = "poll" /\ ~cancelled)
    BY <1>6, <2>2 DEF Network
  <2>3. QED
    BY <2>1, <2>2
<1>7. CASE UNCHANGED vars
  BY <1>7 DEF vars
<1>8. QED
  BY <1>1, <1>2, <1>3, <1>4, <1>5, <1>6, <1>7 DEF Next

LEMMA WatchInvInit == Init => WatchInv
<1> SUFFICES ASSUME Init
             PROVE  WatchInv
  OBVIOUS
<1>1. seen \in (SUBSET Types) \ {{}}
  BY ReadingType DEF Init
<1>2. QED
  BY <1>1 DEF Init, WatchInv, TypeOK, Remembered, NoEvent

-----------------------------------------------------------------------------
(* Theorems. *)

\* What one step may emit.
LinkedTo(from, to) ==
  /\ to.prev = from.type /\ to.type # from.type
  /\ to.kind = "start" <=> from.kind = "none"
  /\ to.kind = "recovered" <=> to.type = "OK" /\ from.kind # "none"
  /\ to.kind = "blocked" <=> from.type = "OK"

\* Only Poll emits, and what it emits continues the timeline.
LEMMA EmitsLinked ==
  ASSUME WatchInv, [Next]_vars, event' # event
  PROVE  LinkedTo(event, event')
<1>1. Poll
  BY DEF Next, vars, TakeTick, Return, Tick, Cancel, Network
<1>2. PICK t \in seen : /\ t \in Types /\ event'.type = t
                        /\ t # prev /\ event'.prev = prev
                        /\ event'.kind = classify(prev, t, ~started)
  BY <1>1, PollStep
<1>3. event.type = prev /\ (started <=> event.kind # "none")
  BY DEF WatchInv, Remembered
<1>4. started \in BOOLEAN /\ (~started => prev = "")
  BY DEF WatchInv, TypeOK
<1>5. CASE ~started
  BY <1>2, <1>3, <1>4, <1>5 DEF classify, LinkedTo
<1>6. CASE started
  BY <1>2, <1>3, <1>6 DEF classify, LinkedTo
<1>7. QED
  BY <1>5, <1>6

\* The events form one timeline (Monitor.Poll, watch.go:74): whatever network
\* and ticker do and wherever a poll is cut off, each event begins where the one
\* before it ended and leads elsewhere, and its kind says from where to where.
THEOREM EventsFormTimeline == Spec => Timeline
<1>1. WatchInv /\ [Next]_vars => [event' # event => LinkedTo(event, event')]_vars
  BY EmitsLinked
<1>2. WatchInv => TypeOK
  BY DEF WatchInv
<1>3. Spec => []TypeOK /\ [][event' # event => LinkedTo(event, event')]_vars
  BY <1>1, <1>2, WatchInvInit, WatchInvStep, PTL DEF Spec
<1>4. QED
  BY <1>3 DEF Timeline, LinkedTo

-----------------------------------------------------------------------------

\* Cutting a diagnosis off makes it no accusation of its own.
LEMMA ReadingAccuses ==
  ASSUME NEW t \in Received \cup Compared, NEW p, NEW cut, t \in Reading(p, cut)
  PROVE  p = t
BY DEF Received, Compared, Reading, CutOff

\* Neither does a change of the network make up what must be received.
LEMMA ArmsReceiveNothing ==
  ASSUME NEW p, NEW s
  PROVE  SecondArms(p, s) \cap Received = {}
BY DEF SecondArms, Received, Types

\* What the poll under way may come to, and what the last event says.
Cleared ==
  /\ seen \cap Received \subseteq Paths
  /\ halves = {} => seen \cap Compared \subseteq Paths
  /\ AccusesOnlyWhatWas

LEMMA ClearedStep ==
  ASSUME WatchInv, Cleared, [Next]_vars
  PROVE  Cleared'
<1> USE DEF Cleared, AccusesOnlyWhatWas
<1>1. path \in Paths /\ "LOCAL_ISSUE" \notin Received \cup Compared
  BY DEF WatchInv, TypeOK, Received, Compared
<1>2. CASE Poll
  <2>1. PICK t \in seen : Emit(t)
    BY <1>2 DEF Poll
  <2>2. event' = event \/ (event'.type = t /\ event'.mixed = (halves # {}))
    BY <2>1 DEF Emit
  <2>3. seen' = {} /\ halves' = {}
    BY <1>2 DEF Poll
  <2>4. QED
    BY <2>1, <2>2, <2>3
<1>3. CASE TakeTick
  <2>1. seen' \cap (Received \cup Compared) \subseteq Paths
    BY <1>1, <1>3, ReadingAccuses DEF TakeTick
  <2>2. QED
    BY <1>3, <2>1 DEF TakeTick
<1>4. CASE Cancel
  <2>1. Reading(path, TRUE) \cap (Received \cup Compared) \subseteq Paths
    BY <1>1, ReadingAccuses
  <2>2. QED
    BY <1>4, <2>1 DEF Cancel
<1>5. CASE Network
  <2>1. CASE pc = "poll" /\ ~cancelled
    <3> DEFINE mixtures == halves' \cap SecondArms(path', slow')
    <3>1. path' \in Paths
      BY <1>5 DEF Network
    <3>2. (Reading(path, TRUE) \cup Reading(path', slow'))
             \cap (Received \cup Compared) \subseteq Paths
      BY <1>1, <3>1, ReadingAccuses
    <3>3. seen' = seen \cup Reading(path, TRUE) \cup Reading(path', slow')
                      \cup mixtures
      BY <1>5, <2>1 DEF Network, Reading
    <3>4. mixtures \cap Received = {} /\ (halves' = {} => mixtures = {})
      BY ArmsReceiveNothing
    <3>5. halves \subseteq halves' /\ event' = event
      BY <1>5, <2>1 DEF Network
    <3> HIDE DEF mixtures
    <3>6. QED
      BY <3>2, <3>3, <3>4, <3>5
  <2>2. CASE ~(pc = "poll" /\ ~cancelled)
    BY <1>5, <2>2 DEF Network
  <2>3. QED
    BY <2>1, <2>2
<1>6. CASE Return \/ Tick \/ UNCHANGED vars
  BY <1>6 DEF Return, Tick, vars
<1>7. QED
  BY <1>2, <1>3, <1>4, <1>5, <1>6 DEF Next

LEMMA ClearedInit == Init => Cleared
<1> SUFFICES ASSUME Init
             PROVE  Cleared
  OBVIOUS
<1>1. seen \cap (Received \cup Compared) \subseteq Paths
  BY ReadingAccuses DEF Init
<1>2. event.type \notin Received \cup Compared
  BY DEF Init, NoEvent, Received, Compared
<1>3. QED
  BY <1>1, <1>2 DEF Cleared, AccusesOnlyWhatWas

\* Of interference that the network never does (watch.go:77), polls cut off by
\* their timeout or by Ctrl-C report none; and polls that it changes under report
\* none that must be received, such as a certificate (tls.go:92 for the arms).
THEOREM NothingInvented == Spec => []AccusesOnlyWhatWas
<1>1. Cleared => AccusesOnlyWhatWas
  BY DEF Cleared
<1>2. QED
  BY <1>1, ClearedInit, ClearedStep, WatchInvInit, WatchInvStep, PTL DEF Spec
=============================================================================
