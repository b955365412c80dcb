------------------------------- MODULE Watch -------------------------------
(***************************************************************************)
(* Continuous monitoring of one target (internal/watch and runWatch of     *)
(* cmd/lumra): a loop that polls, and tells its user when the type of the  *)
(* verdict has changed.  The network changes at any moment: a diagnosis    *)
(* ends with the type of any state it ran under, or with one of a          *)
(* comparison whose arms saw different states, or is cut off, after 20     *)
(* seconds or by the user's Ctrl-C.  The ticker's channel holds one tick.  *)
(***************************************************************************)
EXTENDS Verdict

CONSTANT Paths  \* what the path to the target can do to it

ASSUME PathsAssumption == Paths \subseteq Types \ {"INCONCLUSIVE", "GENUINE_OUTAGE"}

VARIABLES
  path, slow,      \* the network: what it does, whether diagnoses take over 20 s
  cancelled,       \* ctx of Run
  pc,              \* Run: in Poll, in select, or returned
  prev, started,   \* the Monitor
  tick,            \* t.C: empty, or a tick, and whether Poll was running then
  now, seen,       \* the poll: its timestamp, the verdicts it may come to
  halves,          \* comparisons of which one arm may be measured already
  event            \* the last event emitted

vars == <<path, slow, cancelled, pc, prev, started, tick, now, seen, halves, event>>

NoEvent == [kind |-> "none", type |-> "", prev |-> "", at |-> "fresh",
            mixed |-> FALSE]

-----------------------------------------------------------------------------

\* What the QUIC probe is reached with, and what is found after it.
BeforeQUIC == {"OK", "RST_INJECTION", "THROTTLING", "BLOCK_PAGE"}

\* Mutant of CutOff: the TLS probe needs no control arm for its conclusion.
CutOffAccusing(t) == {t, "OK", "LOCAL_ISSUE", "SNI_FILTERING"}

\* The verdicts of a diagnosis cut off at any point: the baseline fails; no name
\* is resolved, so that nothing is probed; the TLS probe reaches nothing, or
\* lacks its control arm while the raw capture still sees a reset; the QUIC probe
\* has its TCP connection but sends no datagram; or later findings are missing.
CutOff(t) ==
  IF t = "LOCAL_ISSUE" THEN {t}
  ELSE {t, "OK", "LOCAL_ISSUE", "INCONCLUSIVE"}
       \cup {o \in {"RST_INJECTION"} : t = "IP_BLOCKING"}
       \cup {o \in {"QUIC_BLOCKING"} : t \in BeforeQUIC}

Reading(t, cut) == IF cut THEN CutOff(t) ELSE {t}

\* The states of the network in which nothing answers, the target's address
\* resets every connection, or every handshake that names the target is reset.
Dead == {"LOCAL_ISSUE"}
Resetting == {"IP_BLOCKING"}
Filtering == Resetting \cup {"SNI_FILTERING"}

\* The probes measure one arm after the other, and a change of the network in
\* between looks like a difference between the arms.  TLS takes the target's name
\* and then a control's; Downgrade and ECH the handshake that works and then the
\* one in question; QUIC a connection and a datagram; RST captures after the
\* handshakes of TLS; DoHHealth asks the encrypted resolvers and then a plain
\* one; Throttle times the target and then the controls.
\* First arms that the network as it is makes half of a finding ...
FirstArms(p, s) ==
  {t \in Types :
     \/ t = "SNI_FILTERING" /\ p \in Filtering
     \/ t \in {"TLS_DOWNGRADE", "ECH_BLOCKING", "RST_INJECTION"}
          /\ p \notin Dead \cup Filtering
     \/ t = "QUIC_BLOCKING" /\ p \notin Dead \cup Resetting
     \/ t = "DOH_BLOCKING" /\ p \in Dead
     \/ t = "THROTTLING" /\ p \notin Dead \cup Filtering /\ s}

\* ... and second arms that make it whole.
SecondArms(p, s) ==
  {t \in Types :
     \/ t = "SNI_FILTERING" /\ p \notin Dead \cup Resetting
     \/ t \in {"TLS_DOWNGRADE", "ECH_BLOCKING"} /\ p \in Filtering
     \/ t = "RST_INJECTION" /\ p \in Resetting
     \/ t = "QUIC_BLOCKING" /\ p \in Dead \cup Resetting
     \/ t = "DOH_BLOCKING" /\ p \notin Dead
     \/ t = "THROTTLING" /\ p \notin Dead /\ ~s}

\* Mutant of classify: a recovery is a change like others.
classifyNoRecovery(from, t, first) ==
  CASE first -> "start" [] ~first /\ from = "OK" -> "blocked" [] OTHER -> "changed"

classify(from, t, first) ==
  CASE first -> "start"
    [] ~first /\ t = "OK" -> "recovered"
    [] ~first /\ t # "OK" /\ from = "OK" -> "blocked"
    [] OTHER -> "changed"

Init ==
  /\ path \in Paths /\ slow \in BOOLEAN /\ cancelled = FALSE
  /\ pc = "poll" /\ now = "fresh" /\ seen = Reading(path, slow)
  /\ halves = {}
  /\ prev = "" /\ started = FALSE /\ tick = "none" /\ event = NoEvent

-----------------------------------------------------------------------------
(* The loop. *)

Emit(t) ==
  event' = IF ~started \/ t # prev
           THEN [kind |-> classify(prev, t, ~started), type |-> t,
                 prev |-> prev, at |-> now, mixed |-> halves # {}]
           ELSE event

\* Mutant of Poll: prev is kept only while there is interference.
PollKeepPrev ==
  /\ pc = "poll" /\ pc' = "select"
  /\ \E t \in seen : Emit(t) /\ prev' = IF t = "OK" /\ started THEN prev ELSE t
  /\ started' = TRUE /\ now' = "fresh" /\ seen' = {} /\ halves' = {}
  /\ UNCHANGED <<path, slow, cancelled, tick>>

\* The diagnosis returns; a changed type is emitted.
Poll ==
  /\ pc = "poll" /\ pc' = "select"
  /\ \E t \in seen : Emit(t) /\ prev' = t
  /\ started' = TRUE /\ now' = "fresh" /\ seen' = {} /\ halves' = {}
  /\ UNCHANGED <<path, slow, cancelled, tick>>

\* select takes the tick, also when ctx is done: the baseline then fails at once.
TakeTick ==
  /\ pc = "select" /\ tick # "none" /\ pc' = "poll"
  /\ now' = tick /\ tick' = "none"
  /\ seen' = IF cancelled THEN {"LOCAL_ISSUE"} ELSE Reading(path, slow)
  /\ UNCHANGED <<path, slow, cancelled, prev, started, halves, event>>

\* Mutant of Return: a pending tick goes first.
ReturnLast ==
  /\ pc = "select" /\ cancelled /\ tick = "none" /\ pc' = "returned"
  /\ UNCHANGED <<path, slow, cancelled, prev, started, tick, now, seen, halves, event>>

Return ==
  /\ pc = "select" /\ cancelled /\ pc' = "returned"
  /\ UNCHANGED <<path, slow, cancelled, prev, started, tick, now, seen, halves, event>>

-----------------------------------------------------------------------------
(* Around the loop. *)

\* The ticker exists once the first poll is over.  A tick that finds the
\* channel full is dropped.
Tick ==
  /\ started /\ pc # "returned" /\ tick = "none"
  /\ tick' = IF pc = "poll" THEN "late" ELSE "fresh"
  /\ UNCHANGED <<path, slow, cancelled, pc, prev, started, now, seen, halves, event>>

\* Ctrl-C, or SIGTERM.
Cancel ==
  /\ ~cancelled /\ cancelled' = TRUE
  /\ seen' = IF pc = "poll" THEN seen \cup Reading(path, TRUE) ELSE seen
  /\ UNCHANGED <<path, slow, pc, prev, started, tick, now, halves, event>>

\* The network changes.  Of a diagnosis that it changes under, some measurements
\* were made before and some are made after, in comparisons too.
Network ==
  /\ pc # "returned"
  /\ path' \in Paths /\ slow' \in BOOLEAN /\ <<path', slow'>> # <<path, slow>>
  /\ IF pc = "poll" /\ ~cancelled
     THEN /\ halves' = halves \cup FirstArms(path, slow)
          /\ seen' = seen \cup CutOff(path) \cup Reading(path', slow')
                     \cup (halves' \cap SecondArms(path', slow'))
     ELSE UNCHANGED <<seen, halves>>
  /\ UNCHANGED <<cancelled, pc, prev, started, tick, now, event>>

Next == Poll \/ TakeTick \/ Return \/ Tick \/ Cancel \/ Network

\* The clock ticks, the loop runs on, a diagnosis ends (within 20 seconds); a
\* select with both cases ready chooses at random, so that it does not pass
\* over the same one for ever.
Fairness == WF_vars(Poll) /\ WF_vars(TakeTick) /\ WF_vars(Tick) /\ SF_vars(Return)

Spec == Init /\ [][Next]_vars /\ Fairness

-----------------------------------------------------------------------------
(* Properties. *)

\* Every variable keeps to its type; only the first event lacks a previous type.
TypeOK ==
  /\ path \in Paths /\ slow \in BOOLEAN /\ cancelled \in BOOLEAN
  /\ pc \in {"poll", "select", "returned"}
  /\ started \in BOOLEAN /\ prev \in IF started THEN Types ELSE {""}
  /\ tick \in {"none", "late", "fresh"} /\ now \in {"late", "fresh"}
  /\ seen \subseteq Types /\ (pc = "poll" <=> seen # {})
  /\ halves \subseteq Types
  /\ event.kind \in {"none", "start", "blocked", "recovered", "changed"}

\* The events form one timeline: each begins where the one before it ended, and
\* leads elsewhere; "blocked" and "recovered" are from and to an open target.
Timeline ==
  /\ []TypeOK
  /\ [][event' # event =>
         /\ event'.prev = event.type /\ event'.type # event.type
         /\ event'.kind = "start" <=> event.kind = "none"
         /\ event'.kind = "recovered" <=> event'.type = "OK" /\ event.kind # "none"
         /\ event'.kind = "blocked" <=> event.type = "OK"]_vars

\* Cancelling ends the loop, although ticks may win the select many times.
Returns == cancelled ~> pc = "returned"

\* Nothing is missed for good: when the network settles, the timeline's last
\* event comes to name what it does, whatever was cut off or mixed before.
Follows ==
  \A t \in Paths : <>[](path = t /\ ~slow /\ ~cancelled) => <>[](event.type = t)

\* Accusations that rest on what was received, and on a difference between two
\* measurements.
Received == {"DNS_TAMPERING", "TLS_MITM", "IP_BLOCKING", "BLOCK_PAGE"}
Compared == {"SNI_FILTERING", "TLS_DOWNGRADE", "ECH_BLOCKING", "DOH_BLOCKING",
             "THROTTLING"}

\* What is reported of interference and never was, though polls be cut off by
\* their timeout or by Ctrl-C and the network change under them: nothing that
\* rests on a thing received; and of what rests on a comparison nothing but what
\* a single poll makes of a network that changed under it.  Two types are
\* excepted: a QUIC probe that is cut off counts a datagram it did not send as
\* unanswered, and a capture that outlives a cancellation calls by its own name
\* the reset of a block that the TLS probe could not confirm.
AccusesOnlyWhatWas ==
  /\ event.type \notin Received \ Paths
  /\ event.type \in Compared \ Paths => event.mixed

\* "Blocked is a transition from a clean/OK state into any interference"
\* (watch.go:23).  It does not hold: every type but OK counts.
BlockedIsInterference ==
  event.kind = "blocked" =>
    NatureOf(event.type) \in {"control", "surveillance", "degradation"}

\* "a state transition observed at a time" (watch.go:31).  It does not hold: a
\* tick that waited for a long poll gives the next one the time it fired at.
StampedWhenObserved == event.at # "late"

\* "emits an event only when the interference state changes" (watch.go:4).  It
\* does not hold: ending the command cuts a diagnosis off, and what is left of
\* it is reported as a change.
OpenStaysOpen ==
  [](path = "OK" /\ ~slow) => [](event.type \in {"", "OK"})
=============================================================================
