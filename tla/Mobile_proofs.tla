--------------------------- MODULE Mobile_proofs ---------------------------
(***************************************************************************)
(* What onDestroy guarantees for any number of instances, starts, packets  *)
(* and ends of the process, whichever threads are slow.                    *)
(***************************************************************************)
EXTENDS Mobile, SequenceTheorems, TLAPS

-----------------------------------------------------------------------------
(* The inductive invariant. *)

ServiceType == [cockpit : Nat, tunnel : Nat]

SessionType ==
  [of : Nat, tunnel : BOOLEAN, fed : Nat, open : BOOLEAN, cancelled : BOOLEAN,
   reader : PCs, publisher : PCs, json : Boards \cup {Nothing}, late : 0..1]

\* A board that shows no more than its cockpit was fed.
Honest(b) ==
  b # Nothing => b \in Boards /\ b.of \in DOMAIN sessions /\ b.n <= sessions[b.of].fed

\* After its cancellation a loop writes the board it has in hand, and no other.
LastBoard(s) == s.late > 0 => s.cancelled /\ s.publisher # "write"

\* The fields of an instance: the cockpit of its sessions, and the tunnel that
\* was established last, if there was one.
FieldsOK(i) ==
  /\ services[i].cockpit \in 0..Len(sessions)
  /\ services[i].tunnel \in 0..Len(sessions)
  /\ Tunnels(i) # {} => services[i].tunnel \in Tunnels(i)

\* onDestroy reaches the session its fields name.
Reached(i) ==
  Destroyed(i) => \A k \in Tunnels(i) :
    k = services[i].tunnel => ~sessions[k].open /\ sessions[k].cancelled

SessionOK(k) ==
  /\ sessions[k].of \in DOMAIN services
  /\ services[sessions[k].of].cockpit \in DOMAIN sessions
  /\ Honest(sessions[k].json)
  /\ LastBoard(sessions[k])

Shapes ==
  /\ running \in BOOLEAN /\ stopping \in BOOLEAN /\ cmds \in Seq(Commands)
  /\ services \in Seq(ServiceType) /\ sessions \in Seq(SessionType)
  /\ alive \in 0..Len(services)

MobileInv ==
  /\ Shapes
  /\ Honest(disk)
  /\ \A k \in DOMAIN sessions : SessionOK(k)
  /\ \A i \in DOMAIN services : FieldsOK(i) /\ Reached(i)

-----------------------------------------------------------------------------
(* Steps that carry every session on. *)

Carry(s, t) ==
  /\ t \in SessionType
  /\ t.of = s.of /\ t.tunnel = s.tunnel /\ t.fed >= s.fed
  /\ (t.open => s.open) /\ (s.cancelled => t.cancelled)
  /\ LastBoard(t)

CarriedOn ==
  /\ sessions' \in Seq(SessionType) /\ Len(sessions') = Len(sessions)
  /\ \A k \in DOMAIN sessions : Carry(sessions[k], sessions'[k])

\* Sequences, for the provers.
LEMMA SessionsFun ==
  ASSUME MobileInv
  PROVE  /\ Len(sessions) \in Nat /\ DOMAIN sessions = 1..Len(sessions)
         /\ \A k \in DOMAIN sessions : sessions[k] \in SessionType
         /\ Len(services) \in Nat /\ DOMAIN services = 1..Len(services)
         /\ \A i \in DOMAIN services : services[i] \in ServiceType
<1>1. sessions \in Seq(SessionType) /\ services \in Seq(ServiceType)
  BY DEF MobileInv, Shapes
<1>2. QED
  BY <1>1, LenProperties, ElementOfSeq

\* A board stays honest, and a session keeps its instance.
LEMMA CarriedFacts ==
  ASSUME MobileInv, CarriedOn
  PROVE  /\ DOMAIN sessions' = DOMAIN sessions
         /\ \A b : Honest(b) => Honest(b)'
         /\ \A i : Tunnels(i)' = Tunnels(i)
<1>1. DOMAIN sessions' = DOMAIN sessions
  BY SessionsFun, LenProperties DEF CarriedOn
<1>2. ASSUME NEW b, Honest(b)
      PROVE  Honest(b)'
  <2>1. CASE b # Nothing
    <3>1. b.n \in Nat /\ b.of \in DOMAIN sessions /\ b.n <= sessions[b.of].fed
      BY <1>2, <2>1 DEF Honest, Boards
    <3>2. /\ sessions'[b.of].fed >= sessions[b.of].fed
          /\ sessions'[b.of].fed \in Nat /\ sessions[b.of].fed \in Nat
      BY <3>1, SessionsFun DEF CarriedOn, Carry, SessionType
    <3>3. QED
      BY <1>1, <1>2, <2>1, <3>1, <3>2 DEF Honest
  <2>2. QED
    BY <2>1 DEF Honest
<1>3. ASSUME NEW i
      PROVE  Tunnels(i)' = Tunnels(i)
  BY <1>1 DEF Tunnels, CarriedOn, Carry
<1>4. QED
  BY <1>1, <1>2, <1>3

\* What is left to show of such a step, if it touches no instance.
LEMMA Carried ==
  ASSUME MobileInv, CarriedOn, UNCHANGED services, alive' \in {alive, 0},
         running' \in BOOLEAN, stopping' \in BOOLEAN, cmds' \in Seq(Commands),
         alive' = 0 => \A i \in DOMAIN services : (i = alive) => Reached(i)',
         Honest(disk'), \A k \in DOMAIN sessions : Honest(sessions'[k].json)
  PROVE  MobileInv'
<1>1. Shapes'
  BY SessionsFun DEF MobileInv, Shapes, CarriedOn
<1>2. Honest(disk)'
  BY CarriedFacts
<1>3. ASSUME NEW k \in DOMAIN sessions'
      PROVE  SessionOK(k)'
  <2>1. k \in DOMAIN sessions /\ sessions'[k].of = sessions[k].of
    BY CarriedFacts DEF CarriedOn, Carry
  <2>2. Honest(sessions[k].json)'
    BY <2>1, CarriedFacts
  <2>3. LastBoard(sessions[k])'
    BY <2>1 DEF CarriedOn, Carry, LastBoard
  <2>4. QED
    BY <2>1, <2>2, <2>3, CarriedFacts DEF SessionOK, MobileInv
<1>4. ASSUME NEW i \in DOMAIN services'
      PROVE  FieldsOK(i)'
  BY CarriedFacts DEF FieldsOK, MobileInv, CarriedOn
<1>5. ASSUME NEW i \in DOMAIN services'
      PROVE  Reached(i)'
  <2>1. CASE i = alive
    BY <2>1 DEF Reached, Destroyed
  <2>2. CASE i # alive
    <3>1. Reached(i) /\ Destroyed(i)
      BY <2>2 DEF MobileInv, Destroyed
    <3>2. QED
      BY <3>1, CarriedFacts DEF Reached, CarriedOn, Carry, Tunnels, SessionType
  <2>3. QED
    BY <2>1, <2>2
<1>6. QED
  BY <1>1, <1>2, <1>3, <1>4, <1>5 DEF MobileInv

-----------------------------------------------------------------------------
(* The loops. *)

LEMMA SessionFacts ==
  ASSUME MobileInv, NEW k \in DOMAIN sessions
  PROVE  /\ sessions[k] \in SessionType /\ SessionOK(k)
         /\ Cockpit(k) \in DOMAIN sessions
BY SessionsFun DEF MobileInv, SessionOK, Cockpit

\* What the loops set in a session.
LEMMA SetReader ==
  ASSUME NEW s \in SessionType, NEW to \in PCs, LastBoard(s)
  PROVE  LET t == [s EXCEPT !.reader = to]
         IN /\ Carry(s, t) /\ t.json = s.json
            /\ t.publisher = s.publisher /\ t.late = s.late
<1> DEFINE t == [s EXCEPT !.reader = to]
<1>1. t \in SessionType
  BY DEF SessionType
<1>2. QED
  BY <1>1 DEF SessionType, Carry, LastBoard

PublisherSet(s, to, b, n) == [s EXCEPT !.publisher = to, !.json = b, !.late = n]

LEMMA SetPublisher ==
  ASSUME NEW s \in SessionType, NEW to \in PCs,
         NEW b \in Boards \cup {Nothing}, NEW n \in 0..1,
         n > 0 => s.cancelled /\ to # "write",
         NEW t, t = PublisherSet(s, to, b, n)
  PROVE  Carry(s, t) /\ t.json = b
<1> USE DEF PublisherSet
<1>1. t \in SessionType
  BY DEF SessionType
<1>2. /\ t.of = s.of /\ t.tunnel = s.tunnel /\ t.fed = s.fed /\ t.open = s.open
      /\ t.cancelled = s.cancelled /\ t.publisher = to /\ t.json = b /\ t.late = n
  BY DEF SessionType
<1>3. s.fed \in Nat
  BY DEF SessionType
<1>4. QED
  BY <1>1, <1>2, <1>3 DEF Carry, LastBoard

\* One session's loop moves, and no other session changes.
LEMMA OneMoves ==
  ASSUME MobileInv, NEW k \in DOMAIN sessions, NEW t, Carry(sessions[k], t),
         sessions' = [sessions EXCEPT ![k] = t], UNCHANGED <<running, sysVars>>,
         Honest(disk'), Honest(t.json)
  PROVE  MobileInv'
<1>1. /\ sessions' \in Seq(SessionType) /\ Len(sessions') = Len(sessions)
      /\ \A j \in DOMAIN sessions : sessions'[j] = IF j = k THEN t ELSE sessions[j]
  BY SessionsFun, ExceptSeq DEF Carry, MobileInv, Shapes
<1>2. ASSUME NEW j \in DOMAIN sessions
      PROVE  Carry(sessions[j], sessions[j]) /\ Honest(sessions[j].json)
  <2>1. sessions[j] \in SessionType /\ SessionOK(j)
    BY SessionFacts
  <2>2. sessions[j].fed >= sessions[j].fed
    BY <2>1 DEF SessionType
  <2>3. QED
    BY <2>1, <2>2 DEF Carry, SessionOK
<1>3. CarriedOn
  BY <1>1, <1>2 DEF CarriedOn
<1>4. \A j \in DOMAIN sessions : Honest(sessions'[j].json)
  BY <1>1, <1>2
<1>5. /\ UNCHANGED services /\ alive' = alive
      /\ running' \in BOOLEAN /\ stopping' \in BOOLEAN /\ cmds' \in Seq(Commands)
  BY DEF sysVars, MobileInv, Shapes
<1>6. 0 \notin DOMAIN services
  BY SessionsFun
<1>7. QED
  <2>1. ASSUME alive' = 0, NEW i \in DOMAIN services, i = alive
        PROVE  Reached(i)'
    BY <1>5, <1>6, <2>1
  <2>2. QED
    BY <1>3, <1>4, <1>5, <2>1, Carried

\* The reader moves on, cancelled or not.
LEMMA ReaderMoves ==
  ASSUME MobileInv, NEW k \in DOMAIN sessions, NEW to \in PCs,
         sessions' = [sessions EXCEPT ![k].reader = to],
         UNCHANGED <<running, sysVars, disk>>
  PROVE  MobileInv'
<1> DEFINE t == [sessions[k] EXCEPT !.reader = to]
<1>1. sessions' = [sessions EXCEPT ![k] = t]
  OBVIOUS
<1>2. Carry(sessions[k], t) /\ t.json = sessions[k].json
  BY SessionFacts DEF Carry, SessionType, SessionOK, LastBoard
<1>3. Honest(disk') /\ Honest(t.json)
  BY <1>2, SessionFacts DEF MobileInv, SessionOK
<1>4. QED
  BY <1>1, <1>2, <1>3, OneMoves

LEMMA FeedStep ==
  ASSUME MobileInv, NEW k \in DOMAIN sessions, Feed(k)
  PROVE  MobileInv'
<1> DEFINE c == Cockpit(k)
           to == "out"
           fedOne == [sessions EXCEPT ![c].fed = @ + 1]
<1>1. sessions' = [fedOne EXCEPT ![k].reader = to]
  BY DEF Feed
<1>2. c \in DOMAIN sessions /\ \A j \in DOMAIN sessions : sessions[j] \in SessionType
  BY SessionFacts
<1>3. [sessions[c] EXCEPT !.fed = @ + 1] \in SessionType
  BY <1>2 DEF SessionType
<1>4. /\ fedOne \in Seq(SessionType) /\ Len(fedOne) = Len(sessions)
      /\ DOMAIN fedOne = DOMAIN sessions
      /\ \A j \in DOMAIN sessions :
           fedOne[j] = IF j = c THEN [sessions[j] EXCEPT !.fed = @ + 1] ELSE sessions[j]
  BY <1>2, <1>3, SessionsFun, ExceptSeq, LenProperties DEF MobileInv, Shapes
<1>5. [fedOne[k] EXCEPT !.reader = to] \in SessionType
  <2>1. fedOne[k] \in SessionType /\ to \in PCs
    BY <1>2, <1>3, <1>4 DEF PCs
  <2>2. QED
    BY <2>1 DEF SessionType
<1>6. /\ sessions' \in Seq(SessionType) /\ Len(sessions') = Len(sessions)
      /\ \A j \in DOMAIN sessions :
           sessions'[j] = IF j = k THEN [fedOne[j] EXCEPT !.reader = to] ELSE fedOne[j]
  <2> DEFINE t == [fedOne[k] EXCEPT !.reader = to]
  <2>1. sessions' = [fedOne EXCEPT ![k] = t] /\ t \in SessionType
    BY <1>1, <1>5
  <2> HIDE DEF t, fedOne, to
  <2>2. /\ sessions' \in Seq(SessionType) /\ Len(sessions') = Len(sessions)
        /\ \A j \in DOMAIN sessions : sessions'[j] = IF j = k THEN t ELSE fedOne[j]
    BY <1>4, <2>1, SessionsFun, ExceptSeq
  <2>3. QED
    BY <2>2 DEF t
<1>7. ASSUME NEW j \in DOMAIN sessions
      PROVE  Carry(sessions[j], sessions'[j]) /\ sessions'[j].json = sessions[j].json
  <2>1. sessions[j] \in SessionType /\ LastBoard(sessions[j])
    BY SessionFacts DEF SessionOK
  <2>2. /\ fedOne[j] \in SessionType /\ LastBoard(fedOne[j])
        /\ fedOne[j].json = sessions[j].json /\ Carry(sessions[j], fedOne[j])
    BY <1>4, <2>1 DEF SessionType, LastBoard, Carry
  <2>3. QED
    BY <1>5, <1>6, <2>1, <2>2 DEF SessionType, LastBoard, Carry
<1>8. CarriedOn
  BY <1>6, <1>7 DEF CarriedOn
<1>9. Honest(disk') /\ \A j \in DOMAIN sessions : Honest(sessions'[j].json)
  BY <1>7, SessionFacts DEF Feed, MobileInv, SessionOK
<1>10. /\ UNCHANGED services /\ alive' = alive
       /\ running' \in BOOLEAN /\ stopping' \in BOOLEAN /\ cmds' \in Seq(Commands)
       /\ alive' = 0 => \A i \in DOMAIN services : (i = alive) => Reached(i)'
  BY SessionsFun DEF Feed, sysVars, MobileInv, Shapes
<1>11. QED
  BY <1>8, <1>9, <1>10, Carried

\* The board that is rendered shows what the cockpit was fed.
LEMMA PublishingStep ==
  ASSUME MobileInv, NEW k \in DOMAIN sessions, PublishTop(k)
  PROVE  MobileInv'
<1> DEFINE t == [sessions[k] EXCEPT !.publisher = "write", !.json = Render(k)]
<1>1. sessions' = [sessions EXCEPT ![k] = t] /\ disk' = Nothing
  BY DEF PublishTop, Publishing
<1>2. Render(k) \in Boards /\ Honest(Render(k))
  BY SessionFacts, SessionsFun DEF Render, Boards, Honest, SessionType
<1>3. Carry(sessions[k], t) /\ t.json = Render(k)
  <2>1. sessions[k] \in SessionType /\ sessions[k].late = 0
    BY SessionFacts DEF PublishTop, SessionOK, LastBoard, SessionType
  <2>2. t = PublisherSet(sessions[k], "write", Render(k), 0)
    BY <2>1 DEF SessionType, PublisherSet
  <2>3. "write" \in PCs /\ Render(k) \in Boards \cup {Nothing} /\ 0 \in 0..1 /\ ~(0 > 0)
    BY <1>2 DEF PCs
  <2> HIDE DEF t
  <2>4. QED
    BY <2>1, <2>2, <2>3, SetPublisher
<1>4. Honest(disk') /\ Honest(t.json)
  BY <1>1, <1>2, <1>3 DEF Honest
<1>5. UNCHANGED <<running, sysVars>>
  BY DEF PublishTop, Publishing
<1>6. QED
  BY <1>1, <1>3, <1>4, <1>5, OneMoves

\* The board in hand is the last one that a cancelled loop writes.
LEMMA WriteStep ==
  ASSUME MobileInv, NEW k \in DOMAIN sessions, PublishWrite(k)
  PROVE  MobileInv'
<1> DEFINE s == sessions[k]
           n == IF s.cancelled /\ s.late < 2 THEN s.late + 1 ELSE s.late
           t == [s EXCEPT !.publisher = "top", !.json = Nothing, !.late = n]
<1>1. sessions' = [sessions EXCEPT ![k] = t] /\ disk' = s.json
  BY DEF PublishWrite
<1>2. s \in SessionType /\ SessionOK(k) /\ s.publisher = "write"
  BY SessionFacts DEF PublishWrite
<1>3. s.late = 0 /\ n \in 0..1 /\ (n > 0 => s.cancelled)
  BY <1>2 DEF SessionOK, LastBoard, SessionType
<1>4. Carry(s, t) /\ t.json = Nothing
  <2>1. "top" \in PCs /\ "top" # "write" /\ Nothing \in Boards \cup {Nothing}
    BY DEF PCs
  <2>2. t = PublisherSet(s, "top", Nothing, n)
    BY DEF PublisherSet
  <2> HIDE DEF t, n, s
  <2>3. QED
    BY <1>2, <1>3, <2>1, <2>2, SetPublisher
<1>5. Honest(disk') /\ Honest(t.json)
  BY <1>1, <1>2, <1>4 DEF Honest, SessionOK
<1>6. UNCHANGED <<running, sysVars>>
  BY DEF PublishWrite
<1>7. QED
  BY <1>1, <1>4, <1>5, <1>6, OneMoves

LEMMA PublishFailsStep ==
  ASSUME MobileInv, NEW k \in DOMAIN sessions, PublishFails(k)
  PROVE  MobileInv'
<1> DEFINE t == [sessions[k] EXCEPT !.publisher = "top", !.json = Nothing]
<1>1. sessions' = [sessions EXCEPT ![k] = t] /\ disk' = disk
  BY DEF PublishFails
<1>2. Carry(sessions[k], t) /\ t.json = Nothing
  BY SessionFacts DEF PublishFails, Carry, SessionType, SessionOK, LastBoard, PCs
<1>3. Honest(disk') /\ Honest(t.json)
  BY <1>1, <1>2 DEF Honest, MobileInv
<1>4. UNCHANGED <<running, sysVars>>
  BY DEF PublishFails
<1>5. QED
  BY <1>1, <1>2, <1>3, <1>4, OneMoves

LEMMA PublishEndsStep ==
  ASSUME MobileInv, NEW k \in DOMAIN sessions, PublishEnds(k)
  PROVE  MobileInv'
<1> DEFINE t == [sessions[k] EXCEPT !.publisher = "end"]
<1>1. sessions' = [sessions EXCEPT ![k] = t] /\ disk' = disk
  BY DEF PublishEnds
<1>2. Carry(sessions[k], t) /\ t.json = sessions[k].json
  BY SessionFacts DEF PublishEnds, Carry, SessionType, SessionOK, LastBoard, PCs
<1>3. Honest(disk') /\ Honest(t.json)
  BY <1>1, <1>2, SessionFacts DEF MobileInv, SessionOK
<1>4. UNCHANGED <<running, sysVars>>
  BY DEF PublishEnds
<1>5. QED
  BY <1>1, <1>2, <1>3, <1>4, OneMoves

-----------------------------------------------------------------------------
(* The activity, the ends of instances and of the process. *)

LEMMA NothingMoves ==
  ASSUME MobileInv, sessions' = sessions
  PROVE  CarriedOn
<1>1. \A k \in DOMAIN sessions : sessions[k].fed >= sessions[k].fed
  BY SessionsFun DEF SessionType
<1>2. QED
  BY <1>1, SessionFacts DEF CarriedOn, Carry, SessionOK, MobileInv, Shapes

LEMMA OutsideStep ==
  ASSUME MobileInv, Press \/ Recreate \/ Revoke \/ UNCHANGED vars
  PROVE  MobileInv'
<1>1. /\ UNCHANGED <<sessions, services, disk>> /\ alive' = alive
      /\ running' \in BOOLEAN /\ stopping' \in BOOLEAN
  BY DEF Press, Recreate, Revoke, vars, sysVars, MobileInv, Shapes
<1>2. cmds' \in Seq(Commands)
  <2>1. cmds \in Seq(Commands) /\ {"start", "stop"} \subseteq Commands
    BY DEF MobileInv, Shapes, Commands
  <2>2. Append(cmds, "stop") \in Seq(Commands) /\ Append(cmds, "start") \in Seq(Commands)
    BY <2>1
  <2>3. cmds' \in {cmds, Append(cmds, "stop"), Append(cmds, "start")}
    BY DEF Press, Recreate, Revoke, vars, sysVars
  <2>4. QED
    BY <2>1, <2>2, <2>3
<1>3. CarriedOn
  BY <1>1, NothingMoves
<1>4. Honest(disk') /\ \A k \in DOMAIN sessions : Honest(sessions'[k].json)
  BY <1>1, SessionFacts DEF MobileInv, SessionOK
<1>5. 0 \notin DOMAIN services
  BY SessionsFun
<1>6. ASSUME alive' = 0, NEW i \in DOMAIN services, i = alive
      PROVE  Reached(i)'
  BY <1>1, <1>5, <1>6
<1>7. QED
  BY <1>1, <1>2, <1>3, <1>4, <1>6, Carried

\* A sequence made from another one, element by element.
LEMMA MappedSessions ==
  ASSUME MobileInv, NEW f, DOMAIN f = DOMAIN sessions, f = [k \in DOMAIN f |-> f[k]],
         \A k \in DOMAIN sessions : Carry(sessions[k], f[k]), sessions' = f
  PROVE  CarriedOn
<1>1. f \in [1..Len(sessions) -> SessionType]
  BY SessionsFun DEF Carry
<1>2. f \in Seq(SessionType)
  BY <1>1, SessionsFun, SeqDef
<1>3. Len(f) = Len(sessions)
  BY <1>1, <1>2, SessionsFun, LenProperties
<1>4. QED
  BY <1>2, <1>3 DEF CarriedOn

LEMMA EndedFacts ==
  ASSUME NEW s \in SessionType, LastBoard(s)
  PROVE  /\ Carry(s, Ended(s)) /\ Ended(s).json = s.json
         /\ ~Ended(s).open /\ Ended(s).cancelled
<1>1. Ended(s) \in SessionType
  BY DEF SessionType, Ended
<1>2. QED
  BY <1>1 DEF SessionType, Carry, LastBoard, Ended

LEMMA OnDestroyStep ==
  ASSUME MobileInv, OnDestroy
  PROVE  MobileInv'
<1> DEFINE f == [k \in DOMAIN sessions |->
                   IF k = Fields.tunnel THEN Ended(sessions[k]) ELSE sessions[k]]
<1>1. /\ sessions' = f /\ UNCHANGED <<running, cmds, services, disk>>
      /\ alive' = 0 /\ stopping' = FALSE /\ alive # 0
  BY DEF OnDestroy
<1>2. ASSUME NEW k \in DOMAIN sessions
      PROVE  /\ Carry(sessions[k], f[k]) /\ f[k].json = sessions[k].json
             /\ k = Fields.tunnel => ~f[k].open /\ f[k].cancelled
  <2>1. sessions[k] \in SessionType /\ LastBoard(sessions[k])
    BY SessionFacts DEF SessionOK
  <2>2. sessions[k].fed >= sessions[k].fed
    BY <2>1 DEF SessionType
  <2>3. Carry(sessions[k], sessions[k])
    BY <2>1, <2>2 DEF Carry
  <2>4. QED
    BY <2>1, <2>3, EndedFacts
<1>3. CarriedOn
  <2>1. DOMAIN f = DOMAIN sessions /\ f = [k \in DOMAIN f |-> f[k]]
    OBVIOUS
  <2> HIDE DEF f
  <2>2. QED
    BY <1>1, <1>2, <2>1, MappedSessions
<1>4. Honest(disk') /\ \A k \in DOMAIN sessions : Honest(sessions'[k].json)
  BY <1>1, <1>2, SessionFacts DEF MobileInv, SessionOK
<1>5. ASSUME NEW i \in DOMAIN services, i = alive
      PROVE  Reached(i)'
  <2>1. Fields.tunnel = services[i].tunnel
    BY <1>1, <1>5 DEF Fields
  <2>2. Tunnels(i)' = Tunnels(i)
    BY <1>3, CarriedFacts
  <2>3. QED
    BY <1>1, <1>2, <2>1, <2>2 DEF Reached, Tunnels
<1>6. cmds' \in Seq(Commands) /\ running' \in BOOLEAN
  BY <1>1 DEF MobileInv, Shapes
<1>7. QED
  BY <1>1, <1>3, <1>4, <1>5, <1>6, Carried

LEMMA ProcessEndsStep ==
  ASSUME MobileInv, ProcessEnds
  PROVE  MobileInv'
<1> DEFINE f == [k \in DOMAIN sessions |-> Killed(sessions[k])]
<1>1. /\ sessions' = f /\ UNCHANGED <<services, disk>>
      /\ alive' = 0 /\ stopping' = FALSE /\ running' = FALSE
  BY DEF ProcessEnds
<1>2. ASSUME NEW s \in SessionType
      PROVE  /\ Carry(s, Killed(s)) /\ Killed(s).json = Nothing
             /\ ~Killed(s).open /\ Killed(s).cancelled
  <2>1. Killed(s) \in SessionType
    BY DEF SessionType, PCs, Killed
  <2>2. /\ Killed(s).of = s.of /\ Killed(s).tunnel = s.tunnel /\ Killed(s).fed = s.fed
        /\ ~Killed(s).open /\ Killed(s).cancelled /\ Killed(s).publisher = "end"
        /\ Killed(s).json = Nothing /\ s.fed >= s.fed
    BY DEF SessionType, Killed
  <2>3. QED
    BY <2>1, <2>2 DEF Carry, LastBoard
<1>3. ASSUME NEW k \in DOMAIN sessions
      PROVE  /\ Carry(sessions[k], f[k]) /\ f[k].json = Nothing
             /\ ~f[k].open /\ f[k].cancelled
  BY <1>2, SessionFacts
<1>4. CarriedOn
  <2>1. DOMAIN f = DOMAIN sessions /\ f = [k \in DOMAIN f |-> f[k]]
    OBVIOUS
  <2> HIDE DEF f
  <2>2. QED
    BY <1>1, <1>3, <2>1, MappedSessions
<1>5. Honest(disk') /\ \A k \in DOMAIN sessions : Honest(sessions'[k].json)
  BY <1>1, <1>3 DEF MobileInv, Honest
<1>6. ASSUME NEW i \in DOMAIN services
      PROVE  Reached(i)'
  <2>1. Tunnels(i)' = Tunnels(i)
    BY <1>4, CarriedFacts
  <2>2. QED
    BY <1>1, <1>3, <2>1 DEF Reached, Tunnels
<1>7. cmds' \in Seq(Commands)
  <2>1. <<"start">> \in Seq(Commands) /\ <<>> \in Seq(Commands)
    BY EmptySeq DEF Commands
  <2>2. cmds' \in {<<"start">>, <<>>}
    BY DEF ProcessEnds
  <2>3. QED
    BY <2>1, <2>2
<1>8. QED
  BY <1>1, <1>4, <1>5, <1>6, <1>7, Carried

\* A step of a loop, one of which may end the process.
LEMMA LoopStep ==
  ASSUME MobileInv, NEW k \in DOMAIN sessions,
         Reader(k) \/ ReadPacket(k) \/ Publisher(k) \/ PublishFails(k)
  PROVE  MobileInv'
<1>1. CASE ReadPacket(k)
  BY <1>1, ReaderMoves DEF ReadPacket, PCs
<1>2. CASE ReadEnds(k) \/ WritePacket(k)
  BY <1>2, ReaderMoves DEF ReadEnds, WritePacket, PCs
<1>3. CASE Feed(k) \/ Publisher(k) \/ PublishFails(k)
  BY <1>3, FeedStep, PublishingStep, WriteStep, PublishEndsStep, PublishFailsStep
     DEF Publisher
<1>4. CASE Throws(k)
  BY <1>4, ProcessEndsStep DEF Throws
<1>5. QED
  BY <1>1, <1>2, <1>3, <1>4 DEF Reader

-----------------------------------------------------------------------------
(* The commands. *)

\* The instance a command is for gets its fields; no other instance changes.
LEMMA StoredFacts ==
  ASSUME MobileInv, NEW f \in ServiceType, Stored(f)
  PROVE  /\ services' \in Seq(ServiceType) /\ Instance \in DOMAIN services'
         /\ Len(services') \in Nat /\ DOMAIN services' = 1..Len(services')
         /\ DOMAIN services' = DOMAIN services \cup {Instance}
         /\ services'[Instance] = f
         /\ \A i \in DOMAIN services : i # Instance => services'[i] = services[i]
<1> DEFINE n == IF alive = 0 THEN Len(services) + 1 ELSE Len(services)
<1>1. Len(services) \in Nat /\ DOMAIN services = 1..Len(services)
      /\ \A i \in DOMAIN services : services[i] \in ServiceType
  BY SessionsFun
<1>2. alive \in 0..Len(services)
  BY DEF MobileInv, Shapes
<1>3. n \in Nat /\ DOMAIN services \cup {Instance} = 1..n
  BY <1>1, <1>2 DEF Instance
<1>4. services' = [i \in 1..n |-> IF i = Instance THEN f ELSE services[i]]
  BY <1>3 DEF Stored
<1> HIDE DEF n
<1>5. services' \in [1..n -> ServiceType]
  <2>1. ASSUME NEW i \in 1..n
        PROVE  (IF i = Instance THEN f ELSE services[i]) \in ServiceType
    BY <1>1, <1>3
  <2>2. QED
    BY <1>4, <2>1
<1>6. services' \in Seq(ServiceType)
  BY <1>3, <1>5, SeqDef
<1>7. Len(services') = n
  BY <1>3, <1>5, <1>6, LenProperties
<1>8. QED
  BY <1>3, <1>4, <1>6, <1>7

\* What a command may put into an instance's fields: they are those it has, or
\* a cockpit or tunnel that is there after the step.
LEMMA FieldsFacts ==
  ASSUME MobileInv
  PROVE  /\ Fields \in ServiceType
         /\ Fields.cockpit \in 0..Len(sessions) /\ Fields.tunnel \in 0..Len(sessions)
         /\ Instance \notin DOMAIN services =>
              alive = 0 /\ Fields = NewService /\ Tunnels(Instance) = {}
         /\ Instance \in DOMAIN services =>
              alive = Instance /\ Fields = services[Instance]
         /\ \A i \in DOMAIN services : i # Instance => Destroyed(i)
         /\ Instance \in Nat
<1>1. /\ Len(services) \in Nat /\ DOMAIN services = 1..Len(services)
      /\ Len(sessions) \in Nat
      /\ \A i \in DOMAIN services : services[i] \in ServiceType /\ FieldsOK(i)
      /\ alive \in 0..Len(services)
  BY SessionsFun DEF MobileInv, Shapes
<1>2. CASE alive = 0
  <2>1. Instance = Len(services) + 1 /\ Instance \notin DOMAIN services
    BY <1>1, <1>2 DEF Instance
  <2>2. Tunnels(Instance) = {}
    BY <2>1 DEF Tunnels, MobileInv, SessionOK
  <2>3. Fields = NewService /\ NewService.cockpit = 0 /\ NewService.tunnel = 0
    BY <1>2 DEF Fields, NewService
  <2>4. NewService \in ServiceType
    BY DEF NewService, ServiceType
  <2>5. \A i \in DOMAIN services : Destroyed(i)
    BY <1>1, <1>2 DEF Destroyed
  <2>6. QED
    BY <1>1, <1>2, <2>1, <2>2, <2>3, <2>4, <2>5
<1>3. CASE alive # 0
  <2>1. Instance = alive /\ Instance \in DOMAIN services /\ Fields = services[Instance]
    BY <1>1, <1>3 DEF Instance, Fields
  <2>2. QED
    BY <1>1, <2>1 DEF FieldsOK, Destroyed
<1>4. QED
  BY <1>2, <1>3

LEMMA TailOfCmds ==
  ASSUME MobileInv, cmds # <<>>, cmds' = Tail(cmds)
  PROVE  cmds' \in Seq(Commands)
BY HeadTailProperties DEF MobileInv, Shapes

LEMMA StopStep ==
  ASSUME MobileInv, Stop
  PROVE  MobileInv'
<1>1. /\ Stored(Fields) /\ alive' = Instance /\ stopping' = TRUE
      /\ UNCHANGED <<running, sessions, disk>>
  BY DEF Stop
<1>2. CarriedOn
  BY <1>1, NothingMoves
<1>3. /\ services' \in Seq(ServiceType) /\ Instance \in DOMAIN services'
      /\ DOMAIN services' = DOMAIN services \cup {Instance}
      /\ services'[Instance] = Fields
      /\ \A i \in DOMAIN services : services'[i] = services[i]
      /\ alive' \in 0..Len(services')
  <2>1. Fields \in ServiceType /\ (Instance \in DOMAIN services => Fields = services[Instance])
    BY FieldsFacts
  <2>2. /\ services' \in Seq(ServiceType) /\ Instance \in DOMAIN services'
        /\ Len(services') \in Nat /\ DOMAIN services' = 1..Len(services')
        /\ DOMAIN services' = DOMAIN services \cup {Instance}
        /\ services'[Instance] = Fields
        /\ \A i \in DOMAIN services : i # Instance => services'[i] = services[i]
    BY <1>1, <2>1, StoredFacts
  <2>3. Instance \in 0..Len(services')
    BY <2>2
  <2>4. QED
    BY <1>1, <2>1, <2>2, <2>3
<1>4. Shapes'
  BY <1>1, <1>3, TailOfCmds DEF MobileInv, Shapes, Stop
<1>5. Honest(disk)'
  BY <1>1, <1>2, CarriedFacts DEF MobileInv
<1>6. ASSUME NEW k \in DOMAIN sessions'
      PROVE  SessionOK(k)'
  <2>1. k \in DOMAIN sessions /\ SessionOK(k) /\ sessions'[k] = sessions[k]
    BY <1>1, SessionFacts
  <2>2. Honest(sessions[k].json)'
    BY <1>1, <1>2, <2>1, CarriedFacts DEF SessionOK
  <2>3. QED
    BY <1>1, <1>3, <2>1, <2>2 DEF SessionOK, LastBoard
<1>7. ASSUME NEW i \in DOMAIN services'
      PROVE  FieldsOK(i)' /\ Reached(i)'
  <2>1. Tunnels(i)' = Tunnels(i)
    BY <1>2, CarriedFacts
  <2>2. CASE i \in DOMAIN services
    <3>1. FieldsOK(i) /\ Reached(i) /\ services'[i] = services[i]
      BY <1>3, <2>2 DEF MobileInv
    <3>2. FieldsOK(i)'
      BY <1>1, <2>1, <3>1 DEF FieldsOK
    <3>3. Destroyed(i)' => Destroyed(i)
      BY <1>1, <2>2, FieldsFacts DEF Destroyed
    <3>4. QED
      BY <1>1, <2>1, <3>1, <3>2, <3>3 DEF Reached
  <2>3. CASE i \notin DOMAIN services
    <3>1. i = Instance /\ Tunnels(i) = {} /\ services'[i] = Fields
      BY <1>3, <2>3, FieldsFacts
    <3>2. FieldsOK(i)'
      BY <1>1, <2>1, <3>1, FieldsFacts DEF FieldsOK
    <3>3. QED
      BY <2>1, <3>1, <3>2 DEF Reached
  <2>4. QED
    BY <2>2, <2>3
<1>8. QED
  BY <1>4, <1>5, <1>6, <1>7 DEF MobileInv

\* The session that a start makes.
LEMMA NewSession ==
  ASSUME MobileInv, NEW b \in BOOLEAN
  PROVE  LET s == Session(Instance, b)
         IN /\ s \in SessionType /\ s.of = Instance /\ s.tunnel = b
            /\ s.json = Nothing /\ LastBoard(s)
<1>1. Session(Instance, b) \in SessionType
  BY FieldsFacts DEF Session, SessionType, PCs
<1>2. QED
  BY <1>1 DEF Session, LastBoard

LEMMA StartStep ==
  ASSUME MobileInv, Start
  PROVE  MobileInv'
<1> DEFINE k == Len(sessions) + 1
<1>1. PICK b \in BOOLEAN :
        /\ sessions' = Append(sessions, Session(Instance, b))
        /\ Stored([cockpit |-> k, tunnel |-> IF b THEN k ELSE Fields.tunnel])
        /\ stopping' = (stopping \/ ~b)
  BY DEF Start
<1> DEFINE s == Session(Instance, b)
           f == [cockpit |-> k, tunnel |-> IF b THEN k ELSE Fields.tunnel]
<1>2. alive' = Instance /\ UNCHANGED <<running, disk>>
  BY DEF Start
<1>3. /\ s \in SessionType /\ s.of = Instance /\ s.tunnel = b
      /\ s.json = Nothing /\ LastBoard(s)
  BY NewSession
<1>4. /\ Len(sessions) \in Nat /\ DOMAIN sessions = 1..Len(sessions)
      /\ k \in Nat /\ k \notin DOMAIN sessions
  BY SessionsFun
<1> HIDE DEF s
<1>5. /\ sessions' \in Seq(SessionType) /\ Len(sessions') = k
      /\ DOMAIN sessions' = DOMAIN sessions \cup {k}
      /\ sessions'[k] = s
      /\ \A j \in DOMAIN sessions : sessions'[j] = sessions[j]
  <2>1. sessions \in Seq(SessionType) /\ sessions' = Append(sessions, s)
    BY <1>1 DEF MobileInv, Shapes, s
  <2>2. sessions' \in Seq(SessionType) /\ Len(sessions') = k
    BY <1>3, <2>1
  <2>3. DOMAIN sessions' = 1..k
    BY <2>2, LenProperties
  <2>4. QED
    BY <1>3, <1>4, <2>1, <2>2, <2>3
<1>6. f \in ServiceType /\ f.cockpit = k /\ f.tunnel = IF b THEN k ELSE Fields.tunnel
  BY <1>4, FieldsFacts DEF ServiceType
<1> HIDE DEF f
<1>7. /\ services' \in Seq(ServiceType) /\ Instance \in DOMAIN services'
      /\ DOMAIN services' = DOMAIN services \cup {Instance}
      /\ services'[Instance] = f
      /\ \A i \in DOMAIN services : i # Instance => services'[i] = services[i]
      /\ alive' \in 0..Len(services')
  <2>1. Stored(f)
    BY <1>1 DEF f
  <2>2. /\ services' \in Seq(ServiceType) /\ Instance \in DOMAIN services'
        /\ Len(services') \in Nat /\ DOMAIN services' = 1..Len(services')
        /\ DOMAIN services' = DOMAIN services \cup {Instance}
        /\ services'[Instance] = f
        /\ \A i \in DOMAIN services : i # Instance => services'[i] = services[i]
    BY <1>6, <2>1, StoredFacts
  <2>3. Instance \in 0..Len(services')
    BY <2>2
  <2>4. QED
    BY <1>2, <2>2, <2>3
<1> HIDE DEF k
<1>8. Shapes'
  BY <1>1, <1>2, <1>5, <1>7, TailOfCmds DEF MobileInv, Shapes, Start
<1>9. ASSUME NEW d, Honest(d)
      PROVE  Honest(d)'
  BY <1>5, <1>9 DEF Honest
<1>10. ASSUME NEW j \in DOMAIN sessions'
       PROVE  SessionOK(j)'
  <2>1. CASE j = k
    <3>1. Honest(sessions[j].json)'
      BY <1>3, <1>5, <2>1 DEF Honest
    <3>2. QED
      BY <1>3, <1>5, <1>6, <1>7, <2>1, <3>1 DEF SessionOK, LastBoard
  <2>2. CASE j # k
    <3>1. j \in DOMAIN sessions /\ SessionOK(j) /\ sessions'[j] = sessions[j]
      BY <1>5, <2>2, SessionFacts
    <3>2. Honest(sessions[j].json)'
      BY <1>9, <3>1 DEF SessionOK
    <3>3. services'[sessions[j].of].cockpit \in DOMAIN sessions'
      BY <1>5, <1>6, <1>7, <3>1 DEF SessionOK
    <3>4. QED
      BY <1>7, <3>1, <3>2, <3>3 DEF SessionOK, LastBoard
  <2>3. QED
    BY <2>1, <2>2
<1>11. ASSUME NEW i
       PROVE  Tunnels(i)' = Tunnels(i) \cup IF b /\ i = Instance THEN {k} ELSE {}
  BY <1>3, <1>4, <1>5 DEF Tunnels
<1>12. Len(sessions) \in Nat /\ k = Len(sessions) + 1
  BY <1>4 DEF k
<1>13. ASSUME NEW i \in DOMAIN services'
       PROVE  FieldsOK(i)' /\ Reached(i)'
  <2>1. CASE i # Instance
    <3>1. /\ i \in DOMAIN services /\ services'[i] = services[i]
          /\ FieldsOK(i) /\ Reached(i) /\ Destroyed(i) /\ Tunnels(i)' = Tunnels(i)
      BY <1>7, <1>11, <2>1, FieldsFacts DEF MobileInv
    <3>2. FieldsOK(i)'
      BY <1>5, <1>12, <3>1 DEF FieldsOK
    <3>3. \A j \in Tunnels(i) : sessions'[j] = sessions[j]
      BY <1>5 DEF Tunnels
    <3>4. QED
      BY <3>1, <3>2, <3>3 DEF Reached
  <2>2. CASE i = Instance
    <3>1. services'[i] = f /\ ~Destroyed(i)'
      BY <1>2, <1>7, <2>2 DEF Destroyed
    <3>2. CASE b
      BY <1>5, <1>6, <1>11, <1>12, <2>2, <3>1, <3>2 DEF FieldsOK, Reached
    <3>3. CASE ~b
      <4>1. Tunnels(i)' = Tunnels(i) /\ f.tunnel = Fields.tunnel
        BY <1>6, <1>11, <3>3
      <4>2. Tunnels(i) # {} => Fields.tunnel \in Tunnels(i)
        BY <2>2, FieldsFacts DEF MobileInv, FieldsOK
      <4>3. QED
        BY <1>5, <1>6, <1>12, <3>1, <4>1, <4>2, FieldsFacts DEF FieldsOK, Reached
    <3>4. QED
      BY <3>2, <3>3
  <2>3. QED
    BY <2>1, <2>2
<1>14. Honest(disk)'
  BY <1>2, <1>9 DEF MobileInv
<1>15. QED
  BY <1>8, <1>10, <1>13, <1>14 DEF MobileInv

-----------------------------------------------------------------------------
(* Theorems. *)

LEMMA MobileInvInit == Init => MobileInv
<1> SUFFICES ASSUME Init
             PROVE  MobileInv
  OBVIOUS
<1>1. cmds = <<>> /\ services = <<>> /\ sessions = <<>> /\ disk = Nothing
  BY DEF Init
<1>2. /\ cmds \in Seq(Commands)
      /\ services \in Seq(ServiceType) /\ sessions \in Seq(SessionType)
      /\ DOMAIN services = {} /\ DOMAIN sessions = {} /\ Len(services) = 0
  BY <1>1, EmptySeq
<1>3. Shapes
  <2>1. alive \in 0..Len(services)
    BY <1>2 DEF Init
  <2>2. QED
    BY <1>2, <2>1 DEF Init, Shapes
<1>4. QED
  BY <1>1, <1>2, <1>3 DEF MobileInv, Honest

LEMMA MobileInvStep == MobileInv /\ [Next]_vars => MobileInv'
<1> SUFFICES ASSUME MobileInv, [Next]_vars
             PROVE  MobileInv'
  OBVIOUS
<1>1. CASE Press \/ Recreate \/ Revoke \/ UNCHANGED vars
  BY <1>1, OutsideStep
<1>2. CASE Main
  BY <1>2, StopStep, StartStep, OnDestroyStep DEF Main
<1>3. CASE Kill
  BY <1>3, ProcessEndsStep DEF Kill
<1>4. CASE \E k \in DOMAIN sessions :
             Reader(k) \/ ReadPacket(k) \/ Publisher(k) \/ PublishFails(k)
  BY <1>4, LoopStep
<1>5. QED
  BY <1>1, <1>2, <1>3, <1>4 DEF Next

LEMMA MobileInvTypeOK == MobileInv => TypeOK
<1> SUFFICES ASSUME MobileInv
             PROVE  TypeOK
  OBVIOUS
<1>1. ASSUME NEW k \in DOMAIN sessions
      PROVE  /\ sessions[k].of \in DOMAIN services
             /\ sessions[k].reader \in PCs /\ sessions[k].publisher \in PCs
             /\ Honest(sessions[k].json)
  BY SessionFacts DEF SessionOK, SessionType
<1>2. Honest(disk) /\ \A i \in DOMAIN services : FieldsOK(i)
  BY DEF MobileInv
<1>3. QED
  BY <1>1, <1>2 DEF TypeOK, MobileInv, Shapes, Honest, FieldsOK

\* The fields of an instance that was started once name its only tunnel.
LEMMA OnlyTunnel ==
  ASSUME MobileInv, NEW i \in DOMAIN services, NEW k \in Tunnels(i), ~Restarted(i)
  PROVE  k = services[i].tunnel
BY DEF MobileInv, FieldsOK, Restarted

LEMMA MobileInvDestroyed == MobileInv => AfterDestroy
<1> SUFFICES ASSUME MobileInv
             PROVE  AfterDestroy
  OBVIOUS
<1>1. ASSUME NEW i \in DOMAIN services, NEW k \in Tunnels(i),
             Destroyed(i), ~Restarted(i)
      PROVE  ~sessions[k].open /\ sessions[k].cancelled /\ sessions[k].late <= 1
  <2>1. k = services[i].tunnel
    BY <1>1, OnlyTunnel
  <2>2. ~sessions[k].open /\ sessions[k].cancelled
    BY <1>1, <2>1 DEF MobileInv, Reached
  <2>3. sessions[k].late <= 1
    BY SessionFacts DEF Tunnels, SessionType
  <2>4. QED
    BY <2>2, <2>3
<1>2. QED
  BY <1>1, MobileInvTypeOK DEF AfterDestroy

\* onDestroy ends what start() began (LumraVpnService.kt:91): for any number of
\* presses, ends of the process and failed writes, an instance that was started
\* once leaves no tunnel open and no scope running, and one board at most comes
\* after it; and no board, in a loop's hand or on disk, shows more than was fed.
THEOREM DestroyEnds == Spec => []AfterDestroy
<1>1. QED
  BY MobileInvInit, MobileInvStep, MobileInvDestroyed, PTL DEF Spec
=============================================================================
