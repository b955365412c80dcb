---------------------------- MODULE Tap_proofs ----------------------------
(***************************************************************************)
(* Proofs about the passive tap, for any set of domains, servers and ports *)
(* and any bounds.  The inductive invariant is the conservation of         *)
(* attempts together with the types and the finiteness of the flow table.  *)
(* What it reads off the payloads is a matter of data: loops, the lemmas   *)
(* about which follow from the least turn for which they fail.             *)
(***************************************************************************)
EXTENDS Tap, FiniteSetTheorems, SequenceTheorems, WellFoundedInduction, TLAPS

-----------------------------------------------------------------------------
(* The board. *)

\* Folding an event into a flow yields a flow.
LEMMA FoldedType ==
  ASSUME NEW f \in Flow, NEW e \in Event
  PROVE  Folded(f, e) \in Flow
<1>1. CASE e.kind = "client_hello"
  <2>1. Folded(f, e) = [f EXCEPT !.hits = @ + 1]
    BY <1>1 DEF Folded
  <2>2. QED
    BY <2>1 DEF Flow
<1>2. CASE e.kind = "server_hello"
  <2>1. Folded(f, e) = [f EXCEPT !.handshake = TRUE]
    BY <1>2 DEF Folded
  <2>2. QED
    BY <2>1 DEF Flow
<1>3. CASE e.kind = "reset"
  <2>1. Folded(f, e) = [f EXCEPT !.resets = @ + 1]
    BY <1>3 DEF Folded
  <2>2. QED
    BY <2>1 DEF Flow
<1>4. CASE e.kind = "cert"
  <2>1. Folded(f, e) = [f EXCEPT !.certChecked = TRUE, !.certUntrusted = e.bad]
    BY <1>4 DEF Folded
  <2>2. QED
    BY <2>1 DEF Flow, Event
<1>5. CASE e.kind = "dns"
  <2>1. Folded(f, e) = [f EXCEPT !.dnsInjected = @ \/ e.bad]
    BY <1>5 DEF Folded
  <2>2. (f.dnsInjected \/ e.bad) \in BOOLEAN
    OBVIOUS
  <2>3. QED
    BY <2>1, <2>2 DEF Flow
<1>6. QED
  BY <1>1, <1>2, <1>3, <1>4, <1>5 DEF Event

\* The flow a first event starts from is a flow.
LEMMA NewFlowType == NewFlow \in Flow
BY DEF NewFlow, Flow, Types, Actions

\* An event keeps the board well typed.
LEMMA ObserveType ==
  ASSUME TrackerTypeOK, NEW e \in Event, Observe(e)
  PROVE  TrackerTypeOK'
<1>1. CASE e.domain = NoDomain
  BY <1>1 DEF Observe, TrackerTypeOK
<1>2. CASE e.domain # NoDomain
  <2>1. e.domain \in Domains
    BY <1>2 DEF Event
  <2>2. Folded(Seen(e.domain), e) \in Flow
    BY NewFlowType, FoldedType DEF Seen, TrackerTypeOK
  <2>3. flows' = Put(e.domain, Folded(Seen(e.domain), e))
    BY <1>2 DEF Observe
  <2>4. QED
    BY <2>1, <2>2, <2>3 DEF Put, TrackerTypeOK
<1>3. QED
  BY <1>1, <1>2

\* An event about a domain folds into the record of that domain and leaves
\* the others as they were.
LEMMA ObserveSeen ==
  ASSUME TrackerTypeOK, NEW e \in Event, e.domain \in Domains, Observe(e)
  PROVE  /\ \A d \in Domains : Seen(d) \in Flow
         /\ Seen(e.domain)' = Folded(Seen(e.domain), e)
         /\ \A d \in Domains \ {e.domain} : Seen(d)' = Seen(d)
<1>1. e.domain # NoDomain
  BY DomainsAssumption
<1>2. flows' = Put(e.domain, Folded(Seen(e.domain), e))
  BY <1>1 DEF Observe
<1>3. \A d \in Domains : Seen(d) \in Flow
  BY NewFlowType DEF TrackerTypeOK, Seen
<1>4. QED
  BY <1>2, <1>3 DEF Seen, Put

-----------------------------------------------------------------------------
(* The invariant. *)

\* The flow table holds finitely many entries.
TableFinite == IsFiniteSet(DOMAIN table)

TapInv == TypeOK /\ TableFinite /\ AttemptsAccounted

\* What a reassembler becomes is a reassembler.
LEMMA FeedType ==
  ASSUME NEW r \in Reassembler, NEW seg \in Segment, NEW f \in Feed(r, seg)
  PROVE  f.next \in Reassembler /\ f.out \in Messages \cup {None}
BY DEF Feed, Reassembler, Segment, Clean, AfterHead, Lost, Done, Messages, None

\* The state of a flow is one, whether there is an entry or not.
LEMMA StateType ==
  ASSUME TypeOK, NEW k
  PROVE  State(k) \in FlowState
BY DEF TypeOK, State, NewState, FlowState, Reassembler, Clean, None

\* A flow key is the pair of addresses it is made of.
LEMMA KeyIsSocket ==
  ASSUME NEW s \in Sockets
  PROVE  FlowKey(s) \in Sockets
BY DEF FlowKey, Sockets

\* Counting the open attempts when nothing changes but one entry: it is
\* attributed to a domain, it is removed, or its domain stays.
LEMMA AttributedCount ==
  ASSUME TypeOK, TableFinite, NEW k \in Sockets, NEW st \in FlowState,
         State(k).domain = NoDomain, st.domain \in Domains,
         table' = Stored(k, st)
  PROVE  /\ TableFinite'
         /\ Cardinality(Open(st.domain)') = Cardinality(Open(st.domain)) + 1
         /\ \A d \in Domains \ {st.domain} : Open(d)' = Open(d)
<1>1. TableFinite'
  BY FS_AddElement DEF TableFinite, Stored
<1>2. k \notin Open(st.domain)
  BY DomainsAssumption DEF Open, State
<1>3. Open(st.domain)' = Open(st.domain) \cup {k}
  BY DEF Open, Stored
<1>4. IsFiniteSet(Open(st.domain))
  BY FS_Subset DEF TableFinite, Open
<1>5. Cardinality(Open(st.domain) \cup {k}) = Cardinality(Open(st.domain)) + 1
  BY <1>2, <1>4, FS_AddElement
<1>6. ASSUME NEW d \in Domains \ {st.domain} PROVE Open(d)' = Open(d)
  BY DomainsAssumption DEF Open, Stored, State
<1>7. QED
  BY <1>1, <1>3, <1>5, <1>6

LEMMA RemovedCount ==
  ASSUME TypeOK, TableFinite, NEW k \in DOMAIN table, table[k].domain \in Domains,
         table' = Removed(k)
  PROVE  /\ TableFinite'
         /\ Cardinality(Open(table[k].domain)) \in Nat \ {0}
         /\ Cardinality({x \in DOMAIN table' : table'[x].domain = table[k].domain})
              = Cardinality(Open(table[k].domain)) - 1
         /\ \A d \in Domains \ {table[k].domain} : Open(d)' = Open(d)
<1> DEFINE d0 == table[k].domain
<1>1. TableFinite'
  BY FS_RemoveElement DEF TableFinite, Removed
<1>2. k \in Open(d0)
  BY DEF Open
<1>3. {x \in DOMAIN table' : table'[x].domain = d0} = Open(d0) \ {k}
  BY DEF Open, Removed
<1>4. IsFiniteSet(Open(d0))
  BY FS_Subset DEF TableFinite, Open
<1>5. Cardinality(Open(d0) \ {k}) = Cardinality(Open(d0)) - 1
  BY <1>2, <1>4, FS_RemoveElement
<1>6. Cardinality(Open(d0)) \in Nat /\ Cardinality(Open(d0)) # 0
  BY <1>2, <1>4, FS_CardinalityType, FS_EmptySet
<1>7. ASSUME NEW d \in Domains \ {d0} PROVE Open(d)' = Open(d)
  BY DEF Open, Removed
<1>8. QED
  BY <1>1, <1>3, <1>5, <1>6, <1>7

\* Counting when an entry changes without its domain, or an unattributed one
\* is removed.
LEMMA SameCounts ==
  ASSUME TypeOK, TableFinite, NEW k \in Sockets, NEW st \in FlowState,
         \/ st.domain = State(k).domain /\ table' = Stored(k, st)
         \/ State(k).domain = NoDomain /\ table' = Removed(k)
  PROVE  /\ TableFinite'
         /\ \A d \in Domains : Open(d)' = Open(d)
<1>1. CASE st.domain = State(k).domain /\ table' = Stored(k, st)
  <2>1. TableFinite'
    BY <1>1, FS_AddElement DEF TableFinite, Stored
  <2>2. ASSUME NEW d \in Domains PROVE Open(d)' = Open(d)
    BY <1>1, DomainsAssumption DEF Open, Stored, State, NewState
  <2>3. QED
    BY <2>1, <2>2
<1>2. CASE State(k).domain = NoDomain /\ table' = Removed(k)
  <2>1. TableFinite'
    BY <1>2, FS_RemoveElement DEF TableFinite, Removed
  <2>2. ASSUME NEW d \in Domains PROVE Open(d)' = Open(d)
    BY <1>2, DomainsAssumption DEF Open, Removed, State
  <2>3. QED
    BY <2>1, <2>2
<1>3. QED
  BY <1>1, <1>2

-----------------------------------------------------------------------------
(* One lemma for each action that the counts depend on. *)

LEMMA ReadHelloStep ==
  ASSUME TapInv, NEW s \in Sockets, NEW c \in Domains, NEW seg \in ClientSegments,
         ReadHello(s, c, seg)
  PROVE  TapInv'
<1> DEFINE k == FlowKey(s)
<1>1. k \in Sockets /\ State(k) \in FlowState
  BY KeyIsSocket, StateType DEF TapInv
<1>0. PICK d0 \in Domains :
        /\ Emit("client_hello", d0, FALSE)
        /\ \E f \in Feed(State(k).chre, seg) :
             table' = Stored(k, [State(k) EXCEPT !.domain = d0, !.chre = f.next,
                                                 !.held = {}])
  BY <1>1 DEF ReadHello, TapInv, TypeOK, FlowState
<1> DEFINE e0 == [kind |-> "client_hello", domain |-> d0, bad |-> FALSE]
<1>2. e0 \in Event /\ Observe(e0) /\ TrackerTypeOK
  BY <1>0 DEF Emit, Event, TapInv, TypeOK
<1>3. PICK f \in Feed(State(k).chre, seg) :
        table' = Stored(k, [State(k) EXCEPT !.domain = d0, !.chre = f.next,
                                            !.held = {}])
  BY <1>0
<1> DEFINE st == [State(k) EXCEPT !.domain = d0, !.chre = f.next, !.held = {}]
<1>4. f.next \in Reassembler
  BY <1>1, FeedType DEF ClientSegments, FlowState
<1>5. st \in FlowState /\ st.domain = d0
  BY <1>1, <1>4 DEF FlowState
<1>6. State(k).domain = NoDomain
  BY DEF ReadHello, Attributed
<1> HIDE DEF st, e0, k
<1>7. /\ TableFinite'
      /\ Cardinality(Open(d0)') = Cardinality(Open(d0)) + 1
      /\ \A d \in Domains \ {d0} : Open(d)' = Open(d)
  <2>1. table' = Stored(k, st)
    BY <1>3 DEF st, k
  <2>2. TypeOK /\ TableFinite /\ st.domain \in Domains
    BY <1>1, <1>5 DEF TapInv
  <2>3. QED
    BY <1>1, <1>5, <1>6, <2>1, <2>2, AttributedCount DEF k
<1>8. /\ \A d \in Domains : Seen(d) \in Flow
      /\ Seen(d0)' = Folded(Seen(d0), e0)
      /\ \A d \in Domains \ {d0} : Seen(d)' = Seen(d)
  BY <1>1, <1>2, ObserveSeen DEF e0
<1>9. Seen(d0)'.hits = Seen(d0).hits + 1 /\ Seen(d0)'.resets = Seen(d0).resets
  BY <1>1, <1>8 DEF Folded, Flow, e0
<1>10. AttemptsAccounted'
  <2>1. ASSUME NEW d \in Domains
        PROVE  Seen(d)'.hits = Seen(d)'.resets + Cardinality(Open(d)')
    <3>1. Seen(d).hits = Seen(d).resets + Cardinality(Open(d))
      BY DEF TapInv, AttemptsAccounted
    <3>2. IsFiniteSet(Open(d))
      BY FS_Subset DEF TapInv, TableFinite, Open
    <3>3. Cardinality(Open(d)) \in Nat /\ Seen(d) \in Flow
      BY <1>8, <3>2, FS_CardinalityType
    <3>4. CASE d = d0
      BY <1>7, <1>9, <3>1, <3>3, <3>4 DEF Flow
    <3>5. CASE d # d0
      BY <1>7, <1>8, <3>1, <3>5
    <3>6. QED
      BY <3>4, <3>5
  <2>2. QED
    BY <2>1 DEF AttemptsAccounted
<1>11. TypeOK'
  <2>1. TrackerTypeOK'
    BY <1>2, ObserveType
  <2>2. table' = [x \in DOMAIN table \cup {k} |-> IF x = k THEN st ELSE table[x]]
    BY <1>3 DEF Stored, st, k
  <2>3. DOMAIN table' \subseteq Sockets /\ table' \in [DOMAIN table' -> FlowState]
    BY <1>1, <1>5, <2>2 DEF TapInv, TypeOK
  <2>4. heard' \in [Sockets -> SUBSET Domains]
    BY DEF ReadHello, TapInv, TypeOK
  <2>5. UNCHANGED <<conn, ended>>
    BY DEF ReadHello
  <2>6. QED
    BY <2>1, <2>3, <2>4, <2>5 DEF TypeOK, TapInv
<1>12. QED
  BY <1>7, <1>10, <1>11 DEF TapInv

LEMMA ResetStep ==
  ASSUME TapInv, NEW s \in Sockets, NEW c \in Domains, Reset(s, c)
  PROVE  TapInv'
<1> DEFINE k == FlowKey(s)
<1>1. k \in DOMAIN table /\ State(k) = table[k] /\ k \in Sockets
  BY KeyIsSocket DEF Reset, Attributed, State, NewState
<1>2. PICK d0 \in Domains : d0 = table[k].domain
  BY <1>1 DEF Reset, Attributed, TapInv, TypeOK, FlowState
<1> DEFINE e0 == [kind |-> "reset", domain |-> d0, bad |-> FALSE]
<1>3. e0 \in Event /\ Observe(e0) /\ TrackerTypeOK
  BY <1>2 DEF Reset, Emit, Event, TapInv, TypeOK
<1>4. table' = Removed(k)
  BY DEF Reset
<1> HIDE DEF e0, k
<1>5. /\ TableFinite'
      /\ Cardinality(Open(d0)) \in Nat \ {0}
      /\ Cardinality(Open(d0)') = Cardinality(Open(d0)) - 1
      /\ \A d \in Domains \ {d0} : Open(d)' = Open(d)
  <2>1. Open(d0)' = {x \in DOMAIN table' : table'[x].domain = d0}
    BY DEF Open
  <2>2. TypeOK /\ TableFinite
    BY DEF TapInv
  <2>3. QED
    BY <1>1, <1>2, <1>4, <2>1, <2>2, RemovedCount
<1>6. /\ \A d \in Domains : Seen(d) \in Flow
      /\ Seen(d0)' = Folded(Seen(d0), e0)
      /\ \A d \in Domains \ {d0} : Seen(d)' = Seen(d)
  BY <1>3, ObserveSeen DEF e0
<1>7. Seen(d0)'.resets = Seen(d0).resets + 1 /\ Seen(d0)'.hits = Seen(d0).hits
  BY <1>6 DEF Folded, Flow, e0
<1>8. AttemptsAccounted'
  <2>1. ASSUME NEW d \in Domains
        PROVE  Seen(d)'.hits = Seen(d)'.resets + Cardinality(Open(d)')
    <3>1. Seen(d).hits = Seen(d).resets + Cardinality(Open(d)) /\ Seen(d) \in Flow
      BY <1>6 DEF TapInv, AttemptsAccounted
    <3>2. CASE d = d0
      BY <1>5, <1>7, <3>1, <3>2 DEF Flow
    <3>3. CASE d # d0
      BY <1>5, <1>6, <3>1, <3>3
    <3>4. QED
      BY <3>2, <3>3
  <2>2. QED
    BY <2>1 DEF AttemptsAccounted
<1>9. TypeOK'
  <2>1. TrackerTypeOK'
    BY <1>3, ObserveType
  <2>2. DOMAIN table' \subseteq Sockets /\ table' \in [DOMAIN table' -> FlowState]
    BY <1>4 DEF Removed, TapInv, TypeOK
  <2>3. heard' \in [Sockets -> SUBSET Domains]
    BY DEF Reset, TapInv, TypeOK
  <2>4. UNCHANGED <<conn, ended>>
    BY DEF Reset
  <2>5. QED
    BY <2>1, <2>2, <2>3, <2>4 DEF TypeOK, TapInv
<1>10. QED
  BY <1>5, <1>8, <1>9 DEF TapInv

\* An event that counts neither attempt nor reset keeps the counts, and what a
\* server sent changes only in the record of its own domain.
LEMMA QuietEvent ==
  ASSUME TrackerTypeOK, NEW e \in Event, e.domain \in Domains, Observe(e),
         e.kind \in {"server_hello", "cert", "dns"}
  PROVE  /\ TrackerTypeOK'
         /\ \A d \in Domains :
              Seen(d)'.hits = Seen(d).hits /\ Seen(d)'.resets = Seen(d).resets
         /\ \A d \in Domains \ {e.domain} : Seen(d)' = Seen(d)
<1>1. /\ \A d \in Domains : Seen(d) \in Flow
      /\ Seen(e.domain)' = Folded(Seen(e.domain), e)
      /\ \A d \in Domains \ {e.domain} : Seen(d)' = Seen(d)
  BY ObserveSeen
<1>2. /\ Seen(e.domain)'.hits = Seen(e.domain).hits
      /\ Seen(e.domain)'.resets = Seen(e.domain).resets
  BY <1>1 DEF Folded, Flow
<1>3. TrackerTypeOK'
  BY ObserveType
<1>4. QED
  BY <1>1, <1>2, <1>3

LEMMA ServerMessageStep ==
  ASSUME TapInv, NEW s \in Sockets, NEW c \in Domains, NEW seg \in ServerSegments,
         NEW bad \in BOOLEAN, ServerMessage(s, c, seg, bad)
  PROVE  TapInv'
<1> DEFINE k == FlowKey(s)
<1>1. k \in DOMAIN table /\ State(k) = table[k] /\ k \in Sockets /\ table[k] \in FlowState
  BY KeyIsSocket DEF ServerMessage, Attributed, State, NewState, TapInv, TypeOK
<1>2. PICK d0 \in Domains : d0 = table[k].domain
  BY <1>1 DEF ServerMessage, Attributed, FlowState
<1>3. PICK f \in Feed(table[k].re, seg) :
        /\ f.out \in {"server_hello", "cert"}
        /\ table' = [table EXCEPT ![k].re = f.next]
        /\ Emit(f.out, table[k].domain, bad /\ f.out = "cert")
  BY DEF ServerMessage
<1> DEFINE e0 == [kind |-> f.out, domain |-> d0, bad |-> bad /\ f.out = "cert"]
           st == [table[k] EXCEPT !.re = f.next]
<1>4. e0 \in Event /\ Observe(e0) /\ TrackerTypeOK /\ e0.domain \in Domains
      /\ e0.kind \in {"server_hello", "cert", "dns"}
  BY <1>2, <1>3 DEF Emit, Event, TapInv, TypeOK
<1>5. f.next \in Reassembler
  BY <1>1, FeedType DEF ServerSegments, FlowState
<1>6. st \in FlowState /\ st.domain = State(k).domain /\ table' = Stored(k, st)
  <2>1. st \in FlowState /\ st.domain = State(k).domain
    BY <1>1, <1>5 DEF FlowState
  <2>2. table' = [table EXCEPT ![k].re = f.next]
    BY <1>3
  <2>3. table' = Stored(k, st)
    BY <1>1, <2>2 DEF Stored, TapInv, TypeOK
  <2>4. QED
    BY <2>1, <2>3
<1> HIDE DEF e0, st, k
<1>7. TableFinite' /\ \A d \in Domains : Open(d)' = Open(d)
  BY <1>1, <1>6, SameCounts DEF TapInv
<1>8. /\ TrackerTypeOK'
      /\ \A d \in Domains :
           Seen(d)'.hits = Seen(d).hits /\ Seen(d)'.resets = Seen(d).resets
  BY <1>4, QuietEvent
<1>9. AttemptsAccounted'
  BY <1>7, <1>8 DEF AttemptsAccounted, TapInv
<1>10. TypeOK'
  <2>1. DOMAIN table' \subseteq Sockets /\ table' \in [DOMAIN table' -> FlowState]
    BY <1>1, <1>6 DEF Stored, TapInv, TypeOK
  <2>2. UNCHANGED <<conn, ended, heard>>
    BY DEF ServerMessage
  <2>3. QED
    BY <1>8, <2>1, <2>2 DEF TypeOK, TapInv
<1>11. QED
  BY <1>7, <1>9, <1>10 DEF TapInv

LEMMA SuspiciousReplyStep ==
  ASSUME TapInv, NEW d0 \in Domains, SuspiciousReply(d0)
  PROVE  TapInv'
<1> DEFINE e0 == [kind |-> "dns", domain |-> d0, bad |-> TRUE]
<1>1. e0 \in Event /\ Observe(e0) /\ TrackerTypeOK /\ e0.domain \in Domains
      /\ e0.kind \in {"server_hello", "cert", "dns"}
  BY DEF SuspiciousReply, Emit, Event, TapInv, TypeOK
<1> HIDE DEF e0
<1>2. /\ TrackerTypeOK'
      /\ \A d \in Domains :
           Seen(d)'.hits = Seen(d).hits /\ Seen(d)'.resets = Seen(d).resets
  BY <1>1, QuietEvent
<1>3. UNCHANGED <<table, conn, ended, heard>>
  BY DEF SuspiciousReply
<1>4. TableFinite' /\ \A d \in Domains : Open(d)' = Open(d)
  BY <1>3 DEF TableFinite, Open, TapInv
<1>5. AttemptsAccounted'
  BY <1>2, <1>4 DEF AttemptsAccounted, TapInv
<1>6. TypeOK'
  BY <1>1, <1>2, <1>3 DEF TypeOK, TapInv
<1>7. QED
  BY <1>4, <1>5, <1>6 DEF TapInv

\* A segment that yields no event moves at most one reassembler.
LEMMA NoMessageStep ==
  ASSUME TapInv, NEW s \in Sockets, NEW c \in Domains, NEW seg \in Segment,
         \/ seg \in ClientSegments /\ NoHello(s, c, seg)
         \/ seg \in ServerSegments /\ NoServerMessage(s, c, seg)
  PROVE  TapInv'
<1> DEFINE k == FlowKey(s)
<1>1. k \in Sockets /\ State(k) \in FlowState /\ UNCHANGED <<flows, conn, ended>>
  BY KeyIsSocket, StateType DEF TapInv, NoHello, NoServerMessage
<1>2. PICK st \in FlowState :
        \/ st.domain = State(k).domain /\ table' = Stored(k, st)
        \/ State(k).domain = NoDomain /\ table' = Removed(k)
  <2>1. CASE NoHello(s, c, seg)
    <3>1. PICK f \in Feed(State(k).chre, seg) :
            \/ table' = Removed(k)
            \/ table' = Stored(k, [State(k) EXCEPT
                                     !.chre = f.next,
                                     !.held = Waiting(State(k), c, seg, f.next)])
      BY <2>1 DEF NoHello
    <3>2. f.next \in Reassembler
      BY <1>1, FeedType DEF FlowState
    <3> DEFINE held == Waiting(State(k), c, seg, f.next)
               st == [State(k) EXCEPT !.chre = f.next, !.held = held]
    <3>7. held \in SUBSET Domains
      BY <1>1, <2>1 DEF Waiting, FlowState, NoHello, TapInv, TypeOK
    <3> HIDE DEF held
    <3>3. st \in FlowState
      BY <1>1, <3>2, <3>7 DEF FlowState
    <3>4. st.domain = State(k).domain
      BY <1>1 DEF FlowState
    <3>5. State(k).domain = NoDomain
      BY <2>1 DEF NoHello, Attributed
    <3>6. QED
      BY <1>1, <3>1, <3>3, <3>4, <3>5 DEF held
  <2>2. CASE NoServerMessage(s, c, seg)
    <3>1. PICK f \in Feed(table[k].re, seg) : table' = [table EXCEPT ![k].re = f.next]
      BY <2>2 DEF NoServerMessage
    <3>2. k \in DOMAIN table /\ State(k) = table[k]
      BY <2>2 DEF NoServerMessage, Attributed, State, NewState
    <3>3. f.next \in Reassembler
      BY <1>1, <3>2, FeedType DEF FlowState
    <3> DEFINE st == [table[k] EXCEPT !.re = f.next]
    <3>6. st \in FlowState /\ st.domain = State(k).domain
      BY <1>1, <3>2, <3>3 DEF FlowState
    <3>7. table' = Stored(k, st)
      BY <3>1, <3>2 DEF Stored, TapInv, TypeOK
    <3>4. st \in FlowState /\ st.domain = State(k).domain /\ table' = Stored(k, st)
      BY <3>6, <3>7
    <3>5. QED
      BY <3>4
  <2>3. QED
    BY <2>1, <2>2
<1> HIDE DEF k
<1>3. TableFinite' /\ \A d \in Domains : Open(d)' = Open(d)
  BY <1>1, <1>2, SameCounts DEF TapInv
<1>4. AttemptsAccounted'
  BY <1>1, <1>3 DEF AttemptsAccounted, TapInv, Seen
<1>5. TypeOK'
  <2>1. DOMAIN table' \subseteq Sockets /\ table' \in [DOMAIN table' -> FlowState]
    BY <1>1, <1>2 DEF Stored, Removed, TapInv, TypeOK
  <2>2. heard' \in [Sockets -> SUBSET Domains]
    <3>1. \E H \in SUBSET Domains : heard' = heard \/ heard' = [heard EXCEPT ![s] = H]
      <4>1. CASE NoServerMessage(s, c, seg)
        BY <4>1 DEF NoServerMessage
      <4>2. CASE NoHello(s, c, seg)
        <5>1. \/ heard' = [heard EXCEPT ![s] = {}]
              \/ heard' = [heard EXCEPT ![s] = IF seg.part = "none" THEN @ ELSE @ \cup {c}]
          BY <4>2 DEF NoHello
        <5>2. /\ {} \in SUBSET Domains
              /\ (IF seg.part = "none" THEN heard[s] ELSE heard[s] \cup {c}) \in SUBSET Domains
          BY DEF TapInv, TypeOK
        <5>3. QED
          BY <5>1, <5>2
      <4>3. QED
        BY <4>1, <4>2
    <3>2. QED
      BY <3>1 DEF TapInv, TypeOK
  <2>3. QED
    BY <1>1, <2>1, <2>2 DEF TypeOK, TapInv, TrackerTypeOK
<1>6. QED
  BY <1>3, <1>4, <1>5 DEF TapInv

-----------------------------------------------------------------------------
(* The specification. *)

LEMMA TapInit == Init => TapInv
<1> SUFFICES ASSUME Init PROVE TapInv
  OBVIOUS
<1>1. DOMAIN table = {} /\ DOMAIN flows = {}
  BY DEF Init, TrackerInit
<1>2. TypeOK
  BY <1>1 DEF Init, TypeOK, TrackerTypeOK, TrackerInit
<1>3. TableFinite
  BY <1>1, FS_EmptySet DEF TableFinite
<1>4. ASSUME NEW d \in Domains
      PROVE  Seen(d).hits = Seen(d).resets + Cardinality(Open(d))
  <2>1. Open(d) = {}
    BY <1>1 DEF Open
  <2>2. Seen(d) = NewFlow
    BY <1>1 DEF Seen
  <2>3. QED
    BY <2>1, <2>2, FS_EmptySet DEF NewFlow
<1>5. QED
  BY <1>2, <1>3, <1>4 DEF TapInv, AttemptsAccounted

LEMMA TapStep ==
  ASSUME TapInv, [Next]_vars
  PROVE  TapInv'
<1>1. ASSUME NEW s \in Sockets, NEW d \in Domains, Connect(s, d) PROVE TapInv'
  <2>1. UNCHANGED <<flows, table, ended, heard>>
    BY <1>1 DEF Connect
  <2>2. conn' \in [Sockets -> Domains \cup {NoDomain}]
    BY <1>1 DEF Connect, TapInv, TypeOK
  <2>3. TypeOK'
    BY <2>1, <2>2 DEF TapInv, TypeOK, TrackerTypeOK
  <2>4. TableFinite' /\ AttemptsAccounted'
    BY <2>1 DEF TapInv, TableFinite, AttemptsAccounted, Seen, Open
  <2>5. QED
    BY <2>3, <2>4 DEF TapInv
<1>2. ASSUME NEW s \in Sockets, Close(s) PROVE TapInv'
  BY <1>2 DEF Close, TapInv, TypeOK, TrackerTypeOK, TableFinite,
              AttemptsAccounted, Seen, Open
<1>3. ASSUME NEW s \in Sockets, NEW d \in Domains, Reset(s, d) PROVE TapInv'
  BY <1>3, ResetStep
<1>4. ASSUME NEW s \in Sockets, NEW d \in Domains, NEW seg \in ClientSegments,
             ReadHello(s, d, seg) \/ NoHello(s, d, seg)
      PROVE  TapInv'
  BY <1>4, ReadHelloStep, NoMessageStep DEF ClientSegments
<1>5. ASSUME NEW s \in Sockets, NEW d \in Domains, NEW seg \in ServerSegments,
             NoServerMessage(s, d, seg)
      PROVE  TapInv'
  BY <1>5, NoMessageStep DEF ServerSegments
<1>6. ASSUME NEW s \in Sockets, NEW d \in Domains, NEW seg \in ServerSegments,
             NEW bad \in BOOLEAN, ServerMessage(s, d, seg, bad)
      PROVE  TapInv'
  BY <1>6, ServerMessageStep
<1>7. ASSUME NEW d \in Domains, SuspiciousReply(d) PROVE TapInv'
  BY <1>7, SuspiciousReplyStep
<1>8. CASE UNCHANGED vars
  BY <1>8 DEF vars, TapInv, TypeOK, TrackerTypeOK, TableFinite,
              AttemptsAccounted, Seen, Open
<1>9. QED
  BY <1>1, <1>2, <1>3, <1>4, <1>5, <1>6, <1>7, <1>8 DEF Next

\* The tap keeps its inductive invariant.
THEOREM TapInvariance == Spec => []TapInv
BY TapInit, TapStep, PTL DEF Spec

\* Every variable of the tap keeps to its type (dispatcher.handle).
THEOREM TapTypes == Spec => []TypeOK
<1>1. TapInv => TypeOK
  BY DEF TapInv
<1>2. QED
  BY <1>1, TapInvariance, PTL

\* Whatever segments are lost, repeated or out of order, the attempts counted
\* for a domain are those that were reset and those the dispatcher still holds
\* an entry for (handleTLS).
THEOREM Conservation == Spec => []AttemptsAccounted
<1>1. TapInv => AttemptsAccounted
  BY DEF TapInv
<1>2. QED
  BY <1>1, TapInvariance, PTL

\* A message of the server belongs to a domain with an open attempt.
LEMMA ServerMessageOpen ==
  ASSUME TapInv, NEW s \in Sockets, NEW c \in Domains, NEW seg \in ServerSegments,
         NEW bad \in BOOLEAN, ServerMessage(s, c, seg, bad), NEW d \in Domains, Seen(d).hits <= Seen(d).resets
  PROVE  Seen(d)' = Seen(d)
<1> DEFINE k == FlowKey(s)
<1>1. k \in DOMAIN table
  BY DEF ServerMessage, Attributed, State, NewState
<1>2. PICK e \in Event :
        e.domain = table[k].domain /\ e.domain \in Domains /\ Observe(e)
  <2>1. table[k].domain \in Domains
    BY <1>1 DEF ServerMessage, Attributed, State, TapInv, TypeOK, FlowState
  <2>2. PICK m \in {"server_hello", "cert"} :
          Emit(m, table[k].domain, bad /\ m = "cert")
    BY DEF ServerMessage
  <2>3. QED
    BY <2>1, <2>2 DEF Emit, Event
<1>3. \A x \in Domains : Seen(x) \in Flow
  BY <1>2, ObserveSeen DEF TapInv, TypeOK
<1>4. CASE d # table[k].domain
  BY <1>2, <1>4, ObserveSeen DEF TapInv, TypeOK
<1>5. CASE d = table[k].domain
  <2>1. k \in Open(d) /\ IsFiniteSet(Open(d))
    BY <1>1, <1>5, FS_Subset DEF Open, TapInv, TableFinite
  <2>2. Cardinality(Open(d)) \in Nat /\ Cardinality(Open(d)) # 0
    BY <2>1, FS_CardinalityType, FS_EmptySet
  <2>3. Seen(d).hits = Seen(d).resets + Cardinality(Open(d))
    BY DEF TapInv, AttemptsAccounted
  <2>4. FALSE
    BY <1>3, <2>2, <2>3 DEF Flow
  <2>5. QED
    BY <2>4
<1>6. QED
  BY <1>4, <1>5

\* A ClientHello, a reset and a DNS reply change nothing a server answered.
LEMMA OtherEventAnswers ==
  ASSUME TrackerTypeOK, NEW e \in Event, e.domain \in Domains, Observe(e),
         e.kind \in {"client_hello", "reset", "dns"}, NEW d \in Domains
  PROVE  /\ Seen(d)'.handshake = Seen(d).handshake
         /\ Seen(d)'.certChecked = Seen(d).certChecked
         /\ Seen(d)'.certUntrusted = Seen(d).certUntrusted
<1>1. /\ \A x \in Domains : Seen(x) \in Flow
      /\ Seen(e.domain)' = Folded(Seen(e.domain), e)
      /\ \A x \in Domains \ {e.domain} : Seen(x)' = Seen(x)
  BY ObserveSeen
<1>2. CASE d # e.domain
  BY <1>1, <1>2
<1>3. CASE d = e.domain
  BY <1>1, <1>3 DEF Folded, Flow
<1>4. QED
  BY <1>2, <1>3

\* What a server sent is credited to a domain only while an attempt for it is
\* open: after the last reset a late segment changes nothing (handleTLS's early
\* return for flows without a domain).
THEOREM LateAnswersIgnored == Spec => AnswersNeedAttempt
<1>1. ASSUME TapInv, [Next]_vars, NEW d \in Domains, Seen(d).hits <= Seen(d).resets
      PROVE  /\ Seen(d)'.handshake = Seen(d).handshake
             /\ Seen(d)'.certChecked = Seen(d).certChecked
             /\ Seen(d)'.certUntrusted = Seen(d).certUntrusted
  <2>1. ASSUME NEW e \in Event, e.domain \in Domains, Observe(e),
               e.kind \in {"client_hello", "reset", "dns"}
        PROVE  /\ Seen(d)'.handshake = Seen(d).handshake
               /\ Seen(d)'.certChecked = Seen(d).certChecked
               /\ Seen(d)'.certUntrusted = Seen(d).certUntrusted
    BY <1>1, <2>1, OtherEventAnswers DEF TapInv, TypeOK
  <2>2. ASSUME NEW s \in Sockets, NEW c \in Domains, NEW seg \in ClientSegments,
               ReadHello(s, c, seg)
        PROVE  \E e \in Event : /\ e.domain \in Domains /\ Observe(e)
                                /\ e.kind = "client_hello"
    <3>1. PICK x \in Domains : Emit("client_hello", x, FALSE)
      BY <1>1, <2>2, StateType DEF ReadHello, TapInv, TypeOK, FlowState
    <3> DEFINE e == [kind |-> "client_hello", domain |-> x, bad |-> FALSE]
    <3>2. e \in Event /\ e.domain \in Domains /\ e.kind = "client_hello"
      BY DEF Event
    <3>3. Observe(e)
      BY <3>1 DEF Emit
    <3>4. QED
      BY <3>2, <3>3
  <2>3. ASSUME NEW s \in Sockets, NEW c \in Domains, Reset(s, c)
        PROVE  \E e \in Event : e.domain \in Domains /\ Observe(e) /\ e.kind = "reset"
    <3>1. table[FlowKey(s)].domain \in Domains
      BY <1>1, <2>3 DEF Reset, Attributed, State, NewState, TapInv, TypeOK, FlowState
    <3> DEFINE e == [kind |-> "reset", domain |-> table[FlowKey(s)].domain,
                     bad |-> FALSE]
    <3>2. e \in Event /\ e.domain \in Domains /\ e.kind = "reset"
      BY <3>1 DEF Event
    <3>3. Observe(e)
      BY <2>3 DEF Reset, Emit
    <3>4. QED
      BY <3>2, <3>3
  <2>4. ASSUME NEW x \in Domains, SuspiciousReply(x)
        PROVE  \E e \in Event : e.domain \in Domains /\ Observe(e) /\ e.kind = "dns"
    <3> DEFINE e == [kind |-> "dns", domain |-> x, bad |-> TRUE]
    <3>1. e \in Event /\ e.domain \in Domains /\ e.kind = "dns"
      BY DEF Event
    <3>2. Observe(e)
      BY <2>4 DEF SuspiciousReply, Emit
    <3>3. QED
      BY <3>1, <3>2
  <2>5. CASE UNCHANGED flows
    BY <2>5 DEF Seen
  <2>6. ASSUME NEW s \in Sockets, NEW c \in Domains, NEW seg \in ServerSegments,
               NEW bad \in BOOLEAN, ServerMessage(s, c, seg, bad)
        PROVE  Seen(d)' = Seen(d)
    BY <1>1, <2>6, ServerMessageOpen
  <2>7. CASE Next
    <3>1. \/ UNCHANGED flows
          \/ \E s \in Sockets, c \in Domains :
               \/ Reset(s, c)
               \/ \E g \in ClientSegments : ReadHello(s, c, g)
               \/ \E g \in ServerSegments, b \in BOOLEAN : ServerMessage(s, c, g, b)
          \/ \E x \in Domains : SuspiciousReply(x)
      BY <2>7 DEF Next, Connect, Close, NoHello, NoServerMessage
    <3>2. QED
      BY <3>1, <2>1, <2>2, <2>3, <2>4, <2>5, <2>6
  <2>8. QED
    BY <1>1, <2>5, <2>7 DEF vars
<1>2. TapInv /\ [Next]_vars =>
        [\A d \in Domains :
           Seen(d).hits <= Seen(d).resets =>
             /\ Seen(d)'.handshake = Seen(d).handshake
             /\ Seen(d)'.certChecked = Seen(d).certChecked
             /\ Seen(d)'.certUntrusted = Seen(d).certUntrusted]_vars
  BY <1>1
<1>3. QED
  BY <1>2, TapInvariance, PTL DEF Spec, AnswersNeedAttempt

-----------------------------------------------------------------------------
(* Reuse of a port. *)

\* RightUnlessMixed, with a socket pair for its key.
PortInv ==
  \A s \in Sockets : State(s).domain \in heard[s] \cup {NoDomain}
                    /\ State(s).held \subseteq heard[s]

\* A pair of addresses is its own key.
LEMMA KeyIsPair ==
  ASSUME NEW s \in Sockets
  PROVE  FlowKey(s) = s
BY DEF FlowKey, Sockets

\* The entries of the other socket pairs stay when one is stored or removed.
LEMMA OtherStates ==
  ASSUME TypeOK, NEW s, NEW st, table' = Stored(s, st) \/ table' = Removed(s),
         NEW x, x # s
  PROVE  State(x)' = State(x)
BY DEF State, Stored, Removed

\* What is stored is found, and what is removed is not.
LEMMA OwnState ==
  ASSUME NEW s, NEW st
  PROVE  /\ table' = Stored(s, st) => State(s)' = st
         /\ table' = Removed(s) => State(s)' = NewState
BY DEF State, Stored, Removed

LEMMA PortStep ==
  ASSUME TypeOK, PortInv, [Next]_vars
  PROVE  PortInv'
<1>1. ASSUME NEW s \in Sockets, NEW d \in Domains, Reset(s, d) PROVE PortInv'
  <2>1. table' = Removed(s) /\ heard' = [heard EXCEPT ![s] = {}]
    BY <1>1, KeyIsPair DEF Reset
  <2>2. State(s)' = NewState
    BY <2>1, OwnState
  <2>3. \A x \in Sockets \ {s} : State(x)' = State(x)
    BY <2>1, OtherStates
  <2>4. QED
    BY <2>1, <2>2, <2>3 DEF PortInv, NewState, TypeOK
<1>2. ASSUME NEW s \in Sockets, NEW d \in Domains, NEW seg \in ClientSegments,
             ReadHello(s, d, seg)
      PROVE  PortInv'
  <2>1. heard' = [heard EXCEPT ![s] = @ \cup {d}] /\ State(s) \in FlowState
    BY <1>2, StateType DEF ReadHello
  <2>2. PICK sni \in State(s).held \cup {d}, r \in {f.next : f \in Feed(State(s).chre, seg)} :
          table' = Stored(s, [State(s) EXCEPT !.domain = sni, !.chre = r, !.held = {}])
    BY <1>2, KeyIsPair DEF ReadHello
  <2> DEFINE st == [State(s) EXCEPT !.domain = sni, !.chre = r, !.held = {}]
  <2>3. st.domain = sni /\ st.held = {}
    BY <2>1 DEF FlowState
  <2>4. State(s)' = st
    BY <2>2, OwnState
  <2>5. \A x \in Sockets \ {s} : State(x)' = State(x)
    BY <2>2, OtherStates
  <2>6. sni \in heard[s] \cup {d}
    BY <2>2 DEF PortInv
  <2> HIDE DEF st
  <2>7. QED
    BY <2>1, <2>3, <2>4, <2>5, <2>6 DEF PortInv, TypeOK
<1>3. ASSUME NEW s \in Sockets, NEW d \in Domains, NEW seg \in ClientSegments,
             NoHello(s, d, seg)
      PROVE  PortInv'
  <2>1. State(s) \in FlowState /\ State(s).domain = NoDomain
    BY <1>3, StateType, KeyIsPair DEF NoHello, Attributed
  <2>2. PICK r \in {f.next : f \in Feed(State(s).chre, seg)} :
          \/ table' = Removed(s) /\ heard' = [heard EXCEPT ![s] = {}]
          \/ /\ table' = Stored(s, [State(s) EXCEPT
                                      !.chre = r,
                                      !.held = Waiting(State(s), d, seg, r)])
             /\ heard' = [heard EXCEPT ![s] = IF seg.part = "none" THEN @ ELSE @ \cup {d}]
    BY <1>3, KeyIsPair DEF NoHello
  <2> DEFINE held == Waiting(State(s), d, seg, r)
             st   == [State(s) EXCEPT !.chre = r, !.held = held]
  <2>3. \A x \in Sockets \ {s} : State(x)' = State(x) /\ heard'[x] = heard[x]
    BY <2>2, OtherStates DEF TypeOK
  <2>4. CASE table' = Removed(s) /\ heard' = [heard EXCEPT ![s] = {}]
    <3>1. State(s)' = NewState
      BY <2>4, OwnState
    <3>2. heard'[s] = {}
      BY <2>4 DEF TypeOK
    <3>3. QED
      BY <2>3, <3>1, <3>2 DEF PortInv, NewState
  <2>5. CASE /\ table' = Stored(s, st)
             /\ heard' = [heard EXCEPT ![s] = IF seg.part = "none" THEN @ ELSE @ \cup {d}]
    <3>1. State(s).held \subseteq heard[s]
      BY DEF PortInv
    <3>2. held \subseteq heard'[s]
      BY <2>5, <3>1 DEF Waiting, TypeOK
    <3>3. st.domain = NoDomain /\ st.held = held
      BY <2>1 DEF FlowState
    <3>4. State(s)' = st
      BY <2>5, OwnState
    <3> HIDE DEF st, held
    <3>5. QED
      BY <2>3, <3>2, <3>3, <3>4 DEF PortInv
  <2>6. QED
    BY <2>2, <2>4, <2>5
<1>4. ASSUME NEW s \in Sockets, NEW d \in Domains, NEW seg \in ServerSegments,
             \/ NoServerMessage(s, d, seg)
             \/ \E bad \in BOOLEAN : ServerMessage(s, d, seg, bad)
      PROVE  PortInv'
  <2>1. /\ heard' = heard
        /\ \E r : table' = [table EXCEPT ![s].re = r]
        /\ State(s).domain # NoDomain
    BY <1>4, KeyIsPair DEF NoServerMessage, ServerMessage, Attributed
  <2>2. s \in DOMAIN table /\ State(s) \in FlowState
    BY <2>1, StateType DEF State, NewState
  <2>3. State(s)'.domain = State(s).domain /\ State(s)'.held = State(s).held
    BY <2>1, <2>2 DEF State, FlowState, TypeOK
  <2>4. \A x \in Sockets \ {s} : State(x)' = State(x)
    BY <2>1 DEF State
  <2>5. QED
    BY <2>1, <2>3, <2>4 DEF PortInv
<1>5. CASE UNCHANGED <<table, heard>>
  BY <1>5 DEF PortInv, State
<1>6. QED
  BY <1>1, <1>2, <1>3, <1>4, <1>5 DEF Next, Connect, Close, SuspiciousReply, vars

\* What a reset drops is gone: whatever segments come late, what an entry holds
\* is of a connection of its own socket pair that was read from since the entry
\* was last dropped (handleTLS deletes it).
THEOREM EntriesOwned == Spec => []RightUnlessMixed
<1>1. Init => PortInv
  BY DEF Init, PortInv, State, NewState
<1>2. TypeOK /\ PortInv /\ [Next]_vars => PortInv'
  BY PortStep
<1>3. PortInv => RightUnlessMixed
  BY KeyIsPair DEF PortInv, RightUnlessMixed
<1>4. QED
  BY <1>1, <1>2, <1>3, TapTypes, PTL DEF Spec

-----------------------------------------------------------------------------
(* Packets. *)

\* What a packet is parsed from: the header fields as they are captured.
LEMMA FieldsFacts ==
  ASSUME NEW w \in Sent
  PROVE  LET header == IF w.version = 6 THEN 40 ELSE 20 + w.options
             l4     == IF w.fragment = "later" THEN w.body
                       ELSE IF w.proto = "udp" THEN w.body + 8 ELSE w.body + w.offset
             more   == IF w.version = 6 /\ w.fragment # "no" THEN 8 ELSE 0
         IN /\ Fields(w).version = w.version /\ Fields(w).dataOff = w.offset
            /\ Fields(w).header = header
            /\ Fields(w).proto = IF more > 0 THEN "fragment" ELSE w.proto
            /\ Fields(w).total = l4 + more + (IF w.version = 6 THEN 0 ELSE header)
            /\ Fields(w).captured = header + l4 + more + w.padding - w.missing
BY DEF Fields, Sent

\* An IPv4 packet: its total length says where it ends, whatever follows it.
LEMMA IPv4Read ==
  ASSUME NEW w \in Sent, w.version = 4
  PROVE  LET r == ParseIPv4(Fields(w))
         IN /\ r.ok => r.to <= Fields(w).captured
            /\ r.ok /\ w.fragment = "later" => r.from <= r.to
            /\ r.ok /\ w.fragment # "later" => r = Payload(w)
            /\ ~r.ok /\ w.fragment # "later" =>
                 w.missing > w.padding \/ w.proto \notin Carried
<1> DEFINE p == Fields(w)
           r == ParseIPv4(p)
           l4 == IF w.fragment = "later" THEN w.body
                 ELSE IF w.proto = "udp" THEN w.body + 8 ELSE w.body + w.offset
<1>1. /\ w.options \in Nat /\ w.offset \in Nat /\ w.body \in Nat
      /\ w.padding \in Nat /\ w.missing \in Nat
      /\ w.offset >= 20 \/ w.fragment = "later"
  BY DEF Sent
<1>2. /\ p.proto = w.proto /\ p.dataOff = w.offset /\ p.header = 20 + w.options
      /\ p.total = l4 + p.header /\ p.captured = p.total + w.padding - w.missing
      /\ l4 \in Nat
  BY <1>1, FieldsFacts
<1> HIDE DEF p
<1>3. CASE \/ p.captured < 20 \/ p.proto \notin Carried
           \/ p.header < 20 \/ p.captured < p.header
           \/ p.total < p.header \/ p.total > p.captured
  <2>1. r = No
    BY <1>3 DEF ParseIPv4
  <2>2. w.missing > w.padding \/ w.proto \notin Carried
    BY <1>1, <1>2, <1>3
  <2>3. QED
    BY <2>1, <2>2 DEF No, p
<1>4. CASE ~(\/ p.captured < 20 \/ p.proto \notin Carried
             \/ p.header < 20 \/ p.captured < p.header
             \/ p.total < p.header \/ p.total > p.captured)
  <2>1. r = ParseL4(w.proto, p.header, p.total, w.offset)
    BY <1>2, <1>4 DEF ParseIPv4
  <2>2. w.proto \in Carried /\ p.header \in Int /\ p.total \in Int
    BY <1>1, <1>2, <1>4
  <2> DEFINE header == IF w.proto = "udp" THEN 8 ELSE w.offset
  <2>h. header = IF w.proto = "udp" THEN 8 ELSE w.offset
    OBVIOUS
  <2> HIDE DEF r, header
  <2>3. /\ r.ok <=> p.total - p.header >= header /\ (w.proto = "tcp" => w.offset >= 20)
        /\ r.ok => r = [ok |-> TRUE, proto |-> w.proto,
                        from |-> p.header + header, to |-> p.total]
        /\ r.ok => r.from = p.header + header /\ r.to = p.total
    BY <1>1, <2>1, <2>2, <2>h DEF ParseL4, Carried, No
  <2>4. CASE w.fragment = "later"
    BY <1>1, <1>2, <1>4, <2>2, <2>3, <2>4 DEF p, r, header
  <2>5. CASE w.fragment # "later"
    <3>1. p.total = p.header + header + w.body
      BY <1>1, <1>2, <2>5 DEF header
    <3>2. r.ok
      BY <1>1, <1>2, <2>3, <2>5, <3>1 DEF header
    <3>3. r = Payload(w)
      <4>1. Payload(w) = [ok |-> TRUE, proto |-> w.proto,
                          from |-> 20 + w.options + header,
                          to |-> 20 + w.options + header + w.body]
        BY DEF Payload, header
      <4>2. QED
        BY <1>2, <2>3, <3>1, <3>2, <4>1
    <3>4. r.to <= p.captured
      <4>1. r.to = p.total
        BY <2>3, <3>2
      <4>2. p.total \in Int /\ p.captured \in Int
        BY <1>1, <1>2
      <4>3. QED
        BY <1>4, <4>1, <4>2
    <3>5. QED
      BY <2>5, <3>2, <3>3, <3>4 DEF p, r
  <2>6. QED
    BY <2>4, <2>5
<1>5. QED
  BY <1>3, <1>4

\* An IPv6 packet: extension headers are not walked, so that what has one is
\* left alone.
LEMMA IPv6Read ==
  ASSUME NEW w \in Sent, w.version = 6
  PROVE  LET r == ParseIPv6(Fields(w))
         IN /\ r.ok => r = Payload(w)
            /\ ~r.ok => \/ w.missing > w.padding \/ w.proto \notin Carried
                        \/ w.fragment # "no"
<1> DEFINE p == Fields(w)
           r == ParseIPv6(p)
           header == IF w.proto = "udp" THEN 8 ELSE w.offset
<1>1. /\ w.options \in Nat /\ w.offset \in Nat /\ w.body \in Nat
      /\ w.padding \in Nat /\ w.missing \in Nat
      /\ w.offset >= 20 \/ w.fragment = "later"
  BY DEF Sent
<1>2. CASE w.fragment # "no"
  <2>1. p.proto = "fragment"
    BY <1>2, FieldsFacts
  <2>2. r = No
    BY <2>1 DEF ParseIPv6, Carried
  <2>3. QED
    BY <1>2, <2>2 DEF No
<1>3. CASE w.fragment = "no"
  <2>1. /\ p.proto = w.proto /\ p.dataOff = w.offset
        /\ p.total = w.body + header /\ p.captured = 40 + p.total + w.padding - w.missing
        /\ header \in Nat /\ header >= 8
    BY <1>1, <1>3, FieldsFacts
  <2> HIDE DEF p, header
  <2>2. CASE \/ p.captured < 40 \/ p.proto \notin Carried
             \/ p.total = 0 \/ 40 + p.total > p.captured
    <3>1. r = No
      BY <2>2 DEF ParseIPv6
    <3>2. w.missing > w.padding \/ w.proto \notin Carried
      BY <1>1, <2>1, <2>2
    <3>3. QED
      BY <3>1, <3>2 DEF No, p
  <2>3. CASE ~(\/ p.captured < 40 \/ p.proto \notin Carried
               \/ p.total = 0 \/ 40 + p.total > p.captured)
    <3>1. r = ParseL4(w.proto, 40, 40 + p.total, w.offset)
      BY <2>1, <2>3 DEF ParseIPv6
    <3>2. w.proto \in Carried /\ 40 + p.total \in Int /\ 40 + p.total - 40 >= header
      BY <1>1, <2>1, <2>3
    <3>3. r.ok /\ r = [ok |-> TRUE, proto |-> w.proto,
                       from |-> 40 + header, to |-> 40 + p.total]
      <4>1. header = IF w.proto = "udp" THEN 8 ELSE w.offset
        BY DEF header
      <4>2. w.proto = "tcp" => w.offset >= 20
        BY <1>1, <1>3
      <4>3. p.total \in Int
        BY <1>1, <2>1
      <4> HIDE DEF r
      <4>4. QED
        BY <1>1, <2>1, <3>1, <3>2, <4>1, <4>2, <4>3 DEF ParseL4, Carried, No
    <3>4. Payload(w) = [ok |-> TRUE, proto |-> w.proto,
                        from |-> 40 + header, to |-> 40 + header + w.body]
      BY DEF Payload, header
    <3>5. 40 + p.total = 40 + header + w.body
      BY <1>1, <2>1
    <3>6. QED
      BY <3>3, <3>4, <3>5 DEF p
  <2>4. QED
    BY <2>2, <2>3
<1>4. QED
  BY <1>2, <1>3 DEF Sent

\* Either version.
LEMMA PacketRead == PacketsRead
<1>1. ASSUME NEW w \in Packets
      PROVE  LET r == ParseIPPacket(Fields(w))
             IN /\ w.version = 4 /\ w.fragment = "later" /\ r.ok =>
                     r.from <= r.to /\ r.to <= Fields(w).captured
                /\ ~(w.version = 4 /\ w.fragment = "later") =>
                     /\ r.ok => r = Payload(w)
                     /\ ~r.ok => \/ w.missing > w.padding \/ w.proto \notin Carried
                                 \/ w.version = 6 /\ w.fragment # "no"
  <2>1. w \in Sent /\ w.version \in {4, 6} /\ Fields(w).version = w.version
    BY PacketAssumption, FieldsFacts DEF Sent
  <2>2. CASE w.version = 4
    <3>1. ParseIPPacket(Fields(w)) = ParseIPv4(Fields(w))
      BY <2>1, <2>2 DEF ParseIPPacket
    <3>2. QED
      BY <2>1, <2>2, <3>1, IPv4Read
  <2>3. CASE w.version = 6
    <3>1. ParseIPPacket(Fields(w)) = ParseIPv6(Fields(w))
      BY <2>1, <2>3 DEF ParseIPPacket
    <3>2. QED
      BY <2>1, <2>3, <3>1, IPv6Read
  <2>4. QED
    BY <2>1, <2>2, <2>3
<1>2. QED
  BY <1>1 DEF PacketsRead

\* The payload taken is the payload sent (parseIPPacket, packet.go:161): for
\* packets of any lengths, with any options, captured short or padded by any
\* number of bytes, the tap takes exactly what was sent, or nothing, and this
\* only where bytes are missing or a header comes between.
THEOREM PayloadsAsSent == Spec => []PacketsTaken
<1>1. PacketsTaken
  BY PacketRead DEF PacketsTaken
<1>2. QED
  BY <1>1, PTL

-----------------------------------------------------------------------------
(* Loops.  The operators that model them are recursive functions over the     *)
(* number of turns; that such a function exists, and what it is, follows from *)
(* the least turn for which it fails.                                         *)

\* A set of natural numbers that is not empty has a least member.
LEMMA LeastNatural ==
  ASSUME NEW T, T \subseteq Nat, T # {}
  PROVE  \E n \in T : \A m \in T : n <= m
<1> DEFINE R == {ss \in Nat \X Nat : ss[1] < ss[2]}
<1>1. IsWellFoundedOn(R, Nat)
  BY NatLessThanWellFounded DEF OpToRel
<1> HIDE DEF R
<1>2. PICK n \in T : \A m \in T : <<m, n>> \notin R
  BY <1>1, WFMin
<1>3. \A m \in T : ~(m < n)
  BY <1>2 DEF R
<1>4. QED
  BY <1>3

\* A set with 0, and with i whenever it has i - 1, has every number up to n.
LEMMA Induction ==
  ASSUME NEW n \in Nat, NEW P, 0 \in P, \A i \in 1..n : i - 1 \in P => i \in P
  PROVE  0..n \subseteq P
<1> SUFFICES ASSUME (0..n) \ P # {} PROVE FALSE
  OBVIOUS
<1> DEFINE T == (0..n) \ P
<1>1. T \subseteq Nat /\ T # {}
  OBVIOUS
<1> HIDE DEF T
<1>2. PICK i \in T : \A j \in T : i <= j
  BY <1>1, LeastNatural
<1> USE DEF T
<1>3. i \in 1..n /\ i - 1 \in 0..n
  OBVIOUS
<1>4. i - 1 \in P
  BY <1>2, <1>3
<1>5. QED
  BY <1>3, <1>4

\* A step from the value before the i-th to the i-th, and the function that
\* unfolds it from b.
IsStep(F, n, S) == F \in [(1..n) \X S -> S]
Unfolds(f, F, n, S, b) ==
  /\ f \in [0..n -> S] /\ f[0] = b
  /\ \A i \in 1..n : f[i] = F[<<i, f[i - 1]>>]

\* A recursive definition along 0..n defines a function.
LEMMA Recursion ==
  ASSUME NEW n \in Nat, NEW S, NEW b \in S, NEW F, IsStep(F, n, S)
  PROVE  \E f : Unfolds(f, F, n, S, b)
<1> USE DEF IsStep
<1> DEFINE Upto(k, f) == f[0] = b /\ \A i \in 1..k : f[i] = F[<<i, f[i - 1]>>]
           P == {k \in 0..n : \E f \in [0..k -> S] : Upto(k, f)}
<1>1. 0 \in P
  <2> DEFINE g == [i \in 0..0 |-> b]
  <2>1. g \in [0..0 -> S] /\ Upto(0, g)
    OBVIOUS
  <2> HIDE DEF g
  <2>2. QED
    BY <2>1
<1>2. ASSUME NEW k \in 1..n, k - 1 \in P PROVE k \in P
  <2>1. PICK f \in [0..(k - 1) -> S] : Upto(k - 1, f)
    BY <1>2
  <2> DEFINE g == [i \in 0..k |-> IF i = k THEN F[<<k, f[k - 1]>>] ELSE f[i]]
  <2>2. f[k - 1] \in S /\ <<k, f[k - 1]>> \in (1..n) \X S
    OBVIOUS
  <2>3. F[<<k, f[k - 1]>>] \in S
    BY <2>2
  <2>4. \A i \in 0..k : i # k => i \in 0..(k - 1) /\ f[i] \in S
    OBVIOUS
  <2>5. g \in [0..k -> S]
    BY <2>3, <2>4
  <2>6. g[0] = b
    BY <2>1
  <2>7. ASSUME NEW i \in 1..k PROVE g[i] = F[<<i, g[i - 1]>>]
    <3>1. g[i - 1] = f[i - 1]
      OBVIOUS
    <3>2. CASE i = k
      <4>1. g[k] = F[<<k, f[k - 1]>>]
        OBVIOUS
      <4> HIDE DEF g
      <4>2. QED
        BY <3>1, <3>2, <4>1
    <3>3. CASE i # k
      <4>1. i \in 1..(k - 1) /\ g[i] = f[i]
        BY <3>3
      <4>2. QED
        BY <2>1, <3>1, <4>1
    <3>4. QED
      BY <3>2, <3>3
  <2> HIDE DEF g
  <2>8. QED
    BY <2>5, <2>6, <2>7
<1>3. n \in P
  <2> HIDE DEF P
  <2>1. 0..n \subseteq P
    BY <1>1, <1>2, Induction
  <2>2. QED
    BY <2>1
<1>4. QED
  BY <1>3 DEF Unfolds

\* A function that follows a recursive definition wherever it has a value of the
\* right kind unfolds it.
LEMMA Unfolded ==
  ASSUME NEW n \in Nat, NEW S, NEW F, IsStep(F, n, S),
         NEW f, f = [i \in 0..n |-> f[i]], f[0] \in S,
         \A i \in 1..n : f[i - 1] \in S => f[i] = F[<<i, f[i - 1]>>]
  PROVE  Unfolds(f, F, n, S, f[0])
<1> DEFINE P == {i \in 0..n : f[i] \in S}
<1>1. 0 \in P
  OBVIOUS
<1>2. ASSUME NEW i \in 1..n, i - 1 \in P PROVE i \in P
  <2>1. f[i - 1] \in S /\ i \in 0..n
    BY <1>2
  <2>2. F[<<i, f[i - 1]>>] \in S
    BY <2>1 DEF IsStep
  <2>3. QED
    BY <2>1, <2>2
<1> HIDE DEF P
<1>3. 0..n \subseteq P
  BY <1>1, <1>2, Induction
<1>4. \A i \in 0..n : f[i] \in S
  BY <1>3 DEF P
<1>5. f \in [0..n -> S]
  BY <1>4
<1>6. ASSUME NEW i \in 1..n PROVE f[i] = F[<<i, f[i - 1]>>]
  <2>1. i - 1 \in 0..n
    OBVIOUS
  <2>2. QED
    BY <1>4, <2>1
<1>7. QED
  BY <1>5, <1>6 DEF Unfolds

-----------------------------------------------------------------------------
(* Names.  While readName goes on, each turn either passes a label, within    *)
(* the message, or spends a jump; so it ends, and what it passes is what the  *)
(* bytes lead to, one position after another.                                 *)

NameState ==
  [ok : BOOLEAN, going : BOOLEAN, pos : Nat, jumps : Nat, next : Int, labels : Seq(Nat)]

\* The position at which the loop stands, its last byte, and the end it gives
\* the name there if it has not jumped.
Place(r)   == <<r.pos, r.jumps>>
AtZero(msg, r)  == r.pos < Len(msg) /\ Byte(msg, r.pos) = 0
AtPointer(msg, r) == r.pos < Len(msg) /\ Byte(msg, r.pos) >= Pointer
EndAt(msg, pos) == IF Byte(msg, pos) = 0 THEN pos + 1 ELSE pos + 2

\* What one turn does, to a loop that goes on.
PassesLabel(msg, r, s) ==
  /\ r.pos < Len(msg) /\ Byte(msg, r.pos) \in 1..Pointer - 1
  /\ s.going /\ ~s.ok /\ s.pos = r.pos + 1 + Byte(msg, r.pos) /\ s.pos <= Len(msg)
  /\ s.jumps = r.jumps /\ s.next = r.next
FollowsPointer(msg, r, s) ==
  /\ AtPointer(msg, r) /\ r.pos + 1 < Len(msg) /\ r.jumps + 1 <= MaxJumps
  /\ s.going /\ ~s.ok /\ s.pos = Byte(msg, r.pos) - Pointer
  /\ s.jumps = r.jumps + 1 /\ s.next = Behind(r, r.pos + 2)
EndsName(msg, r, s) ==
  AtZero(msg, r) /\ ~s.going /\ s.ok /\ s.next = Behind(r, r.pos + 1)
GivesUp(msg, r, s) ==
  ~AtZero(msg, r) /\ ~s.going /\ ~s.ok /\ s.next = r.next

\* A byte of a message of numbers is one.
LEMMA ByteType ==
  ASSUME NEW msg \in Seq(Nat), NEW pos \in Nat, pos < Len(msg)
  PROVE  Byte(msg, pos) \in Nat /\ pos + 1 \in 1..Len(msg)
<1>1. pos + 1 \in 1..Len(msg)
  OBVIOUS
<1>2. QED
  BY <1>1 DEF Byte

\* What one turn of readName does: it passes a label, follows a pointer, ends
\* the name at a zero, or gives up.
LEMMA ReadOneFacts ==
  ASSUME NEW msg \in Seq(Nat), NEW r \in NameState, r.going, ~r.ok
  PROVE  LET s == ReadOne(msg, r)
         IN /\ s \in NameState
            /\ \/ PassesLabel(msg, r, s) /\ Leads(msg, Place(r)) = {Place(s)}
               \/ FollowsPointer(msg, r, s) /\ Leads(msg, Place(r)) = {Place(s)}
               \/ EndsName(msg, r, s) /\ Leads(msg, Place(r)) = {}
               \/ GivesUp(msg, r, s) /\ Leads(msg, Place(r)) = {}
<1> DEFINE b == Byte(msg, r.pos)
           bad == [r EXCEPT !.going = FALSE]
           s == ReadOne(msg, r)
<1>1. /\ r.ok \in BOOLEAN /\ r.pos \in Nat /\ r.jumps \in Nat /\ r.next \in Int
      /\ r.labels \in Seq(Nat) /\ r.going = TRUE /\ r.ok = FALSE
  BY DEF NameState
<1>2. Len(msg) \in Nat /\ MaxJumps \in Nat
  BY WireAssumption
<1>3. Leads(msg, Place(r)) =
        IF r.pos >= Len(msg) THEN {}
        ELSE {p \in {<<r.pos + 1 + b, r.jumps>>} : b \in 1..Pointer - 1 /\ p[1] <= Len(msg)}
             \cup {p \in {<<b - Pointer, r.jumps + 1>>} :
                     b >= Pointer /\ r.pos + 1 < Len(msg) /\ p[2] <= MaxJumps}
  BY DEF Leads, Place
<1>4. bad \in NameState /\ ~bad.going /\ ~bad.ok /\ bad.next = r.next
  BY <1>1 DEF NameState
<1>5. Behind(r, r.pos + 1) \in Int /\ Behind(r, r.pos + 2) \in Int
  BY <1>1 DEF Behind
<1>6. CASE r.pos >= Len(msg)
  <2>1. s = bad
    BY <1>6 DEF ReadOne
  <2>2. ~AtZero(msg, r)
    BY <1>1, <1>2, <1>6 DEF AtZero
  <2>3. QED
    BY <1>3, <1>4, <1>6, <2>1, <2>2 DEF GivesUp
<1>7. CASE r.pos < Len(msg)
  <2>1. b \in Nat
    BY <1>1, <1>7, ByteType
  <2>2. ~(r.pos >= Len(msg))
    BY <1>1, <1>2, <1>7
  <2>3. s = CASE b = 0  -> [bad EXCEPT !.ok = TRUE, !.next = Behind(r, r.pos + 1)]
              [] b >= Pointer ->
                   IF r.pos + 1 >= Len(msg) \/ r.jumps + 1 > MaxJumps THEN bad
                   ELSE [r EXCEPT !.pos = b - Pointer, !.jumps = @ + 1,
                                  !.next = Behind(r, r.pos + 2)]
              [] OTHER  -> IF r.pos + 1 + b > Len(msg) THEN bad
                           ELSE [r EXCEPT !.pos = @ + 1 + b, !.labels = Append(@, r.pos)]
    BY <2>2 DEF ReadOne
  <2>4. Pointer \in Nat /\ Pointer > 0
    BY DEF Pointer
  <2> HIDE DEF s, b
  <2>5. AtZero(msg, r) <=> b = 0
    BY <1>7 DEF AtZero, b
  <2>6. CASE b = 0
    <3>1. s = [bad EXCEPT !.ok = TRUE, !.next = Behind(r, r.pos + 1)]
      BY <2>3, <2>4, <2>6
    <3>2. s \in NameState /\ ~s.going /\ s.ok /\ s.next = Behind(r, r.pos + 1)
      BY <1>1, <1>5, <3>1 DEF NameState
    <3>3. Leads(msg, Place(r)) = {}
      BY <1>3, <2>2, <2>4, <2>6
    <3>4. QED
      BY <2>5, <2>6, <3>2, <3>3 DEF EndsName, s
  <2>7. CASE b >= Pointer /\ (r.pos + 1 >= Len(msg) \/ r.jumps + 1 > MaxJumps)
    <3>1. b # 0
      BY <2>1, <2>4, <2>7
    <3>2. s = bad
      BY <2>3, <2>7, <3>1
    <3>3. Leads(msg, Place(r)) = {}
      <4>1. b \notin 1..Pointer - 1 /\ ~(r.pos + 1 < Len(msg) /\ r.jumps + 1 <= MaxJumps)
        BY <1>1, <1>2, <2>1, <2>4, <2>7
      <4>2. QED
        BY <1>3, <2>2, <4>1
    <3>4. QED
      BY <1>4, <2>5, <3>1, <3>2, <3>3 DEF GivesUp, s
  <2>8. CASE b >= Pointer /\ ~(r.pos + 1 >= Len(msg) \/ r.jumps + 1 > MaxJumps)
    <3> DEFINE t == b - Pointer
               x == Behind(r, r.pos + 2)
    <3>1. b # 0 /\ t \in Nat /\ b \notin 1..Pointer - 1 /\ x \in Int
      BY <1>5, <2>1, <2>4, <2>8
    <3>2. s = [r EXCEPT !.pos = t, !.jumps = @ + 1, !.next = x]
      BY <2>3, <2>8, <3>1
    <3>3. /\ s \in NameState /\ s.going /\ ~s.ok /\ s.pos = t
          /\ s.jumps = r.jumps + 1 /\ s.next = x
      <4> HIDE DEF t, x
      <4>1. s.going = TRUE /\ s.ok = FALSE /\ s.labels = r.labels
        BY <1>1, <3>2 DEF NameState
      <4>2. s.pos = t /\ s.jumps = r.jumps + 1 /\ s.next = x
        BY <3>2 DEF NameState
      <4>3. s = [ok |-> FALSE, going |-> TRUE, pos |-> t, jumps |-> r.jumps + 1,
                 next |-> x, labels |-> r.labels]
        BY <1>1, <3>2 DEF NameState
      <4>4. s \in NameState
        BY <1>1, <3>1, <4>3 DEF NameState
      <4>5. QED
        BY <4>1, <4>2, <4>4
    <3>4. r.pos + 1 < Len(msg) /\ r.jumps + 1 <= MaxJumps
      BY <1>1, <1>2, <2>8
    <3>5. Leads(msg, Place(r)) = {<<b - Pointer, r.jumps + 1>>}
      BY <1>3, <2>2, <2>8, <3>1, <3>4
    <3>6. QED
      BY <1>7, <2>8, <3>3, <3>4, <3>5 DEF FollowsPointer, AtPointer, Place, s, b
  <2>9. CASE b # 0 /\ ~(b >= Pointer) /\ r.pos + 1 + b > Len(msg)
    <3>1. s = bad
      BY <2>3, <2>9
    <3>2. Leads(msg, Place(r)) = {}
      <4>1. ~(r.pos + 1 + b <= Len(msg))
        BY <1>1, <1>2, <2>1, <2>9
      <4>2. QED
        BY <1>3, <2>2, <2>9, <4>1
    <3>3. QED
      BY <1>4, <2>5, <2>9, <3>1, <3>2 DEF GivesUp, s
  <2>10. CASE b # 0 /\ ~(b >= Pointer) /\ ~(r.pos + 1 + b > Len(msg))
    <3>1. b \in 1..Pointer - 1 /\ r.pos + 1 + b <= Len(msg) /\ r.pos + 1 + b \in Nat
      BY <1>1, <1>2, <2>1, <2>4, <2>10
    <3>2. s = [r EXCEPT !.pos = @ + 1 + b, !.labels = Append(@, r.pos)]
      BY <2>3, <2>10
    <3>3. Append(r.labels, r.pos) \in Seq(Nat)
      BY <1>1
    <3>4. /\ s \in NameState /\ s.going /\ ~s.ok /\ s.pos = r.pos + 1 + b
          /\ s.jumps = r.jumps /\ s.next = r.next
      BY <1>1, <3>1, <3>2, <3>3 DEF NameState
    <3>5. Leads(msg, Place(r)) = {<<r.pos + 1 + b, r.jumps>>}
      BY <1>3, <2>2, <2>10, <3>1
    <3>6. QED
      BY <1>7, <3>1, <3>4, <3>5 DEF PassesLabel, Place, s, b
  <2>11. QED
    BY <2>6, <2>7, <2>8, <2>9, <2>10
<1>8. QED
  BY <1>1, <1>2, <1>6, <1>7

\* The states the loop can be in: it goes on until it has a result.
NameStates == {r \in NameState : r.going => ~r.ok}
NameFirst(off) == [ok |-> FALSE, going |-> TRUE, pos |-> off, jumps |-> 0,
                   next |-> Unset, labels |-> <<>>]

\* A turn keeps the state well typed, and leaves a finished one alone.
LEMMA ReadOneType ==
  ASSUME NEW msg \in Seq(Nat), NEW r \in NameStates
  PROVE  ReadOne(msg, r) \in NameStates /\ (~r.going => ReadOne(msg, r) = r)
<1>1. CASE ~r.going
  <2>1. ReadOne(msg, r) = r
    BY <1>1 DEF ReadOne
  <2>2. QED
    BY <1>1, <2>1
<1>2. CASE r.going
  <2>1. r \in NameState /\ ~r.ok
    BY <1>2 DEF NameStates
  <2>2. QED
    BY <1>2, <2>1, ReadOneFacts
    DEF NameStates, PassesLabel, FollowsPointer, EndsName, GivesUp
<1>3. QED
  BY <1>1, <1>2

\* There are enough turns for all the labels between all the jumps.
LEMMA TurnsFacts ==
  ASSUME NEW msg \in Seq(Nat)
  PROVE  /\ Len(msg) \in Nat /\ MaxJumps \in Nat /\ Turns(msg) \in Nat
         /\ \A j \in 0..MaxJumps :
              /\ j * (Len(msg) + 1) \in Nat
              /\ (j + 1) * (Len(msg) + 1) = j * (Len(msg) + 1) + Len(msg) + 1
              /\ j * (Len(msg) + 1) + Len(msg) < Turns(msg)
         /\ 0 * (Len(msg) + 1) = 0
<1>1. Len(msg) \in Nat /\ MaxJumps \in Nat
  BY WireAssumption
<1> DEFINE w == Len(msg) + 1
<1>2. w \in Nat
  BY <1>1
<1>3. \A n \in Nat : \A v \in Nat : n * v \in Nat /\ (n + 1) * v = n * v + v
  OBVIOUS
<1>4. \A v \in Nat : 0 * v = 0
  OBVIOUS
<1>5. \A v \in Nat : \A i \in Nat : \A j \in Nat : i <= j => i * v <= j * v
  OBVIOUS
<1>6. Turns(msg) = (MaxJumps + 1) * w
  BY DEF Turns
<1> HIDE DEF w
<1>7. Turns(msg) \in Nat /\ Turns(msg) = MaxJumps * w + w /\ MaxJumps * w \in Nat
  BY <1>1, <1>2, <1>3, <1>6
<1>8. ASSUME NEW j \in 0..MaxJumps
      PROVE  /\ j * w \in Nat /\ (j + 1) * w = j * w + w
             /\ j * w <= MaxJumps * w
  BY <1>1, <1>2, <1>3, <1>5
<1>9. w = Len(msg) + 1
  BY DEF w
<1>10. QED
  <2>1. ASSUME NEW j \in 0..MaxJumps
        PROVE  /\ j * w \in Nat /\ (j + 1) * w = j * w + Len(msg) + 1
               /\ j * w + Len(msg) < Turns(msg)
    <3>1. j * w \in Nat /\ (j + 1) * w = j * w + w /\ j * w <= MaxJumps * w
      BY <1>8
    <3> DEFINE u == j * w
               x == (j + 1) * w
               y == MaxJumps * w
    <3>2. u \in Nat /\ x = u + w /\ u <= y /\ y \in Nat /\ Turns(msg) = y + w
      BY <1>7, <3>1
    <3> HIDE DEF u, x, y
    <3>3. u \in Nat /\ x = u + Len(msg) + 1 /\ u + Len(msg) < Turns(msg)
      BY <1>1, <1>9, <3>2
    <3>4. QED
      BY <3>3 DEF u, x
  <2>2. 0 * w = 0
    BY <1>2, <1>4
  <2>3. QED
    BY <1>1, <1>7, <1>9, <2>1, <2>2

\* The turns of readName.
LEMMA NameSteps ==
  ASSUME NEW msg \in Seq(Nat), NEW off \in Nat
  PROVE  LET n == Turns(msg)
         IN \E f \in [0..n -> NameStates] :
              /\ f[0] = NameFirst(off)
              /\ \A i \in 1..n : f[i] = ReadOne(msg, f[i - 1])
              /\ ReadName(msg, off) = f[n]
<1> DEFINE n == Turns(msg)
           first == NameFirst(off)
           F == [z \in (1..n) \X NameStates |-> ReadOne(msg, z[2])]
           Fits(g) == g = [i \in 0..n |-> IF i = 0 THEN first ELSE ReadOne(msg, g[i - 1])]
           after == CHOOSE g : Fits(g)
<1>1. n \in Nat
  BY TurnsFacts
<1>2. ReadName(msg, off) = after[n]
  BY DEF ReadName, NameFirst
<1> HIDE DEF n
<1>3. first \in NameStates
  BY DEF NameStates, NameState, NameFirst, Unset
<1> HIDE DEF first
<1>4. \A b \in NameStates : ReadOne(msg, b) \in NameStates
  BY ReadOneType
<1>5. IsStep(F, n, NameStates)
  BY <1>4 DEF IsStep
<1>6. ASSUME NEW i \in 1..n, NEW b \in NameStates PROVE F[<<i, b>>] = ReadOne(msg, b)
  OBVIOUS
<1> HIDE DEF F
<1>7. PICK f : Unfolds(f, F, n, NameStates, first)
  BY <1>1, <1>3, <1>5, Recursion
<1>8. /\ f \in [0..n -> NameStates] /\ f[0] = first
      /\ \A i \in 1..n : f[i] = F[<<i, f[i - 1]>>]
  BY <1>7 DEF Unfolds
<1>9. ASSUME NEW i \in 1..n PROVE f[i] = ReadOne(msg, f[i - 1])
  <2>1. f[i - 1] \in NameStates
    BY <1>1, <1>8
  <2>2. QED
    BY <1>6, <1>8, <2>1
<1>10. Fits(f)
  BY <1>1, <1>8, <1>9
<1>11. Fits(after)
  BY <1>10
<1> HIDE DEF after
<1>12. after[0] = first /\ after = [i \in 0..n |-> after[i]]
  BY <1>1, <1>11
<1>13. ASSUME NEW i \in 1..n PROVE after[i] = ReadOne(msg, after[i - 1])
  <2>1. i \in 0..n /\ i # 0
    BY <1>1
  <2>2. QED
    BY <1>11, <2>1
<1> HIDE DEF Fits
<1>14. Unfolds(after, F, n, NameStates, after[0])
  <2>1. \A i \in 1..n : after[i - 1] \in NameStates => after[i] = F[<<i, after[i - 1]>>]
    BY <1>6, <1>13
  <2>2. QED
    BY <1>1, <1>3, <1>5, <1>12, <2>1, Unfolded
<1>15. after \in [0..n -> NameStates]
  BY <1>14 DEF Unfolds
<1>16. QED
  BY <1>2, <1>12, <1>13, <1>15 DEF n, first

\* What follows is about the states f of the loop, one after each turn.
NameRun(msg, off, f) ==
  /\ f \in [0..Turns(msg) -> NameStates] /\ f[0] = NameFirst(off)
  /\ \A i \in 1..Turns(msg) : f[i] = ReadOne(msg, f[i - 1])

\* One turn, of a loop that goes on.
NameTurn(msg, r, s) ==
  \/ PassesLabel(msg, r, s) /\ Leads(msg, Place(r)) = {Place(s)}
  \/ FollowsPointer(msg, r, s) /\ Leads(msg, Place(r)) = {Place(s)}
  \/ EndsName(msg, r, s) /\ Leads(msg, Place(r)) = {}
  \/ GivesUp(msg, r, s) /\ Leads(msg, Place(r)) = {}

\* The turns of a run, one by one.
LEMMA NameTurns ==
  ASSUME NEW msg \in Seq(Nat), NEW off \in Nat, NEW f, NameRun(msg, off, f),
         NEW i \in 1..Turns(msg)
  PROVE  /\ i \in Nat /\ i - 1 \in 0..Turns(msg) /\ i \in 0..Turns(msg)
         /\ f[i - 1] \in NameState /\ f[i] \in NameState
         /\ f[i - 1].going => ~f[i - 1].ok /\ NameTurn(msg, f[i - 1], f[i])
         /\ ~f[i - 1].going => f[i] = f[i - 1]
<1>1. Turns(msg) \in Nat
  BY TurnsFacts
<1>2. i \in Nat /\ i - 1 \in 0..Turns(msg) /\ i \in 0..Turns(msg)
  BY <1>1
<1>3. f[i - 1] \in NameStates /\ f[i] \in NameStates /\ f[i] = ReadOne(msg, f[i - 1])
  BY <1>2 DEF NameRun
<1>4. f[i - 1] \in NameState /\ f[i] \in NameState /\ (f[i - 1].going => ~f[i - 1].ok)
  BY <1>3 DEF NameStates
<1>5. f[i - 1].going => NameTurn(msg, f[i - 1], f[i])
  BY <1>3, <1>4, ReadOneFacts DEF NameTurn
<1>6. ~f[i - 1].going => f[i] = f[i - 1]
  BY <1>3, ReadOneType
<1>7. QED
  BY <1>2, <1>4, <1>5, <1>6

\* A label, or a pointer, is no zero, and a label leads on.
LEMMA LabelFacts ==
  ASSUME NEW msg \in Seq(Nat), NEW r \in NameState, NEW s, PassesLabel(msg, r, s)
  PROVE  ~AtZero(msg, r) /\ ~AtPointer(msg, r) /\ r.pos + 2 <= s.pos /\ s.pos \in Nat
<1>1. /\ Byte(msg, r.pos) \in 1..Pointer - 1 /\ r.pos < Len(msg)
      /\ s.pos = r.pos + 1 + Byte(msg, r.pos)
  BY DEF PassesLabel
<1>2. r.pos \in Nat
  BY DEF NameState
<1> DEFINE b == Byte(msg, r.pos)
<1>3. b \in Nat /\ b >= 1 /\ b < Pointer
  <2>1. b \in 1..Pointer - 1
    BY <1>1
  <2> HIDE DEF b
  <2>2. QED
    BY <2>1 DEF Pointer
<1> HIDE DEF b
<1>4. ~AtZero(msg, r) /\ ~AtPointer(msg, r)
  <2>1. b # 0 /\ ~(b >= Pointer)
    BY <1>3 DEF Pointer
  <2>2. QED
    BY <2>1 DEF AtZero, AtPointer, b
<1>5. s.pos = r.pos + 1 + b
  BY <1>1 DEF b
<1>6. r.pos + 2 <= s.pos /\ s.pos \in Nat
  BY <1>2, <1>3, <1>5
<1>7. QED
  BY <1>4, <1>6

\* A byte that begins a pointer is no zero.
LEMMA PointerFacts ==
  ASSUME NEW msg \in Seq(Nat), NEW r \in NameState, AtPointer(msg, r)
  PROVE  ~AtZero(msg, r)
BY DEF AtPointer, AtZero, Pointer

\* The loop ends: between two jumps it moves on within the message.
LEMMA NameEnds ==
  ASSUME NEW msg \in Seq(Nat), NEW off \in Nat, NEW f, NameRun(msg, off, f)
  PROVE  ~f[Turns(msg)].going
<1> DEFINE n == Turns(msg)
           w == Len(msg) + 1
           P == {k \in 0..n : f[k].going => /\ f[k].jumps <= MaxJumps
                                            /\ k <= f[k].jumps * w + f[k].pos
                                            /\ k <= f[k].jumps * w + Len(msg)}
<1>1. /\ n \in Nat /\ Len(msg) \in Nat /\ MaxJumps \in Nat /\ 0 * w = 0
      /\ \A j \in 0..MaxJumps : /\ j * w \in Nat /\ (j + 1) * w = j * w + Len(msg) + 1
                                /\ j * w + Len(msg) < n
  BY TurnsFacts
<1> HIDE DEF w
<1>2. 0 \in P
  <2>1. f[0].jumps = 0 /\ f[0].pos = off
    BY DEF NameRun, NameFirst
  <2>2. QED
    BY <1>1, <2>1
<1>3. ASSUME NEW i \in 1..n, i - 1 \in P PROVE i \in P
  <2> DEFINE r == f[i - 1]
             s == f[i]
  <2>1. /\ i \in Nat /\ i \in 0..n /\ r \in NameState /\ s \in NameState
        /\ r.going => NameTurn(msg, r, s)
        /\ ~r.going => s = r
    BY NameTurns
  <2>2. r.going => /\ r.jumps <= MaxJumps
                   /\ i - 1 <= r.jumps * w + r.pos /\ i - 1 <= r.jumps * w + Len(msg)
    BY <1>3
  <2> HIDE DEF r, s
  <2>3. r.jumps \in Nat /\ r.pos \in Nat /\ s.jumps \in Nat /\ s.pos \in Nat
    BY <2>1 DEF NameState
  <2>4. ASSUME s.going
        PROVE  /\ s.jumps <= MaxJumps /\ i <= s.jumps * w + s.pos
               /\ i <= s.jumps * w + Len(msg)
    <3>1. r.going /\ (PassesLabel(msg, r, s) \/ FollowsPointer(msg, r, s))
      BY <2>1, <2>4 DEF NameTurn, EndsName, GivesUp
    <3>2. r.jumps \in 0..MaxJumps
      BY <1>1, <2>2, <2>3, <3>1
    <3> DEFINE u == r.jumps * w
    <3>3. u \in Nat /\ (r.jumps + 1) * w = u + Len(msg) + 1
      BY <1>1, <3>2
    <3>4. i - 1 <= u + r.pos /\ i - 1 <= u + Len(msg)
      BY <2>2, <3>1
    <3>5. CASE PassesLabel(msg, r, s)
      <4>1. s.jumps = r.jumps /\ s.pos <= Len(msg) /\ r.pos + 2 <= s.pos
        BY <2>1, <3>5, LabelFacts DEF PassesLabel
      <4>2. s.jumps * w = u /\ s.jumps <= MaxJumps
        BY <2>2, <3>1, <4>1
      <4> HIDE DEF u
      <4>3. u \in Nat /\ Len(msg) \in Nat /\ i \in Nat
        BY <1>1, <2>1, <3>3
      <4>4. i <= u + s.pos /\ i <= u + Len(msg)
        BY <2>3, <3>4, <4>1, <4>3
      <4>5. QED
        BY <4>2, <4>4
    <3>6. CASE FollowsPointer(msg, r, s)
      <4>1. s.jumps = r.jumps + 1 /\ s.jumps <= MaxJumps
        BY <3>6 DEF FollowsPointer
      <4>2. s.jumps * w = u + Len(msg) + 1
        BY <3>3, <4>1
      <4> HIDE DEF u
      <4>3. u \in Nat /\ Len(msg) \in Nat /\ i \in Nat
        BY <1>1, <2>1, <3>3
      <4>4. i <= u + Len(msg) + 1 + s.pos /\ i <= u + Len(msg) + 1 + Len(msg)
        BY <2>3, <3>4, <4>3
      <4>5. QED
        BY <4>1, <4>2, <4>4
    <3>7. QED
      BY <3>1, <3>5, <3>6
  <2>5. QED
    BY <2>1, <2>4 DEF s
<1>4. n \in P
  <2> HIDE DEF P
  <2>1. 0..n \subseteq P
    BY <1>1, <1>2, <1>3, Induction
  <2>2. QED
    BY <1>1, <2>1
<1>5. QED
  <2>1. SUFFICES ASSUME f[n].going PROVE FALSE
    OBVIOUS
  <2>2. f[n].jumps <= MaxJumps /\ n <= f[n].jumps * w + Len(msg)
    BY <1>4, <2>1
  <2>3. f[n] \in NameStates
    BY <1>1 DEF NameRun
  <2>4. f[n].jumps \in 0..MaxJumps
    BY <1>1, <2>2, <2>3 DEF NameStates, NameState
  <2>5. f[n].jumps * w \in Nat /\ f[n].jumps * w + Len(msg) < n
    BY <1>1, <2>4
  <2> DEFINE u == f[n].jumps * w
  <2>6. u \in Nat /\ u + Len(msg) < n /\ n <= u + Len(msg)
    BY <2>2, <2>5
  <2> HIDE DEF u, n
  <2>7. QED
    BY <1>1, <2>6

\* A name is read if the loop came to a zero, and ends behind where it began.
Zeros(msg, f, k) == \E j \in 0..k - 1 : f[j].going /\ AtZero(msg, f[j])

\* A name is read exactly if a zero has been met.
LEMMA NameZeros ==
  ASSUME NEW msg \in Seq(Nat), NEW off \in Nat, NEW f, NameRun(msg, off, f)
  PROVE  \A k \in 0..Turns(msg) :
           /\ f[k].ok <=> Zeros(msg, f, k)
           /\ f[k].going /\ f[k].jumps = 0 => f[k].next = Unset /\ f[k].pos >= off
           /\ f[k].going /\ f[k].jumps > 0 => f[k].next >= off + 2
           /\ f[k].ok => f[k].next >= off + 1
<1> DEFINE n == Turns(msg)
           Ends(r) == /\ r.going /\ r.jumps = 0 => r.next = Unset /\ r.pos >= off
                      /\ r.going /\ r.jumps > 0 => r.next >= off + 2
                      /\ r.ok => r.next >= off + 1
           P == {k \in 0..n : (f[k].ok <=> Zeros(msg, f, k)) /\ Ends(f[k])}
<1>1. n \in Nat
  BY TurnsFacts
<1>2. 0 \in P
  <2>1. /\ f[0].jumps = 0 /\ f[0].pos = off /\ f[0].next = Unset /\ f[0].ok = FALSE
    BY DEF NameRun, NameFirst
  <2>2. ~Zeros(msg, f, 0)
    BY DEF Zeros
  <2>3. QED
    BY <1>1, <2>1, <2>2
<1>3. ASSUME NEW i \in 1..n, i - 1 \in P PROVE i \in P
  <2> DEFINE r == f[i - 1]
             s == f[i]
  <2>1. /\ i \in Nat /\ i \in 0..n /\ r \in NameState /\ s \in NameState
        /\ r.going => ~r.ok /\ NameTurn(msg, r, s)
        /\ ~r.going => s = r
    BY NameTurns
  <2>2. (r.ok <=> Zeros(msg, f, i - 1)) /\ Ends(r)
    BY <1>3
  <2>3. Zeros(msg, f, i) <=> Zeros(msg, f, i - 1) \/ (r.going /\ AtZero(msg, r))
    <3>1. \A j : j \in 0..i - 1 <=> j \in 0..(i - 1) - 1 \/ j = i - 1
      BY <2>1
    <3>2. QED
      BY <3>1 DEF Zeros
  <2> HIDE DEF r, s
  <2>4. /\ r.jumps \in Nat /\ r.pos \in Nat /\ r.next \in Int /\ r.going \in BOOLEAN
        /\ s.jumps \in Nat /\ s.pos \in Nat /\ s.next \in Int /\ s.going \in BOOLEAN
        /\ r.ok \in BOOLEAN /\ s.ok \in BOOLEAN
    BY <2>1 DEF NameState
  <2>5. s.ok <=> Zeros(msg, f, i)
    <3>1. CASE r.going
      <4>1. s.ok <=> AtZero(msg, r)
        <5>1. PassesLabel(msg, r, s) => ~s.ok /\ ~AtZero(msg, r)
          BY <2>1, LabelFacts DEF PassesLabel
        <5>2. FollowsPointer(msg, r, s) => ~s.ok /\ ~AtZero(msg, r)
          BY <2>1, PointerFacts DEF FollowsPointer
        <5>3. EndsName(msg, r, s) => s.ok /\ AtZero(msg, r)
          BY DEF EndsName
        <5>4. GivesUp(msg, r, s) => ~s.ok /\ ~AtZero(msg, r)
          BY DEF GivesUp
        <5>5. QED
          BY <2>1, <3>1, <5>1, <5>2, <5>3, <5>4 DEF NameTurn
      <4>2. QED
        BY <2>1, <2>2, <2>3, <3>1, <4>1
    <3>2. CASE ~r.going
      BY <2>1, <2>2, <2>3, <3>2
    <3>3. QED
      BY <3>1, <3>2
  <2>6. Ends(s)
    <3>1. CASE r.going
      <4>1. CASE PassesLabel(msg, r, s)
        <5>1. s.going /\ ~s.ok /\ s.jumps = r.jumps /\ s.next = r.next
          BY <4>1 DEF PassesLabel
        <5>2. r.pos + 2 <= s.pos
          BY <2>1, <4>1, LabelFacts
        <5>3. QED
          BY <2>2, <2>4, <3>1, <5>1, <5>2
      <4>2. CASE FollowsPointer(msg, r, s)
        <5>1. s.going /\ ~s.ok /\ s.jumps = r.jumps + 1 /\ s.next = Behind(r, r.pos + 2)
          BY <4>2 DEF FollowsPointer
        <5>2. s.next >= off + 2
          BY <2>2, <2>4, <3>1, <5>1 DEF Behind, Unset
        <5>3. QED
          BY <2>4, <5>1, <5>2
      <4>3. CASE EndsName(msg, r, s)
        <5>1. ~s.going /\ s.ok /\ s.next = Behind(r, r.pos + 1)
          BY <4>3 DEF EndsName
        <5>2. s.next >= off + 1
          BY <2>2, <2>4, <3>1, <5>1 DEF Behind, Unset
        <5>3. QED
          BY <5>1, <5>2
      <4>4. CASE GivesUp(msg, r, s)
        BY <4>4 DEF GivesUp
      <4>5. QED
        BY <2>1, <3>1, <4>1, <4>2, <4>3, <4>4 DEF NameTurn
    <3>2. CASE ~r.going
      BY <2>1, <2>2, <3>2
    <3>3. QED
      BY <3>1, <3>2
  <2>7. QED
    BY <2>1, <2>5, <2>6 DEF s
<1>4. 0..n \subseteq P
  <2> HIDE DEF P
  <2>1. QED
    BY <1>1, <1>2, <1>3, Induction
<1>5. QED
  BY <1>4

\* The place, before any jump, at which the name itself ends.
Stand(msg, r) == r.going /\ r.jumps = 0 /\ (AtZero(msg, r) \/ AtPointer(msg, r))

\* A loop that goes on, or has read a name, holds the end of the name if it has
\* come to it, and no other.
LEMMA NameStands ==
  ASSUME NEW msg \in Seq(Nat), NEW off \in Nat, NEW f, NameRun(msg, off, f)
  PROVE  \A k \in 0..Turns(msg) : f[k].going \/ f[k].ok =>
           /\ f[k].next # Unset => \E j \in 0..k - 1 : Stand(msg, f[j])
           /\ \A j \in 0..k - 1 : Stand(msg, f[j]) => f[k].next = EndAt(msg, f[j].pos)
<1> DEFINE n == Turns(msg)
           Held(k, r) == /\ r.next # Unset => \E j \in 0..k - 1 : Stand(msg, f[j])
                         /\ \A j \in 0..k - 1 :
                              Stand(msg, f[j]) => r.next = EndAt(msg, f[j].pos)
           P == {k \in 0..n : f[k].going \/ f[k].ok => Held(k, f[k])}
<1>1. n \in Nat
  BY TurnsFacts
<1>2. 0 \in P
  <2>1. f[0].next = Unset /\ \A j : j \notin 0..0 - 1
    BY DEF NameRun, NameFirst
  <2>2. QED
    BY <1>1, <2>1
<1>3. ASSUME NEW i \in 1..n, i - 1 \in P PROVE i \in P
  <2> DEFINE r == f[i - 1]
             s == f[i]
  <2>1. /\ i \in Nat /\ i \in 0..n /\ r \in NameState /\ s \in NameState
        /\ r.going => ~r.ok /\ NameTurn(msg, r, s)
        /\ ~r.going => s = r
    BY NameTurns
  <2>2. r.going \/ r.ok => Held(i - 1, r)
    BY <1>3
  <2>3. \A j : j \in 0..i - 1 <=> j \in 0..(i - 1) - 1 \/ j = i - 1
    BY <2>1
  <2>4. r.going => /\ r.jumps = 0 => r.next = Unset
                   /\ r.jumps > 0 => r.next >= off + 2
    <3>1. i - 1 \in 0..n
      BY <1>3
    <3>2. QED
      BY <3>1, NameZeros
  <2>5. SUFFICES ASSUME s.going \/ s.ok PROVE Held(i, s)
    BY <2>1
  <2>6. ASSUME NEW j \in 0..(i - 1) - 1, Stand(msg, f[j])
        PROVE  EndAt(msg, f[j].pos) # Unset
    <3>1. j \in 0..n
      BY <1>1, <2>1
    <3>2. f[j] \in NameStates
      BY <3>1 DEF NameRun
    <3>3. f[j].pos \in Nat
      BY <3>2 DEF NameStates, NameState
    <3>4. QED
      BY <3>3 DEF EndAt, Unset
  <2>7. CASE ~r.going
    <3>1. s = r /\ ~Stand(msg, r)
      BY <2>1, <2>7 DEF Stand
    <3>2. Held(i - 1, r)
      BY <2>2, <2>5, <3>1
    <3>3. QED
      BY <2>3, <3>1, <3>2
  <2>8. CASE r.going
    <3>1. Held(i - 1, r)
      BY <2>2, <2>8
    <3>2. CASE PassesLabel(msg, r, s)
      <4>1. s.next = r.next /\ ~Stand(msg, r)
        BY <2>1, <3>2, LabelFacts DEF PassesLabel, Stand
      <4>2. QED
        BY <2>3, <3>1, <4>1
    <3>3. CASE FollowsPointer(msg, r, s) \/ EndsName(msg, r, s)
      <4>1. /\ s.next = IF r.next = Unset THEN EndAt(msg, r.pos) ELSE r.next
            /\ AtZero(msg, r) \/ AtPointer(msg, r)
        <5>1. CASE FollowsPointer(msg, r, s)
          <6>1. AtPointer(msg, r) /\ s.next = Behind(r, r.pos + 2)
            BY <5>1 DEF FollowsPointer
          <6>2. Byte(msg, r.pos) # 0
            BY <2>1, <6>1, PointerFacts DEF AtPointer, AtZero
          <6>3. QED
            BY <6>1, <6>2 DEF Behind, EndAt
        <5>2. CASE EndsName(msg, r, s)
          <6>1. AtZero(msg, r) /\ s.next = Behind(r, r.pos + 1) /\ Byte(msg, r.pos) = 0
            BY <5>2 DEF EndsName, AtZero
          <6>2. QED
            BY <6>1 DEF Behind, EndAt
        <5>3. QED
          BY <3>3, <5>1, <5>2
      <4>2. r.jumps \in Nat /\ r.pos \in Nat /\ r.next \in Int
        BY <2>1 DEF NameState
      <4>3. CASE r.jumps = 0
        <5>1. Stand(msg, r) /\ r.next = Unset /\ s.next = EndAt(msg, r.pos)
          BY <2>4, <2>8, <4>1, <4>3 DEF Stand
        <5>2. \A j \in 0..(i - 1) - 1 : ~Stand(msg, f[j])
          BY <2>6, <3>1, <5>1
        <5>3. i - 1 \in 0..i - 1
          BY <2>1
        <5>4. QED
          BY <2>3, <5>1, <5>2, <5>3
      <4>4. CASE r.jumps # 0
        <5>1. r.next # Unset /\ ~Stand(msg, r) /\ s.next = r.next
          BY <2>4, <2>8, <4>1, <4>2, <4>4 DEF Stand, Unset
        <5>2. QED
          BY <2>3, <3>1, <5>1
      <4>5. QED
        BY <4>3, <4>4
    <3>4. CASE GivesUp(msg, r, s)
      BY <2>5, <3>4 DEF GivesUp
    <3>5. QED
      BY <2>1, <2>8, <3>2, <3>3, <3>4 DEF NameTurn
  <2>9. QED
    BY <2>7, <2>8
<1>4. 0..n \subseteq P
  <2> HIDE DEF P
  <2>1. QED
    BY <1>1, <1>2, <1>3, Induction
<1>5. QED
  BY <1>4

\* The positions the bytes lead to.
Places == SUBSET (Nat \X Nat)

\* Positions and numbers of jumps lead to such.
LEMMA SpreadType ==
  ASSUME NEW msg \in Seq(Nat), NEW qs \in Places
  PROVE  Spread(msg, qs) \in Places
<1>1. ASSUME NEW q \in qs PROVE Leads(msg, q) \subseteq Nat \X Nat
  <2> DEFINE b == Byte(msg, q[1])
  <2>1. q[1] \in Nat /\ q[2] \in Nat
    BY DEF Places
  <2>2. CASE q[1] >= Len(msg)
    BY <2>2 DEF Leads
  <2>3. CASE ~(q[1] >= Len(msg))
    <3>1. b \in Nat
      <4>1. q[1] < Len(msg)
        BY <2>1, <2>3
      <4>2. QED
        BY <2>1, <4>1, ByteType
    <3>2. Leads(msg, q) \subseteq {<<q[1] + 1 + b, q[2]>>}
                        \cup {p \in {<<b - Pointer, q[2] + 1>>} : b >= Pointer}
      BY <2>3 DEF Leads
    <3>3. q[1] + 1 + b \in Nat /\ (b >= Pointer => b - Pointer \in Nat) /\ q[2] + 1 \in Nat
      <4> HIDE DEF b
      <4>1. QED
        BY <2>1, <3>1 DEF Pointer
    <3> HIDE DEF b
    <3>4. QED
      BY <2>1, <3>2, <3>3
  <2>4. QED
    BY <2>2, <2>3
<1>2. QED
  BY <1>1 DEF Spread, Places

\* The positions reached, by the number of turns.
LEMMA ReachedSteps ==
  ASSUME NEW msg \in Seq(Nat), NEW off \in Nat
  PROVE  LET n == Turns(msg)
         IN \E g \in [0..n -> Places] :
              /\ g[0] = {<<off, 0>>}
              /\ \A i \in 1..n : g[i] = Spread(msg, g[i - 1])
              /\ Reached(msg, off) = g[n]
<1> DEFINE n == Turns(msg)
           first == {<<off, 0>>}
           F == [z \in (1..n) \X Places |-> Spread(msg, z[2])]
           Fits(g) == g = [i \in 0..n |-> IF i = 0 THEN first ELSE Spread(msg, g[i - 1])]
           after == CHOOSE g : Fits(g)
<1>1. n \in Nat
  BY TurnsFacts
<1>2. Reached(msg, off) = after[n]
  BY DEF Reached
<1> HIDE DEF n
<1>3. first \in Places
  BY DEF Places
<1> HIDE DEF first
<1>4. \A b \in Places : Spread(msg, b) \in Places
  BY SpreadType
<1>5. IsStep(F, n, Places)
  BY <1>4 DEF IsStep
<1>6. ASSUME NEW i \in 1..n, NEW b \in Places PROVE F[<<i, b>>] = Spread(msg, b)
  OBVIOUS
<1> HIDE DEF F
<1>7. PICK f : Unfolds(f, F, n, Places, first)
  BY <1>1, <1>3, <1>5, Recursion
<1>8. /\ f \in [0..n -> Places] /\ f[0] = first
      /\ \A i \in 1..n : f[i] = F[<<i, f[i - 1]>>]
  BY <1>7 DEF Unfolds
<1>9. ASSUME NEW i \in 1..n PROVE f[i] = Spread(msg, f[i - 1])
  <2>1. f[i - 1] \in Places
    BY <1>1, <1>8
  <2>2. QED
    BY <1>6, <1>8, <2>1
<1>10. Fits(f)
  BY <1>1, <1>8, <1>9
<1>11. Fits(after)
  BY <1>10
<1> HIDE DEF after
<1>12. after[0] = first /\ after = [i \in 0..n |-> after[i]]
  BY <1>1, <1>11
<1>13. ASSUME NEW i \in 1..n PROVE after[i] = Spread(msg, after[i - 1])
  <2>1. i \in 0..n /\ i # 0
    BY <1>1
  <2>2. QED
    BY <1>11, <2>1
<1> HIDE DEF Fits
<1>14. Unfolds(after, F, n, Places, after[0])
  <2>1. \A i \in 1..n : after[i - 1] \in Places => after[i] = F[<<i, after[i - 1]>>]
    BY <1>6, <1>13
  <2>2. QED
    BY <1>1, <1>3, <1>5, <1>12, <2>1, Unfolded
<1>15. after \in [0..n -> Places]
  BY <1>14 DEF Unfolds
<1>16. QED
  BY <1>2, <1>12, <1>13, <1>15 DEF n, first

\* They are the places at which the loop stands while it goes on.
Stood(f, k) == {Place(f[j]) : j \in {jj \in 0..k : f[jj].going}}

\* The positions a run has stood at are those its bytes lead to.
LEMMA NameReached ==
  ASSUME NEW msg \in Seq(Nat), NEW off \in Nat, NEW f, NameRun(msg, off, f)
  PROVE  Reached(msg, off) = Stood(f, Turns(msg))
<1> DEFINE n == Turns(msg)
<1>1. n \in Nat
  BY TurnsFacts
<1>2. PICK g \in [0..n -> Places] :
        /\ g[0] = {<<off, 0>>}
        /\ \A i \in 1..n : g[i] = Spread(msg, g[i - 1])
        /\ Reached(msg, off) = g[n]
  BY ReachedSteps
<1> DEFINE P == {k \in 0..n : g[k] = Stood(f, k)}
<1>3. 0 \in P
  <2>1. f[0].going /\ Place(f[0]) = <<off, 0>>
    BY DEF NameRun, NameFirst, Place
  <2>2. Stood(f, 0) = {<<off, 0>>}
    BY <2>1 DEF Stood
  <2>3. 0 \in 0..n /\ g[0] = Stood(f, 0)
    BY <1>1, <1>2, <2>2
  <2>4. QED
    BY <2>3
<1>4. ASSUME NEW i \in 1..n, i - 1 \in P PROVE i \in P
  <2>1. i \in Nat /\ i \in 0..n /\ g[i - 1] = Stood(f, i - 1)
        /\ g[i] = Spread(msg, g[i - 1])
    BY <1>1, <1>2, <1>4
  <2>2. \A j : j \in 0..i <=> j \in 0..i - 1 \/ j = i
    BY <2>1
  <2>3. ASSUME NEW j \in 0..i - 1, f[j].going
        PROVE  /\ j + 1 \in 0..i
               /\ Leads(msg, Place(f[j])) = IF f[j + 1].going THEN {Place(f[j + 1])} ELSE {}
    <3>1. j + 1 \in 1..n /\ (j + 1) - 1 = j /\ j + 1 \in 0..i
      BY <1>1, <2>1
    <3>2. NameTurn(msg, f[j], f[j + 1])
      BY <2>3, <3>1, NameTurns
    <3>3. QED
      BY <3>1, <3>2 DEF NameTurn, PassesLabel, FollowsPointer, EndsName, GivesUp
  <2>4. Spread(msg, Stood(f, i - 1)) \subseteq Stood(f, i)
    <3>1. ASSUME NEW q \in Stood(f, i - 1) PROVE q \in Stood(f, i) /\ Leads(msg, q) \subseteq Stood(f, i)
      <4>1. PICK j \in 0..i - 1 : f[j].going /\ q = Place(f[j])
        BY DEF Stood
      <4>2. j \in 0..i
        BY <2>2
      <4>3. q \in Stood(f, i)
        BY <4>1, <4>2 DEF Stood
      <4>4. Leads(msg, q) \subseteq Stood(f, i)
        BY <2>3, <4>1 DEF Stood
      <4>5. QED
        BY <4>3, <4>4
    <3>2. QED
      BY <3>1 DEF Spread
  <2>5. Stood(f, i) \subseteq Spread(msg, Stood(f, i - 1))
    <3>1. ASSUME NEW j \in 0..i, f[j].going PROVE Place(f[j]) \in Spread(msg, Stood(f, i - 1))
      <4>1. CASE j \in 0..i - 1
        BY <3>1, <4>1 DEF Stood, Spread
      <4>2. CASE j = i
        <5>1. f[i - 1].going
          BY <3>1, <4>2, NameTurns
        <5>2. i - 1 \in 0..i - 1 /\ (i - 1) + 1 = i
          BY <2>1
        <5>3. Leads(msg, Place(f[i - 1])) = {Place(f[i])}
          BY <2>3, <3>1, <4>2, <5>1, <5>2
        <5>4. Place(f[i - 1]) \in Stood(f, i - 1)
          BY <5>1, <5>2 DEF Stood
        <5>5. QED
          BY <4>2, <5>3, <5>4 DEF Spread
      <4>3. QED
        BY <2>2, <4>1, <4>2
    <3>2. QED
      BY <3>1 DEF Stood
  <2>6. QED
    BY <2>1, <2>4, <2>5
<1>5. n \in P
  <2> HIDE DEF P
  <2>1. 0..n \subseteq P
    BY <1>1, <1>3, <1>4, Induction
  <2>2. QED
    BY <1>1, <2>1
<1>6. QED
  BY <1>2, <1>5

\* What readName returns: where it stops, and with what.
LEMMA NameFacts ==
  ASSUME NEW msg \in Seq(Nat), NEW off \in Nat
  PROVE  LET r == ReadName(msg, off)
         IN /\ r \in NameState /\ ~r.going
            /\ r.ok => r.next \in Nat /\ r.next >= off + 1
            /\ r.ok <=> \E q \in Reached(msg, off) : q[1] < Len(msg) /\ Byte(msg, q[1]) = 0
            /\ r.ok => r.next = NameEnd(msg, off)
<1> DEFINE n == Turns(msg)
           r == ReadName(msg, off)
<1>1. n \in Nat /\ n \in 0..n
  BY TurnsFacts
<1>2. PICK f : NameRun(msg, off, f) /\ r = f[n]
  BY NameSteps DEF NameRun
<1>3. ~r.going
  BY <1>2, NameEnds
<1>4. \A k \in 0..n : f[k] \in NameState
  BY <1>2 DEF NameRun, NameStates
<1>5. /\ r.ok <=> Zeros(msg, f, n)
      /\ r.ok => r.next >= off + 1
  BY <1>1, <1>2, NameZeros
<1>6. r \in NameState
  BY <1>1, <1>2, <1>4
<1>7. r.ok => r.next \in Nat /\ r.next >= off + 1
  <2>1. r.next \in Int
    BY <1>6 DEF NameState
  <2>2. QED
    BY <1>5, <2>1
<1>8. Reached(msg, off) = Stood(f, n)
  BY <1>2, NameReached
<1>9. \A j \in 0..n : f[j].going => j \in 0..n - 1
  <2>1. \A j \in 0..n : j # n => j \in 0..n - 1
    BY <1>1
  <2>2. QED
    BY <1>2, <1>3, <2>1
<1>10. 0..n - 1 \subseteq 0..n
  BY <1>1
<1>11. r.ok <=> \E q \in Reached(msg, off) : q[1] < Len(msg) /\ Byte(msg, q[1]) = 0
  <2>1. r.ok <=> \E j \in 0..n - 1 : f[j].going /\ AtZero(msg, f[j])
    BY <1>5 DEF Zeros
  <2>2. \A j \in 0..n : AtZero(msg, f[j]) <=>
          Place(f[j])[1] < Len(msg) /\ Byte(msg, Place(f[j])[1]) = 0
    BY DEF AtZero, Place
  <2>3. \A q : q \in Stood(f, n) <=> \E j \in 0..n - 1 : f[j].going /\ q = Place(f[j])
    <3> HIDE DEF n
    <3>1. QED
      BY <1>9, <1>10 DEF Stood
  <2> HIDE DEF r, n
  <2>4. QED
    BY <1>8, <1>10, <2>1, <2>2, <2>3
<1>12. ASSUME r.ok PROVE r.next = NameEnd(msg, off)
  <2>1. Stops(msg, off) = {Place(f[j]) : j \in {jj \in 0..n - 1 : Stand(msg, f[jj])}}
    <3>1. Stops(msg, off) = {q \in Stood(f, n) :
             q[2] = 0 /\ q[1] < Len(msg) /\ (Byte(msg, q[1]) = 0 \/ Byte(msg, q[1]) >= Pointer)}
      BY <1>8 DEF Stops
    <3>2. \A j \in 0..n : Stand(msg, f[j]) <=>
             /\ f[j].going /\ Place(f[j])[2] = 0 /\ Place(f[j])[1] < Len(msg)
             /\ Byte(msg, Place(f[j])[1]) = 0 \/ Byte(msg, Place(f[j])[1]) >= Pointer
      BY DEF Stand, AtZero, AtPointer, Place
    <3> HIDE DEF n
    <3>3. QED
      BY <1>9, <1>10, <3>1, <3>2 DEF Stood, Stand
  <2>2. /\ r.next # Unset => \E j \in 0..n - 1 : Stand(msg, f[j])
        /\ \A j \in 0..n - 1 : Stand(msg, f[j]) => r.next = EndAt(msg, f[j].pos)
    BY <1>1, <1>2, <1>12, NameStands
  <2>3. r.next # Unset
    BY <1>7, <1>12 DEF Unset
  <2> DEFINE stop == CHOOSE q \in Stops(msg, off) : TRUE
  <2>4. stop \in Stops(msg, off)
    BY <2>1, <2>2, <2>3
  <2>5. PICK j \in 0..n - 1 : Stand(msg, f[j]) /\ stop = Place(f[j])
    BY <2>1, <2>4
  <2>6. NameEnd(msg, off) = EndAt(msg, stop[1])
    BY DEF NameEnd, EndAt
  <2> HIDE DEF stop
  <2>7. stop[1] = f[j].pos
    BY <2>5 DEF Place
  <2>8. QED
    BY <2>2, <2>5, <2>6, <2>7
<1>13. QED
  BY <1>3, <1>6, <1>7, <1>11, <1>12

\* Names are read as they were written.
LEMMA NamesAsWritten == NamesRead
<1>1. ASSUME NEW msg \in Layouts, NEW off \in 0..Len(msg) - 1
      PROVE  msg \in Seq(Nat) /\ off \in Nat
  BY WireAssumption
<1>2. QED
  BY <1>1, NameFacts DEF NamesRead

-----------------------------------------------------------------------------
(* Questions and answers. *)

Asking == [ok : BOOLEAN, next : Nat]

\* A question read leaves a position.
LEMMA QuestionType ==
  ASSUME NEW msg \in Seq(Nat), NEW q \in Asking
  PROVE  LET name == ReadName(msg, q.next)
         IN /\ Question(msg, q) \in Asking
            /\ Question(msg, q).ok => q.ok /\ name.ok /\ Question(msg, q).next >= q.next + 2
<1> DEFINE name == ReadName(msg, q.next)
<1>1. q.ok \in BOOLEAN /\ q.next \in Nat
  BY DEF Asking
<1>2. /\ name.ok \in BOOLEAN /\ name.ok => name.next \in Nat /\ name.next >= q.next + 1
  BY <1>1, NameFacts DEF NameState
<1>3. Question(msg, q) = IF q.ok /\ name.ok THEN [ok |-> TRUE, next |-> name.next + 1]
                         ELSE [q EXCEPT !.ok = FALSE]
  BY DEF Question
<1> HIDE DEF name
<1>4. CASE q.ok /\ name.ok
  <2>1. Question(msg, q) = [ok |-> TRUE, next |-> name.next + 1]
    BY <1>3, <1>4
  <2>2. name.next + 1 \in Nat /\ name.next + 1 >= q.next + 2
    BY <1>1, <1>2, <1>4
  <2>3. QED
    BY <1>4, <2>1, <2>2 DEF Asking, name
<1>5. CASE ~(q.ok /\ name.ok)
  <2>1. Question(msg, q) = [q EXCEPT !.ok = FALSE]
    BY <1>3, <1>5
  <2>2. Question(msg, q) \in Asking /\ ~Question(msg, q).ok
    BY <1>1, <2>1 DEF Asking
  <2>3. QED
    BY <2>2
<1>6. QED
  BY <1>4, <1>5

\* The questions, by their number.
LEMMA QuestionSteps ==
  ASSUME NEW msg \in Seq(Nat), NEW n \in Nat
  PROVE  \E f \in [0..n -> Asking] :
           /\ f[0] = [ok |-> TRUE, next |-> Header]
           /\ \A i \in 1..n : f[i] = Question(msg, f[i - 1])
           /\ AfterQuestions(msg, n) = f[n]
<1> DEFINE first == [ok |-> TRUE, next |-> Header]
           F == [z \in (1..n) \X Asking |-> Question(msg, z[2])]
           Fits(g) == g = [i \in 0..n |-> IF i = 0 THEN first ELSE Question(msg, g[i - 1])]
           after == CHOOSE g : Fits(g)
<1>1. AfterQuestions(msg, n) = after[n]
  BY DEF AfterQuestions
<1>2. first \in Asking
  BY DEF Asking, Header
<1> HIDE DEF first
<1>3. \A b \in Asking : Question(msg, b) \in Asking
  BY QuestionType
<1>4. IsStep(F, n, Asking)
  BY <1>3 DEF IsStep
<1>5. ASSUME NEW i \in 1..n, NEW b \in Asking PROVE F[<<i, b>>] = Question(msg, b)
  OBVIOUS
<1> HIDE DEF F
<1>6. PICK f : Unfolds(f, F, n, Asking, first)
  BY <1>2, <1>4, Recursion
<1>7. /\ f \in [0..n -> Asking] /\ f[0] = first
      /\ \A i \in 1..n : f[i] = F[<<i, f[i - 1]>>]
  BY <1>6 DEF Unfolds
<1>8. ASSUME NEW i \in 1..n PROVE f[i] = Question(msg, f[i - 1])
  <2>1. f[i - 1] \in Asking
    BY <1>7
  <2>2. QED
    BY <1>5, <1>7, <2>1
<1>9. Fits(f)
  BY <1>7, <1>8
<1>10. Fits(after)
  BY <1>9
<1> HIDE DEF after
<1>11. after[0] = first /\ after = [i \in 0..n |-> after[i]]
  BY <1>10
<1>12. ASSUME NEW i \in 1..n PROVE after[i] = Question(msg, after[i - 1])
  <2>1. i \in 0..n /\ i # 0
    OBVIOUS
  <2>2. QED
    BY <1>10, <2>1
<1> HIDE DEF Fits
<1>13. Unfolds(after, F, n, Asking, after[0])
  <2>1. \A i \in 1..n : after[i - 1] \in Asking => after[i] = F[<<i, after[i - 1]>>]
    BY <1>5, <1>12
  <2>2. QED
    BY <1>2, <1>4, <1>11, <2>1, Unfolded
<1>14. after \in [0..n -> Asking]
  BY <1>13 DEF Unfolds
<1>15. QED
  BY <1>1, <1>11, <1>12, <1>14 DEF first

\* Every question takes two bytes or more, and the first is read at the start.
LEMMA QuestionsRead ==
  ASSUME NEW msg \in Seq(Nat), NEW n \in Nat
  PROVE  LET q == AfterQuestions(msg, n)
         IN /\ q \in Asking
            /\ q.ok => q.next >= Header + 2 * n /\ (n >= 1 => ReadName(msg, Header).ok)
<1>1. PICK f \in [0..n -> Asking] :
        /\ f[0] = [ok |-> TRUE, next |-> Header]
        /\ \A i \in 1..n : f[i] = Question(msg, f[i - 1])
        /\ AfterQuestions(msg, n) = f[n]
  BY QuestionSteps
<1> DEFINE P == {k \in 0..n : f[k].ok => /\ f[k].next >= Header + 2 * k
                                         /\ k >= 1 => ReadName(msg, Header).ok}
<1>0. Header \in Nat
  BY DEF Header
<1>2. 0 \in P
  BY <1>0, <1>1
<1>3. ASSUME NEW i \in 1..n, i - 1 \in P PROVE i \in P
  <2>1. f[i - 1] \in Asking /\ f[i] = Question(msg, f[i - 1])
    BY <1>1
  <2>2. /\ f[i].ok => /\ f[i - 1].ok /\ ReadName(msg, f[i - 1].next).ok
                      /\ f[i].next >= f[i - 1].next + 2
        /\ f[i] \in Asking
    BY <2>1, QuestionType
  <2>3. f[i - 1].next \in Nat /\ f[i].next \in Nat /\ i \in Nat /\ i \in 0..n
    BY <2>1, <2>2 DEF Asking
  <2>4. ASSUME f[i].ok PROVE f[i].next >= Header + 2 * i /\ ReadName(msg, Header).ok
    <3>1. /\ f[i - 1].next >= Header + 2 * (i - 1)
          /\ i - 1 >= 1 => ReadName(msg, Header).ok
      BY <1>3, <2>2, <2>4
    <3>2. f[i].next >= Header + 2 * i
      BY <1>0, <2>2, <2>3, <2>4, <3>1
    <3>3. CASE i = 1
      <4>1. f[i - 1].next = Header
        BY <1>1, <3>3
      <4>2. QED
        BY <2>2, <2>4, <3>2, <4>1
    <3>4. CASE i # 1
      BY <2>3, <3>1, <3>2, <3>4
    <3>5. QED
      BY <3>3, <3>4
  <2>5. QED
    BY <2>3, <2>4
<1>4. n \in P
  <2> HIDE DEF P
  <2>1. 0..n \subseteq P
    BY <1>2, <1>3, Induction
  <2>2. QED
    BY <2>1
<1>5. QED
  BY <1>1, <1>4

\* The addresses found so far lie within the message, in order, behind p.
Answering == [going : BOOLEAN, at : Nat, ips : Seq([from : Nat, to : Nat])]
InOrder(msg, p, a) ==
  /\ a.at >= p
  /\ \A i \in 1..Len(a.ips) :
       /\ a.ips[i].to - a.ips[i].from = Address.len
       /\ a.ips[i].to <= Len(msg) /\ a.ips[i].to <= a.at
       /\ a.ips[i].from >= p + 3
       /\ \A j \in 1..i - 1 : a.ips[j].to < a.ips[i].from

\* The two ends of an address are numbers.
LEMMA SpanType ==
  ASSUME NEW ips \in Seq([from : Nat, to : Nat]), NEW i \in 1..Len(ips)
  PROVE  ips[i].from \in Nat /\ ips[i].to \in Nat
<1>1. ips[i] \in [from : Nat, to : Nat]
  BY ElementOfSeq
<1>2. QED
  BY <1>1

\* What one answer does to the addresses taken.
LEMMA AnswerFacts ==
  ASSUME NEW msg \in Seq(Nat), NEW a \in Answering
  PROVE  LET name == ReadName(msg, a.at)
             s == Answer(msg, a)
         IN /\ s \in Answering
            /\ \/ s.at = a.at /\ s.ips = a.ips
               \/ /\ s.at >= a.at + 3 /\ s.at <= Len(msg)
                  /\ \/ s.ips = a.ips
                     \/ \E rd \in Nat :
                          /\ rd >= a.at + 3 /\ s.at = rd + 2
                          /\ s.ips = Append(a.ips, [from |-> rd, to |-> s.at])
<1> DEFINE name == ReadName(msg, a.at)
           rd   == name.next + 2
           rr   == [type |-> Byte(msg, rd - 2), len |-> Byte(msg, rd - 1)]
           s    == Answer(msg, a)
<1>1. a.going \in BOOLEAN /\ a.at \in Nat /\ a.ips \in Seq([from : Nat, to : Nat])
  BY DEF Answering
<1>2. /\ name.ok \in BOOLEAN /\ name.ok => name.next \in Nat /\ name.next >= a.at + 1
  BY <1>1, NameFacts DEF NameState
<1>3. s = IF ~a.going THEN a
          ELSE IF ~name.ok \/ rd > Len(msg) \/ rd + rr.len > Len(msg)
          THEN [a EXCEPT !.going = FALSE]
          ELSE [a EXCEPT !.at = rd + rr.len,
                         !.ips = IF rr = Address
                                 THEN Append(@, [from |-> rd, to |-> rd + rr.len]) ELSE @]
  BY DEF Answer
<1> HIDE DEF name
<1>4. CASE ~a.going
  BY <1>3, <1>4
<1>5. CASE a.going /\ (~name.ok \/ rd > Len(msg) \/ rd + rr.len > Len(msg))
  <2> HIDE DEF rd, rr, s
  <2>1. s = [a EXCEPT !.going = FALSE]
    BY <1>3, <1>5
  <2>2. s \in Answering /\ s.at = a.at /\ s.ips = a.ips
    BY <1>1, <2>1 DEF Answering
  <2>3. QED
    BY <2>2 DEF s
<1>6. CASE a.going /\ ~(~name.ok \/ rd > Len(msg) \/ rd + rr.len > Len(msg))
  <2>1. rd \in Nat /\ rd >= a.at + 3 /\ rd - 1 \in Nat /\ rd - 1 < Len(msg)
    <3>1. name.ok /\ ~(rd > Len(msg))
      BY <1>6
    <3>2. name.next \in Nat /\ name.next >= a.at + 1 /\ Len(msg) \in Nat
      BY <1>2, <3>1
    <3>3. a.at \in Nat /\ rd = name.next + 2
      BY <1>1
    <3> HIDE DEF rr, s, rd
    <3>4. rd \in Nat /\ rd >= a.at + 3 /\ rd - 1 \in Nat
      BY <3>2, <3>3
    <3>5. rd <= Len(msg)
      BY <3>1, <3>2, <3>4
    <3>6. QED
      BY <3>2, <3>4, <3>5
  <2>2. rr.len = Byte(msg, rd - 1) /\ rr.len \in Nat
    BY <2>1, ByteType
  <2> DEFINE at == rd + rr.len
  <2>3. at \in Nat /\ at >= a.at + 3 /\ at <= Len(msg)
    <3> HIDE DEF rd, rr
    <3>1. QED
      BY <1>1, <1>6, <2>1, <2>2
  <2>4. s = [a EXCEPT !.at = at,
                      !.ips = IF rr = Address THEN Append(@, [from |-> rd, to |-> at])
                              ELSE @]
    BY <1>3, <1>6
  <2>5. rr = Address => at = rd + 2
    BY DEF Address
  <2>6. [from |-> rd, to |-> at] \in [from : Nat, to : Nat]
    BY <2>1, <2>3
  <2>7. Append(a.ips, [from |-> rd, to |-> at]) \in Seq([from : Nat, to : Nat])
    BY <1>1, <2>6
  <2> DEFINE ips == IF rr = Address THEN Append(a.ips, [from |-> rd, to |-> at]) ELSE a.ips
  <2>8. ips \in Seq([from : Nat, to : Nat])
    BY <1>1, <2>7
  <2>9. ips = a.ips \/ (at = rd + 2 /\ ips = Append(a.ips, [from |-> rd, to |-> at]))
    BY <2>5
  <2>10. s = [a EXCEPT !.at = at, !.ips = ips]
    BY <2>4
  <2> HIDE DEF at, ips, rd, rr, s
  <2>11. s \in Answering /\ s.at = at /\ s.ips = ips
    BY <1>1, <2>3, <2>8, <2>10 DEF Answering
  <2>12. QED
    BY <2>1, <2>3, <2>9, <2>11 DEF s
<1>7. QED
  BY <1>4, <1>5, <1>6

\* The answers, by their number.
LEMMA AnswerSteps ==
  ASSUME NEW msg \in Seq(Nat), NEW p \in Nat, NEW n \in Nat
  PROVE  \E f \in [0..n -> Answering] :
           /\ f[0] = [going |-> TRUE, at |-> p, ips |-> <<>>]
           /\ \A i \in 1..n : f[i] = Answer(msg, f[i - 1])
           /\ Answers(msg, p, n) = f[n].ips
<1> DEFINE first == [going |-> TRUE, at |-> p, ips |-> <<>>]
           F == [z \in (1..n) \X Answering |-> Answer(msg, z[2])]
           Fits(g) == g = [i \in 0..n |-> IF i = 0 THEN first ELSE Answer(msg, g[i - 1])]
           after == CHOOSE g : Fits(g)
<1>1. Answers(msg, p, n) = after[n].ips
  BY DEF Answers
<1>2. first \in Answering
  BY DEF Answering
<1> HIDE DEF first
<1>3. \A b \in Answering : Answer(msg, b) \in Answering
  BY AnswerFacts
<1>4. IsStep(F, n, Answering)
  BY <1>3 DEF IsStep
<1>5. ASSUME NEW i \in 1..n, NEW b \in Answering PROVE F[<<i, b>>] = Answer(msg, b)
  OBVIOUS
<1> HIDE DEF F
<1>6. PICK f : Unfolds(f, F, n, Answering, first)
  BY <1>2, <1>4, Recursion
<1>7. /\ f \in [0..n -> Answering] /\ f[0] = first
      /\ \A i \in 1..n : f[i] = F[<<i, f[i - 1]>>]
  BY <1>6 DEF Unfolds
<1>8. ASSUME NEW i \in 1..n PROVE f[i] = Answer(msg, f[i - 1])
  <2>1. f[i - 1] \in Answering
    BY <1>7
  <2>2. QED
    BY <1>5, <1>7, <2>1
<1>9. Fits(f)
  BY <1>7, <1>8
<1>10. Fits(after)
  BY <1>9
<1> HIDE DEF after
<1>11. after[0] = first /\ after = [i \in 0..n |-> after[i]]
  BY <1>10
<1>12. ASSUME NEW i \in 1..n PROVE after[i] = Answer(msg, after[i - 1])
  <2>1. i \in 0..n /\ i # 0
    OBVIOUS
  <2>2. QED
    BY <1>10, <2>1
<1> HIDE DEF Fits
<1>13. Unfolds(after, F, n, Answering, after[0])
  <2>1. \A i \in 1..n : after[i - 1] \in Answering => after[i] = F[<<i, after[i - 1]>>]
    BY <1>5, <1>12
  <2>2. QED
    BY <1>2, <1>4, <1>11, <2>1, Unfolded
<1>14. after \in [0..n -> Answering]
  BY <1>13 DEF Unfolds
<1>15. QED
  BY <1>1, <1>11, <1>12, <1>14 DEF first

\* One more answer keeps the addresses within the message and in order.
LEMMA InOrderStep ==
  ASSUME NEW msg \in Seq(Nat), NEW p \in Nat, NEW a \in Answering, InOrder(msg, p, a)
  PROVE  LET s == Answer(msg, a)
         IN InOrder(msg, p, s) /\ Len(s.ips) <= Len(a.ips) + 1
<1> DEFINE s == Answer(msg, a)
<1>1. /\ s \in Answering
      /\ \/ s.at = a.at /\ s.ips = a.ips
         \/ /\ s.at >= a.at + 3 /\ s.at <= Len(msg)
            /\ \/ s.ips = a.ips
               \/ \E rd \in Nat : /\ rd >= a.at + 3 /\ s.at = rd + 2
                                  /\ s.ips = Append(a.ips, [from |-> rd, to |-> s.at])
  BY AnswerFacts
<1>2. a.at \in Nat /\ a.ips \in Seq([from : Nat, to : Nat]) /\ s.at \in Nat
      /\ Len(a.ips) \in Nat /\ Len(msg) \in Nat
  BY <1>1 DEF Answering
<1>3. \A i \in 1..Len(a.ips) : a.ips[i].from \in Nat /\ a.ips[i].to \in Nat
  BY <1>2, SpanType
<1> HIDE DEF s
<1>4. /\ a.at >= p
      /\ \A i \in 1..Len(a.ips) :
           /\ a.ips[i].to - a.ips[i].from = Address.len
           /\ a.ips[i].to <= Len(msg) /\ a.ips[i].to <= a.at
           /\ a.ips[i].from >= p + 3
           /\ \A j \in 1..i - 1 : a.ips[j].to < a.ips[i].from
  BY DEF InOrder
<1>5. CASE s.ips = a.ips /\ s.at >= a.at
  <2>1. s.at >= p /\ \A i \in 1..Len(a.ips) : a.ips[i].to <= s.at
    BY <1>2, <1>3, <1>4, <1>5
  <2>2. InOrder(msg, p, s)
    BY <1>4, <1>5, <2>1 DEF InOrder
  <2>3. QED
    BY <1>2, <1>5, <2>2 DEF s
<1>6. ASSUME NEW rd \in Nat, rd >= a.at + 3, s.at = rd + 2, s.at <= Len(msg),
             s.ips = Append(a.ips, [from |-> rd, to |-> s.at])
      PROVE  InOrder(msg, p, s) /\ Len(s.ips) <= Len(a.ips) + 1
  <2> DEFINE m == Len(a.ips) + 1
             new == [from |-> rd, to |-> s.at]
  <2>1. /\ Len(s.ips) = m /\ s.ips[m] = new
        /\ \A i \in 1..Len(a.ips) : s.ips[i] = a.ips[i]
    BY <1>2, <1>6
  <2>2. new.from = rd /\ new.to = s.at
    OBVIOUS
  <2> HIDE DEF new
  <2>0. rd >= a.at + 3 /\ s.at = rd + 2 /\ a.at \in Nat /\ s.at \in Nat
    BY <1>2, <1>6
  <2>3. s.at >= p /\ rd >= p + 3
    BY <1>2, <1>4, <1>6
  <2>4. ASSUME NEW i \in 1..m
        PROVE  /\ s.ips[i].to - s.ips[i].from = Address.len
               /\ s.ips[i].to <= Len(msg) /\ s.ips[i].to <= s.at
               /\ s.ips[i].from >= p + 3
               /\ \A j \in 1..i - 1 : s.ips[j].to < s.ips[i].from
    <3>1. CASE i = m
      <4>1. s.ips[i].from = rd /\ s.ips[i].to = s.at
        BY <2>1, <2>2, <3>1
      <4>2. s.at - rd = Address.len
        BY <1>6 DEF Address
      <4>3. ASSUME NEW j \in 1..i - 1 PROVE s.ips[j].to < rd
        <5>1. j \in 1..Len(a.ips)
          BY <1>2, <3>1
        <5>2. s.ips[j] = a.ips[j]
          BY <2>1, <5>1
        <5>3. a.ips[j].to <= a.at /\ a.ips[j].to \in Nat
          BY <1>3, <1>4, <5>1
        <5>4. a.ips[j].to < rd
          BY <2>0, <5>3
        <5>5. QED
          BY <5>2, <5>4
      <4>4. s.at <= s.at /\ s.at <= Len(msg)
        BY <1>2, <1>6
      <4>5. QED
        BY <2>3, <4>1, <4>2, <4>3, <4>4
    <3>2. CASE i # m
      <4>1. i \in 1..Len(a.ips) /\ s.ips[i] = a.ips[i]
        BY <1>2, <2>1, <3>2
      <4>2. \A j \in 1..i - 1 : s.ips[j] = a.ips[j]
        BY <1>2, <2>1, <4>1
      <4>3. a.ips[i].to <= s.at
        <5>1. a.ips[i].to <= a.at /\ a.ips[i].to \in Nat
          BY <1>3, <1>4, <4>1
        <5>2. QED
          BY <2>0, <5>1
      <4>4. QED
        BY <1>4, <4>1, <4>2, <4>3
    <3>3. QED
      BY <3>1, <3>2
  <2>5. InOrder(msg, p, s)
    BY <2>1, <2>3, <2>4 DEF InOrder
  <2>6. QED
    BY <1>2, <2>1, <2>5
<1>7. s.at >= a.at + 3 => s.at >= a.at
  BY <1>2
<1>8. CASE s.at = a.at /\ s.ips = a.ips
  <2>1. s.at >= a.at
    BY <1>2, <1>8
  <2>2. QED
    BY <1>5, <1>8, <2>1
<1>9. CASE s.at >= a.at + 3 /\ s.ips = a.ips
  BY <1>5, <1>7, <1>9
<1>10. InOrder(msg, p, s) /\ Len(s.ips) <= Len(a.ips) + 1
  <2>1. CASE s.ips # a.ips
    <3>1. PICK rd \in Nat : /\ rd >= a.at + 3 /\ s.at = rd + 2 /\ s.at <= Len(msg)
                            /\ s.ips = Append(a.ips, [from |-> rd, to |-> s.at])
      BY <1>1, <2>1
    <3>2. QED
      BY <1>6, <3>1
  <2>2. CASE s.ips = a.ips
    <3>1. s.at = a.at \/ s.at >= a.at + 3
      BY <1>1
    <3>2. QED
      BY <1>8, <1>9, <2>2, <3>1 DEF s
  <2>3. QED
    BY <2>1, <2>2
<1>11. QED
  BY <1>10 DEF s

\* The addresses taken lie one behind another within the message.
LEMMA AnswersInOrder ==
  ASSUME NEW msg \in Seq(Nat), NEW p \in Nat, NEW n \in Nat
  PROVE  LET ips == Answers(msg, p, n)
         IN /\ ips \in Seq([from : Nat, to : Nat]) /\ Len(ips) <= n
            /\ \A i \in 1..Len(ips) :
                 /\ ips[i].to - ips[i].from = Address.len
                 /\ ips[i].to <= Len(msg) /\ ips[i].from >= p + 3
                 /\ \A j \in 1..i - 1 : ips[j].to < ips[i].from
<1>1. PICK f \in [0..n -> Answering] :
        /\ f[0] = [going |-> TRUE, at |-> p, ips |-> <<>>]
        /\ \A i \in 1..n : f[i] = Answer(msg, f[i - 1])
        /\ Answers(msg, p, n) = f[n].ips
  BY AnswerSteps
<1> DEFINE P == {k \in 0..n : InOrder(msg, p, f[k]) /\ Len(f[k].ips) <= k}
<1>2. 0 \in P
  BY <1>1 DEF InOrder
<1>3. ASSUME NEW i \in 1..n, i - 1 \in P PROVE i \in P
  <2>1. f[i - 1] \in Answering /\ f[i] = Answer(msg, f[i - 1]) /\ f[i] \in Answering
    BY <1>1
  <2>2. InOrder(msg, p, f[i]) /\ Len(f[i].ips) <= Len(f[i - 1].ips) + 1
    BY <1>3, <2>1, InOrderStep
  <2>3. Len(f[i].ips) \in Nat /\ Len(f[i - 1].ips) \in Nat /\ Len(f[i - 1].ips) <= i - 1
    BY <1>3, <2>1 DEF Answering
  <2>4. Len(f[i].ips) <= i
    BY <2>2, <2>3
  <2>5. QED
    BY <2>2, <2>4
<1>4. n \in P
  <2> HIDE DEF P
  <2>1. 0..n \subseteq P
    BY <1>2, <1>3, Induction
  <2>2. QED
    BY <2>1
<1>5. f[n] \in Answering /\ InOrder(msg, p, f[n]) /\ Len(f[n].ips) <= n
  BY <1>1, <1>4
<1>6. QED
  BY <1>1, <1>5 DEF InOrder, Answering

\* The addresses of a reply lie within it, behind its questions.
LEMMA RepliesWithin == AnswersInside
<1>1. ASSUME NEW msg \in Layouts, NEW qr \in BOOLEAN, NEW qd \in 0..MaxClaimed,
             NEW an \in 0..MaxClaimed, ParseDNSReply(msg, qr, qd, an).ok
      PROVE  LET r == ParseDNSReply(msg, qr, qd, an)
             IN /\ qr /\ qd >= 1 /\ ReadName(msg, Header).ok
                /\ Len(r.ips) <= an
                /\ \A i \in DOMAIN r.ips :
                     /\ r.ips[i].to - r.ips[i].from = Address.len
                     /\ r.ips[i].to <= Len(msg)
                     /\ r.ips[i].from >= Header + 2 * qd + 3
                     /\ \A j \in 1..i - 1 : r.ips[j].to < r.ips[i].from
  <2>1. msg \in Seq(Nat) /\ qd \in Nat /\ an \in Nat
    BY WireAssumption
  <2> DEFINE asked == AfterQuestions(msg, qd)
             p == asked.next
             ips == Answers(msg, p, an)
  <2>0. Header \in Nat
    BY DEF Header
  <2>2. ~(Len(msg) < Header \/ ~qr \/ qd < 1 \/ ~asked.ok) /\ qr /\ qd >= 1 /\ asked.ok
    <3>1. ~(Len(msg) < Header \/ ~qr \/ qd < 1 \/ ~asked.ok)
      BY <1>1 DEF ParseDNSReply, No
    <3>2. QED
      BY <2>1, <3>1
  <2>3. ParseDNSReply(msg, qr, qd, an).ips = ips
    BY <2>1, <2>2 DEF ParseDNSReply
  <2>4. p \in Nat /\ p >= Header + 2 * qd /\ ReadName(msg, Header).ok
    BY <2>1, <2>2, QuestionsRead DEF Asking
  <2> HIDE DEF p
  <2>5. /\ ips \in Seq([from : Nat, to : Nat]) /\ Len(ips) <= an
        /\ \A i \in 1..Len(ips) :
             /\ ips[i].to - ips[i].from = Address.len
             /\ ips[i].to <= Len(msg) /\ ips[i].from >= p + 3
             /\ \A j \in 1..i - 1 : ips[j].to < ips[i].from
    BY <2>1, <2>4, AnswersInOrder
  <2> HIDE DEF ips
  <2>6. DOMAIN ips = 1..Len(ips) /\ \A i \in 1..Len(ips) : ips[i].from \in Nat
    BY <2>5, SpanType
  <2>7. \A i \in 1..Len(ips) : ips[i].from >= Header + 2 * qd + 3
    BY <2>0, <2>1, <2>4, <2>5, <2>6
  <2>8. QED
    BY <2>2, <2>3, <2>4, <2>5, <2>6, <2>7
<1>2. QED
  BY <1>1 DEF AnswersInside

-----------------------------------------------------------------------------
(* Sums, and the greatest and least of a set of numbers.                      *)

\* A function from 1..n is a sequence of length n.
LEMMA Sequence ==
  ASSUME NEW n \in Nat, NEW S, NEW c \in [1..n -> S]
  PROVE  c \in Seq(S) /\ Len(c) = n
OBVIOUS

\* A set of numbers up to n that is not empty has a greatest member.
LEMMA Greatest ==
  ASSUME NEW n \in Nat, NEW T, T \subseteq 0..n, T # {}
  PROVE  Max(T) \in T /\ \A x \in T : x <= Max(T)
<1> DEFINE U == {n - x : x \in T}
<1>0. \A x \in T : x \in Nat /\ n - x \in Nat
  <2> TAKE x \in T
  <2>1. x \in 0..n
    OBVIOUS
  <2>2. QED
    BY <2>1
<1>1. U \subseteq Nat /\ U # {}
  BY <1>0
<1>2. PICK u \in U : \A y \in U : u <= y
  BY <1>1, LeastNatural
<1>3. PICK x \in T : u = n - x
  BY <1>2
<1>4. \A y \in T : x >= y
  <2> TAKE y \in T
  <2>1. n - x <= n - y
    BY <1>2, <1>3
  <2>2. x \in Nat /\ y \in Nat
    BY <1>0
  <2>3. QED
    BY <2>1, <2>2
<1> HIDE DEF U
<1>5. Max(T) \in T /\ \A y \in T : Max(T) >= y
  BY <1>4 DEF Max
<1>6. Max(T) \in Nat
  BY <1>0, <1>5
<1>7. \A y \in T : y \in Nat /\ y <= Max(T)
  BY <1>5, <1>6
<1>8. QED
  BY <1>5, <1>7

\* A set of natural numbers that is not empty has a least member, its Min.
LEMMA Lowest ==
  ASSUME NEW T, T \subseteq Nat, T # {}
  PROVE  Min(T) \in T /\ \A x \in T : Min(T) <= x
<1>1. PICK u \in T : \A y \in T : u <= y
  BY LeastNatural
<1>2. QED
  BY <1>1 DEF Min

\* The sums of a sequence, by how many of its numbers.
LEMMA SumsFacts ==
  ASSUME NEW s \in Seq(Nat)
  PROVE  /\ Sums(s) \in [0..Len(s) -> Nat] /\ Sums(s)[0] = 0
         /\ \A i \in 1..Len(s) : Sums(s)[i] = Sums(s)[i - 1] + s[i]
<1> DEFINE n == Len(s)
           F == [z \in (1..n) \X Nat |-> z[2] + s[z[1]]]
           Fits(g) == g = [i \in 0..n |-> IF i = 0 THEN 0 ELSE g[i - 1] + s[i]]
           after == CHOOSE g : Fits(g)
<1>1. n \in Nat /\ \A i \in 1..n : s[i] \in Nat
  BY ElementOfSeq
<1>2. Sums(s) = after
  BY DEF Sums
<1> HIDE DEF n
<1>3. \A i \in 1..n : \A b \in Nat : b + s[i] \in Nat
  BY <1>1
<1>4. IsStep(F, n, Nat)
  BY <1>3 DEF IsStep
<1>5. ASSUME NEW i \in 1..n, NEW b \in Nat PROVE F[<<i, b>>] = b + s[i]
  OBVIOUS
<1> HIDE DEF F
<1>6. PICK f : Unfolds(f, F, n, Nat, 0)
  BY <1>1, <1>4, Recursion
<1>7. f \in [0..n -> Nat] /\ f[0] = 0 /\ \A i \in 1..n : f[i] = F[<<i, f[i - 1]>>]
  BY <1>6 DEF Unfolds
<1>8. ASSUME NEW i \in 1..n PROVE f[i] = f[i - 1] + s[i]
  <2>1. f[i - 1] \in Nat
    BY <1>1, <1>7
  <2>2. QED
    BY <1>5, <1>7, <2>1
<1>9. Fits(f)
  BY <1>1, <1>7, <1>8
<1>10. Fits(after)
  BY <1>9
<1> HIDE DEF after
<1>11. after[0] = 0 /\ after = [i \in 0..n |-> after[i]]
  BY <1>1, <1>10
<1>12. ASSUME NEW i \in 1..n PROVE after[i] = after[i - 1] + s[i]
  <2>1. i \in 0..n /\ i # 0
    BY <1>1
  <2>2. QED
    BY <1>10, <2>1
<1> HIDE DEF Fits
<1>13. Unfolds(after, F, n, Nat, after[0])
  <2>1. \A i \in 1..n : after[i - 1] \in Nat => after[i] = F[<<i, after[i - 1]>>]
    BY <1>5, <1>12
  <2>2. after[0] \in Nat
    BY <1>11
  <2>3. QED
    BY <1>1, <1>4, <1>11, <2>1, <2>2, Unfolded
<1>14. after \in [0..n -> Nat]
  BY <1>13 DEF Unfolds
<1>15. QED
  BY <1>2, <1>11, <1>12, <1>14 DEF n

\* More numbers have no lesser sum.
LEMMA SumsGrow ==
  ASSUME NEW s \in Seq(Nat), NEW i \in 0..Len(s), NEW j \in 0..Len(s), i <= j
  PROVE  Sums(s)[i] <= Sums(s)[j] /\ Sums(s)[i] \in Nat /\ Sums(s)[j] \in Nat
<1>1. /\ Sums(s) \in [0..Len(s) -> Nat]
      /\ \A k \in 1..Len(s) : Sums(s)[k] = Sums(s)[k - 1] + s[k]
  BY SumsFacts
<1>2. Len(s) \in Nat /\ \A k \in 1..Len(s) : s[k] \in Nat
  BY ElementOfSeq
<1> DEFINE S == Sums(s)
           n == Len(s)
           P == {k \in 0..n : i <= k => S[i] <= S[k]}
<1> HIDE DEF S
<1>3. \A k \in 0..n : S[k] \in Nat
  BY <1>1 DEF S
<1> HIDE DEF n
<1>4. 0 \in P
  <2>1. i <= 0 => i = 0
    OBVIOUS
  <2>2. 0 \in 0..n /\ i \in 0..n /\ S[i] \in Nat
    BY <1>2, <1>3 DEF n
  <2>3. QED
    BY <2>1, <2>2
<1>5. ASSUME NEW k \in 1..n, k - 1 \in P PROVE k \in P
  <2>1. S[k] = S[k - 1] + s[k] /\ s[k] \in Nat
    BY <1>1, <1>2 DEF S, n
  <2>2. k - 1 \in 0..n /\ k \in 0..n /\ i \in 0..n /\ n \in Nat
    BY <1>2 DEF n
  <2>3. S[k] \in Nat /\ S[k - 1] \in Nat /\ S[i] \in Nat
    BY <1>3, <2>2
  <2>4. ASSUME i <= k PROVE S[i] <= S[k]
    <3>1. CASE i = k
      BY <2>3, <3>1
    <3>2. CASE i # k
      <4>1. i <= k - 1
        BY <2>2, <2>4, <3>2
      <4>2. S[i] <= S[k - 1]
        BY <1>5, <4>1
      <4>3. QED
        BY <2>1, <2>3, <4>2
    <3>3. QED
      BY <3>1, <3>2
  <2>5. QED
    BY <2>2, <2>4
<1>6. 0..n \subseteq P
  <2> HIDE DEF P
  <2>1. n \in Nat
    BY <1>2 DEF n
  <2>2. QED
    BY <1>4, <1>5, <2>1, Induction
<1>7. QED
  BY <1>3, <1>6 DEF S, n

\* What of the messages lies within n bytes.
LEMMA WithinFacts ==
  ASSUME NEW msgs \in Seq(Nat), NEW n \in Nat
  PROVE  /\ Within(msgs, n) \in 0..Len(msgs) /\ Sums(msgs)[Within(msgs, n)] <= n
         /\ \A m \in 0..Len(msgs) : Sums(msgs)[m] <= n => m <= Within(msgs, n)
<1> DEFINE T == {m \in 0..Len(msgs) : Sums(msgs)[m] <= n}
<1>1. Len(msgs) \in Nat
  OBVIOUS
<1>2. 0 \in T
  BY <1>1, SumsFacts
<1>3. T \subseteq 0..Len(msgs) /\ T # {}
  BY <1>2
<1>4. Within(msgs, n) = Max(T)
  BY DEF Within
<1> HIDE DEF T
<1>5. Max(T) \in T /\ \A x \in T : x <= Max(T)
  BY <1>1, <1>3, Greatest
<1>6. QED
  BY <1>4, <1>5 DEF T

\* Of more bytes no fewer messages lie within.
LEMMA WithinGrows ==
  ASSUME NEW msgs \in Seq(Nat), NEW a \in Nat, NEW b \in Nat, a <= b
  PROVE  Within(msgs, a) <= Within(msgs, b)
<1> DEFINE w == Within(msgs, a)
<1>1. w \in 0..Len(msgs) /\ Sums(msgs)[w] <= a
  BY WithinFacts
<1> HIDE DEF w
<1>2. Sums(msgs)[w] \in Nat
  BY <1>1, SumsFacts
<1>3. Sums(msgs)[w] <= b
  BY <1>1, <1>2
<1>4. QED
  BY <1>1, <1>3, WithinFacts DEF w

-----------------------------------------------------------------------------
(* Streams of records.  A reassembler that goes on has taken the records that *)
(* lie whole within what it was fed, and returned their messages; one that    *)
(* has stopped, no more than that, and less only for its caps.                *)

Record == [hs : BOOLEAN, len : Nat]

\* The lengths of the records of a stream are numbers.
LEMMA StreamFacts ==
  ASSUME NEW stream \in Seq(Record)
  PROVE  /\ Len(stream) \in Nat
         /\ Sizes(stream) \in Seq(Nat) /\ Len(Sizes(stream)) = Len(stream)
         /\ Fragments(stream) \in Seq(Nat) /\ Len(Fragments(stream)) = Len(stream)
         /\ \A i \in 1..Len(stream) : stream[i].hs \in BOOLEAN /\ stream[i].len \in Nat
<1>1. Len(stream) \in Nat
  OBVIOUS
<1>2. ASSUME NEW i \in 1..Len(stream) PROVE stream[i].hs \in BOOLEAN /\ stream[i].len \in Nat
  <2>1. stream[i] \in Record
    BY ElementOfSeq
  <2>2. QED
    BY <2>1 DEF Record
<1>3. Sizes(stream) \in [1..Len(stream) -> Nat]
  BY <1>2 DEF Sizes
<1>4. Fragments(stream) \in [1..Len(stream) -> Nat]
  <2>1. \A i \in 1..Len(stream) : (IF stream[i].hs THEN stream[i].len ELSE 0) \in Nat
    BY <1>2
  <2>2. QED
    BY <2>1 DEF Fragments
<1>5. QED
  BY <1>1, <1>2, <1>3, <1>4, Sequence

\* Where the records of a stream end.
LEMMA EndFacts ==
  ASSUME NEW stream \in Seq(Record)
  PROVE  /\ RecEnd(stream, 0) = 0 /\ HsEnd(stream, 0) = 0
         /\ \A i \in 0..Len(stream) : RecEnd(stream, i) \in Nat /\ HsEnd(stream, i) \in Nat
         /\ \A i \in 1..Len(stream) :
              /\ RecEnd(stream, i) = RecEnd(stream, i - 1) + stream[i].len + 5
              /\ HsEnd(stream, i) = HsEnd(stream, i - 1) +
                                     (IF stream[i].hs THEN stream[i].len ELSE 0)
<1>1. /\ Sizes(stream) \in Seq(Nat) /\ Len(Sizes(stream)) = Len(stream)
      /\ Fragments(stream) \in Seq(Nat) /\ Len(Fragments(stream)) = Len(stream)
      /\ Len(stream) \in Nat
  BY StreamFacts
<1>2. /\ Sums(Sizes(stream)) \in [0..Len(stream) -> Nat] /\ Sums(Sizes(stream))[0] = 0
      /\ \A i \in 1..Len(stream) :
           Sums(Sizes(stream))[i] = Sums(Sizes(stream))[i - 1] + Sizes(stream)[i]
  BY <1>1, SumsFacts
<1>3. /\ Sums(Fragments(stream)) \in [0..Len(stream) -> Nat]
      /\ Sums(Fragments(stream))[0] = 0
      /\ \A i \in 1..Len(stream) :
           Sums(Fragments(stream))[i] = Sums(Fragments(stream))[i - 1] + Fragments(stream)[i]
  BY <1>1, SumsFacts
<1>4. ASSUME NEW i \in 1..Len(stream)
      PROVE  /\ RecEnd(stream, i) = RecEnd(stream, i - 1) + stream[i].len + 5
             /\ HsEnd(stream, i) = HsEnd(stream, i - 1) +
                                    (IF stream[i].hs THEN stream[i].len ELSE 0)
  <2>1. /\ Sizes(stream)[i] = stream[i].len + 5
        /\ Fragments(stream)[i] = IF stream[i].hs THEN stream[i].len ELSE 0
    BY DEF Sizes, Fragments
  <2>2. RecEnd(stream, i) = RecEnd(stream, i - 1) + (stream[i].len + 5)
    BY <1>2, <2>1 DEF RecEnd
  <2>3. RecEnd(stream, i - 1) \in Nat /\ stream[i].len \in Nat
    <3>1. i - 1 \in 0..Len(stream)
      BY <1>1
    <3>2. QED
      BY <1>2, <3>1, StreamFacts DEF RecEnd
  <2>4. RecEnd(stream, i) = RecEnd(stream, i - 1) + stream[i].len + 5
    BY <2>2, <2>3
  <2>5. QED
    BY <1>3, <2>1, <2>4 DEF HsEnd
<1>5. QED
  BY <1>2, <1>3, <1>4 DEF RecEnd, HsEnd

\* A later record ends no earlier.
LEMMA EndsGrow ==
  ASSUME NEW stream \in Seq(Record), NEW i \in 0..Len(stream), NEW j \in 0..Len(stream),
         i <= j
  PROVE  RecEnd(stream, i) <= RecEnd(stream, j) /\ HsEnd(stream, i) <= HsEnd(stream, j)
<1>1. /\ Sizes(stream) \in Seq(Nat) /\ Len(Sizes(stream)) = Len(stream)
      /\ Fragments(stream) \in Seq(Nat) /\ Len(Fragments(stream)) = Len(stream)
  BY StreamFacts
<1>2. QED
  BY <1>1, SumsGrow DEF RecEnd, HsEnd

\* The handshake is no longer than the stream.
LEMMA HandshakeWithin ==
  ASSUME NEW stream \in Seq(Record)
  PROVE  \A i \in 0..Len(stream) : HsEnd(stream, i) <= RecEnd(stream, i)
<1> DEFINE n == Len(stream)
           P == {i \in 0..n : HsEnd(stream, i) <= RecEnd(stream, i)}
<1>1. n \in Nat
  OBVIOUS
<1>2. 0 \in P
  BY <1>1, EndFacts
<1>3. ASSUME NEW i \in 1..n, i - 1 \in P PROVE i \in P
  <2>1. stream[i].hs \in BOOLEAN /\ stream[i].len \in Nat
    BY StreamFacts
  <2>2. /\ RecEnd(stream, i) = RecEnd(stream, i - 1) + stream[i].len + 5
        /\ HsEnd(stream, i) = HsEnd(stream, i - 1) +
                               (IF stream[i].hs THEN stream[i].len ELSE 0)
        /\ RecEnd(stream, i - 1) \in Nat /\ HsEnd(stream, i - 1) \in Nat
    BY <1>1, EndFacts
  <2>3. HsEnd(stream, i - 1) <= RecEnd(stream, i - 1) /\ i \in 0..n
    BY <1>3
  <2>4. (IF stream[i].hs THEN stream[i].len ELSE 0) <= stream[i].len
        /\ (IF stream[i].hs THEN stream[i].len ELSE 0) \in Nat
    BY <2>1
  <2>5. HsEnd(stream, i) <= RecEnd(stream, i)
    BY <2>1, <2>2, <2>3, <2>4
  <2>6. QED
    BY <2>3, <2>5
<1>4. 0..n \subseteq P
  <2> HIDE DEF P
  <2>1. QED
    BY <1>1, <1>2, <1>3, Induction
<1>5. QED
  BY <1>4

\* What is readable of a stream is handshake, and stops where it is not.
LEMMA ReadableFacts ==
  ASSUME NEW stream \in Seq(Record)
  PROVE  LET d == Readable(stream)
         IN /\ d \in 0..Len(stream)
            /\ \A i \in 1..d : stream[i].hs /\ stream[i].len # 0
            /\ d # Len(stream) => ~stream[d + 1].hs \/ stream[d + 1].len = 0
<1> DEFINE stops == {i \in 1..Len(stream) : ~stream[i].hs \/ stream[i].len = 0}
           d == Readable(stream)
<1>1. Len(stream) \in Nat
  OBVIOUS
<1>2. d = IF stops = {} THEN Len(stream) ELSE Min(stops) - 1
  BY DEF Readable
<1>3. CASE stops = {}
  <2>1. d = Len(stream)
    BY <1>2, <1>3
  <2>2. \A i \in 1..Len(stream) : stream[i].hs /\ stream[i].len # 0
    BY <1>3
  <2> HIDE DEF d
  <2>3. QED
    BY <1>1, <2>1, <2>2 DEF d
<1>4. CASE stops # {}
  <2> DEFINE m == Min(stops)
  <2>1. stops \subseteq Nat
    BY <1>1
  <2>2. m \in stops /\ \A x \in stops : m <= x
    BY <1>4, <2>1, Lowest
  <2>3. d = m - 1
    BY <1>2, <1>4
  <2> HIDE DEF m
  <2>4. m \in 1..Len(stream) /\ (~stream[m].hs \/ stream[m].len = 0)
    BY <2>2
  <2> HIDE DEF d
  <2>5. d \in 0..Len(stream) /\ d + 1 = m
    BY <1>1, <2>3, <2>4
  <2>6. ASSUME NEW i \in 1..d PROVE stream[i].hs /\ stream[i].len # 0
    <3>1. i \in 1..Len(stream) /\ ~(m <= i)
      BY <1>1, <2>4, <2>5
    <3>2. i \notin stops
      BY <2>2, <3>1
    <3>3. QED
      BY <3>1, <3>2
  <2>7. QED
    BY <2>4, <2>5, <2>6 DEF d
<1>5. QED
  BY <1>3, <1>4

\* The records that lie whole within n bytes.
LEMMA WholeFacts ==
  ASSUME NEW stream \in Seq(Record), NEW n \in Nat
  PROVE  LET w == Whole(stream, n)
         IN /\ w \in 0..Readable(stream) /\ w \in 0..Len(stream)
            /\ RecEnd(stream, w) <= n
            /\ \A i \in 0..Readable(stream) : RecEnd(stream, i) <= n => i <= w
<1> DEFINE d == Readable(stream)
           T == {i \in 0..d : RecEnd(stream, i) <= n}
<1>1. d \in 0..Len(stream) /\ Len(stream) \in Nat
  BY ReadableFacts
<1> HIDE DEF d
<1>2. 0 \in T
  BY <1>1, EndFacts
<1>3. T \subseteq 0..d /\ T # {} /\ d \in Nat
  BY <1>1, <1>2
<1>4. Whole(stream, n) = Max(T)
  BY DEF Whole, d
<1> HIDE DEF T
<1>5. Max(T) \in T /\ \A x \in T : x <= Max(T)
  BY <1>3, Greatest
<1> DEFINE w == Max(T)
<1>6. /\ w \in 0..d /\ RecEnd(stream, w) <= n
      /\ \A i \in 0..d : RecEnd(stream, i) <= n => i <= w
  BY <1>5 DEF T
<1> HIDE DEF w
<1>7. w \in 0..Len(stream)
  BY <1>1, <1>6
<1>8. QED
  BY <1>4, <1>6, <1>7 DEF w, d

\* Of more bytes no fewer records lie within.
LEMMA WholeGrows ==
  ASSUME NEW stream \in Seq(Record), NEW a \in Nat, NEW b \in Nat, a <= b
  PROVE  Whole(stream, a) <= Whole(stream, b)
<1> DEFINE w == Whole(stream, a)
<1>1. w \in 0..Readable(stream) /\ w \in 0..Len(stream) /\ RecEnd(stream, w) <= a
  BY WholeFacts
<1> HIDE DEF w
<1>2. RecEnd(stream, w) \in Nat
  BY <1>1, EndFacts
<1>3. RecEnd(stream, w) <= b
  BY <1>1, <1>2
<1>4. QED
  BY <1>1, <1>3, WholeFacts DEF w

\* More bytes owe no fewer messages.
LEMMA DueGrows ==
  ASSUME NEW stream \in Seq(Record), NEW msgs \in Seq(Nat),
         NEW a \in Nat, NEW b \in Nat, a <= b
  PROVE  /\ Due(stream, msgs, a) <= Due(stream, msgs, b)
         /\ Due(stream, msgs, a) \in 0..Len(msgs) /\ Due(stream, msgs, b) \in 0..Len(msgs)
<1> DEFINE v == Whole(stream, a)
           w == Whole(stream, b)
<1>1. v <= w /\ v \in 0..Len(stream) /\ w \in 0..Len(stream)
  BY WholeGrows, WholeFacts
<1>2. Due(stream, msgs, a) = Within(msgs, HsEnd(stream, v))
      /\ Due(stream, msgs, b) = Within(msgs, HsEnd(stream, w))
  BY DEF Due
<1> HIDE DEF v, w
<1>3. /\ HsEnd(stream, v) <= HsEnd(stream, w)
      /\ HsEnd(stream, v) \in Nat /\ HsEnd(stream, w) \in Nat
  BY <1>1, EndsGrow, EndFacts
<1>4. QED
  BY <1>2, <1>3, WithinGrows, WithinFacts

\* The states of a reassembler in a stream.
InStream(stream, msgs) ==
  [fed : Nat, recs : 0..Len(stream), msgs : 0..Len(msgs), done : BOOLEAN]

\* A reassembler between two records: it goes on with its buffer within the cap,
\* or has stopped behind the handshake or because of the cap.
Between(stream, msgs, r) ==
  /\ RecEnd(stream, r.recs) <= r.fed
  /\ ~r.done => r.recs <= Readable(stream) /\ HsBuf(stream, msgs, r) <= MaxBuffer
  /\ r.done => \/ r.recs = Readable(stream) + 1 /\ ~stream[r.recs].hs
               \/ r.recs <= Readable(stream) /\ HsBuf(stream, msgs, r) > MaxBuffer

\* A turn of the loop that splits records keeps the state well typed.
LEMMA SplitOneType ==
  ASSUME NEW stream \in Seq(Record), NEW msgs, NEW r \in InStream(stream, msgs)
  PROVE  LET s == SplitOne(stream, msgs, r)
             new == [r EXCEPT !.recs = @ + 1]
         IN /\ s \in InStream(stream, msgs)
            /\ s.fed = r.fed /\ s.msgs = r.msgs
            /\ \/ s = r /\ (\/ r.done \/ r.recs = Len(stream)
                            \/ stream[r.recs + 1].len = 0
                            \/ RecEnd(stream, r.recs + 1) > r.fed)
               \/ /\ ~r.done /\ r.recs # Len(stream) /\ stream[r.recs + 1].len # 0
                  /\ ~(RecEnd(stream, r.recs + 1) > r.fed)
                  /\ s.recs = r.recs + 1 /\ s.recs \in 1..Len(stream)
                  /\ s.done <=> ~stream[s.recs].hs \/ HsBuf(stream, msgs, s) > MaxBuffer
<1> DEFINE s == SplitOne(stream, msgs, r)
           new == [r EXCEPT !.recs = @ + 1]
           stop == ~stream[new.recs].hs \/ HsBuf(stream, msgs, new) > MaxBuffer
<1>1. /\ r.fed \in Nat /\ r.recs \in 0..Len(stream) /\ r.msgs \in 0..Len(msgs)
      /\ r.done \in BOOLEAN /\ Len(stream) \in Nat
  BY DEF InStream
<1>2. /\ new.recs = r.recs + 1 /\ new.msgs = r.msgs /\ new.fed = r.fed
  BY DEF InStream
<1>3. s = IF r.done \/ r.recs = Len(stream) THEN r
          ELSE IF stream[new.recs].len = 0 \/ RecEnd(stream, new.recs) > r.fed THEN r
          ELSE [new EXCEPT !.done = stop]
  BY DEF SplitOne
<1>4. CASE \/ r.done \/ r.recs = Len(stream) \/ stream[r.recs + 1].len = 0
           \/ RecEnd(stream, r.recs + 1) > r.fed
  <2>1. s = r
    BY <1>2, <1>3, <1>4
  <2> HIDE DEF s
  <2>2. QED
    BY <1>4, <2>1 DEF s
<1>5. CASE ~(\/ r.done \/ r.recs = Len(stream) \/ stream[r.recs + 1].len = 0
             \/ RecEnd(stream, r.recs + 1) > r.fed)
  <2>1. s = [new EXCEPT !.done = stop]
    BY <1>2, <1>3, <1>5
  <2>2. stop \in BOOLEAN
    OBVIOUS
  <2>3. r.recs + 1 \in 1..Len(stream) /\ r.recs + 1 \in 0..Len(stream)
    BY <1>1, <1>5
  <2> HIDE DEF stop, s
  <2>4. s = [fed |-> r.fed, recs |-> r.recs + 1, msgs |-> r.msgs, done |-> stop]
    BY <1>1, <2>1 DEF InStream
  <2>5. /\ s.fed = r.fed /\ s.recs = r.recs + 1 /\ s.msgs = r.msgs /\ s.done = stop
    BY <2>4
  <2>6. s \in InStream(stream, msgs)
    BY <1>1, <2>2, <2>3, <2>4 DEF InStream
  <2>7. HsBuf(stream, msgs, s) = HsBuf(stream, msgs, new)
    BY <1>2, <2>5 DEF HsBuf
  <2>8. s.done <=> ~stream[s.recs].hs \/ HsBuf(stream, msgs, s) > MaxBuffer
    <3>1. stop <=> ~stream[new.recs].hs \/ HsBuf(stream, msgs, new) > MaxBuffer
      BY DEF stop
    <3>2. QED
      BY <1>2, <2>5, <2>7, <3>1
  <2>9. QED
    BY <1>5, <2>3, <2>5, <2>6, <2>8 DEF s
<1>6. QED
  BY <1>4, <1>5

\* Taking a record of the handshake, or the first of another type.
LEMMA SplitOneKeeps ==
  ASSUME NEW stream \in Seq(Record), NEW msgs \in Seq(Nat),
         NEW r \in InStream(stream, msgs), Between(stream, msgs, r)
  PROVE  LET s == SplitOne(stream, msgs, r)
         IN /\ Between(stream, msgs, s)
            /\ ~s.done => s.recs = r.recs + 1 \/ s.recs = Whole(stream, r.fed)
<1> DEFINE s == SplitOne(stream, msgs, r)
           d == Readable(stream)
           w == Whole(stream, r.fed)
           hb == HsBuf(stream, msgs, s)
<1>1. /\ s \in InStream(stream, msgs) /\ s.fed = r.fed /\ s.msgs = r.msgs
      /\ \/ s = r /\ (\/ r.done \/ r.recs = Len(stream)
                      \/ stream[r.recs + 1].len = 0
                      \/ RecEnd(stream, r.recs + 1) > r.fed)
         \/ /\ ~r.done /\ r.recs # Len(stream) /\ stream[r.recs + 1].len # 0
            /\ ~(RecEnd(stream, r.recs + 1) > r.fed)
            /\ s.recs = r.recs + 1 /\ s.recs \in 1..Len(stream)
            /\ s.done <=> ~stream[s.recs].hs \/ hb > MaxBuffer
  BY SplitOneType
<1>2. /\ r.fed \in Nat /\ r.recs \in 0..Len(stream) /\ r.done \in BOOLEAN
      /\ Len(stream) \in Nat /\ MaxBuffer \in Nat
  BY WireAssumption DEF InStream
<1>3. /\ d \in 0..Len(stream)
      /\ \A i \in 1..d : stream[i].hs /\ stream[i].len # 0
      /\ d # Len(stream) => ~stream[d + 1].hs \/ stream[d + 1].len = 0
  BY ReadableFacts
<1>4. /\ w \in 0..d /\ RecEnd(stream, w) <= r.fed
      /\ \A i \in 0..d : RecEnd(stream, i) <= r.fed => i <= w
  BY <1>2, WholeFacts
<1>5. \A i \in 0..Len(stream) : RecEnd(stream, i) \in Nat /\ HsEnd(stream, i) \in Nat
  BY EndFacts
<1>6. hb \in Int
  <2>1. s.recs \in 0..Len(stream) /\ s.msgs \in 0..Len(msgs)
    BY <1>1 DEF InStream
  <2>2. Sums(msgs)[s.msgs] \in Nat
    BY <2>1, SumsFacts
  <2>3. QED
    BY <1>5, <2>1, <2>2 DEF HsBuf
<1>7. /\ RecEnd(stream, r.recs) <= r.fed
      /\ ~r.done => r.recs <= d
  BY DEF Between
<1> HIDE DEF s, d, w, hb
<1>8. CASE s = r /\ (\/ r.done \/ r.recs = Len(stream) \/ stream[r.recs + 1].len = 0
                     \/ RecEnd(stream, r.recs + 1) > r.fed)
  <2>1. ASSUME ~r.done PROVE r.recs = w
    <3>1. r.recs <= w /\ r.recs \in 0..d
      BY <1>2, <1>3, <1>4, <1>7, <2>1
    <3>2. SUFFICES ASSUME r.recs # w PROVE FALSE
      OBVIOUS
    <3>3. r.recs + 1 \in 1..d /\ r.recs + 1 \in 0..Len(stream) /\ r.recs + 1 <= w
          /\ w \in 0..Len(stream) /\ r.recs # Len(stream)
      BY <1>2, <1>3, <1>4, <3>1, <3>2
    <3>4. stream[r.recs + 1].len # 0
      BY <1>3, <3>3
    <3>5. RecEnd(stream, r.recs + 1) <= RecEnd(stream, w)
      BY <3>3, EndsGrow
    <3>6. ~(RecEnd(stream, r.recs + 1) > r.fed)
      BY <1>2, <1>4, <1>5, <3>3, <3>5
    <3>7. QED
      BY <1>8, <2>1, <3>3, <3>4, <3>6
  <2>2. QED
    BY <1>8, <2>1 DEF s, w
<1>9. CASE /\ ~r.done /\ r.recs # Len(stream) /\ stream[r.recs + 1].len # 0
           /\ ~(RecEnd(stream, r.recs + 1) > r.fed)
           /\ s.recs = r.recs + 1 /\ s.recs \in 1..Len(stream)
           /\ s.done <=> ~stream[s.recs].hs \/ hb > MaxBuffer
  <2>1. RecEnd(stream, s.recs) <= s.fed
    <3>1. RecEnd(stream, r.recs + 1) \in Nat
      BY <1>5, <1>9
    <3>2. QED
      BY <1>1, <1>2, <1>9, <3>1
  <2>2. r.recs <= d
    BY <1>7, <1>9
  <2>3. CASE s.recs <= d
    <3>1. stream[s.recs].hs
      BY <1>2, <1>3, <1>9, <2>3
    <3>2. s.done <=> hb > MaxBuffer
      BY <1>9, <3>1
    <3>3. ~s.done => hb <= MaxBuffer
      BY <1>2, <1>6, <3>2
    <3>4. Between(stream, msgs, s)
      BY <2>1, <2>3, <3>2, <3>3 DEF Between, hb, d
    <3>5. QED
      BY <1>9, <3>4 DEF s
  <2>4. CASE ~(s.recs <= d)
    <3>1. s.recs = d + 1 /\ d # Len(stream)
      BY <1>2, <1>3, <1>9, <2>2, <2>4
    <3>2. ~stream[s.recs].hs
      BY <1>3, <1>9, <3>1
    <3>3. s.done
      BY <1>9, <3>2
    <3>4. Between(stream, msgs, s)
      BY <2>1, <3>1, <3>2, <3>3 DEF Between, d
    <3>5. QED
      BY <3>3, <3>4 DEF s
  <2>5. QED
    BY <2>3, <2>4
<1>10. QED
  BY <1>1, <1>8, <1>9

\* The splitting of records, by the number of turns.
LEMMA SplitSteps ==
  ASSUME NEW stream \in Seq(Record), NEW msgs, NEW r \in InStream(stream, msgs)
  PROVE  LET n == Len(stream)
         IN \E f \in [0..n -> InStream(stream, msgs)] :
              /\ f[0] = r
              /\ \A i \in 1..n : f[i] = SplitOne(stream, msgs, f[i - 1])
              /\ Split(stream, msgs, r) = f[n]
<1> DEFINE n == Len(stream)
           S == InStream(stream, msgs)
           F == [z \in (1..n) \X S |-> SplitOne(stream, msgs, z[2])]
           Fits(g) == g = [i \in 0..n |-> IF i = 0 THEN r
                                          ELSE SplitOne(stream, msgs, g[i - 1])]
           after == CHOOSE g : Fits(g)
<1>1. Split(stream, msgs, r) = after[n]
  BY DEF Split
<1>2. n \in Nat /\ r \in S
  OBVIOUS
<1>3. \A b \in S : SplitOne(stream, msgs, b) \in S
  BY SplitOneType
<1> HIDE DEF n, S
<1>4. IsStep(F, n, S)
  BY <1>3 DEF IsStep
<1>5. ASSUME NEW i \in 1..n, NEW b \in S PROVE F[<<i, b>>] = SplitOne(stream, msgs, b)
  OBVIOUS
<1> HIDE DEF F
<1>6. PICK f : Unfolds(f, F, n, S, r)
  BY <1>2, <1>4, Recursion
<1>7. f \in [0..n -> S] /\ f[0] = r /\ \A i \in 1..n : f[i] = F[<<i, f[i - 1]>>]
  BY <1>6 DEF Unfolds
<1>8. ASSUME NEW i \in 1..n PROVE f[i] = SplitOne(stream, msgs, f[i - 1])
  <2>1. f[i - 1] \in S
    BY <1>2, <1>7
  <2>2. QED
    BY <1>5, <1>7, <2>1
<1>9. Fits(f)
  BY <1>2, <1>7, <1>8
<1>10. Fits(after)
  BY <1>9
<1> HIDE DEF after
<1>11. after[0] = r /\ after = [i \in 0..n |-> after[i]]
  BY <1>2, <1>10
<1>12. ASSUME NEW i \in 1..n PROVE after[i] = SplitOne(stream, msgs, after[i - 1])
  <2>1. i \in 0..n /\ i # 0
    BY <1>2
  <2>2. QED
    BY <1>10, <2>1
<1> HIDE DEF Fits
<1>13. Unfolds(after, F, n, S, after[0])
  <2>1. \A i \in 1..n : after[i - 1] \in S => after[i] = F[<<i, after[i - 1]>>]
    BY <1>5, <1>12
  <2>2. QED
    BY <1>2, <1>4, <1>11, <2>1, Unfolded
<1>14. after \in [0..n -> S]
  BY <1>13 DEF Unfolds
<1>15. QED
  BY <1>1, <1>11, <1>12, <1>14 DEF n, S

\* All the records are taken that are whole, unless it stops.
LEMMA SplitFacts ==
  ASSUME NEW stream \in Seq(Record), NEW msgs \in Seq(Nat),
         NEW r \in InStream(stream, msgs), Between(stream, msgs, r)
  PROVE  LET s == Split(stream, msgs, r)
         IN /\ s \in InStream(stream, msgs) /\ s.fed = r.fed /\ s.msgs = r.msgs
            /\ s.recs >= r.recs /\ Between(stream, msgs, s)
            /\ ~s.done => s.recs = Whole(stream, r.fed)
<1> DEFINE n == Len(stream)
           w == Whole(stream, r.fed)
<1>1. PICK f \in [0..n -> InStream(stream, msgs)] :
        /\ f[0] = r
        /\ \A i \in 1..n : f[i] = SplitOne(stream, msgs, f[i - 1])
        /\ Split(stream, msgs, r) = f[n]
  BY SplitSteps
<1> DEFINE Good(k, s) == /\ s.fed = r.fed /\ s.msgs = r.msgs /\ s.recs >= r.recs
                         /\ Between(stream, msgs, s)
                         /\ ~s.done => s.recs >= k \/ s.recs = w
           P == {k \in 0..n : Good(k, f[k])}
<1>2. n \in Nat /\ r.recs \in 0..n /\ r.fed \in Nat
  BY DEF InStream
<1>3. 0 \in P
  <2>1. r.recs >= r.recs /\ r.recs >= 0
    BY <1>2
  <2>2. QED
    BY <1>1, <1>2, <2>1
<1>4. ASSUME NEW i \in 1..n, i - 1 \in P PROVE i \in P
  <2> DEFINE a == f[i - 1]
             s == f[i]
  <2>1. a \in InStream(stream, msgs) /\ s = SplitOne(stream, msgs, a)
    BY <1>1
  <2>2. Good(i - 1, a)
    BY <1>4
  <2> HIDE DEF a, s
  <2>3. /\ s \in InStream(stream, msgs) /\ s.fed = a.fed /\ s.msgs = a.msgs
        /\ s.recs = a.recs \/ s.recs = a.recs + 1
    BY <2>1, SplitOneType
  <2>4. /\ Between(stream, msgs, s)
        /\ ~s.done => s.recs = a.recs + 1 \/ s.recs = Whole(stream, a.fed)
    BY <2>1, <2>2, SplitOneKeeps
  <2>5. a.recs \in Nat /\ s.recs \in Nat /\ i \in Nat /\ i \in 0..n
    BY <1>2, <2>1, <2>3 DEF InStream
  <2>6. s.recs >= r.recs
    BY <1>2, <2>2, <2>3, <2>5
  <2>7. ASSUME ~s.done PROVE s.recs >= i \/ s.recs = w
    <3>1. CASE s.recs = w
      BY <3>1
    <3>2. CASE s.recs # w
      <4>1. s.recs = a.recs + 1
        BY <2>2, <2>4, <2>7, <3>2
      <4>2. ~a.done
        <5>1. a.done => s = a
          BY <2>1 DEF SplitOne
        <5>2. QED
          BY <2>7, <5>1
      <4>3. CASE a.recs >= i - 1
        BY <2>5, <4>1, <4>3
      <4>4. CASE a.recs = w
        <5>1. s.recs \in 0..Readable(stream)
          <6>1. s.recs <= Readable(stream)
            BY <2>4, <2>7 DEF Between
          <6>2. Readable(stream) \in Nat
            BY <1>2, ReadableFacts
          <6>3. QED
            BY <2>5, <6>1, <6>2
        <5>2. RecEnd(stream, s.recs) <= r.fed
          BY <2>2, <2>3, <2>4 DEF Between
        <5>3. s.recs <= w
          BY <1>2, <5>1, <5>2, WholeFacts
        <5>4. QED
          BY <2>5, <4>1, <4>4, <5>3
      <4>5. QED
        BY <2>2, <4>2, <4>3, <4>4
    <3>3. QED
      BY <3>1, <3>2
  <2>8. Good(i, s)
    BY <2>2, <2>3, <2>4, <2>6, <2>7
  <2>9. QED
    BY <2>5, <2>8 DEF s
<1>5. n \in P
  <2> HIDE DEF P
  <2>1. 0..n \subseteq P
    BY <1>2, <1>3, <1>4, Induction
  <2>2. QED
    BY <1>2, <2>1
<1> DEFINE s == f[n]
<1>6. Good(n, s) /\ s \in InStream(stream, msgs)
  BY <1>1, <1>2, <1>5
<1> HIDE DEF s
<1>7. ASSUME ~s.done PROVE s.recs = w
  <2>1. s.recs \in 0..n
    BY <1>6 DEF InStream
  <2>2. s.recs <= Readable(stream) /\ RecEnd(stream, s.recs) <= r.fed
    BY <1>6, <1>7 DEF Between
  <2>3. Readable(stream) \in 0..n
    BY ReadableFacts
  <2>4. s.recs \in 0..Readable(stream)
    BY <1>2, <2>1, <2>2, <2>3
  <2>5. s.recs <= w /\ w \in 0..n
    BY <1>2, <2>2, <2>4, WholeFacts
  <2>6. s.recs >= n \/ s.recs = w
    BY <1>6, <1>7
  <2> HIDE DEF w
  <2>7. QED
    BY <1>2, <2>1, <2>5, <2>6
<1>8. QED
  BY <1>1, <1>6, <1>7 DEF s

\* What a reassembler holds that was fed the first n bytes.
Kept(stream, msgs, n, r) ==
  /\ r \in InStream(stream, msgs)
  /\ ~r.done => /\ r.fed = n /\ r.recs = Whole(stream, n)
                /\ r.msgs = Due(stream, msgs, n)
                /\ RecBuf(stream, r) <= MaxBuffer /\ HsBuf(stream, msgs, r) <= MaxBuffer
  /\ r.done => /\ r.msgs <= Due(stream, msgs, n)
               /\ Size(stream) <= MaxBuffer =>
                    /\ Whole(stream, n) = Readable(stream)
                    /\ r.msgs = Due(stream, msgs, n)

\* A fresh reassembler has taken what nothing owes it.
LEMMA FreshKept ==
  ASSUME NEW stream \in Seq(Record), NEW msgs \in Seq(Nat \ {0})
  PROVE  Kept(stream, msgs, 0, Fresh)
<1>0. msgs \in Seq(Nat)
  OBVIOUS
<1>1. /\ Len(stream) \in Nat /\ Len(msgs) \in Nat /\ MaxBuffer \in Nat
      /\ RecEnd(stream, 0) = 0 /\ HsEnd(stream, 0) = 0 /\ Sums(msgs)[0] = 0
  BY <1>0, WireAssumption, EndFacts, SumsFacts
<1>2. Fresh \in InStream(stream, msgs)
  BY <1>1 DEF Fresh, InStream
<1>3. RecBuf(stream, Fresh) = 0 /\ HsBuf(stream, msgs, Fresh) = 0
  BY <1>1 DEF Fresh, RecBuf, HsBuf
<1> DEFINE w == Whole(stream, 0)
<1>4. /\ w \in 0..Len(stream) /\ RecEnd(stream, w) <= 0 /\ w \in 0..Readable(stream)
  BY WholeFacts
<1> HIDE DEF w
<1>5. w = 0
  <2>1. SUFFICES ASSUME w # 0 PROVE FALSE
    OBVIOUS
  <2>2. w \in 1..Len(stream) /\ w - 1 \in 0..Len(stream)
    BY <1>1, <1>4, <2>1
  <2>3. RecEnd(stream, w) = RecEnd(stream, w - 1) + stream[w].len + 5
        /\ RecEnd(stream, w - 1) \in Nat /\ stream[w].len \in Nat
    BY <2>2, EndFacts, StreamFacts
  <2>4. QED
    BY <1>4, <2>3
<1> DEFINE v == Within(msgs, 0)
<1>6. Due(stream, msgs, 0) = v
  BY <1>1, <1>5 DEF Due, w
<1>7. v = 0
  <2>1. v \in 0..Len(msgs) /\ Sums(msgs)[v] <= 0
    BY <1>0, WithinFacts
  <2> HIDE DEF v
  <2>2. SUFFICES ASSUME v # 0 PROVE FALSE
    OBVIOUS
  <2>3. v \in 1..Len(msgs) /\ v - 1 \in 0..Len(msgs)
    BY <1>1, <2>1, <2>2
  <2>4. msgs[v] \in Nat \ {0}
    BY <2>3, ElementOfSeq
  <2>5. Sums(msgs)[v] = Sums(msgs)[v - 1] + msgs[v] /\ Sums(msgs)[v - 1] \in Nat
    BY <1>0, <2>3, SumsFacts
  <2>6. QED
    BY <2>1, <2>4, <2>5
<1> HIDE DEF v
<1>8. /\ Fresh.done = FALSE /\ Fresh.fed = 0 /\ Fresh.recs = Whole(stream, 0)
      /\ Fresh.msgs = Due(stream, msgs, 0)
  BY <1>5, <1>6, <1>7 DEF Fresh, w
<1>9. RecBuf(stream, Fresh) <= MaxBuffer /\ HsBuf(stream, msgs, Fresh) <= MaxBuffer
  BY <1>1, <1>3
<1>10. QED
  BY <1>2, <1>8, <1>9 DEF Kept

\* A segment that brings the bytes from position m to position n.
LEMMA FeedKeeps ==
  ASSUME NEW stream \in Seq(Record), NEW msgs \in Seq(Nat),
         NEW m \in Nat, NEW n \in Nat, m <= n, n <= Size(stream),
         NEW r, Kept(stream, msgs, m, r)
  PROVE  Kept(stream, msgs, n, FeedBytes(stream, msgs, r, n - m))
<1> DEFINE fed == [r EXCEPT !.fed = @ + (n - m)]
           split == Split(stream, msgs, fed)
           s == FeedBytes(stream, msgs, r, n - m)
           due == Due(stream, msgs, n)
<1>1. /\ r \in InStream(stream, msgs) /\ r.fed \in Nat /\ r.recs \in 0..Len(stream)
      /\ r.msgs \in 0..Len(msgs) /\ r.done \in BOOLEAN
      /\ Len(stream) \in Nat /\ Len(msgs) \in Nat /\ MaxBuffer \in Nat
  BY WireAssumption DEF Kept, InStream
<1>2. s = IF r.done \/ n - m = 0 THEN r
          ELSE IF RecBuf(stream, fed) > MaxBuffer THEN [fed EXCEPT !.done = TRUE]
          ELSE Drain(stream, msgs, split)
  BY DEF FeedBytes
<1>3. /\ Due(stream, msgs, m) <= due
      /\ Due(stream, msgs, m) \in 0..Len(msgs) /\ due \in 0..Len(msgs)
  BY DueGrows
<1>4. /\ Whole(stream, m) <= Whole(stream, n)
      /\ Whole(stream, m) \in 0..Readable(stream) /\ Whole(stream, n) \in 0..Readable(stream)
      /\ Whole(stream, n) \in 0..Len(stream) /\ RecEnd(stream, Whole(stream, n)) <= n
      /\ Readable(stream) \in 0..Len(stream)
  BY WholeGrows, WholeFacts, ReadableFacts
<1>5. CASE r.done
  <2>1. s = r
    BY <1>2, <1>5
  <2>2. /\ r.msgs <= Due(stream, msgs, m)
        /\ Size(stream) <= MaxBuffer => /\ Whole(stream, m) = Readable(stream)
                                        /\ r.msgs = Due(stream, msgs, m)
    BY <1>5 DEF Kept
  <2>3. r.msgs <= due
    BY <1>1, <1>3, <2>2
  <2>4. ASSUME Size(stream) <= MaxBuffer
        PROVE  Whole(stream, n) = Readable(stream) /\ r.msgs = due
    <3>1. Whole(stream, m) = Readable(stream) /\ r.msgs = Due(stream, msgs, m)
      BY <2>2, <2>4
    <3>2. Whole(stream, n) = Whole(stream, m)
      BY <1>1, <1>4, <3>1
    <3>3. due = Due(stream, msgs, m)
      BY <3>2 DEF Due
    <3>4. QED
      BY <3>1, <3>2, <3>3
  <2>5. QED
    BY <1>1, <1>5, <2>1, <2>3, <2>4 DEF Kept
<1>6. CASE ~r.done /\ n = m
  <2>1. s = r
    BY <1>2, <1>6
  <2>2. QED
    BY <1>6, <2>1
<1>7. CASE ~r.done /\ n # m
  <2>1. /\ r.fed = m /\ r.recs = Whole(stream, m) /\ r.msgs = Due(stream, msgs, m)
        /\ RecBuf(stream, r) <= MaxBuffer /\ HsBuf(stream, msgs, r) <= MaxBuffer
    BY <1>7 DEF Kept
  <2>2. fed = [fed |-> n, recs |-> r.recs, msgs |-> r.msgs, done |-> FALSE]
    <3>1. r.fed + (n - m) = n /\ r.done = FALSE
      BY <1>1, <1>7, <2>1
    <3>2. fed = [r EXCEPT !.fed = n]
      BY <3>1
    <3> HIDE DEF fed
    <3>3. QED
      BY <1>1, <3>1, <3>2 DEF InStream
  <2> HIDE DEF fed, s
  <2>3. /\ fed \in InStream(stream, msgs) /\ fed.fed = n /\ fed.recs = r.recs
        /\ fed.msgs = r.msgs /\ ~fed.done
    BY <1>1, <2>2 DEF InStream
  <2>4. ~(r.done \/ n - m = 0)
    BY <1>7
  <2>5. RecEnd(stream, r.recs) \in Nat /\ RecEnd(stream, r.recs) <= m
    BY <1>1, <2>1, EndFacts, WholeFacts
  <2>6. RecEnd(stream, r.recs) <= n
    BY <2>5
  <2>7. CASE RecBuf(stream, fed) > MaxBuffer
    <3>1. s = [fed EXCEPT !.done = TRUE]
      BY <1>2, <2>4, <2>7
    <3>2. s \in InStream(stream, msgs) /\ s.done /\ s.msgs = r.msgs
      BY <2>3, <3>1 DEF InStream
    <3>3. r.msgs <= due
      BY <1>3, <2>1
    <3>4. ~(Size(stream) <= MaxBuffer)
      <4>1. RecBuf(stream, fed) = n - RecEnd(stream, r.recs)
        BY <2>3 DEF RecBuf
      <4>2. Size(stream) \in Nat
        BY <1>1, EndFacts DEF Size
      <4>3. QED
        BY <1>1, <2>5, <2>7, <4>1, <4>2
    <3>5. QED
      BY <3>2, <3>3, <3>4 DEF Kept, s
  <2>8. CASE ~(RecBuf(stream, fed) > MaxBuffer)
    <3>1. s = Drain(stream, msgs, split)
      BY <1>2, <2>4, <2>8
    <3>2. Between(stream, msgs, fed)
      <4>1. HsBuf(stream, msgs, fed) = HsBuf(stream, msgs, r)
        BY <2>3 DEF HsBuf
      <4>2. r.recs <= Readable(stream)
        BY <1>4, <2>1
      <4>3. QED
        BY <2>1, <2>3, <2>6, <4>1, <4>2 DEF Between
    <3>3. /\ split \in InStream(stream, msgs) /\ split.fed = n /\ split.msgs = r.msgs
          /\ split.recs >= r.recs /\ Between(stream, msgs, split)
          /\ ~split.done => split.recs = Whole(stream, n)
      BY <2>3, <3>2, SplitFacts
    <3> HIDE DEF split
    <3> DEFINE e == HsEnd(stream, split.recs)
               v == Within(msgs, e)
    <3>4. split.recs \in 0..Len(stream) /\ split.done \in BOOLEAN
      BY <3>3 DEF InStream
    <3>5. e \in Nat /\ RecEnd(stream, split.recs) \in Nat /\ e <= RecEnd(stream, split.recs)
      BY <3>4, EndFacts, HandshakeWithin
    <3> HIDE DEF e
    <3>6. v \in 0..Len(msgs) /\ Sums(msgs)[v] <= e /\ Sums(msgs)[v] \in Nat
      BY <3>5, WithinFacts, SumsFacts
    <3>7. s = [split EXCEPT !.msgs = v]
      BY <3>1 DEF Drain, e
    <3> HIDE DEF v
    <3>8. /\ s \in InStream(stream, msgs) /\ s.fed = n /\ s.recs = split.recs
          /\ s.msgs = v /\ s.done = split.done
      BY <3>3, <3>6, <3>7 DEF InStream
    <3>9. ASSUME ~split.done
          PROVE  /\ s.recs = Whole(stream, n) /\ s.msgs = due
                 /\ RecBuf(stream, s) <= MaxBuffer /\ HsBuf(stream, msgs, s) <= MaxBuffer
      <4>1. s.recs = Whole(stream, n)
        BY <3>3, <3>8, <3>9
      <4>2. s.msgs = due
        BY <3>8, <4>1 DEF Due, v, e
      <4>3. RecBuf(stream, s) <= MaxBuffer
        <5>1. RecBuf(stream, fed) = n - RecEnd(stream, r.recs)
              /\ RecBuf(stream, s) = n - RecEnd(stream, s.recs)
          BY <2>3, <3>8 DEF RecBuf
        <5>2. r.recs <= split.recs
          BY <1>1, <3>3, <3>4
        <5>3. RecEnd(stream, r.recs) <= RecEnd(stream, s.recs)
          BY <1>1, <3>4, <3>8, <5>2, EndsGrow
        <5>4. RecEnd(stream, s.recs) \in Nat
          BY <3>5, <3>8
        <5>5. QED
          BY <1>1, <2>5, <2>8, <5>1, <5>3, <5>4
      <4>4. HsBuf(stream, msgs, s) <= MaxBuffer
        <5>1. HsBuf(stream, msgs, split) = e - Sums(msgs)[r.msgs]
              /\ HsBuf(stream, msgs, s) = e - Sums(msgs)[v]
          BY <3>3, <3>8 DEF HsBuf, e
        <5>2. HsBuf(stream, msgs, split) <= MaxBuffer
          BY <3>3, <3>9 DEF Between
        <5>3. r.msgs <= v
          <6>1. v = due
            BY <3>8, <4>2
          <6>2. QED
            BY <1>3, <2>1, <6>1
        <5>4. Sums(msgs)[r.msgs] <= Sums(msgs)[v] /\ Sums(msgs)[r.msgs] \in Nat
          BY <1>1, <3>6, <5>3, SumsGrow
        <5>5. QED
          BY <1>1, <3>5, <3>6, <5>1, <5>2, <5>4
      <4>5. QED
        BY <4>1, <4>2, <4>3, <4>4
    <3>10. ASSUME split.done
           PROVE  /\ s.msgs <= due
                  /\ Size(stream) <= MaxBuffer => /\ Whole(stream, n) = Readable(stream)
                                                  /\ s.msgs = due
      <4>1. RecEnd(stream, split.recs) <= n
        BY <3>3 DEF Between
      <4>2. CASE split.recs = Readable(stream) + 1 /\ ~stream[split.recs].hs
        <5>1. /\ split.recs \in 1..Len(stream) /\ split.recs - 1 = Readable(stream)
              /\ Readable(stream) \in 0..Len(stream)
          BY <1>1, <1>4, <3>4, <4>2
        <5>2. /\ HsEnd(stream, split.recs) = HsEnd(stream, split.recs - 1) + 0
              /\ HsEnd(stream, split.recs - 1) \in Nat
          BY <4>2, <5>1, EndFacts
        <5>3. e = HsEnd(stream, Readable(stream))
          BY <5>1, <5>2 DEF e
        <5>4. RecEnd(stream, Readable(stream)) <= n
          <6>1. RecEnd(stream, Readable(stream)) <= RecEnd(stream, split.recs)
            BY <1>1, <3>4, <5>1, EndsGrow
          <6>2. RecEnd(stream, Readable(stream)) \in Nat
            BY <5>1, EndFacts
          <6>3. QED
            BY <3>5, <4>1, <6>1, <6>2
        <5>5. Readable(stream) <= Whole(stream, n)
          <6>1. Readable(stream) \in 0..Readable(stream)
            BY <1>1, <5>1
          <6>2. QED
            BY <5>4, <6>1, WholeFacts
        <5>6. Whole(stream, n) = Readable(stream)
          BY <1>1, <1>4, <5>5
        <5>7. s.msgs = due
          BY <3>8, <5>3, <5>6 DEF Due, v
        <5>8. s.msgs <= due
          BY <1>1, <1>3, <5>7
        <5>9. QED
          BY <5>6, <5>7, <5>8
      <4>3. CASE split.recs <= Readable(stream) /\ HsBuf(stream, msgs, split) > MaxBuffer
        <5>1. split.recs \in 0..Readable(stream)
          BY <1>1, <1>4, <3>4, <4>3
        <5>2. split.recs <= Whole(stream, n)
          BY <4>1, <5>1, WholeFacts
        <5> DEFINE g == HsEnd(stream, Whole(stream, n))
        <5>3. e <= g /\ g \in Nat
          BY <1>4, <3>4, <5>2, EndsGrow, EndFacts DEF e
        <5>4. due = Within(msgs, g)
          BY DEF Due
        <5> HIDE DEF g
        <5>5. s.msgs <= due
          BY <3>5, <3>8, <5>3, <5>4, WithinGrows DEF v
        <5>6. ~(Size(stream) <= MaxBuffer)
          <6>1. HsBuf(stream, msgs, split) = e - Sums(msgs)[r.msgs]
            BY <3>3 DEF HsBuf, e
          <6>2. Sums(msgs)[r.msgs] \in Nat
            BY <1>1, SumsFacts
          <6>3. RecEnd(stream, split.recs) <= Size(stream)
            <7>1. Len(stream) \in 0..Len(stream) /\ split.recs <= Len(stream)
              BY <1>1, <3>4
            <7>2. QED
              BY <3>4, <7>1, EndsGrow DEF Size
          <6>4. Size(stream) \in Nat
            BY <1>1, EndFacts DEF Size
          <6>5. QED
            BY <1>1, <3>5, <4>3, <6>1, <6>2, <6>3, <6>4
        <5>7. QED
          BY <5>5, <5>6
      <4>4. QED
        BY <3>3, <3>10, <4>2, <4>3 DEF Between
    <3>11. Kept(stream, msgs, n, s)
      BY <3>4, <3>8, <3>9, <3>10 DEF Kept
    <3>12. QED
      BY <3>11 DEF s
  <2>9. QED
    BY <2>7, <2>8
<1>8. QED
  BY <1>5, <1>6, <1>7

\* More bytes take a reassembler to where one may be in its stream.
LEMMA StreamFed ==
  ASSUME NEW stream \in Seq(Record), NEW msgs \in Seq(Nat),
         NEW r \in InStream(stream, msgs), NEW n \in Nat
  PROVE  FeedBytes(stream, msgs, r, n) \in InStream(stream, msgs)
<1> DEFINE fed == [r EXCEPT !.fed = @ + n]
           split == Split(stream, msgs, fed)
           s == FeedBytes(stream, msgs, r, n)
<1>1. r.fed \in Nat /\ r.recs \in 0..Len(stream) /\ r.msgs \in 0..Len(msgs)
  BY DEF InStream
<1>2. s = IF r.done \/ n = 0 THEN r
          ELSE IF RecBuf(stream, fed) > MaxBuffer THEN [fed EXCEPT !.done = TRUE]
          ELSE Drain(stream, msgs, split)
  BY DEF FeedBytes
<1>3. fed \in InStream(stream, msgs)
  BY <1>1 DEF InStream
<1> HIDE DEF fed, s
<1>4. [fed EXCEPT !.done = TRUE] \in InStream(stream, msgs)
  BY <1>3 DEF InStream
<1>5. Drain(stream, msgs, split) \in InStream(stream, msgs)
  <2>1. split \in InStream(stream, msgs)
    <3>1. PICK f \in [0..Len(stream) -> InStream(stream, msgs)] : split = f[Len(stream)]
      BY <1>3, SplitSteps
    <3>2. Len(stream) \in 0..Len(stream)
      OBVIOUS
    <3> HIDE DEF split
    <3>3. QED
      BY <3>1, <3>2
  <2> HIDE DEF split
  <2>2. split.recs \in 0..Len(stream)
    BY <2>1 DEF InStream
  <2> DEFINE v == Within(msgs, HsEnd(stream, split.recs))
  <2>3. v \in 0..Len(msgs)
    BY <2>2, EndFacts, WithinFacts
  <2>4. Drain(stream, msgs, split) = [split EXCEPT !.msgs = v]
    BY DEF Drain
  <2> HIDE DEF v
  <2>5. QED
    BY <2>1, <2>3, <2>4 DEF InStream
<1>6. QED
  BY <1>2, <1>4, <1>5 DEF s

\* The reassembler, by the number of segments.
LEMMA FedSteps ==
  ASSUME NEW stream \in Seq(Record), NEW msgs \in Seq(Nat), NEW cuts \in Seq(Nat),
         \A i \in 1..Len(cuts) : EndOf(cuts, i - 1) <= EndOf(cuts, i)
  PROVE  LET n == Len(cuts)
         IN \E f \in [0..n -> InStream(stream, msgs)] :
              /\ f[0] = Fresh
              /\ \A i \in 1..n :
                   f[i] = FeedBytes(stream, msgs, f[i - 1],
                                    EndOf(cuts, i) - EndOf(cuts, i - 1))
              /\ FedUpTo(stream, msgs, cuts) = f[n]
<1> DEFINE n == Len(cuts)
           S == InStream(stream, msgs)
           Step(b, i) == FeedBytes(stream, msgs, b, EndOf(cuts, i) - EndOf(cuts, i - 1))
           F == [z \in (1..n) \X S |-> Step(z[2], z[1])]
           Fits(g) == g = [i \in 0..n |-> IF i = 0 THEN Fresh ELSE Step(g[i - 1], i)]
           after == CHOOSE g : Fits(g)
<1>1. FedUpTo(stream, msgs, cuts) = after[n]
  BY DEF FedUpTo
<1>2. n \in Nat
  OBVIOUS
<1>3. Fresh \in S
  <2>1. Len(stream) \in Nat /\ Len(msgs) \in Nat
    OBVIOUS
  <2>2. QED
    BY <2>1 DEF Fresh, InStream
<1>4. ASSUME NEW i \in 1..n, NEW b \in S PROVE Step(b, i) \in S
  <2>1. \A k \in 0..n : EndOf(cuts, k) \in Nat
    BY ElementOfSeq DEF EndOf
  <2>2. i \in 0..n /\ i - 1 \in 0..n
    BY <1>2
  <2>3. EndOf(cuts, i - 1) <= EndOf(cuts, i)
    OBVIOUS
  <2> DEFINE x == EndOf(cuts, i)
             y == EndOf(cuts, i - 1)
  <2>4. x \in Nat /\ y \in Nat /\ y <= x
    BY <2>1, <2>2, <2>3
  <2> HIDE DEF x, y
  <2>5. x - y \in Nat
    BY <2>4
  <2>6. QED
    BY <2>5, StreamFed DEF x, y
<1> HIDE DEF n, S, Step
<1>5. IsStep(F, n, S)
  BY <1>4 DEF IsStep
<1>6. ASSUME NEW i \in 1..n, NEW b \in S PROVE F[<<i, b>>] = Step(b, i)
  OBVIOUS
<1> HIDE DEF F
<1>7. PICK f : Unfolds(f, F, n, S, Fresh)
  BY <1>2, <1>3, <1>5, Recursion
<1>8. f \in [0..n -> S] /\ f[0] = Fresh /\ \A i \in 1..n : f[i] = F[<<i, f[i - 1]>>]
  BY <1>7 DEF Unfolds
<1>9. ASSUME NEW i \in 1..n PROVE f[i] = Step(f[i - 1], i)
  <2>1. i - 1 \in 0..n
    BY <1>2
  <2>2. f[i - 1] \in S
    BY <1>8, <2>1
  <2>3. f[i] = F[<<i, f[i - 1]>>]
    BY <1>8
  <2>4. F[<<i, f[i - 1]>>] = Step(f[i - 1], i)
    BY <1>6, <2>2
  <2>5. QED
    BY <2>3, <2>4
<1>10. Fits(f)
  BY <1>2, <1>8, <1>9
<1>11. Fits(after)
  BY <1>10
<1> HIDE DEF after
<1>12. after[0] = Fresh /\ after = [i \in 0..n |-> after[i]]
  BY <1>2, <1>11
<1>13. ASSUME NEW i \in 1..n PROVE after[i] = Step(after[i - 1], i)
  <2>1. i \in 0..n /\ i # 0
    BY <1>2
  <2>2. QED
    BY <1>11, <2>1
<1> HIDE DEF Fits
<1>14. Unfolds(after, F, n, S, after[0])
  <2>1. \A i \in 1..n : after[i - 1] \in S => after[i] = F[<<i, after[i - 1]>>]
    BY <1>6, <1>13
  <2>2. QED
    BY <1>2, <1>3, <1>5, <1>12, <2>1, Unfolded
<1>15. after \in [0..n -> S]
  BY <1>14 DEF Unfolds
<1>16. QED
  BY <1>1, <1>12, <1>13, <1>15 DEF n, S, Step

\* Segment by segment the reassembler keeps to what its stream owes.
LEMMA FedKept ==
  ASSUME NEW stream \in Seq(Record), NEW msgs \in Seq(Nat \ {0}), NEW cuts \in Seq(Nat),
         \A i \in 1..Len(cuts) : EndOf(cuts, i - 1) <= EndOf(cuts, i),
         \A i \in 1..Len(cuts) : cuts[i] <= Size(stream)
  PROVE  Kept(stream, msgs, EndOf(cuts, Len(cuts)), FedUpTo(stream, msgs, cuts))
<1> DEFINE n == Len(cuts)
<1>1. n \in Nat /\ msgs \in Seq(Nat)
  OBVIOUS
<1>2. PICK f \in [0..n -> InStream(stream, msgs)] :
        /\ f[0] = Fresh
        /\ \A i \in 1..n : f[i] = FeedBytes(stream, msgs, f[i - 1],
                                            EndOf(cuts, i) - EndOf(cuts, i - 1))
        /\ FedUpTo(stream, msgs, cuts) = f[n]
  BY <1>1, FedSteps
<1>3. \A k \in 0..n : EndOf(cuts, k) \in Nat
  BY ElementOfSeq DEF EndOf
<1> DEFINE P == {k \in 0..n : Kept(stream, msgs, EndOf(cuts, k), f[k])}
<1>4. 0 \in P
  <2>1. EndOf(cuts, 0) = 0
    BY DEF EndOf
  <2>2. QED
    BY <1>1, <1>2, <2>1, FreshKept
<1>5. ASSUME NEW i \in 1..n, i - 1 \in P PROVE i \in P
  <2> DEFINE a == EndOf(cuts, i - 1)
             b == EndOf(cuts, i)
  <2>1. i \in 0..n /\ i - 1 \in 0..n /\ i # 0
    BY <1>1
  <2>2. a \in Nat /\ b \in Nat /\ a <= b /\ Kept(stream, msgs, a, f[i - 1])
    BY <1>3, <1>5, <2>1
  <2>3. b <= Size(stream)
    BY <2>1 DEF EndOf
  <2>4. f[i] = FeedBytes(stream, msgs, f[i - 1], b - a)
    BY <1>2
  <2> HIDE DEF a, b
  <2>5. Kept(stream, msgs, b, f[i])
    BY <1>1, <2>2, <2>3, <2>4, FeedKeeps
  <2>6. QED
    BY <2>1, <2>5 DEF b
<1>6. n \in P
  <2> HIDE DEF P
  <2>1. 0..n \subseteq P
    BY <1>1, <1>4, <1>5, Induction
  <2>2. QED
    BY <1>1, <2>1
<1>7. QED
  BY <1>2, <1>6

\* Wherever a stream is cut, its messages come out.
LEMMA StreamsAsSent == SegmentsDoNotMatter
<1>1. ASSUME NEW s \in Streams, NEW cuts \in Cuts(Size(s.records))
      PROVE  LET r   == FedUpTo(s.records, s.messages, cuts)
                 due == Due(s.records, s.messages, EndOf(cuts, MaxSegments))
             IN /\ r.msgs <= due
                /\ Size(s.records) <= MaxBuffer => r.msgs = due
                /\ ~r.done => /\ RecBuf(s.records, r) <= MaxBuffer
                              /\ HsBuf(s.records, s.messages, r) <= MaxBuffer
  <2> DEFINE stream == s.records
             msgs == s.messages
             r == FedUpTo(stream, msgs, cuts)
             n == EndOf(cuts, MaxSegments)
             due == Due(stream, msgs, n)
  <2>1. stream \in Seq(Record) /\ msgs \in Seq(Nat \ {0}) /\ MaxSegments \in Nat
    BY WireAssumption DEF Record
  <2> HIDE DEF stream, msgs
  <2>2. /\ cuts \in [1..MaxSegments -> 0..Size(stream)]
        /\ \A i \in 2..MaxSegments : cuts[i - 1] <= cuts[i]
    BY DEF Cuts, stream
  <2>3. Size(stream) \in Nat
    <3>1. Len(stream) \in 0..Len(stream)
      BY <2>1
    <3>2. QED
      BY <2>1, <3>1, EndFacts DEF Size
  <2>4. cuts \in [1..MaxSegments -> Nat]
    BY <2>2, <2>3
  <2>5. cuts \in Seq(Nat) /\ Len(cuts) = MaxSegments
    BY <2>1, <2>4, Sequence
  <2>6. \A i \in 1..Len(cuts) : cuts[i] <= Size(stream) /\ cuts[i] \in Nat
    <3> TAKE i \in 1..Len(cuts)
    <3>1. i \in 1..MaxSegments
      BY <2>5
    <3>2. cuts[i] \in 0..Size(stream)
      BY <2>2, <3>1
    <3>3. QED
      BY <2>3, <3>2
  <2>7. \A i \in 1..Len(cuts) : EndOf(cuts, i - 1) <= EndOf(cuts, i)
    <3> TAKE i \in 1..Len(cuts)
    <3>1. CASE i = 1
      BY <2>6, <3>1 DEF EndOf
    <3>2. CASE i # 1
      <4>1. i \in 2..MaxSegments /\ i # 0 /\ i - 1 # 0
        BY <2>1, <2>5, <3>2
      <4>2. QED
        BY <2>2, <4>1 DEF EndOf
    <3>3. QED
      BY <3>1, <3>2
  <2>8. Kept(stream, msgs, n, r)
    BY <2>1, <2>5, <2>6, <2>7, FedKept
  <2>9. r.msgs \in 0..Len(msgs) /\ due = Due(stream, msgs, n) /\ Len(msgs) \in Nat
    BY <2>1, <2>8 DEF Kept, InStream
  <2> HIDE DEF r, due, n
  <2>10. r.msgs <= due /\ (Size(stream) <= MaxBuffer => r.msgs = due)
    <3>1. CASE r.done
      BY <2>8, <2>9, <3>1 DEF Kept
    <3>2. CASE ~r.done
      BY <2>8, <2>9, <3>2 DEF Kept
    <3>3. QED
      BY <3>1, <3>2
  <2>11. ~r.done => RecBuf(stream, r) <= MaxBuffer /\ HsBuf(stream, msgs, r) <= MaxBuffer
    BY <2>8 DEF Kept
  <2>12. QED
    BY <2>10, <2>11 DEF stream, msgs, r, due, n
<1>2. QED
  BY <1>1 DEF SegmentsDoNotMatter

-----------------------------------------------------------------------------
(* Hellos.  The walk over the extensions ends at the first that matches, or   *)
(* where what is claimed for them runs out.                                   *)

Walk == [left : Nat, going : BOOLEAN, found : Nat]

\* A list of items each of which claims a length, and what they take with a
\* header each.
Measured(items) == Len(items) \in Nat /\ \A i \in 1..Len(items) : items[i].len \in Nat
Lengths(items, head) == [i \in 1..Len(items) |-> items[i].len + head]

\* The items of a list, and the sums of their lengths.
LEMMA ItemFacts ==
  ASSUME NEW items, Measured(items), NEW head \in Nat
  PROVE  /\ Lengths(items, head) \in Seq(Nat) /\ Len(Lengths(items, head)) = Len(items)
         /\ Sums(Lengths(items, head))[0] = 0
         /\ \A i \in 0..Len(items) : Sums(Lengths(items, head))[i] \in Nat
         /\ \A i \in 1..Len(items) :
              Sums(Lengths(items, head))[i]
                = Sums(Lengths(items, head))[i - 1] + (items[i].len + head)
<1>1. Len(items) \in Nat /\ \A i \in 1..Len(items) : items[i].len \in Nat
  BY DEF Measured
<1>2. Lengths(items, head) \in [1..Len(items) -> Nat]
  BY <1>1 DEF Lengths
<1>3. Lengths(items, head) \in Seq(Nat) /\ Len(Lengths(items, head)) = Len(items)
  BY <1>1, <1>2, Sequence
<1>4. /\ Sums(Lengths(items, head)) \in [0..Len(items) -> Nat]
      /\ Sums(Lengths(items, head))[0] = 0
      /\ \A i \in 1..Len(items) :
           Sums(Lengths(items, head))[i]
             = Sums(Lengths(items, head))[i - 1] + Lengths(items, head)[i]
  BY <1>3, SumsFacts
<1>5. \A i \in 1..Len(items) : Lengths(items, head)[i] = items[i].len + head
  BY DEF Lengths
<1>6. QED
  BY <1>3, <1>4, <1>5

\* A turn of the walk over the items keeps the state well typed.
LEMMA PassType ==
  ASSUME NEW w \in Walk, NEW i \in Nat, NEW len \in Nat, NEW head \in Nat, NEW wanted
  PROVE  Pass(w, i, len, head, wanted) \in Walk
<1>1. w.left \in Nat /\ w.going \in BOOLEAN
  BY DEF Walk
<1>2. [w EXCEPT !.going = FALSE] \in Walk
  BY DEF Walk
<1>3. [w EXCEPT !.going = FALSE, !.found = i] \in Walk
  BY DEF Walk
<1>4. ASSUME ~(w.left < head \/ w.left - head < len)
      PROVE  [w EXCEPT !.left = @ - head - len] \in Walk
  <2>1. w.left - head - len \in Nat
    BY <1>1, <1>4
  <2>2. QED
    BY <2>1 DEF Walk
<1>5. QED
  BY <1>2, <1>3, <1>4 DEF Pass

\* The walk, by how many items it has looked at.
WalkRun(items, head, left, wanted, f) ==
  LET n == Len(items)
  IN /\ f \in [0..n -> Walk]
     /\ f[0] = [left |-> left, going |-> TRUE, found |-> 0]
     /\ \A i \in 1..n : f[i] = Pass(f[i - 1], i, items[i].len, head, wanted)
     /\ FindFirst(items, head, left, wanted) = f[n].found

\* A walk is a run of its turns.
LEMMA WalkSteps ==
  ASSUME NEW items, Measured(items), NEW head \in Nat, NEW left \in Nat, NEW wanted
  PROVE  \E f : WalkRun(items, head, left, wanted, f)
<1> DEFINE n == Len(items)
           S == Walk
           First == [left |-> left, going |-> TRUE, found |-> 0]
           Step(b, i) == Pass(b, i, items[i].len, head, wanted)
           F == [z \in (1..n) \X S |-> Step(z[2], z[1])]
           Fits(g) == g = [i \in 0..n |-> IF i = 0 THEN First ELSE Step(g[i - 1], i)]
           after == CHOOSE g : Fits(g)
<1>1. FindFirst(items, head, left, wanted) = after[n].found
  BY DEF FindFirst
<1>2. n \in Nat
  BY DEF Measured
<1>3. First \in S
  BY DEF Walk
<1>4. ASSUME NEW i \in 1..n, NEW b \in S PROVE Step(b, i) \in S
  <2>1. items[i].len \in Nat /\ i \in Nat
    BY <1>2 DEF Measured
  <2>2. QED
    BY <2>1, PassType
<1> HIDE DEF n, S, Step, First
<1>5. IsStep(F, n, S)
  BY <1>4 DEF IsStep
<1>6. ASSUME NEW i \in 1..n, NEW b \in S PROVE F[<<i, b>>] = Step(b, i)
  OBVIOUS
<1> HIDE DEF F
<1>7. PICK f : Unfolds(f, F, n, S, First)
  BY <1>2, <1>3, <1>5, Recursion
<1>8. f \in [0..n -> S] /\ f[0] = First /\ \A i \in 1..n : f[i] = F[<<i, f[i - 1]>>]
  BY <1>7 DEF Unfolds
<1>9. ASSUME NEW i \in 1..n PROVE f[i] = Step(f[i - 1], i)
  <2>1. i - 1 \in 0..n
    BY <1>2
  <2>2. f[i - 1] \in S
    BY <1>8, <2>1
  <2>3. f[i] = F[<<i, f[i - 1]>>]
    BY <1>8
  <2>4. F[<<i, f[i - 1]>>] = Step(f[i - 1], i)
    BY <1>6, <2>2
  <2>5. QED
    BY <2>3, <2>4
<1>10. Fits(f)
  BY <1>2, <1>8, <1>9
<1>11. Fits(after)
  BY <1>10
<1> HIDE DEF after
<1>12. after[0] = First /\ after = [i \in 0..n |-> after[i]]
  BY <1>2, <1>11
<1>13. ASSUME NEW i \in 1..n PROVE after[i] = Step(after[i - 1], i)
  <2>1. i \in 0..n /\ i # 0
    BY <1>2
  <2>2. QED
    BY <1>11, <2>1
<1> HIDE DEF Fits
<1>14. Unfolds(after, F, n, S, after[0])
  <2>1. \A i \in 1..n : after[i - 1] \in S => after[i] = F[<<i, after[i - 1]>>]
    BY <1>6, <1>13
  <2>2. QED
    BY <1>2, <1>3, <1>5, <1>12, <2>1, Unfolded
<1>15. after \in [0..n -> S]
  BY <1>14 DEF Unfolds
<1>16. WalkRun(items, head, left, wanted, after)
  BY <1>1, <1>12, <1>13, <1>15 DEF WalkRun, n, S, Step, First
<1>17. QED
  BY <1>16

\* Where a walk is after so many items.
Walked(items, head, left, T, k, w) ==
  LET size == Sums(Lengths(items, head))
  IN /\ w.going => /\ w.left = left - size[k] /\ w.found = 0
                   /\ \A i \in T : k < i
     /\ ~w.going => \/ w.found = 0 /\ left < size[Len(items)]
                    \/ T # {} /\ w.found = Min(T)

\* A turn takes a walk to where it is one item further.
LEMMA PassWalks ==
  ASSUME NEW items, Measured(items), NEW head \in Nat, NEW left \in Nat,
         NEW T, T \subseteq 1..Len(items), NEW k \in 1..Len(items), NEW w \in Walk,
         Walked(items, head, left, T, k - 1, w)
  PROVE  Walked(items, head, left, T, k, Pass(w, k, items[k].len, head, T))
<1> DEFINE size == Sums(Lengths(items, head))
           n == Len(items)
           x == items[k].len
           v == Pass(w, k, x, head, T)
<1>1. n \in Nat /\ x \in Nat
  BY DEF Measured
<1>2. k \in 0..n /\ k - 1 \in 0..n /\ n \in 0..n /\ k <= n /\ k \in Nat
  BY <1>1
<1>3. size[k] \in Nat /\ size[k - 1] \in Nat /\ size[k] = size[k - 1] + (x + head)
  BY <1>2, ItemFacts
<1>4. size[k] <= size[n] /\ size[n] \in Nat
  BY <1>2, ItemFacts, SumsGrow
<1>5. w.left \in Nat /\ w.going \in BOOLEAN
  BY DEF Walk
<1>6. /\ w.going => /\ w.left = left - size[k - 1] /\ w.found = 0
                    /\ \A i \in T : k - 1 < i
      /\ ~w.going => \/ w.found = 0 /\ left < size[n]
                     \/ T # {} /\ w.found = Min(T)
  BY DEF Walked
<1> HIDE DEF size, n, x
<1> SUFFICES /\ v.going => /\ v.left = left - size[k] /\ v.found = 0
                           /\ \A i \in T : k < i
             /\ ~v.going => \/ v.found = 0 /\ left < size[n]
                            \/ T # {} /\ v.found = Min(T)
  BY DEF Walked, size, n, x
<1>7. T \subseteq 1..n
  BY DEF n
<1>8. CASE ~w.going
  BY <1>6, <1>8 DEF Pass
<1>9. CASE w.going /\ (w.left < head \/ w.left - head < x)
  <2>1. v = [w EXCEPT !.going = FALSE]
    BY <1>9 DEF Pass
  <2> HIDE DEF v
  <2>2. ~v.going /\ v.found = w.found
    BY <2>1 DEF Walk
  <2>3. w.left < x + head
    BY <1>1, <1>5, <1>9
  <2>4. left < size[n]
    <3>1. w.left = left - size[k - 1]
      BY <1>6, <1>9
    <3> DEFINE l == w.left
    <3>2. l \in Nat /\ l = left - size[k - 1] /\ l < x + head
      BY <1>5, <2>3, <3>1
    <3> HIDE DEF l
    <3>3. QED
      BY <1>1, <1>3, <1>4, <3>2
  <2>5. QED
    BY <1>6, <1>9, <2>2, <2>4
<1>10. CASE w.going /\ ~(w.left < head \/ w.left - head < x) /\ k \in T
  <2>1. v = [w EXCEPT !.going = FALSE, !.found = k]
    BY <1>10 DEF Pass
  <2> HIDE DEF v
  <2>2. ~v.going /\ v.found = k
    BY <2>1 DEF Walk
  <2>3. Min(T) = k
    <3>1. T \subseteq Nat /\ T # {}
      BY <1>1, <1>7, <1>10
    <3>2. Min(T) \in T /\ Min(T) <= k
      BY <1>10, <3>1, Lowest
    <3>3. k - 1 < Min(T) /\ Min(T) \in Nat
      BY <1>6, <1>10, <3>1, <3>2
    <3>4. QED
      BY <1>2, <3>2, <3>3
  <2>4. QED
    BY <1>10, <2>2, <2>3
<1>11. CASE w.going /\ ~(w.left < head \/ w.left - head < x) /\ k \notin T
  <2>1. v = [w EXCEPT !.left = @ - head - x]
    BY <1>11 DEF Pass
  <2> HIDE DEF v
  <2>2. v.going /\ v.found = w.found /\ v.left = w.left - head - x
    BY <1>11, <2>1 DEF Walk
  <2>3. v.left = left - size[k]
    <3>1. w.left = left - size[k - 1]
      BY <1>6, <1>11
    <3>2. v.left = (left - size[k - 1]) - head - x
      BY <2>2, <3>1
    <3>3. QED
      BY <1>1, <1>3, <3>2
  <2>4. \A i \in T : k < i
    <3> TAKE i \in T
    <3>1. k - 1 < i /\ i # k /\ i \in Nat
      BY <1>1, <1>6, <1>7, <1>11
    <3>2. QED
      BY <1>2, <3>1
  <2>5. QED
    BY <1>6, <1>11, <2>2, <2>3, <2>4
<1>12. QED
  BY <1>5, <1>8, <1>9, <1>10, <1>11

\* What is found is the first that is wanted; with all the bytes claimed, it is
\* found if there is one.
LEMMA FirstFound ==
  ASSUME NEW items, Measured(items), NEW head \in Nat, NEW left \in Nat,
         NEW T, T \subseteq 1..Len(items)
  PROVE  LET found == FindFirst(items, head, left, T)
         IN /\ found = 0 \/ (T # {} /\ found = Min(T))
            /\ left = Total(items, head) /\ T # {} => found = Min(T)
<1> DEFINE n == Len(items)
<1>0. PICK f : WalkRun(items, head, left, T, f)
  BY WalkSteps
<1>1. n \in Nat
  BY DEF Measured
<1>2. /\ f \in [0..n -> Walk]
      /\ f[0] = [left |-> left, going |-> TRUE, found |-> 0]
      /\ \A i \in 1..n : f[i] = Pass(f[i - 1], i, items[i].len, head, T)
      /\ FindFirst(items, head, left, T) = f[n].found
  BY <1>0 DEF WalkRun
<1> DEFINE found == FindFirst(items, head, left, T)
           size == Sums(Lengths(items, head))
           P == {k \in 0..n : Walked(items, head, left, T, k, f[k])}
<1>3. 0 \in P
  <2>1. size[0] = 0
    BY ItemFacts
  <2> DEFINE w == f[0]
  <2>2. w.going /\ w.found = 0 /\ w.left = left
    BY <1>2
  <2> HIDE DEF size, w
  <2>3. \A i \in T : 0 < i
    BY <1>1
  <2>4. w.left = left - size[0]
    BY <2>1, <2>2
  <2>5. Walked(items, head, left, T, 0, w)
    BY <2>2, <2>3, <2>4 DEF Walked, size
  <2>6. QED
    BY <1>1, <2>5 DEF w
<1>4. ASSUME NEW i \in 1..n, i - 1 \in P PROVE i \in P
  <2>1. i \in 0..n /\ i - 1 \in 0..n
    BY <1>1
  <2>2. f[i - 1] \in Walk /\ f[i] = Pass(f[i - 1], i, items[i].len, head, T)
    BY <1>2, <2>1
  <2>3. Walked(items, head, left, T, i - 1, f[i - 1])
    BY <1>4
  <2>4. Walked(items, head, left, T, i, f[i])
    BY <2>2, <2>3, PassWalks
  <2>5. QED
    BY <2>1, <2>4
<1>5. n \in P
  <2> HIDE DEF P
  <2>1. 0..n \subseteq P
    BY <1>1, <1>3, <1>4, Induction
  <2>2. QED
    BY <1>1, <2>1
<1> DEFINE w == f[n]
<1>6. /\ w.going => /\ w.left = left - size[n] /\ w.found = 0
                    /\ \A i \in T : n < i
      /\ ~w.going => \/ w.found = 0 /\ left < size[n]
                     \/ T # {} /\ w.found = Min(T)
  BY <1>5 DEF Walked
<1>7. w.going \in BOOLEAN /\ found = w.found
  <2>1. n \in 0..n
    BY <1>1
  <2>2. f[n] \in Walk
    BY <1>2, <2>1
  <2>3. found = w.found
    BY <1>2
  <2> HIDE DEF w, found
  <2>4. QED
    BY <2>2, <2>3 DEF Walk, w
<1>8. n \in Nat /\ size[n] \in Nat
  <2>1. n \in 0..n
    BY <1>1
  <2>2. QED
    BY <1>1, <2>1, ItemFacts
<1>9. Total(items, head) = size[n] /\ T \subseteq 1..n
  BY DEF Total, Lengths
<1> HIDE DEF w, n, found, size
<1>10. CASE w.going
  <2>1. T = {}
    <3> SUFFICES ASSUME NEW i \in T PROVE FALSE
      OBVIOUS
    <3>1. n < i /\ i \in 1..n
      BY <1>6, <1>9, <1>10
    <3>2. QED
      BY <1>8, <3>1
  <2>2. QED
    BY <1>6, <1>7, <1>10, <2>1 DEF found
<1>11. CASE ~w.going
  <2>1. left = size[n] => ~(left < size[n])
    BY <1>8
  <2>2. QED
    BY <1>6, <1>7, <1>9, <1>11, <2>1 DEF found
<1>12. QED
  BY <1>7, <1>10, <1>11

HostName == [host : BOOLEAN, len : Nat, name : STRING]
Ext == [type : STRING, len : Nat, value : STRING, list : Nat, names : Seq(HostName)]

\* A list of names is one of items; what is read of it is its first host name,
\* and with true lengths it is read if there is one.
LEMMA NamesOfList ==
  ASSUME NEW ext \in Ext
  PROVE  LET r == ParseServerName(ext)
         IN /\ r.ok => Hosts(ext) # {} /\ r.value = ext.names[Min(Hosts(ext))].name
            /\ HonestList(ext) => (r.ok <=> Hosts(ext) # {})
<1> DEFINE T == Hosts(ext)
           i == FindFirst(ext.names, 3, ext.list, T)
           r == ParseServerName(ext)
           out == ext.len < 2 \/ ext.len - 2 < ext.list
<1>1. ext.len \in Nat /\ ext.list \in Nat /\ ext.names \in Seq(HostName)
  BY DEF Ext
<1>2. Measured(ext.names)
  <2>1. ASSUME NEW j \in 1..Len(ext.names) PROVE ext.names[j].len \in Nat
    <3>1. ext.names[j] \in HostName
      BY <1>1, ElementOfSeq
    <3>2. QED
      BY <3>1 DEF HostName
  <2>2. Len(ext.names) \in Nat
    BY <1>1
  <2>3. QED
    BY <2>1, <2>2 DEF Measured
<1>3. T \subseteq 1..Len(ext.names)
  BY DEF Hosts
<1>4. /\ i = 0 \/ (T # {} /\ i = Min(T))
      /\ ext.list = Total(ext.names, 3) /\ T # {} => i = Min(T)
  BY <1>1, <1>2, <1>3, FirstFound
<1>5. T # {} => Min(T) # 0
  <2> HAVE T # {}
  <2>1. T \subseteq Nat
    BY <1>2, <1>3 DEF Measured
  <2>2. Min(T) \in T
    BY <2>1, Lowest
  <2>3. QED
    BY <1>2, <1>3, <2>2 DEF Measured
<1>6. r = IF out \/ i = 0 THEN No ELSE [ok |-> TRUE, value |-> ext.names[i].name]
  BY DEF ParseServerName
<1>7. No.ok = FALSE
  BY DEF No
<1>8. HonestList(ext) => ~out /\ ext.list = Total(ext.names, 3)
  BY <1>1 DEF HonestList
<1> HIDE DEF T, i, r, out
<1>9. r.ok => T # {} /\ r.value = ext.names[Min(T)].name
  BY <1>4, <1>6, <1>7
<1>10. HonestList(ext) => (r.ok <=> T # {})
  BY <1>4, <1>5, <1>6, <1>7, <1>8
<1>11. QED
  BY <1>9, <1>10 DEF T, r

\* A hello is read to the first extension that matches.
LEMMA HellosAsSent == HellosRead
<1> SUFFICES ASSUME NEW h \in Hellos
    PROVE
    LET names    == OfType(h.exts, "server_name", 0)
        versions == OfType(h.exts, "supported_versions", 2)
        ext      == h.exts[Min(names)]
        sni      == ClientHelloSNI(h)
        version  == ServerHelloVersion(h)
    IN /\ sni.ok => /\ names # {} /\ Hosts(ext) # {}
                    /\ sni.value = ext.names[Min(Hosts(ext))].name
       /\ HonestHello(h) /\ names # {} =>
            (HonestList(ext) => (sni.ok <=> Hosts(ext) # {}))
       /\ version.ok <=> h.hlen >= 34 /\ h.hlen <= h.got
       /\ HonestHello(h) => version.value = IF versions = {} THEN "legacy"
                                            ELSE h.exts[Min(versions)].value
  BY DEF HellosRead
<1> DEFINE exts     == h.exts
           names    == OfType(exts, "server_name", 0)
           versions == OfType(exts, "supported_versions", 2)
           ext      == exts[Min(names)]
           sni      == ClientHelloSNI(h)
           version  == ServerHelloVersion(h)
           byName   == FindFirst(exts, 4, h.claimed, names)
           byVersion == FindFirst(exts, 4, h.claimed, versions)
           out      == Outside(h)
           honest   == HonestHello(h)
<1>1. /\ h.fields \in Nat /\ h.claimed \in Nat /\ h.hlen \in Nat /\ h.got \in Nat
      /\ exts \in Seq(Ext)
  BY WireAssumption DEF Ext, HostName
<1> HIDE DEF exts
<1>2. Measured(exts) /\ \A j \in 1..Len(exts) : exts[j] \in Ext
  <2>1. ASSUME NEW j \in 1..Len(exts) PROVE exts[j] \in Ext
    BY <1>1, ElementOfSeq
  <2>2. \A j \in 1..Len(exts) : exts[j].len \in Nat
    BY <2>1 DEF Ext
  <2>3. Len(exts) \in Nat
    BY <1>1
  <2>4. QED
    BY <2>1, <2>2, <2>3 DEF Measured
<1>3. names \subseteq 1..Len(exts) /\ versions \subseteq 1..Len(exts)
  BY DEF OfType
<1>4. /\ byName = 0 \/ (names # {} /\ byName = Min(names))
      /\ h.claimed = Total(exts, 4) /\ names # {} => byName = Min(names)
  BY <1>1, <1>2, <1>3, FirstFound
<1>5. /\ byVersion = 0 \/ (versions # {} /\ byVersion = Min(versions))
      /\ h.claimed = Total(exts, 4) /\ versions # {} => byVersion = Min(versions)
  BY <1>1, <1>2, <1>3, FirstFound
<1>6. ASSUME NEW T, T \subseteq 1..Len(exts), T # {} PROVE Min(T) # 0 /\ Min(T) \in 1..Len(exts)
  <2>1. T \subseteq Nat
    BY <1>2, <1>6 DEF Measured
  <2>2. Min(T) \in T
    BY <1>6, <2>1, Lowest
  <2>3. Min(T) \in 1..Len(exts) /\ Len(exts) \in Nat
    BY <1>2, <1>6, <2>2 DEF Measured
  <2>4. \A m \in 1..Len(exts) : m # 0
    BY <2>3
  <2>5. QED
    BY <2>3, <2>4
<1>7. Fixed(h) \in Nat /\ Fixed(h) >= 34
  BY <1>1 DEF Fixed
<1>8. honest => /\ h.claimed = Total(exts, 4)
                /\ ~out /\ ~(h.hlen > h.got) /\ ~(h.hlen < 34)
  <2> HAVE honest
  <2>1. /\ h.claimed = Total(exts, 4)
        /\ h.hlen = Fixed(h) + 2 + h.claimed /\ h.got >= h.hlen
    BY DEF HonestHello, exts
  <2>2. QED
    BY <1>1, <1>7, <2>1 DEF Outside
<1>9. sni = IF h.hlen > h.got \/ out \/ byName = 0 THEN No ELSE ParseServerName(exts[byName])
  BY DEF ClientHelloSNI, exts
<1>10. version = IF h.hlen > h.got \/ h.hlen < 34 THEN No
                 ELSE [ok |-> TRUE, value |-> IF out \/ byVersion = 0 THEN "legacy"
                                              ELSE exts[byVersion].value]
  BY DEF ServerHelloVersion, exts
<1>11. h.hlen >= 34 /\ h.hlen <= h.got <=> ~(h.hlen > h.got \/ h.hlen < 34)
  BY <1>1
<1>12. No.ok = FALSE
  BY DEF No
<1> HIDE DEF names, versions, sni, version, byName, byVersion, out, honest
<1>13. names # {} => /\ ext \in Ext /\ Min(names) # 0
  BY <1>2, <1>3, <1>6
<1>14. versions # {} => Min(versions) # 0
  BY <1>3, <1>6
<1>15. names # {} =>
         LET r == ParseServerName(ext)
         IN /\ r.ok => Hosts(ext) # {} /\ r.value = ext.names[Min(Hosts(ext))].name
            /\ HonestList(ext) => (r.ok <=> Hosts(ext) # {})
  BY <1>13, NamesOfList
<1> HIDE DEF ext
<1>16. sni.ok => /\ names # {} /\ Hosts(ext) # {}
                 /\ sni.value = ext.names[Min(Hosts(ext))].name
  <2> HAVE sni.ok
  <2>1. byName # 0 /\ sni = ParseServerName(exts[byName])
    BY <1>9, <1>12
  <2>2. names # {} /\ sni = ParseServerName(ext)
    BY <1>4, <2>1 DEF ext
  <2>3. QED
    BY <1>15, <2>2
<1>17. honest /\ names # {} => (HonestList(ext) => (sni.ok <=> Hosts(ext) # {}))
  <2> HAVE honest /\ names # {}
  <2>1. byName = Min(names) /\ byName # 0
    BY <1>4, <1>8, <1>13
  <2>2. sni = ParseServerName(ext)
    BY <1>8, <1>9, <2>1 DEF ext
  <2>3. QED
    BY <1>15, <2>2
<1>18. version.ok <=> h.hlen >= 34 /\ h.hlen <= h.got
  BY <1>10, <1>11, <1>12
<1>19. honest => version.value = IF versions = {} THEN "legacy"
                                 ELSE exts[Min(versions)].value
  <2> HAVE honest
  <2>1. version.value = IF byVersion = 0 THEN "legacy" ELSE exts[byVersion].value
    BY <1>8, <1>10
  <2>2. QED
    BY <1>5, <1>8, <1>14, <2>1
<1>20. QED
  BY <1>16, <1>17, <1>18, <1>19 DEF exts, names, versions, ext, sni, version, honest

-----------------------------------------------------------------------------
(* What the tap reads. *)

\* Names and addresses of DNS replies are read as they were written
\* (parseDNSReply and readName, dns.go:15 and dns.go:68): in a message of any
\* length, with labels and pointers laid anyhow, for any jump limit, the reading
\* of a name ends, with the name exactly if its bytes lead to a zero within the
\* limit, and the record goes on behind the name's own bytes; the addresses taken
\* lie behind the questions, one behind another, within the message, whatever
\* the header claims.
THEOREM RepliesRead == Spec => []RepliesTaken
<1>1. RepliesTaken
  BY NamesAsWritten, RepliesWithin DEF RepliesTaken
<1>2. QED
  BY <1>1, PTL

\* Handshakes are read as they were sent (hsReassembler.Feed, reassemble.go, and
\* the hellos, sni.go and serverhello.go): for records and messages of any lengths
\* and any cap, wherever the stream is cut into any number of segments, the messages
\* returned are the handshake's, and all of them unless the stream is longer than
\* the cap; the domain and the version are those of the first extension that has
\* one, wherever it stands.
THEOREM StreamsRead == Spec => []StreamsTaken
<1>1. StreamsTaken
  BY StreamsAsSent, HellosAsSent DEF StreamsTaken
<1>2. QED
  BY <1>1, PTL
=============================================================================
