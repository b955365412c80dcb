---------------------------- MODULE Cloud_proofs ----------------------------
(***************************************************************************)
(* For any number of pushes: a push that did not fail is in the table, a    *)
(* measurement is stored once, and rows never change.                       *)
(***************************************************************************)
EXTENDS Cloud, TLAPS

Told(p)   == {pc[p], answer[p]}  \* what p was told, or is about to be
Stored(p) == "stored" \in Told(p)

\* Every row verifies.
RowsVerify == \A d \in DOMAIN rows : rows[d].verifies
\* Whoever was told so has its measurement in the table.
AnswersTrue == \A p \in Pushes : (Stored(p) \/ "deduped" \in Told(p)) => Known(p)
\* One push at most was told that a measurement was stored.
AnsweredOnce == \A p, q \in Pushes :
                  Stored(p) /\ Stored(q) /\ bundle[p].content = bundle[q].content
                  => p = q

Inv == TypeOK /\ RowsVerify /\ AnswersTrue /\ AnsweredOnce

\* What a step of the handler that adds a row does to the table.
LEMMA PutFacts ==
  ASSUME TypeOK, NEW p \in Pushes, Verified(p), ~Known(p), Put(p)
  PROVE  /\ DOMAIN rows' = DOMAIN rows \cup {bundle[p].content}
         /\ DOMAIN rows' \subseteq Contents
         /\ rows' \in [DOMAIN rows' -> Row]
         /\ \A d \in DOMAIN rows : rows'[d] = rows[d]
         /\ rows'[bundle[p].content].verifies
<1> DEFINE c == bundle[p].content
<1>1. /\ bundle[p] \in Bundle /\ context[p] \in Networks
      /\ DOMAIN rows \subseteq Contents /\ rows \in [DOMAIN rows -> Row]
  BY DEF TypeOK
<1>2. c \in Contents /\ RowOf(p) \in Row /\ RowOf(p).verifies
  BY <1>1 DEF RowOf, Row, Bundle, Verified
<1>3. c \notin DOMAIN rows  BY DEF Known
<1>4. rows' = [d \in DOMAIN rows \cup {c} |-> IF d = c THEN RowOf(p) ELSE rows[d]]
  BY DEF Put
<1> HIDE DEF c
<1>5. DOMAIN rows' = DOMAIN rows \cup {c}  BY <1>4
<1>6. DOMAIN rows' \subseteq Contents  BY <1>1, <1>2, <1>5
<1>7. rows' \in [DOMAIN rows' -> Row]  BY <1>1, <1>2, <1>4, <1>5
<1>8. \A d \in DOMAIN rows : rows'[d] = rows[d]  BY <1>3, <1>4
<1>9. rows'[c].verifies  BY <1>2, <1>4
<1> QED  BY <1>5, <1>6, <1>7, <1>8, <1>9 DEF c

\* A step that leaves the table alone and tells nobody anything keeps Inv when
\* it keeps the types.
LEMMA Quiet ==
  ASSUME Inv, TypeOK', UNCHANGED <<bundle, rows>>,
         \A p \in Pushes : Told(p)' \ {"new", "waiting", "failed", "none", "error"}
                           \subseteq Told(p)
  PROVE  Inv'
<1>1. \A p \in Pushes : /\ Stored(p)' => Stored(p)
                        /\ "deduped" \in Told(p)' => "deduped" \in Told(p)
  BY DEF Stored
<1>2. RowsVerify'  BY DEF Inv, RowsVerify
<1>3. AnswersTrue'  BY <1>1 DEF Inv, AnswersTrue, Known
<1>4. AnsweredOnce'  BY <1>1 DEF Inv, AnsweredOnce
<1> QED  BY <1>2, <1>3, <1>4 DEF Inv

\* A row is added, and p is told what a says: "stored" or "error".
LEMMA Added ==
  ASSUME Inv, NEW p \in Pushes, NEW a \in {"stored", "error"},
         Verified(p), ~Known(p), Reply(p, a), Put(p)
  PROVE  Inv'
<1>1. /\ TypeOK /\ UNCHANGED <<pc, bundle, context>>
      /\ answer' = [answer EXCEPT ![p] = a] /\ request' = [request EXCEPT ![p] = "none"]
  BY DEF Inv, Reply
<1>2. /\ DOMAIN rows' = DOMAIN rows \cup {bundle[p].content}
      /\ DOMAIN rows' \subseteq Contents /\ rows' \in [DOMAIN rows' -> Row]
      /\ \A d \in DOMAIN rows : rows'[d] = rows[d]
      /\ rows'[bundle[p].content].verifies
  BY <1>1, PutFacts
<1>3. TypeOK'
  BY <1>1, <1>2 DEF TypeOK, PCs, Requests, Answers
<1>4. RowsVerify'
  BY <1>2 DEF Inv, RowsVerify
<1>5. Known(p)' /\ \A q \in Pushes : Known(q) => Known(q)'
  BY <1>1, <1>2 DEF Known
<1>6. \A q \in Pushes : q # p => Told(q)' = Told(q)
  BY <1>1 DEF Told, TypeOK
<1>7. AnswersTrue'
  BY <1>5, <1>6 DEF Inv, AnswersTrue, Stored
<1>8. \A q \in Pushes : bundle[q].content = bundle[p].content => ~Stored(q)
  BY DEF Inv, AnswersTrue, Known
<1>9. AnsweredOnce'
  <2> SUFFICES ASSUME NEW q \in Pushes, NEW r \in Pushes, Stored(q)', Stored(r)',
                      bundle[q].content = bundle[r].content
               PROVE  q = r
    BY <1>1 DEF AnsweredOnce
  <2>1. CASE q = p  BY <2>1, <1>6, <1>8 DEF Stored
  <2>2. CASE r = p  BY <2>2, <1>6, <1>8 DEF Stored
  <2>3. CASE q # p /\ r # p  BY <2>3, <1>6 DEF Stored, Inv, AnsweredOnce
  <2> QED  BY <2>1, <2>2, <2>3
<1> QED  BY <1>3, <1>4, <1>7, <1>9 DEF Inv

\* Inv is inductive.
LEMMA NextInv ==
  ASSUME Inv, [Next]_vars
  PROVE  Inv'
<1>1. TypeOK  BY DEF Inv
<1>2. CASE UNCHANGED vars
  BY <1>1, <1>2, Quiet DEF vars, TypeOK, Told, PCs, Answers
<1>3. CASE Next
  <2> PICK p \in Pushes :
        \/ Send(p) \/ Receive(p) \/ GiveUp(p)
        \/ Insert(p) \/ InsertUnanswered(p) \/ Ignore(p) \/ Refuse(p)
        \/ Lose(p) \/ Alter(p)
    BY <1>3 DEF Next
  <2>1. CASE Send(p)
    <3>1. TypeOK'  BY <1>1, <2>1 DEF Send, TypeOK, PCs, Requests
    <3>2. \A q \in Pushes : Told(q)' \ {"new", "waiting", "failed", "none", "error"}
                            \subseteq Told(q)
      BY <1>1, <2>1 DEF Send, TypeOK, Told
    <3> QED  BY <2>1, <3>1, <3>2, Quiet DEF Send
  <2>2. CASE Receive(p)
    <3>1. TypeOK'  BY <1>1, <2>2 DEF Receive, TypeOK, PCs, Answers
    <3>2. \A q \in Pushes : Told(q)' \ {"new", "waiting", "failed", "none", "error"}
                            \subseteq Told(q)
      BY <1>1, <2>2 DEF Receive, TypeOK, Told
    <3> QED  BY <2>2, <3>1, <3>2, Quiet DEF Receive
  <2>3. CASE GiveUp(p)
    <3>1. TypeOK'  BY <1>1, <2>3 DEF GiveUp, TypeOK, PCs
    <3>2. \A q \in Pushes : Told(q)' \ {"new", "waiting", "failed", "none", "error"}
                            \subseteq Told(q)
      BY <1>1, <2>3 DEF GiveUp, TypeOK, Told
    <3> QED  BY <2>3, <3>1, <3>2, Quiet DEF GiveUp
  <2>4. CASE Insert(p)  BY <2>4, Added DEF Insert
  <2>5. CASE InsertUnanswered(p)  BY <2>5, Added DEF InsertUnanswered
  <2>6. CASE Ignore(p)
    <3>1. /\ UNCHANGED <<pc, bundle, context, rows>> /\ Known(p)
          /\ answer' = [answer EXCEPT ![p] = "deduped"]
          /\ request' = [request EXCEPT ![p] = "none"]
      BY <2>6 DEF Ignore, Reply
    <3>2. TypeOK'  BY <1>1, <3>1 DEF TypeOK, Requests, Answers
    <3>3. \A q \in Pushes : /\ Stored(q)' => Stored(q)
                            /\ q # p => Told(q)' = Told(q)
      BY <1>1, <3>1 DEF TypeOK, Stored, Told
    <3>4. AnswersTrue'
      BY <3>1, <3>3 DEF Inv, AnswersTrue, Stored, Known
    <3>5. AnsweredOnce'  BY <3>1, <3>3 DEF Inv, AnsweredOnce
    <3>6. RowsVerify'  BY <3>1 DEF Inv, RowsVerify
    <3> QED  BY <3>2, <3>4, <3>5, <3>6 DEF Inv
  <2>7. CASE Refuse(p)
    <3>1. TypeOK'  BY <1>1, <2>7 DEF Refuse, Reply, TypeOK, Requests, Answers
    <3>2. \A q \in Pushes : Told(q)' \ {"new", "waiting", "failed", "none", "error"}
                            \subseteq Told(q)
      BY <1>1, <2>7 DEF Refuse, Reply, TypeOK, Told
    <3> QED  BY <2>7, <3>1, <3>2, Quiet DEF Refuse, Reply
  <2>8. CASE Lose(p)
    <3>1. TypeOK'  BY <1>1, <2>8 DEF Lose, TypeOK, Requests, Answers
    <3>2. \A q \in Pushes : Told(q)' \ {"new", "waiting", "failed", "none", "error"}
                            \subseteq Told(q)
      BY <1>1, <2>8 DEF Lose, TypeOK, Told
    <3> QED  BY <2>8, <3>1, <3>2, Quiet DEF Lose
  <2>9. CASE Alter(p)
    <3>1. TypeOK'  BY <1>1, <2>9 DEF Alter, TypeOK, Requests
    <3>2. \A q \in Pushes : Told(q)' = Told(q)
      BY <2>9 DEF Alter, Told
    <3> QED  BY <2>9, <3>1, <3>2, Quiet DEF Alter
  <2> QED  BY <2>1, <2>2, <2>3, <2>4, <2>5, <2>6, <2>7, <2>8, <2>9
<1> QED  BY <1>2, <1>3

\* Nothing has been pushed at first.
LEMMA InitInv == Init => Inv
<1> SUFFICES ASSUME Init PROVE Inv  OBVIOUS
<1>1. DOMAIN rows = {}  BY DEF Init
<1>2. rows \in [DOMAIN rows -> Row]  BY <1>1 DEF Init
<1>3. TypeOK  BY <1>1, <1>2 DEF Init, TypeOK, PCs, Requests, Answers
<1>4. \A p \in Pushes : ~Stored(p) /\ "deduped" \notin Told(p)
  BY DEF Init, Stored, Told
<1> QED  BY <1>1, <1>3, <1>4 DEF Inv, RowsVerify, AnswersTrue, AnsweredOnce

\* What a push was told is true of the table (runPush, handleIngest).
THEOREM CloudInvariance == Spec => []Inv
<1>1. Init => Inv  BY InitInv
<1>2. Inv /\ [Next]_vars => Inv'  BY NextInv
<1> QED  BY <1>1, <1>2, PTL DEF Spec

\* Every variable keeps to its type (runPush, handleIngest).
THEOREM TypeCorrect == Spec => []TypeOK
<1>1. Inv => TypeOK  BY DEF Inv
<1> QED  BY <1>1, CloudInvariance, PTL

\* A push that did not fail has its measurement in the table, in a bundle that
\* verifies (runPush after the answer of handleIngest).
THEOREM PushesAreStored == Spec => []PushedIsStored
<1>1. Inv => PushedIsStored
  BY DEF Inv, RowsVerify, AnswersTrue, Stored, Told, PushedIsStored, Known
<1> QED  BY <1>1, CloudInvariance, PTL

\* One push at most is told that its measurement was stored (INSERT OR IGNORE of
\* handleIngest).
THEOREM StoredAtMostOnce == Spec => []StoredOnce
<1>1. Inv => StoredOnce
  BY DEF Inv, AnsweredOnce, Stored, Told, StoredOnce
<1> QED  BY <1>1, CloudInvariance, PTL

\* Replays are idempotent: no row changes (INSERT OR IGNORE of handleIngest).
THEOREM ReplayIsIdempotent == Spec => RowsKept
<1> DEFINE Kept == \A d \in DOMAIN rows : d \in DOMAIN rows' /\ rows'[d] = rows[d]
<1>1. ASSUME Inv, [Next]_vars PROVE [Kept]_vars
  <2> SUFFICES ASSUME Next PROVE Kept  BY <1>1
  <2>1. PICK p \in Pushes :
        \/ rows' = rows
        \/ Verified(p) /\ ~Known(p) /\ Put(p)
    BY DEF Next, Send, Receive, GiveUp, Insert, InsertUnanswered, Ignore, Refuse,
           Lose, Alter
  <2>2. CASE rows' = rows  BY <2>2
  <2>3. CASE Verified(p) /\ ~Known(p) /\ Put(p)
    BY <1>1, <2>3, PutFacts DEF Inv
  <2> QED  BY <2>1, <2>2, <2>3
<1>2. Spec => [][Kept]_vars  BY <1>1, CloudInvariance, PTL DEF Spec
<1> QED  BY <1>2 DEF RowsKept
=============================================================================
