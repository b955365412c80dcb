------------------------------- MODULE Cloud -------------------------------
(***************************************************************************)
(* Pushing signed measurements (cmd/lumra, runPush) to the cloud's ingest  *)
(* handler (cloud/src/index.ts).  A push is one process: it verifies its   *)
(* bundle, sends one request and waits for the answer for 15 seconds.  A   *)
(* request or an answer may be lost, and a request may arrive when nobody  *)
(* waits for it any more; the user then pushes the bundle again.           *)
(***************************************************************************)
EXTENDS Naturals

CONSTANTS Pushes,    \* runs of lumra push
          Contents,  \* measurements; the digest identifies one
          Keys,      \* signing keys of reporters
          Networks   \* the network context a reporter may add

VARIABLES
  pc,       \* where each push is
  bundle,   \* the signed bundle it pushes
  context,  \* the network context (asn, country) its request adds
  request,  \* its request: under way, whole or with a byte altered, or not
  answer,   \* the answer under way to it
  rows      \* the table measurements, by its primary key

vars == <<pc, bundle, context, request, answer, rows>>

\* intact: digest and signature fit the measurement, as evidence.Sign made them.
Bundle   == [content : Contents, key : Keys, intact : BOOLEAN]
Row      == [key : Keys, context : Networks, verifies : BOOLEAN]
PCs      == {"new", "waiting", "failed", "stored", "deduped"}
Requests == {"none", "whole", "altered"}
Answers  == {"none", "stored", "deduped", "error"}

Init ==
  /\ pc = [p \in Pushes |-> "new"]
  /\ bundle \in [Pushes -> Bundle] /\ context \in [Pushes -> Networks]
  /\ request = [p \in Pushes |-> "none"]
  /\ answer = [p \in Pushes |-> "none"]
  /\ rows = [d \in {} |-> CHOOSE r \in Row : TRUE]

-----------------------------------------------------------------------------
(* The command. *)

\* "never push a bundle we can't stand behind": an altered one is not sent.
Send(p) ==
  /\ pc[p] = "new"
  /\ \/ /\ bundle[p].intact
        /\ pc' = [pc EXCEPT ![p] = "waiting"]
        /\ request' = [request EXCEPT ![p] = "whole"]
     \/ /\ ~bundle[p].intact
        /\ pc' = [pc EXCEPT ![p] = "failed"] /\ UNCHANGED request
  /\ UNCHANGED <<bundle, context, answer, rows>>

\* The command prints what the answer says, or that the push failed.
Receive(p) ==
  /\ pc[p] = "waiting" /\ answer[p] # "none"
  /\ pc' = [pc EXCEPT ![p] = IF answer[p] = "error" THEN "failed" ELSE answer[p]]
  /\ UNCHANGED <<bundle, context, request, answer, rows>>

\* The connection fails, the 15 seconds pass, or the user ends the command.
GiveUp(p) ==
  /\ pc[p] = "waiting" /\ pc' = [pc EXCEPT ![p] = "failed"]
  /\ UNCHANGED <<bundle, context, request, answer, rows>>

-----------------------------------------------------------------------------
(* The handler.  The database runs one statement at a time. *)

Reply(p, a) ==
  /\ request[p] # "none" /\ request' = [request EXCEPT ![p] = "none"]
  /\ answer' = [answer EXCEPT ![p] = a]
  /\ UNCHANGED <<pc, bundle, context>>

RowOf(p) == [key |-> bundle[p].key, context |-> context[p],
             verifies |-> request[p] = "whole"]

Put(p) == rows' = [d \in DOMAIN rows \cup {bundle[p].content} |->
                     IF d = bundle[p].content THEN RowOf(p) ELSE rows[d]]

Verified(p) == request[p] = "whole"
Known(p)    == bundle[p].content \in DOMAIN rows

\* Mutant of Insert: INSERT OR REPLACE.
InsertReplacing(p) == Verified(p) /\ Reply(p, "stored") /\ Put(p)

\* INSERT OR IGNORE of a measurement that is new.
Insert(p) == Verified(p) /\ ~Known(p) /\ Reply(p, "stored") /\ Put(p)

\* The row is stored, but the handler ends before it answers.
InsertUnanswered(p) == Verified(p) /\ ~Known(p) /\ Reply(p, "error") /\ Put(p)

\* INSERT OR IGNORE: a row with this digest is there.
Ignore(p) == Verified(p) /\ Known(p) /\ Reply(p, "deduped") /\ UNCHANGED rows

\* Mutant of Refuse: a failure of the database counts as no change.
RefuseNot(p) == Reply(p, "deduped") /\ UNCHANGED rows

\* The request is malformed (400) or does not verify (422), or the database
\* fails (500).
Refuse(p) == Reply(p, "error") /\ UNCHANGED rows

-----------------------------------------------------------------------------
(* The network. *)

Lose(p) ==
  /\ request[p] # "none" \/ answer[p] # "none"
  /\ request' = [request EXCEPT ![p] = "none"]
  /\ answer' = [answer EXCEPT ![p] = "none"]
  /\ UNCHANGED <<pc, bundle, context, rows>>

\* A request is altered on its way: in the part that digest and signature cover,
\* or in the network context beside it, which nothing covers.
Alter(p) ==
  /\ request[p] = "whole"
  /\ \/ request' = [request EXCEPT ![p] = "altered"] /\ UNCHANGED context
     \/ /\ \E n \in Networks : context' = [context EXCEPT ![p] = n]
        /\ UNCHANGED request
  /\ UNCHANGED <<pc, bundle, answer, rows>>

Next ==
  \E p \in Pushes :
    \/ Send(p) \/ Receive(p) \/ GiveUp(p)
    \/ Insert(p) \/ InsertUnanswered(p) \/ Ignore(p) \/ Refuse(p)
    \/ Lose(p) \/ Alter(p)

Spec == Init /\ [][Next]_vars

-----------------------------------------------------------------------------
(* Properties. *)

\* Every variable keeps to its type: a command ends with one of the two
\* answers of a successful ingest, or as failed.
TypeOK ==
  /\ pc \in [Pushes -> PCs]
  /\ bundle \in [Pushes -> Bundle] /\ context \in [Pushes -> Networks]
  /\ request \in [Pushes -> Requests] /\ answer \in [Pushes -> Answers]
  /\ DOMAIN rows \subseteq Contents /\ rows \in [DOMAIN rows -> Row]

\* A push that did not fail, also one that was told "deduped" after an earlier
\* attempt lost its answer, has its measurement in the table, and there a bundle
\* that verifies ("tamper-evident re-verification", 0001_init.sql:5).
PushedIsStored ==
  \A p \in Pushes : pc[p] \in {"stored", "deduped"} =>
    Known(p) /\ rows[bundle[p].content].verifies

\* A measurement is reported as stored to one push only, however often it is
\* pushed, and whatever is lost on the way.
StoredOnce ==
  \A p, q \in Pushes :
    /\ pc[p] = "stored" /\ pc[q] = "stored"
    /\ bundle[p].content = bundle[q].content
    => p = q

\* A replay is idempotent: a row is never removed and never changes, neither
\* its key nor the network context that came with it first.
RowsKept ==
  [][\A d \in DOMAIN rows : d \in DOMAIN rows' /\ rows'[d] = rows[d]]_vars

\* "One row per signed measurement bundle" (0001_init.sql:3): the row of a
\* pushed bundle is that bundle's.  It does not hold: the digest covers the
\* measurement, which does not name the key, so that two reporters who see the
\* same in the same second share a row.
OneRowPerBundle ==
  \A p \in Pushes : pc[p] \in {"stored", "deduped"} /\ Known(p) =>
    rows[bundle[p].content].key = bundle[p].key
=============================================================================
