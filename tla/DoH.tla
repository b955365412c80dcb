-------------------------------- MODULE DoH --------------------------------
(***************************************************************************)
(* The pool of encrypted resolvers under the deadline of one diagnosis     *)
(* (internal/probe/dns.go, doh.go): from it the probes have their ground   *)
(* truth, and the enforcer the address of an override.                     *)
(*                                                                         *)
(* An encrypted resolver answers at once, fails at once, or is dark: its   *)
(* packets are dropped, and whoever asks it waits.  Time is in units of    *)
(* 200 ms.                                                                 *)
(***************************************************************************)
EXTENDS Integers, Sequences, FiniteSets

CONSTANTS Pool,       \* dohProviders: "json" or "wire", in the order tried
          JSONTimeout,\* of one lookup in JSON, and of one HTTPS record
          Networks, Budgets   \* bounds: the inputs checked

\* How a provider answers; an address is a number.
Responses == [kind : {"answer", "dark", "error"}, ips : SUBSET Nat]

ASSUME DoHAssumption ==
  /\ Pool \in Seq({"json", "wire"}) /\ JSONTimeout \in Nat
  /\ Networks \subseteq [DOMAIN Pool -> Responses] /\ Budgets \subseteq Nat

Least(a, b) == IF a <= b THEN a ELSE b

-----------------------------------------------------------------------------
(* The pool.  net[p] is how provider p answers for the name asked about;     *)
(* left is the time that remains to the context.                             *)

Lookup(net, p, left, limit) ==
  [ok   |-> net[p].kind = "answer" /\ left > 0,
   ips  |-> net[p].ips,
   left |-> IF net[p].kind = "dark" THEN left - Least(left, limit) ELSE left]

\* Mutant of Resolve: a lookup in JSON has no timeout of its own either.
ResolveUntimed(net, p, left) == Lookup(net, p, left, left)

\* dohProvider.resolve: only a lookup in JSON has a timeout of its own.
Resolve(net, p, left) ==
  Lookup(net, p, left, IF Pool[p] = "json" THEN JSONTimeout ELSE left)

\* groundTruthDoH: every provider is asked, and what they answer is united.
Asked(net, g, p) ==
  LET r == Resolve(net, p, g.left)
  IN IF r.ok THEN [union |-> g.union \cup r.ips, reachable |-> g.reachable \cup {p},
                   left |-> r.left]
     ELSE [g EXCEPT !.left = r.left]

GroundTruth(net, left) ==
  LET after[p \in 0..Len(Pool)] ==
        IF p = 0 THEN [union |-> {}, reachable |-> {}, left |-> left]
        ELSE Asked(net, after[p - 1], p)
  IN after[Len(Pool)]

\* Mutant of Good: an empty answer is an answer.
GoodEmpty(r) == r.ok

Good(r) == r.ok /\ r.ips # {}

\* resolveDoHPool: the first provider with an address, if there is one.
Tried(net, f, p) ==
  LET r == Resolve(net, p, f.left)
  IN IF f.by # 0 THEN f
     ELSE [ips |-> IF Good(r) THEN r.ips ELSE {},
           by |-> IF Good(r) THEN p ELSE 0, left |-> r.left]

ResolveDoH(net, left) ==
  LET after[p \in 0..Len(Pool)] ==
        IF p = 0 THEN [ips |-> {}, by |-> 0, left |-> left]
        ELSE Tried(net, after[p - 1], p)
  IN after[Len(Pool)]

-----------------------------------------------------------------------------
(* Properties. *)

\* "a single blocked DoH endpoint cannot blind us" (dns.go:30): while those that
\* are dark speak JSON, each costs one timeout and no more, and as long as that
\* leaves time every other provider is heard, so that one with addresses suffices
\* for a ground truth.  (Of the provider that speaks wireformat this does not
\* hold: when it is dark it takes all the time there is.)
BlockedNotBlind ==
  \A net \in Networks : \A left \in Budgets :
    LET dark == {p \in DOMAIN Pool : net[p].kind = "dark"}
        answering == {p \in DOMAIN Pool : net[p].kind = "answer"}
        cost == JSONTimeout * Cardinality(dark)
        g == GroundTruth(net, left)
    IN (\A p \in dark : Pool[p] = "json") /\ cost < left =>
         /\ g.reachable = answering /\ g.left = left - cost
         /\ g.union = UNION {net[p].ips : p \in answering}

\* The address that the enforcer writes is one that a diagnosis of the same name
\* takes for the truth, and there is one whenever the diagnosis has any: also
\* when providers are dark, fail or do not know the name, and time runs out.
OverrideIsTruth ==
  \A net \in Networks : \A left \in Budgets :
    LET f == ResolveDoH(net, left)
        g == GroundTruth(net, left)
    IN f.ips \subseteq g.union /\ (f.ips = {} <=> g.union = {})
=============================================================================
