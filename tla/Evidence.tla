------------------------------ MODULE Evidence ------------------------------
(***************************************************************************)
(* The signed bundle (internal/evidence/evidence.go), which is written by  *)
(* one run of lumra, stored and reformatted as JSON, and verified twice,   *)
(* in two languages: by lumra, which derives the signed bytes again from   *)
(* what it parses, and by the cloud worker (cloud/src/index.ts), which     *)
(* takes the bytes that lumra pushes to it.                                *)
(*                                                                         *)
(* A JSON text is a sequence of members, indented or not.  A hash is the   *)
(* text it is of, a public key and its fingerprint are its holder, and a   *)
(* signature says who made it over which text.                             *)
(***************************************************************************)
EXTENDS Naturals, Sequences, SequencesExt, FiniteSetsExt

CONSTANTS
  Schema,     \* the fields of Measurement and of its Verdict, in their order
  OmitEmpty,  \* those of them marked omitempty
  Nullable,   \* those that are a pointer or a slice, which null empties
  OtherCase,  \* for names that differ from a field's in case alone: the field
  Contents,   \* what a field may hold, apart from nothing
  Holders,    \* the holders of keys
  Nobody,     \* the holder of a key or signature that cannot be decoded
  Texts       \* bound: the texts that may stand in a bundle file

ASSUME EvidenceAssumption ==
  /\ Schema \in Seq(STRING) /\ OmitEmpty \subseteq ToSet(Schema)
  /\ Nullable \subseteq ToSet(Schema)
  /\ OtherCase \in [DOMAIN OtherCase -> ToSet(Schema)]
  /\ DOMAIN OtherCase \cap ToSet(Schema) = {}
  /\ Nobody \notin Holders
  /\ {"", "mistyped", "null"} \cap Contents = {}

Measurements == [ToSet(Schema) -> Contents \cup {""}]

-----------------------------------------------------------------------------
(* Marshalling. *)

\* The field a member stands for: json.Unmarshal prefers the exact name and takes
\* any case.
FieldOf(member) ==
  IF member.name \in DOMAIN OtherCase THEN OtherCase[member.name] ELSE member.name

\* The members that say something of a field: null says nothing of most.
Saying(text, f) ==
  {i \in DOMAIN text.members :
     /\ FieldOf(text.members[i]) = f
     /\ text.members[i].value = "null" => f \in Nullable}

\* json.Unmarshal: the last of them counts, a member that is no field is dropped,
\* and a field of which nothing is said is left empty.
Lift(text, f) ==
  LET at == Saying(text, f)
  IN IF at = {} \/ text.members[Max(at)].value = "null" THEN ""
     ELSE text.members[Max(at)].value

\* A member of another type than its field's is an error wherever it stands.
Parses(text) ==
  \A i \in DOMAIN text.members :
    FieldOf(text.members[i]) \in ToSet(Schema) => text.members[i].value # "mistyped"

ParseMeasurement(text) == [f \in ToSet(Schema) |-> Lift(text, f)]

\* One field of json.Marshal: left out if it is empty and may be.
WithField(members, m, f) ==
  IF f \in OmitEmpty /\ m[f] = "" THEN members
  ELSE Append(members, [name |-> f, value |-> m[f]])

\* json.Marshal, in the order of the struct.
Marshal(m) ==
  LET upto[i \in 0..Len(Schema)] ==
        IF i = 0 THEN <<>> ELSE WithField(upto[i - 1], m, Schema[i])
  IN [indented |-> FALSE, members |-> upto[Len(Schema)]]

\* Mutant of CanonicalMeasurement: the text is taken as it stands.
CanonicalVerbatim(text) == text

CanonicalMeasurement(text) == Marshal(ParseMeasurement(text))

-----------------------------------------------------------------------------
(* Bundles. *)

\* evidence.Sign
SignedBy(m, k) ==
  [measurement |-> Marshal(m), digest |-> Marshal(m), alg |-> "ed25519",
   publicKey |-> k, keyId |-> k, value |-> [by |-> k, of |-> Marshal(m)]]

\* Bundle.Encode indents the measurement, too.
Encode(b) == [b EXCEPT !.measurement.indented = TRUE]

Decodable(b) == b.alg = "ed25519" /\ b.publicKey # Nobody /\ b.value.by # Nobody

\* evidence.Verify
Verify(b) ==
  /\ Decodable(b) /\ Parses(b.measurement)
  /\ LET canonical == CanonicalMeasurement(b.measurement)
     IN /\ canonical = b.digest
        /\ b.keyId = b.publicKey
        /\ b.value = [by |-> b.publicKey, of |-> canonical]

\* What runPush sends once Verify has accepted the bundle.
Pushed(b) == [b EXCEPT !.measurement = CanonicalMeasurement(@)]

\* verifyBundle of the worker, over the bytes that were sent.
VerifyBundle(body) ==
  /\ Decodable(body)
  /\ body.keyId = body.publicKey
  /\ body.measurement = body.digest
  /\ body.value = [by |-> body.publicKey, of |-> body.measurement]

-----------------------------------------------------------------------------
(* Properties. *)

Bundles ==
  LET signed == {Marshal(m) : m \in Measurements}
      holders == Holders \cup {Nobody}
  IN [measurement : Texts, digest : signed, alg : {"ed25519", "other"},
      publicKey : holders, keyId : Holders,
      value : [by : holders, of : signed]]

\* b is what someone signed, but for the format of its measurement.
Genuine(b) ==
  /\ Parses(b.measurement)
  /\ \E k \in Holders : LET m == ParseMeasurement(b.measurement)
                        IN [b EXCEPT !.measurement = Marshal(m)] = SignedBy(m, k)

\* "the struct round-trips deterministically" (evidence.go:123): every bundle
\* verifies after it was written to a file, and of all others those that differ
\* from one in the format alone, by indentation, the order of members, members
\* repeated, null, unknown or written in another case; a bundle of which anything
\* else was altered does not.
\* The worker accepts what lumra then pushes, exactly if lumra would, and lifts
\* from it the fields that were signed.
BundlesHold ==
  /\ \A m \in Measurements : \A k \in Holders : Verify(Encode(SignedBy(m, k)))
  /\ \A b \in Bundles :
       /\ Verify(b) <=> Genuine(b)
       /\ Parses(b.measurement) => (VerifyBundle(Pushed(b)) <=> Verify(b))
       /\ Verify(b) => \A f \in ToSet(Schema) :
                         Lift(Pushed(b).measurement, f) = Lift(b.value.of, f)

\* A bundle of another version, whose structs have a field more.
Newer(b, f) ==
  LET longer(text) == [text EXCEPT !.members = Append(@, [name |-> f, value |-> "x"])]
  IN [b EXCEPT !.measurement = longer(@), !.digest = longer(@), !.value.of = longer(@)]

\* "preserved verbatim ..., so the digest and signature always cover the
\* identical bytes that were signed" (evidence.go:30).  It does not hold across
\* versions: the older tool drops what it does not know before it hashes, and
\* calls the bundle altered.
VersionsAgree ==
  \A m \in Measurements : \A k \in Holders : Verify(Newer(SignedBy(m, k), "later"))
=============================================================================
