------------------------------ MODULE KeyStore ------------------------------
(***************************************************************************)
(* The signing key (internal/evidence/keys.go).  Every run of lumra that   *)
(* signs calls LoadOrCreateKey, which reads the key file or, on first use, *)
(* generates a key and stores it and its public half; runs may overlap and *)
(* may end at any statement.  os.WriteFile is an open that truncates and a *)
(* write; both keys have one length, so the last write prevails.           *)
(***************************************************************************)
EXTENDS Naturals, FiniteSets

CONSTANTS Runs,    \* processes that may be under way at a time
          Keys,    \* the keys GenerateKey may return
          NoKey,   \* no file, or no key in memory
          Bad,     \* a file that is empty or cut short
          MaxRuns  \* bound: runs altogether

ASSUME KeyAssumption ==
  NoKey \notin Keys /\ Bad \notin Keys /\ NoKey # Bad /\ MaxRuns \in Nat

VARIABLES
  private,  \* the content of signing_ed25519
  public,   \* the content of signing_ed25519.pub
  pc,       \* the statement a run is about to execute
  key,      \* the key a run holds
  made,     \* keys generated so far: GenerateKey never repeats one
  signed,   \* history: the keys of the bundles signed on this host
  raced,    \* history: a run found no key while another was storing one
  runs      \* runs so far

vars == <<private, public, pc, key, made, signed, raced, runs>>

PCs == {"idle", "load", "open", "write", "open_pub", "write_pub", "sign"}

Init ==
  /\ private = NoKey /\ public = NoKey
  /\ pc = [r \in Runs |-> "idle"] /\ key = [r \in Runs |-> NoKey]
  /\ made = {} /\ signed = {} /\ raced = FALSE /\ runs = 0

Goto(r, from, to) == pc[r] = from /\ pc' = [pc EXCEPT ![r] = to]

Start(r) ==
  /\ Goto(r, "idle", "load")
  /\ runs < MaxRuns /\ runs' = runs + 1
  /\ UNCHANGED <<private, public, key, made, signed, raced>>

\* The key file is there and can be parsed.
Load(r) ==
  /\ Goto(r, "load", "sign")
  /\ private \in Keys
  /\ key' = [key EXCEPT ![r] = private]
  /\ UNCHANGED <<private, public, made, signed, raced, runs>>

\* Runs between the read of a missing file and the end of their write.
Storing == {r \in Runs : pc[r] \in {"open", "write"}}

\* There is no key file.
Generate(r) ==
  /\ Goto(r, "load", "open")
  /\ private = NoKey
  /\ \E k \in Keys \ made :
       key' = [key EXCEPT ![r] = k] /\ made' = made \cup {k}
  /\ raced' = (raced \/ Storing # {})
  /\ UNCHANGED <<private, public, signed, runs>>

\* Mutant of Refuse: a key file that cannot be read is taken for none.
RefuseNot(r) ==
  /\ Goto(r, "load", "open") /\ private # NoKey
  /\ \E k \in Keys \ made :
       key' = [key EXCEPT ![r] = k] /\ made' = made \cup {k}
  /\ UNCHANGED <<private, public, signed, raced, runs>>

\* The file cannot be read, or not be parsed; generating fails.
Refuse(r) ==
  /\ Goto(r, "load", "idle")
  /\ UNCHANGED <<private, public, key, made, signed, raced, runs>>

Open(r) ==
  /\ Goto(r, "open", "write")
  /\ private' = Bad
  /\ UNCHANGED <<public, key, made, signed, raced, runs>>

Write(r) ==
  /\ Goto(r, "write", "open_pub")
  /\ private' = key[r]
  /\ UNCHANGED <<public, key, made, signed, raced, runs>>

\* Mutant of WriteFails: the error of the write is not looked at.
WriteFailsUnnoticed(r) ==
  /\ pc[r] \in {"open", "write"} /\ pc' = [pc EXCEPT ![r] = "open_pub"]
  /\ UNCHANGED <<private, public, key, made, signed, raced, runs>>

\* MkdirAll, the open or the write fails: no key is returned.
WriteFails(r) ==
  /\ pc[r] \in {"open", "write"} /\ pc' = [pc EXCEPT ![r] = "idle"]
  /\ key' = [key EXCEPT ![r] = NoKey]
  /\ UNCHANGED <<private, public, made, signed, raced, runs>>

\* Mutant of OpenPub: the file's name lacks its suffix.
OpenPubSamePath(r) ==
  /\ Goto(r, "open_pub", "write_pub")
  /\ private' = Bad
  /\ UNCHANGED <<public, key, made, signed, raced, runs>>

OpenPub(r) ==
  /\ Goto(r, "open_pub", "write_pub")
  /\ public' = Bad
  /\ UNCHANGED <<private, key, made, signed, raced, runs>>

WritePub(r) ==
  /\ Goto(r, "write_pub", "sign")
  /\ public' = key[r]
  /\ UNCHANGED <<private, key, made, signed, raced, runs>>

\* An error of the public file is ignored.
PubFails(r) ==
  /\ pc[r] \in {"open_pub", "write_pub"} /\ pc' = [pc EXCEPT ![r] = "sign"]
  /\ UNCHANGED <<private, public, key, made, signed, raced, runs>>

\* The caller signs its bundle and is done.
Sign(r) ==
  /\ Goto(r, "sign", "idle")
  /\ signed' = signed \cup {key[r]}
  /\ key' = [key EXCEPT ![r] = NoKey]
  /\ UNCHANGED <<private, public, made, raced, runs>>

\* The process ends between two statements.
Crash(r) ==
  /\ pc[r] # "idle" /\ pc' = [pc EXCEPT ![r] = "idle"]
  /\ key' = [key EXCEPT ![r] = NoKey]
  /\ UNCHANGED <<private, public, made, signed, raced, runs>>

Next ==
  \E r \in Runs :
    \/ Start(r) \/ Load(r) \/ Generate(r) \/ Refuse(r)
    \/ Open(r) \/ Write(r) \/ WriteFails(r)
    \/ OpenPub(r) \/ WritePub(r) \/ PubFails(r)
    \/ Sign(r) \/ Crash(r)

Spec == Init /\ [][Next]_vars

-----------------------------------------------------------------------------
(* Properties. *)

\* Every variable keeps to its type, and only a key signs.
TypeOK ==
  /\ private \in Keys \cup {NoKey, Bad} /\ public \in Keys \cup {NoKey, Bad}
  /\ pc \in [Runs -> PCs] /\ key \in [Runs -> Keys \cup {NoKey}]
  /\ \A r \in Runs : pc[r] \in PCs \ {"idle", "load"} => key[r] \in made
  /\ made \subseteq Keys /\ signed \subseteq made /\ raced \in BOOLEAN
  /\ runs \in 0..MaxRuns

\* "it is the machine's stable identity across bundles so that a series of
\* measurements can be tied to the same prober" (keys.go:27): all bundles of a
\* host are signed with one key.  It does not hold of two first runs that overlap.
StableIdentity == \A k, l \in signed : k = l

\* What is kept of a first use is a key: LoadOrCreateKey "returns the host's
\* persistent Ed25519 signing key, generating and storing one on first use"
\* (keys.go:25), so unless a run is at its writing the file can be loaded.  It
\* does not hold: a run may end or fail between the truncation and the write.
KeyUsable == private = Bad => \E r \in Runs : pc[r] = "write"

\* However runs overlap, fail and end, two identities come of one thing only: a
\* run that looked for a key while another was between its look and the end of
\* its write.
StableUnlessRaced == ~raced => StableIdentity

\* The public key is stored "alongside for easy out-of-band sharing/pinning"
\* (keys.go:53): but for the same race, whenever that file is whole it is the
\* key of every bundle.
PinnedUnlessRaced == ~raced /\ public \in Keys => signed \subseteq {public}

\* The file holds a key and no run is about to store one.
Settled == private \in Keys /\ Storing = {}

\* Even of overlapping first uses one key remains: once they are over it is
\* never replaced, and every run that comes to a key from then on comes to it.
SettlesOnOneKey ==
  [][Settled => /\ Settled' /\ private' = private
                /\ \A r \in Runs : key'[r] \in {key[r], NoKey, private}]_vars
=============================================================================
