--------------------------- MODULE KeyStore_proofs ---------------------------
(***************************************************************************)
(* The identity of a host, for any number of runs that overlap in any way, *)
(* wherever each of them fails or ends: one key, unless two runs look for  *)
(* it and store it at a time, and even then one in the end.                *)
(***************************************************************************)
EXTENDS KeyStore, TLAPS

\* Until two first uses overlap, the file is untouched while a run is to open
\* it, empty while it is to be written, and from the write on holds the key of
\* every run that has one, of every bundle and of a whole public file.
FileInv ==
  ~raced =>
    /\ signed # {} => private \in Keys
    /\ signed \subseteq {private}
    /\ public \in Keys => public = private
    /\ \A q, r \in Storing : q = r
    /\ \A r \in Runs :
         /\ pc[r] = "open" => private = NoKey
         /\ pc[r] = "write" => private = Bad
         /\ pc[r] \in {"open_pub", "write_pub", "sign"} => private = key[r]

\* Every key that is stored has been generated.
StoredMade == private \in made \cup {NoKey, Bad}

KeyInv == TypeOK /\ StoredMade /\ FileInv

LEMMA TypeStep == TypeOK /\ StoredMade /\ [Next]_vars => TypeOK' /\ StoredMade'
<1> SUFFICES ASSUME TypeOK, StoredMade, [Next]_vars
             PROVE  TypeOK' /\ StoredMade'
  OBVIOUS
<1> USE KeyAssumption DEF TypeOK, StoredMade, PCs, Goto
<1>1. ASSUME NEW r \in Runs, Start(r) PROVE TypeOK' /\ StoredMade'
  BY <1>1 DEF Start
<1>2. ASSUME NEW r \in Runs, Load(r) PROVE TypeOK' /\ StoredMade'
  BY <1>2 DEF Load
<1>3. ASSUME NEW r \in Runs, Generate(r) PROVE TypeOK' /\ StoredMade'
  BY <1>3 DEF Generate
<1>4. ASSUME NEW r \in Runs, Refuse(r) PROVE TypeOK' /\ StoredMade'
  BY <1>4 DEF Refuse
<1>5. ASSUME NEW r \in Runs, Open(r) PROVE TypeOK' /\ StoredMade'
  BY <1>5 DEF Open
<1>6. ASSUME NEW r \in Runs, Write(r) PROVE TypeOK' /\ StoredMade'
  BY <1>6 DEF Write
<1>7. ASSUME NEW r \in Runs, WriteFails(r) PROVE TypeOK' /\ StoredMade'
  BY <1>7 DEF WriteFails
<1>8. ASSUME NEW r \in Runs, OpenPub(r) PROVE TypeOK' /\ StoredMade'
  BY <1>8 DEF OpenPub
<1>9. ASSUME NEW r \in Runs, WritePub(r) PROVE TypeOK' /\ StoredMade'
  BY <1>9 DEF WritePub
<1>10. ASSUME NEW r \in Runs, PubFails(r) PROVE TypeOK' /\ StoredMade'
  BY <1>10 DEF PubFails
<1>11. ASSUME NEW r \in Runs, Sign(r) PROVE TypeOK' /\ StoredMade'
  BY <1>11 DEF Sign
<1>12. ASSUME NEW r \in Runs, Crash(r) PROVE TypeOK' /\ StoredMade'
  BY <1>12 DEF Crash
<1>13. CASE UNCHANGED vars
  BY <1>13 DEF vars
<1>14. QED
  BY <1>1, <1>2, <1>3, <1>4, <1>5, <1>6, <1>7, <1>8, <1>9, <1>10, <1>11,
     <1>12, <1>13 DEF Next

LEMMA FileStep ==
  ASSUME KeyInv, [Next]_vars
  PROVE  FileInv'
<1> USE KeyAssumption DEF KeyInv, TypeOK, StoredMade, FileInv, PCs, Goto, Storing
<1>1. ASSUME NEW r \in Runs, Start(r) PROVE FileInv'
  BY <1>1 DEF Start
<1>2. ASSUME NEW r \in Runs, Load(r) PROVE FileInv'
  BY <1>2 DEF Load
<1>3. ASSUME NEW r \in Runs, Generate(r) PROVE FileInv'
  BY <1>3 DEF Generate
<1>4. ASSUME NEW r \in Runs, Refuse(r) PROVE FileInv'
  BY <1>4 DEF Refuse
<1>5. ASSUME NEW r \in Runs, Open(r) PROVE FileInv'
  BY <1>5 DEF Open
<1>6. ASSUME NEW r \in Runs, Write(r) PROVE FileInv'
  BY <1>6 DEF Write
<1>7. ASSUME NEW r \in Runs, WriteFails(r) PROVE FileInv'
  BY <1>7 DEF WriteFails
<1>8. ASSUME NEW r \in Runs, OpenPub(r) PROVE FileInv'
  BY <1>8 DEF OpenPub
<1>9. ASSUME NEW r \in Runs, WritePub(r) PROVE FileInv'
  BY <1>9 DEF WritePub
<1>10. ASSUME NEW r \in Runs, PubFails(r) PROVE FileInv'
  BY <1>10 DEF PubFails
<1>11. ASSUME NEW r \in Runs, Sign(r) PROVE FileInv'
  BY <1>11 DEF Sign
<1>12. ASSUME NEW r \in Runs, Crash(r) PROVE FileInv'
  BY <1>12 DEF Crash
<1>13. CASE UNCHANGED vars
  BY <1>13 DEF vars
<1>14. QED
  BY <1>1, <1>2, <1>3, <1>4, <1>5, <1>6, <1>7, <1>8, <1>9, <1>10, <1>11,
     <1>12, <1>13 DEF Next

LEMMA InitInv == Init => KeyInv
<1> SUFFICES ASSUME Init PROVE KeyInv
  OBVIOUS
<1>1. \A r \in Runs : pc[r] = "idle"
  BY DEF Init
<1>2. TypeOK /\ StoredMade
  <2>1. raced \in BOOLEAN
    BY DEF Init
  <2>2. private = NoKey /\ public = NoKey /\ made = {} /\ signed = {} /\ runs = 0
    BY DEF Init
  <2>3. pc \in [Runs -> PCs] /\ key \in [Runs -> Keys \cup {NoKey}]
    BY DEF Init, PCs
  <2>4. QED
    BY <1>1, <2>1, <2>2, <2>3, KeyAssumption DEF TypeOK, StoredMade
<1>3. FileInv
  BY <1>1, KeyAssumption DEF Init, FileInv, Storing
<1>4. QED
  BY <1>2, <1>3 DEF KeyInv

\* Every variable keeps to its type, and nothing but a generated key signs, for
\* any number of overlapping runs.
THEOREM TypeCorrect == Spec => []TypeOK
<1>1. Init => TypeOK /\ StoredMade
  BY InitInv DEF KeyInv
<1>2. QED
  BY <1>1, TypeStep, PTL DEF Spec

\* Until two first uses overlap the key file, once written, is the key of every
\* bundle and of the public file (LoadOrCreateKey, keys.go).
THEOREM KeyInvariance == Spec => []KeyInv
<1>1. KeyInv /\ [Next]_vars => KeyInv'
  BY TypeStep, FileStep DEF KeyInv
<1>2. QED
  BY <1>1, InitInv, PTL DEF Spec

\* All bundles of a host are signed with one key, unless a run found no key while
\* another was storing one (LoadOrCreateKey, keys.go:35 and 49).
THEOREM OneIdentity == Spec => []StableUnlessRaced
<1>1. KeyInv => StableUnlessRaced
  BY DEF KeyInv, FileInv, StableUnlessRaced, StableIdentity
<1>2. QED
  BY <1>1, KeyInvariance, PTL

\* But for the same race the public key file, whenever it is whole, is the key of
\* every bundle (keys.go:54).
THEOREM PinnedKeyHolds == Spec => []PinnedUnlessRaced
<1>1. KeyInv => PinnedUnlessRaced
  BY DEF KeyInv, FileInv, PinnedUnlessRaced
<1>2. QED
  BY <1>1, KeyInvariance, PTL

-----------------------------------------------------------------------------
(* After a race. *)

\* What a step leaves alone once the file holds a key and no run is storing one.
Kept ==
  /\ Settled' /\ private' = private
  /\ \A r \in Runs : key'[r] \in {key[r], NoKey, private}

LEMMA SettledStep == TypeOK /\ Settled /\ [Next]_vars => Kept
<1> SUFFICES ASSUME TypeOK, Settled, [Next]_vars
             PROVE  Kept
  OBVIOUS
<1> USE KeyAssumption DEF TypeOK, PCs, Goto, Settled, Storing, Kept
<1>1. ASSUME NEW r \in Runs, Start(r) PROVE Kept
  BY <1>1 DEF Start
<1>2. ASSUME NEW r \in Runs, Load(r) PROVE Kept
  BY <1>2 DEF Load
<1>3. ASSUME NEW r \in Runs, Generate(r) PROVE Kept
  BY <1>3 DEF Generate
<1>4. ASSUME NEW r \in Runs, Refuse(r) PROVE Kept
  BY <1>4 DEF Refuse
<1>5. ASSUME NEW r \in Runs, Open(r) PROVE Kept
  BY <1>5 DEF Open
<1>6. ASSUME NEW r \in Runs, Write(r) PROVE Kept
  BY <1>6 DEF Write
<1>7. ASSUME NEW r \in Runs, WriteFails(r) PROVE Kept
  BY <1>7 DEF WriteFails
<1>8. ASSUME NEW r \in Runs, OpenPub(r) PROVE Kept
  BY <1>8 DEF OpenPub
<1>9. ASSUME NEW r \in Runs, WritePub(r) PROVE Kept
  BY <1>9 DEF WritePub
<1>10. ASSUME NEW r \in Runs, PubFails(r) PROVE Kept
  BY <1>10 DEF PubFails
<1>11. ASSUME NEW r \in Runs, Sign(r) PROVE Kept
  BY <1>11 DEF Sign
<1>12. ASSUME NEW r \in Runs, Crash(r) PROVE Kept
  BY <1>12 DEF Crash
<1>13. CASE UNCHANGED vars
  BY <1>13 DEF vars
<1>14. QED
  BY <1>1, <1>2, <1>3, <1>4, <1>5, <1>6, <1>7, <1>8, <1>9, <1>10, <1>11,
     <1>12, <1>13 DEF Next

\* Whatever overlapped before, a whole key file that no run is about to write is
\* never replaced, and every run that comes to a key comes to that one
\* (keys.go:35): the host's identity settles.
THEOREM IdentitySettles == Spec => SettlesOnOneKey
<1>1. TypeOK /\ [Next]_vars =>
        [Settled => /\ Settled' /\ private' = private
                    /\ \A r \in Runs : key'[r] \in {key[r], NoKey, private}]_vars
  BY SettledStep DEF Kept
<1>2. QED
  BY <1>1, TypeCorrect, PTL DEF Spec, SettlesOnOneKey
=============================================================================
