-------------------------- MODULE Enforcer_proofs --------------------------
(***************************************************************************)
(* What the enforcer guarantees for any domains, addresses, inodes and     *)
(* writers.  A write that nothing overlaps leaves the file complete and up *)
(* to date; from then on, until two writings overlap, the file is never    *)
(* half written and keeps what was reported as applied; and the enforcer   *)
(* implements OverrideFile.  All rest on what a writer that is alone knows *)
(* of the temporary file.                                                  *)
(***************************************************************************)
EXTENDS Enforcer, TLAPS

\* What a writer knows from its snapshot to its rename while it is alone.
SoloInv ==
  \A w \in Writers :
    pc[w] \in Writing /\ solo[w] =>
      /\ snapshot[w] = overrides
      /\ \A v \in Writers \ {w} : pc[v] \notin Writing
      /\ pc[w] = "write" => tmp # NoFile /\ fd[w] = tmp /\ disk[tmp] = Empty
      /\ pc[w] = "rename" => tmp # NoFile /\ disk[tmp] = snapshot[w]

IInv == TypeOK /\ SoloInv

\* The types are kept by every step.
LEMMA TypeStep == TypeOK /\ [Next]_vars => TypeOK'
<1> SUFFICES ASSUME TypeOK, [Next]_vars
             PROVE  TypeOK'
  OBVIOUS
<1> USE DEF TypeOK, Writing, files, Leave
<1>1. NoOverrides \in Table
  BY DEF NoOverrides, Table
<1>2. ASSUME NEW w \in Writers, NEW d \in Names, NEW t, Call(w, d, t)
      PROVE  TypeOK'
  BY <1>2, EnforcerAssumption DEF Call
<1>3. ASSUME NEW w \in Writers, NEW ip \in IPs, Update(w, ip)
      PROVE  TypeOK'
  <2>1. overrides' \in Table
    BY <1>3 DEF Update, Table
  <2>2. QED
    BY <1>3, <2>1 DEF Update
<1>4. ASSUME NEW w \in Writers, ResolveFails(w)
      PROVE  TypeOK'
  BY <1>1, <1>4 DEF ResolveFails
<1>5. ASSUME NEW w \in Writers, Open(w)
      PROVE  TypeOK'
  BY <1>5 DEF Open
<1>6. ASSUME NEW w \in Writers, Write(w)
      PROVE  TypeOK'
  <2>1. fd[w] \in Inodes
    BY <1>6 DEF Write
  <2>2. Overwritten(disk[fd[w]], snapshot[w]) \subseteq Table \cup {Torn}
    BY DEF Overwritten
  <2>3. QED
    BY <1>6, <2>1, <2>2 DEF Write
<1>7. ASSUME NEW w \in Writers, WriteFails(w)
      PROVE  TypeOK'
  BY <1>1, <1>7 DEF WriteFails
<1>8. ASSUME NEW w \in Writers, Rename(w)
      PROVE  TypeOK'
  <2>1. [applied EXCEPT ![dom[w]] = snapshot[w][dom[w]]] \in Table
    BY DEF Table
  <2>2. QED
    BY <1>1, <1>8, <2>1 DEF Rename
<1>9. CASE Restart
  BY <1>1, <1>9, EnforcerAssumption DEF Restart
<1>10. CASE UNCHANGED vars
  BY <1>10 DEF vars
<1>11. QED
  BY <1>2, <1>3, <1>4, <1>5, <1>6, <1>7, <1>8, <1>9, <1>10 DEF Next

\* What a lone writer knows is kept by every step: whoever could disturb it
\* ends its being alone first.
LEMMA SoloStep == IInv /\ [Next]_vars => SoloInv'
<1> SUFFICES ASSUME TypeOK, SoloInv, [Next]_vars
             PROVE  SoloInv'
  BY DEF IInv
<1> USE DEF Writing, files, Leave
<1>1. ASSUME NEW w \in Writers, NEW d \in Names, NEW t, Call(w, d, t)
      PROVE  SoloInv'
  BY <1>1 DEF Call, SoloInv, TypeOK
<1>2. ASSUME NEW w \in Writers, NEW ip \in IPs, Update(w, ip)
      PROVE  SoloInv'
  BY <1>2 DEF Update, OthersWriting, SoloInv, TypeOK
<1>3. ASSUME NEW w \in Writers, ResolveFails(w)
      PROVE  SoloInv'
  BY <1>3 DEF ResolveFails, SoloInv, TypeOK
<1>4. ASSUME NEW w \in Writers, Open(w)
      PROVE  SoloInv'
  BY <1>4, EnforcerAssumption DEF Open, SoloInv, TypeOK
<1>5. ASSUME NEW w \in Writers, Write(w)
      PROVE  SoloInv'
  BY <1>5, EnforcerAssumption DEF Write, Overwritten, SoloInv, TypeOK
<1>6. ASSUME NEW w \in Writers, WriteFails(w)
      PROVE  SoloInv'
  BY <1>6 DEF WriteFails, SoloInv, TypeOK
<1>7. ASSUME NEW w \in Writers, Rename(w)
      PROVE  SoloInv'
  BY <1>7 DEF Rename, SoloInv, TypeOK
<1>8. CASE Restart
  BY <1>8 DEF Restart, SoloInv, TypeOK
<1>9. CASE UNCHANGED vars
  BY <1>9 DEF vars, SoloInv
<1>10. QED
  BY <1>1, <1>2, <1>3, <1>4, <1>5, <1>6, <1>7, <1>8, <1>9 DEF Next

\* Nothing is written initially.
LEMMA InitIInv == Init => IInv
BY EnforcerAssumption
DEF Init, IInv, TypeOK, SoloInv, Writing, NoOverrides, Table

\* Every variable of the enforcer keeps to its type, for any number of writers.
THEOREM TypeCorrect == Spec => []TypeOK
<1>1. Init => TypeOK
  BY InitIInv DEF IInv
<1>2. QED
  BY <1>1, TypeStep, PTL DEF Spec

\* The lone writer's knowledge is an invariant, for any number of writers.
THEOREM LoneWriter == Spec => []IInv
<1>1. IInv /\ [Next]_vars => IInv'
  BY TypeStep, SoloStep DEF IInv
<1>2. QED
  BY InitIInv, <1>1, PTL DEF Spec

\* A write that no other overlaps puts every override resolved so far into the
\* managed file (Enforcer.write), for any number of writers.
THEOREM SoloRepairs == Spec => SoloWriteRepairs
<1> DEFINE Repairs ==
      \A w \in Writers :
        pc[w] = "rename" /\ pc'[w] = "idle" /\ hosts' # hosts /\ solo[w]
          => disk'[hosts'] = overrides
<1>1. IInv /\ [Next]_vars => [Repairs]_vars
  <2> SUFFICES ASSUME IInv, Next, NEW w \in Writers,
                      pc[w] = "rename", pc'[w] = "idle", hosts' # hosts, solo[w]
               PROVE  disk'[hosts'] = overrides
    OBVIOUS
  <2>1. PICK v \in Writers : Rename(v)
    BY DEF Next, Call, Update, ResolveFails, Open, Write, WriteFails, Restart,
           files
  <2>2. hosts' = tmp /\ disk' = disk /\ disk[tmp] = snapshot[w]
        /\ snapshot[w] = overrides
    BY <2>1 DEF Rename, IInv, SoloInv, Writing
  <2>3. QED
    BY <2>2
<1>2. QED
  BY LoneWriter, <1>1, PTL DEF Spec, SoloWriteRepairs

-----------------------------------------------------------------------------
(* While writings do not overlap. *)

\* Until two writings overlap, every writer is alone, and the managed file is
\* never the one being written.
FileInv ==
  apart =>
    /\ \A w \in Writers : pc[w] \in Writing => solo[w]
    /\ hosts # NoFile => hosts # tmp /\ disk[hosts] \in Table

\* A write whose writer is alone goes to another file than the managed one.
LEMMA WriteElsewhere ==
  ASSUME IInv, FileInv, apart, NEW w \in Writers, Write(w) \/ WriteFails(w)
  PROVE  /\ hosts # NoFile => disk'[hosts] = disk[hosts]
         /\ UNCHANGED <<overrides, hosts, tmp, applied, apart>>
<1> USE DEF IInv, TypeOK, FileInv, Writing
<1>1. pc[w] = "write" => fd[w] = tmp
  BY DEF Write, WriteFails, SoloInv
<1>2. UNCHANGED <<overrides, hosts, tmp, applied, apart>>
  BY DEF Write, WriteFails
<1>3. \A i \in Inodes \ {tmp} : disk'[i] = disk[i]
  <2>1. CASE Write(w)
    BY <1>1, <2>1 DEF Write
  <2>2. CASE WriteFails(w)
    BY <1>1, <2>2 DEF WriteFails
  <2>3. QED
    BY <2>1, <2>2
<1>4. QED
  BY <1>2, <1>3

\* The managed file is left alone from one rename to the next.
LEMMA FileStep == IInv /\ FileInv /\ [Next]_vars => FileInv'
<1> SUFFICES ASSUME IInv, FileInv, [Next]_vars
             PROVE  FileInv'
  OBVIOUS
<1> USE DEF IInv, TypeOK, FileInv, Writing, files, Leave
<1>1. ASSUME NEW w \in Writers, NEW d \in Names, NEW t, Call(w, d, t)
      PROVE  FileInv'
  BY <1>1 DEF Call
<1>2. ASSUME NEW w \in Writers, NEW ip \in IPs, Update(w, ip)
      PROVE  FileInv'
  BY <1>2 DEF Update, OthersWriting
<1>3. ASSUME NEW w \in Writers, ResolveFails(w)
      PROVE  FileInv'
  BY <1>3 DEF ResolveFails
<1>4. ASSUME NEW w \in Writers, Open(w)
      PROVE  FileInv'
  BY <1>4, EnforcerAssumption DEF Open
<1>5. ASSUME NEW w \in Writers, Write(w) \/ WriteFails(w)
      PROVE  FileInv'
  <2>1. \A v \in Writers : pc'[v] \in Writing => pc[v] \in Writing /\ solo'[v] = solo[v]
    BY <1>5 DEF Write, WriteFails
  <2>2. apart' = apart /\ hosts' = hosts /\ tmp' = tmp
    BY <1>5 DEF Write, WriteFails
  <2>3. apart => (hosts # NoFile => disk'[hosts] = disk[hosts])
    BY <1>5, WriteElsewhere
  <2>4. QED
    BY <2>1, <2>2, <2>3
<1>6. ASSUME NEW w \in Writers, Rename(w)
      PROVE  FileInv'
  <2>1. solo[w] => disk[tmp] = snapshot[w]
    BY <1>6 DEF Rename, SoloInv
  <2>2. solo[w] => \A v \in Writers \ {w} : pc[v] \notin Writing
    BY <1>6 DEF Rename, SoloInv
  <2>3. /\ apart' = solo[w] /\ hosts' = tmp /\ tmp' = NoFile /\ tmp # NoFile
        /\ disk' = disk /\ pc' = [pc EXCEPT ![w] = "idle"]
    BY <1>6 DEF Rename
  <2>4. QED
    BY <2>1, <2>2, <2>3
<1>7. CASE Restart
  BY <1>7 DEF Restart
<1>8. CASE UNCHANGED vars
  BY <1>8 DEF vars
<1>9. QED
  BY <1>1, <1>2, <1>3, <1>4, <1>5, <1>6, <1>7, <1>8 DEF Next

\* While writings stay apart the managed file is left alone by them.
LEMMA FileKept == Spec => [](IInv /\ FileInv)
<1>1. Init => FileInv
  BY DEF Init, FileInv, Writing
<1>2. QED
  BY LoneWriter, <1>1, FileStep, PTL DEF Spec

\* For any number of writers, until two writings overlap, and again after the
\* next that none overlaps, a reader finds no file or a whole one, whatever
\* fails and wherever the process ends ("never sees a half-written file",
\* enforce.go:92).
THEOREM WholeFile == Spec => []WholeUnlessOverlapped
<1>1. FileInv => WholeUnlessOverlapped
  BY DEF FileInv, WholeUnlessOverlapped, NeverHalfWritten
<1>2. QED
  BY FileKept, <1>1, PTL

\* For any number of writers the lock, the temporary file and the rename
\* implement the promise: until writings overlap, and from the next that none
\* overlaps, the file is all that was accepted at some moment.
THEOREM Implementation == Spec => Implements
<1>1. Init => Promise!Init
  BY DEF Init, Promise!Init, Content, NoOverrides, Promise!NoOverrides
<1>2. IInv /\ FileInv /\ [Next]_vars
        => [Promise!Next]_<<overrides, Content, apart>>
  <2> SUFFICES ASSUME IInv, FileInv, [Next]_vars
               PROVE  Promise!Next \/ UNCHANGED <<overrides, Content, apart>>
    OBVIOUS
  <2> USE DEF IInv, TypeOK, FileInv, Writing, files, Content
  <2>1. ASSUME NEW w \in Writers, NEW d \in Names, NEW t, Call(w, d, t)
        PROVE  UNCHANGED <<overrides, Content, apart>>
    BY <2>1 DEF Call
  <2>2. ASSUME NEW w \in Writers, NEW ip \in IPs, Update(w, ip)
        PROVE  Promise!Next
    <3>1. Promise!Accept(dom[w], ip)
      BY <2>2 DEF Update, Promise!Accept
    <3>2. dom[w] \in Names
      BY <2>2 DEF Update
    <3>3. QED
      BY <3>1, <3>2 DEF Promise!Next
  <2>3. ASSUME NEW w \in Writers, ResolveFails(w)
        PROVE  UNCHANGED <<overrides, Content, apart>>
    BY <2>3 DEF ResolveFails
  <2>4. Content' \in Promise!Table \cup {Empty, Torn}
    <3>1. TypeOK'
      BY TypeStep
    <3>2. Content' = (IF hosts' = NoFile THEN NoOverrides ELSE disk'[hosts'])
      OBVIOUS
    <3>3. NoOverrides \in Table /\ Promise!Table = Table
      BY DEF NoOverrides, Table, Promise!Table
    <3>4. QED
      BY <3>1, <3>2, <3>3
  <2>5. ASSUME ~apart, UNCHANGED <<overrides, apart>>
        PROVE  Promise!Next
    BY <2>4, <2>5 DEF Promise!Next, Promise!Disturbed
  <2>6. ASSUME NEW w \in Writers, Open(w)
        PROVE  Promise!Next \/ UNCHANGED <<overrides, Content, apart>>
    <3>1. CASE ~apart
      BY <2>5, <2>6, <3>1 DEF Open
    <3>2. CASE apart
      BY <2>6, <3>2, EnforcerAssumption DEF Open
    <3>3. QED
      BY <3>1, <3>2
  <2>7. ASSUME NEW w \in Writers, Write(w) \/ WriteFails(w)
        PROVE  Promise!Next \/ UNCHANGED <<overrides, Content, apart>>
    <3>1. CASE ~apart
      BY <2>5, <2>7, <3>1 DEF Write, WriteFails
    <3>2. CASE apart
      BY <2>7, <3>2, WriteElsewhere
    <3>3. QED
      BY <3>1, <3>2
  <2>8. ASSUME NEW w \in Writers, Rename(w)
        PROVE  Promise!Next
    <3>1. /\ hosts' = tmp /\ tmp # NoFile /\ disk' = disk
          /\ overrides' = overrides /\ apart' = solo[w]
      BY <2>8 DEF Rename
    <3>2. CASE solo[w]
      <4>1. disk[tmp] = overrides
        BY <2>8, <3>2 DEF Rename, SoloInv
      <4>2. Promise!Replace
        BY <3>1, <3>2, <4>1 DEF Promise!Replace
      <4>3. QED
        BY <4>2 DEF Promise!Next
    <3>3. CASE ~solo[w]
      <4>1. ~apart
        BY <2>8, <3>3 DEF Rename
      <4>2. QED
        BY <2>5, <3>1, <3>3, <4>1
    <3>4. QED
      BY <3>2, <3>3
  <2>9. CASE Restart
    <3>1. Promise!Restart
      BY <2>9 DEF Restart, Promise!Restart, NoOverrides, Promise!NoOverrides
    <3>2. QED
      BY <3>1 DEF Promise!Next
  <2>10. CASE UNCHANGED vars
    BY <2>10 DEF vars
  <2>11. QED
    BY <2>1, <2>2, <2>3, <2>6, <2>7, <2>8, <2>9, <2>10 DEF Next
<1>3. QED
  BY FileKept, <1>1, <1>2, PTL DEF Spec, Implements, Promise!Spec

\* Whatever a writer has rendered, and whatever was reported as applied, is in
\* the map; the latter is in the file too, until writings overlap.
AppliedInv ==
  /\ \A w \in Writers : pc[w] \in Writing =>
       \A d \in Names : snapshot[w][d] # NoIP => overrides[d] # NoIP
  /\ \A d \in Names : applied[d] # NoIP =>
       /\ overrides[d] # NoIP
       /\ apart => hosts # NoFile /\ disk[hosts][d] # NoIP

\* An override reported as applied stays in the file.
LEMMA AppliedStep == IInv /\ FileInv /\ AppliedInv /\ [Next]_vars => AppliedInv'
<1> SUFFICES ASSUME IInv, FileInv, AppliedInv, [Next]_vars
             PROVE  AppliedInv'
  OBVIOUS
<1> USE DEF IInv, TypeOK, FileInv, AppliedInv, Writing, files, Leave
<1>1. ASSUME NEW w \in Writers, NEW d \in Names, NEW t, Call(w, d, t)
      PROVE  AppliedInv'
  BY <1>1 DEF Call
<1>2. ASSUME NEW w \in Writers, NEW ip \in IPs, Update(w, ip)
      PROVE  AppliedInv'
  <2>1. \A d \in Names : overrides[d] # NoIP => overrides'[d] # NoIP
    BY <1>2, EnforcerAssumption DEF Update, Table
  <2>2. /\ UNCHANGED <<applied, hosts, disk>> /\ (apart' => apart)
        /\ snapshot' = [snapshot EXCEPT ![w] = overrides']
        /\ pc' = [pc EXCEPT ![w] = "open"]
    BY <1>2 DEF Update
  <2>3. QED
    BY <2>1, <2>2
<1>3. ASSUME NEW w \in Writers, ResolveFails(w)
      PROVE  AppliedInv'
  BY <1>3 DEF ResolveFails
<1>4. ASSUME NEW w \in Writers, Open(w)
      PROVE  AppliedInv'
  BY <1>4, EnforcerAssumption DEF Open
<1>5. ASSUME NEW w \in Writers, Write(w) \/ WriteFails(w)
      PROVE  AppliedInv'
  <2>1. apart => (hosts # NoFile => disk'[hosts] = disk[hosts])
    BY <1>5, WriteElsewhere
  <2>2. UNCHANGED <<overrides, hosts, applied, apart>>
    BY <1>5 DEF Write, WriteFails
  <2>3. \A v \in Writers : pc'[v] \in Writing =>
          pc[v] \in Writing /\ snapshot'[v] = snapshot[v]
    BY <1>5 DEF Write, WriteFails
  <2>4. QED
    BY <2>1, <2>2, <2>3
<1>6. ASSUME NEW w \in Writers, Rename(w)
      PROVE  AppliedInv'
  <2>1. /\ hosts' = tmp /\ tmp # NoFile /\ UNCHANGED <<disk, overrides>>
        /\ applied' = [applied EXCEPT ![dom[w]] = snapshot[w][dom[w]]]
        /\ apart' = solo[w]
    BY <1>6 DEF Rename
  <2>2. solo[w] => disk[tmp] = overrides
    BY <1>6 DEF Rename, SoloInv
  <2>3. \A d \in Names : applied'[d] # NoIP => overrides[d] # NoIP
    BY <1>6, <2>1 DEF Rename, Table
  <2>4. \A v \in Writers : pc'[v] \in Writing =>
          pc[v] \in Writing /\ snapshot'[v] = snapshot[v]
    BY <1>6 DEF Rename
  <2>5. QED
    BY <2>1, <2>2, <2>3, <2>4
<1>7. CASE Restart
  BY <1>7 DEF Restart, NoOverrides
<1>8. CASE UNCHANGED vars
  BY <1>8 DEF vars
<1>9. QED
  BY <1>1, <1>2, <1>3, <1>4, <1>5, <1>6, <1>7, <1>8 DEF Next

\* What was applied is in the map and in the file.
LEMMA AppliedKept == Spec => [](IInv /\ FileInv /\ AppliedInv)
<1>1. Init => AppliedInv
  BY DEF Init, AppliedInv, NoOverrides, Writing
<1>2. QED
  BY FileKept, <1>1, AppliedStep, PTL DEF Spec

\* Unless writings overlapped, "both overrides should persist"
\* (enforce_test.go:64): an override reported as applied is in the file, and
\* in every later one, for any number of writers and domains.
THEOREM AppliedPersists == Spec => []AppliedInFile
<1>1. FileInv /\ AppliedInv => AppliedInFile
  BY DEF FileInv, AppliedInv, AppliedInFile, Content
<1>2. QED
  BY AppliedKept, <1>1, PTL

\* With one writer nothing ever overlaps: the quoted claim holds as it stands.
THEOREM OneWriter ==
  ASSUME \A v, w \in Writers : v = w
  PROVE  Spec => []NeverHalfWritten
<1>1. Init => apart
  BY DEF Init
<1>2. IInv /\ FileInv /\ apart /\ [Next]_vars => apart'
  BY DEF IInv, FileInv, Next, vars, Call, ResolveFails, Update, OthersWriting,
         Open, Write, WriteFails, Rename, Restart, Writing
<1>3. FileInv /\ apart => NeverHalfWritten
  BY DEF FileInv, NeverHalfWritten
<1>4. QED
  BY FileKept, <1>1, <1>2, <1>3, PTL DEF Spec
=============================================================================
