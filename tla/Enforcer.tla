------------------------------ MODULE Enforcer ------------------------------
(***************************************************************************)
(* The enforcer (internal/live/enforce.go).  Enforce updates the overrides *)
(* and renders them under the mutex, and writes the rendering after the    *)
(* unlock: WriteFile on hosts.tmp (an open that truncates, then a write),  *)
(* and a rename onto hosts.  Calls may overlap in any way; that no two are *)
(* ever about one domain is the doing of the escalator (CallsApart, Live). *)
(*                                                                         *)
(* Files are modelled as far as concurrent writers can tell: a path names  *)
(* an inode, an open file stays the same inode when its path is renamed,   *)
(* and a write does not shorten what is there.                             *)
(***************************************************************************)
EXTENDS Naturals, FiniteSets, Verdict

CONSTANTS Names,      \* domains Enforce is called for
          NoName,     \* stands for the domain of no call
          IPs,        \* addresses the resolver may return
          NoIP,       \* stands for the absence of an override
          Writers,    \* goroutines that may be inside Enforce
          Inodes,     \* identities of files
          NoFile,     \* a path that names no file
          Empty,      \* content of a truncated file
          Torn,       \* content mixed from two bodies, or cut short
          MaxCalls    \* bound: calls of Enforce over the whole run

ASSUME EnforcerAssumption ==
  /\ NoName \notin Names /\ NoIP \notin IPs /\ NoFile \notin Inodes
  /\ Empty # Torn
  /\ MaxCalls \in Nat

VARIABLES
  overrides,  \* the map the mutex protects
  hosts, tmp, \* the inodes the two paths name
  disk,       \* the content of each inode
  pc,         \* where each writer is in Enforce
  dom,        \* the domain of its call
  snapshot,   \* the body it rendered
  fd,         \* the inode it has open
  applied,    \* history: overrides of this process reported as written
  solo,       \* history: no other writer was under way since the snapshot
  apart,      \* history: no two writings overlapped since the file was last
              \* replaced by one that none overlapped
  calls       \* number of calls so far

files == <<hosts, tmp, disk>>
vars == <<overrides, files, pc, dom, snapshot, fd, applied, solo, apart, calls>>

Table == [Names -> IPs \cup {NoIP}]
NoOverrides == [d \in Names |-> NoIP]

\* The stretch of Enforce from the unlock to its return.
Writing == {"open", "write", "rename"}
OthersWriting(w) == {v \in Writers \ {w} : pc[v] \in Writing}

Init ==
  /\ overrides = NoOverrides
  /\ hosts = NoFile /\ tmp = NoFile
  /\ disk = [i \in Inodes |-> Empty]
  /\ pc = [w \in Writers |-> "idle"]
  /\ dom = [w \in Writers |-> NoName]
  /\ snapshot = [w \in Writers |-> NoOverrides]
  /\ fd = [w \in Writers |-> NoFile]
  /\ applied = NoOverrides
  /\ solo = [w \in Writers |-> FALSE]
  /\ apart = TRUE
  /\ calls = 0

-----------------------------------------------------------------------------
\* Enforce returns, and its locals are gone.
Leave(w) ==
  /\ pc' = [pc EXCEPT ![w] = "idle"]
  /\ dom' = [dom EXCEPT ![w] = NoName]
  /\ snapshot' = [snapshot EXCEPT ![w] = NoOverrides]
  /\ fd' = [fd EXCEPT ![w] = NoFile]
  /\ solo' = [solo EXCEPT ![w] = FALSE]

\* Enforce is entered.  A verdict without the DoH lever ends it at once.
Call(w, d, t) ==
  /\ pc[w] = "idle" /\ calls < MaxCalls
  /\ calls' = calls + 1
  /\ IF Recommend(t) = "use-DoH"
     THEN pc' = [pc EXCEPT ![w] = "resolve"] /\ dom' = [dom EXCEPT ![w] = d]
     ELSE UNCHANGED <<pc, dom>>
  /\ UNCHANGED <<overrides, files, snapshot, fd, applied, solo, apart>>

\* The resolver fails or returns no address.
ResolveFails(w) ==
  /\ pc[w] = "resolve"
  /\ Leave(w)
  /\ UNCHANGED <<overrides, files, applied, apart, calls>>

\* Mutant of Update: the body is rendered before the override is stored.
UpdateLate(w, ip) ==
  /\ pc[w] = "resolve"
  /\ overrides' = [overrides EXCEPT ![dom[w]] = ip]
  /\ snapshot' = [snapshot EXCEPT ![w] = overrides]
  /\ solo' = [v \in Writers |-> IF v = w THEN OthersWriting(w) = {}
                                ELSE solo[v] /\ pc[v] \notin Writing]
  /\ apart' = (apart /\ OthersWriting(w) = {})
  /\ pc' = [pc EXCEPT ![w] = "open"]
  /\ UNCHANGED <<files, dom, fd, applied, calls>>

\* Mutant of Update: the body holds the new override only.
UpdateForgets(w, ip) ==
  /\ pc[w] = "resolve"
  /\ overrides' = [overrides EXCEPT ![dom[w]] = ip]
  /\ snapshot' = [snapshot EXCEPT ![w] = [NoOverrides EXCEPT ![dom[w]] = ip]]
  /\ solo' = [v \in Writers |-> IF v = w THEN OthersWriting(w) = {}
                                ELSE solo[v] /\ pc[v] \notin Writing]
  /\ apart' = (apart /\ OthersWriting(w) = {})
  /\ pc' = [pc EXCEPT ![w] = "open"]
  /\ UNCHANGED <<files, dom, fd, applied, calls>>

\* The critical section: the first address returned is stored and rendered.
Update(w, ip) ==
  /\ pc[w] = "resolve"
  /\ overrides' = [overrides EXCEPT ![dom[w]] = ip]
  /\ snapshot' = [snapshot EXCEPT ![w] = overrides']
  /\ solo' = [v \in Writers |-> IF v = w THEN OthersWriting(w) = {}
                                ELSE solo[v] /\ pc[v] \notin Writing]
  /\ apart' = (apart /\ OthersWriting(w) = {})
  /\ pc' = [pc EXCEPT ![w] = "open"]
  /\ UNCHANGED <<files, dom, fd, applied, calls>>

\* Mutant of Open: the body is written into the managed file itself.
OpenInPlace(w) ==
  /\ pc[w] = "open"
  /\ \E i \in Inodes :
       /\ i = hosts \/ hosts = NoFile
       /\ hosts' = i /\ tmp' = i
       /\ disk' = [disk EXCEPT ![i] = Empty]
       /\ fd' = [fd EXCEPT ![w] = i]
  /\ pc' = [pc EXCEPT ![w] = "write"]
  /\ UNCHANGED <<overrides, dom, snapshot, applied, solo, apart, calls>>

\* open(hosts.tmp, O_CREATE|O_TRUNC): the file already there, or a new one.
Open(w) ==
  /\ pc[w] = "open"
  /\ \E i \in Inodes :
       /\ i = tmp \/ (tmp = NoFile /\ i # hosts /\ \A v \in Writers : fd[v] # i)
       /\ tmp' = i
       /\ disk' = [disk EXCEPT ![i] = Empty]
       /\ fd' = [fd EXCEPT ![w] = i]
  /\ pc' = [pc EXCEPT ![w] = "write"]
  /\ UNCHANGED <<overrides, hosts, dom, snapshot, applied, solo, apart, calls>>

\* What a file may hold after t is written to its beginning: a longer body that
\* is already there shows behind it, and lines differ in length.
Overwritten(old, t) == IF old \in {Empty, t} THEN {t} ELSE {t, Torn}

Write(w) ==
  /\ pc[w] = "write"
  /\ \E body \in Overwritten(disk[fd[w]], snapshot[w]) :
       disk' = [disk EXCEPT ![fd[w]] = body]
  /\ fd' = [fd EXCEPT ![w] = NoFile]
  /\ pc' = [pc EXCEPT ![w] = "rename"]
  /\ UNCHANGED <<overrides, hosts, tmp, dom, snapshot, applied, solo, apart,
                 calls>>

\* An error of MkdirAll, the open, the write or the rename: Enforce reports
\* that nothing was applied.  A failing write leaves part of the body behind.
WriteFails(w) ==
  /\ pc[w] \in Writing
  /\ disk' = IF pc[w] = "write" THEN [disk EXCEPT ![fd[w]] = Torn] ELSE disk
  /\ Leave(w)
  /\ UNCHANGED <<overrides, hosts, tmp, applied, apart, calls>>

\* rename(hosts.tmp, hosts) moves whatever hosts.tmp names.
Rename(w) ==
  /\ pc[w] = "rename" /\ tmp # NoFile
  /\ hosts' = tmp /\ tmp' = NoFile
  /\ applied' = [applied EXCEPT ![dom[w]] = snapshot[w][dom[w]]]
  /\ apart' = solo[w]
  /\ Leave(w)
  /\ UNCHANGED <<overrides, disk, calls>>

\* The process ends between any two steps, and is started again.
Restart ==
  /\ calls < MaxCalls
  /\ calls' = calls + 1
  /\ overrides' = NoOverrides /\ applied' = NoOverrides
  /\ pc' = [w \in Writers |-> "idle"]
  /\ dom' = [w \in Writers |-> NoName]
  /\ fd' = [w \in Writers |-> NoFile]
  /\ solo' = [w \in Writers |-> FALSE]
  /\ snapshot' = [w \in Writers |-> NoOverrides]
  /\ UNCHANGED <<files, apart>>

Next ==
  \/ \E w \in Writers :
       \/ \E d \in Names, t \in {"DNS_TAMPERING", "IP_BLOCKING"} : Call(w, d, t)
       \/ \E ip \in IPs : Update(w, ip)
       \/ ResolveFails(w) \/ Open(w) \/ Write(w) \/ WriteFails(w) \/ Rename(w)
  \/ Restart

Spec == Init /\ [][Next]_vars

-----------------------------------------------------------------------------
(* Properties. *)

\* Every variable keeps to its type; a file is written only once it is open.
TypeOK ==
  /\ overrides \in Table /\ applied \in Table
  /\ hosts \in Inodes \cup {NoFile} /\ tmp \in Inodes \cup {NoFile}
  /\ disk \in [Inodes -> Table \cup {Empty, Torn}]
  /\ pc \in [Writers -> {"idle", "resolve"} \cup Writing]
  /\ dom \in [Writers -> Names \cup {NoName}]
  /\ \A w \in Writers : pc[w] # "idle" => dom[w] \in Names
  /\ snapshot \in [Writers -> Table]
  /\ fd \in [Writers -> Inodes \cup {NoFile}]
  /\ \A w \in Writers : pc[w] = "write" => fd[w] \in Inodes
  /\ solo \in [Writers -> BOOLEAN] /\ apart \in BOOLEAN
  /\ calls \in 0..MaxCalls

\* "write atomically replaces the managed hosts file so a reader never sees a
\* half-written file" (enforce.go:92): the file is absent or one whole body,
\* also after a crash or a failed write.
NeverHalfWritten == hosts # NoFile => disk[hosts] \in Table

\* NeverHalfWritten for any number of writers: a reader meets a broken file only
\* from the moment two writings overlapped, and no longer than to the next one
\* that none overlaps, through failures, ends of the process and restarts.
WholeUnlessOverlapped == apart => NeverHalfWritten

\* What a reader finds in the file.
Content == IF hosts = NoFile THEN NoOverrides ELSE disk[hosts]

\* "both overrides should persist" (enforce_test.go:64): unless writings
\* overlapped, an override reported as written is in the file, and in every
\* later one.
AppliedInFile ==
  apart => \A d \in Names : applied[d] # NoIP =>
             Content \in Table /\ Content[d] # NoIP

\* A call that no other call overlaps from its snapshot to its rename leaves
\* the file with every override resolved so far, whatever overlapping calls
\* and failed writes have left before it.
SoloWriteRepairs ==
  [][\A w \in Writers :
       pc[w] = "rename" /\ pc'[w] = "idle" /\ hosts' # hosts /\ solo[w]
         => disk'[hosts'] = overrides]_vars

\* The enforcer implements the promise, with any number of writers.
Promise == INSTANCE OverrideFile WITH accepted <- overrides, content <- Content,
                                      calm <- apart, Broken <- {Empty, Torn}
Implements == Promise!Spec
=============================================================================
