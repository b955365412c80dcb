------------------------------- MODULE Mobile -------------------------------
(***************************************************************************)
(* The Android shell (mobile/apps/android): a VPN service whose two loops   *)
(* feed packets to a cockpit and publish its board to a file, and an       *)
(* activity that starts and stops the service and polls the file.          *)
(*                                                                         *)
(* The service's callbacks run on the main thread, each in one step; the   *)
(* loops run on threads of their own and notice a cancellation only where  *)
(* they look for it.  An instance of the service outlives neither its      *)
(* onDestroy nor the process, but its loops may.  Every call of start()    *)
(* makes a session: a cockpit and, if the tunnel is established, a tunnel, *)
(* a scope and two loops.                                                  *)
(***************************************************************************)
EXTENDS Integers, Sequences

CONSTANTS Nothing,       \* no board: a file that is missing or cannot be parsed
          MaxActs,       \* bound: presses of the button and ends of the process
          MaxPackets,    \* bound: packets read
          MaxFails       \* bound: failed writes

ASSUME MobileAssumption ==
  /\ MaxActs \in Nat /\ MaxPackets \in Nat /\ MaxFails \in Nat
  /\ Nothing \notin [of : Nat, n : Nat]

VARIABLES
  running,                 \* the activity's flag
  cmds,                    \* start commands on their way to the service
  alive,                   \* the instance that runs, or 0
  stopping,                \* stopSelf has been called: onDestroy will come
  services,                \* the fields of every instance so far
  sessions,                \* what every start() so far has made
  disk,                    \* board.json
  used                     \* the bounded quantities used so far

sysVars == <<cmds, alive, stopping, services>>
vars    == <<running, sysVars, sessions, disk, used>>

\* A board is known by its cockpit and the packets folded into it.
Boards == [of : Nat, n : Nat]

Commands == {"start", "stop"}

\* tunnel: the last session established, whose tunnel and scope are the fields.
NewService == [cockpit |-> 0, tunnel |-> 0]

\* late: the boards its loop has written since its scope was cancelled, up to 2.
Session(i, established) ==
  [of |-> i, tunnel |-> established, fed |-> 0, open |-> established,
   cancelled |-> FALSE,
   reader |-> IF established THEN "read" ELSE "end",
   publisher |-> IF established THEN "top" ELSE "end",
   json |-> Nothing, late |-> 0]

Init ==
  /\ running = FALSE
  /\ cmds = <<>> /\ alive = 0 /\ stopping = FALSE /\ services = <<>>
  /\ sessions = <<>>
  /\ disk = Nothing
  /\ used = [acts |-> 0, packets |-> 0, fails |-> 0]

Use(what, bound) == used[what] < bound /\ used' = [used EXCEPT ![what] = @ + 1]

-----------------------------------------------------------------------------
(* MainActivity. *)

\* The button: its flag turns whatever comes of the command.  A first start asks
\* for consent, which may be refused; the time the user takes to answer is the
\* time the command takes to arrive.
Press ==
  /\ Use("acts", MaxActs)
  /\ running' = ~running
  /\ cmds' \in IF running THEN {Append(cmds, "stop")} ELSE {cmds, Append(cmds, "start")}
  /\ UNCHANGED <<alive, stopping, services, sessions, disk>>

\* The activity is recreated; its state is not saved.
Recreate ==
  /\ running' = FALSE
  /\ UNCHANGED <<sysVars, sessions, disk, used>>

\* readBoard, which the activity polls: a file that is missing, or caught between
\* its truncation and its content, has no rows.
ReadBoard == disk

-----------------------------------------------------------------------------
(* LumraVpnService, main thread. *)

\* The instance a command is for: the one there is, or a new one.
Instance == IF alive = 0 THEN Len(services) + 1 ELSE alive
Fields   == IF alive = 0 THEN NewService ELSE services[alive]
Stored(fields) ==
  services' = [i \in DOMAIN services \cup {Instance} |->
                 IF i = Instance THEN fields ELSE services[i]]

\* onStartCommand with ACTION_STOP.
Stop ==
  /\ cmds # <<>> /\ Head(cmds) = "stop"
  /\ cmds' = Tail(cmds)
  /\ alive' = Instance /\ Stored(Fields)
  /\ stopping' = TRUE
  /\ UNCHANGED <<running, sessions, disk, used>>

\* onStartCommand without an action; start().  Whatever an earlier start() of
\* this instance has made is overwritten, not ended.
Start ==
  /\ cmds # <<>> /\ Head(cmds) = "start"
  /\ cmds' = Tail(cmds)
  /\ alive' = Instance
  /\ \E established \in BOOLEAN :
       LET k == Len(sessions) + 1
       IN /\ sessions' = Append(sessions, Session(Instance, established))
          /\ Stored([cockpit |-> k,
                     tunnel |-> IF established THEN k ELSE Fields.tunnel])
          /\ stopping' = (stopping \/ ~established)
  /\ UNCHANGED <<running, disk, used>>

\* The user or another VPN takes the tunnel away: onRevoke calls stopSelf.
Revoke ==
  /\ alive # 0 /\ ~stopping
  /\ stopping' = TRUE
  /\ UNCHANGED <<running, cmds, alive, services, sessions, disk, used>>

\* Mutant of Ended: onDestroy closes the tunnel but leaves the scope.
EndedOpen(s) == [s EXCEPT !.open = FALSE]

Ended(s) == [s EXCEPT !.open = FALSE, !.cancelled = TRUE]

OnDestroy ==
  /\ alive # 0 /\ stopping
  /\ alive' = 0 /\ stopping' = FALSE
  /\ sessions' = [k \in DOMAIN sessions |->
                    IF k = Fields.tunnel THEN Ended(sessions[k]) ELSE sessions[k]]
  /\ UNCHANGED <<running, cmds, services, disk, used>>

Killed(s) == [s EXCEPT !.open = FALSE, !.cancelled = TRUE,
                       !.reader = "end", !.publisher = "end", !.json = Nothing]

\* The process ends, with all of its threads.  The system starts a service
\* that is not about to stop again, with a null intent (START_STICKY).
ProcessEnds ==
  /\ cmds' = IF alive # 0 /\ ~stopping THEN <<"start">> ELSE <<>>
  /\ alive' = 0 /\ stopping' = FALSE
  /\ running' = FALSE
  /\ sessions' = [k \in DOMAIN sessions |-> Killed(sessions[k])]
  /\ UNCHANGED <<services, disk>>

\* The system ends the process, or an exception that no loop expects.
Kill == Use("acts", MaxActs) /\ ProcessEnds

-----------------------------------------------------------------------------
(* The loops.  They use the fields of their instance, not what was there when *)
(* they were launched.                                                        *)

Cockpit(k) == services[sessions[k].of].cockpit

\* readLoop.  Without a packet the loop yields and tries again.
ReadPacket(k) ==
  /\ sessions[k].open /\ ~sessions[k].cancelled /\ Use("packets", MaxPackets)
  /\ sessions[k].reader = "read"
  /\ sessions' = [sessions EXCEPT ![k].reader = "feed"]
  /\ UNCHANGED <<running, sysVars, disk>>

\* isActive or yield sees the cancellation.
ReadEnds(k) ==
  /\ sessions[k].cancelled
  /\ sessions[k].reader = "read"
  /\ sessions' = [sessions EXCEPT ![k].reader = "end"]
  /\ UNCHANGED <<running, sysVars, disk, used>>

\* Cockpit.Feed.
Feed(k) ==
  /\ sessions[k].reader = "feed"
  /\ sessions' = [sessions EXCEPT ![Cockpit(k)].fed = @ + 1, ![k].reader = "out"]
  /\ UNCHANGED <<running, sysVars, disk, used>>

\* The packet goes back out.
WritePacket(k) ==
  /\ sessions[k].open
  /\ sessions[k].reader = "out"
  /\ sessions' = [sessions EXCEPT ![k].reader = "read"]
  /\ UNCHANGED <<running, sysVars, disk, used>>

\* A read or write of a tunnel that was closed meanwhile throws.  The loop
\* catches nothing, and its scope has no handler: the process ends, and whatever
\* instance runs by then with it.
Throws(k) ==
  /\ ~sessions[k].open
  /\ sessions[k].reader \in {"read", "out"}
  /\ ProcessEnds
  /\ UNCHANGED used

\* Mutant of Render: the packet that is being fed is counted.
RenderAhead(k) == [of |-> Cockpit(k), n |-> sessions[Cockpit(k)].fed + 1]

\* Mutant of Render: the board is rendered once, before the loop.
RenderOnce(k) == [of |-> Cockpit(k), n |-> 0]

\* Cockpit.BoardJSON
Render(k) == [of |-> Cockpit(k), n |-> sessions[Cockpit(k)].fed]

Publishing(k) ==
  /\ sessions[k].publisher = "top"
  /\ sessions' = [sessions EXCEPT ![k].publisher = "write", ![k].json = Render(k)]
  /\ disk' = Nothing
  /\ UNCHANGED <<running, sysVars, used>>

\* Mutant of PublishTop: neither the loop nor its sleep looks for a cancellation.
PublishTopBlind(k) == Publishing(k)

\* publishLoop: the board is rendered, and writeBytes truncates the file as it
\* opens it.
PublishTop(k) == ~sessions[k].cancelled /\ Publishing(k)

\* delay or isActive sees the cancellation.
PublishEnds(k) ==
  /\ sessions[k].cancelled
  /\ sessions[k].publisher = "top"
  /\ sessions' = [sessions EXCEPT ![k].publisher = "end"]
  /\ UNCHANGED <<running, sysVars, disk, used>>

\* writeBytes: the content.
PublishWrite(k) ==
  /\ sessions[k].publisher = "write"
  /\ disk' = sessions[k].json
  /\ sessions' = [sessions EXCEPT
       ![k].publisher = "top", ![k].json = Nothing,
       ![k].late = IF sessions[k].cancelled /\ @ < 2 THEN @ + 1 ELSE @]
  /\ UNCHANGED <<running, sysVars, used>>

\* An exception is swallowed; the file stays empty, or as it was if it could not
\* be opened.
PublishFails(k) ==
  /\ Use("fails", MaxFails)
  /\ \/ sessions[k].publisher = "write"
     \/ sessions[k].publisher = "top" /\ ~sessions[k].cancelled
  /\ sessions' = [sessions EXCEPT ![k].publisher = "top", ![k].json = Nothing]
  /\ UNCHANGED <<running, sysVars, disk>>

-----------------------------------------------------------------------------
Reader(k)    == Feed(k) \/ WritePacket(k) \/ ReadEnds(k) \/ Throws(k)
Publisher(k) == PublishTop(k) \/ PublishWrite(k) \/ PublishEnds(k)
Main         == Stop \/ Start \/ OnDestroy

Next ==
  \/ Press \/ Recreate
  \/ Main \/ Revoke \/ Kill
  \/ \E k \in DOMAIN sessions :
       Reader(k) \/ ReadPacket(k) \/ Publisher(k) \/ PublishFails(k)

Spec == Init /\ [][Next]_vars

\* Every start is a press or follows an end of the process: one that is counted,
\* or one by a loop whose instance was started, and ended, before.
Ids == 1..(2 * MaxActs)

ReaderOf(k)    == k \in DOMAIN sessions /\ Reader(k)
PublisherOf(k) == k \in DOMAIN sessions /\ Publisher(k)

\* The main thread and the threads of the loops go on;
\* nothing makes the user, the network or the system act.
FairSpec ==
  /\ Spec /\ WF_vars(Main)
  /\ \A k \in Ids : WF_vars(ReaderOf(k)) /\ WF_vars(PublisherOf(k))

-----------------------------------------------------------------------------
(* Properties. *)

PCs == {"top", "read", "feed", "out", "write", "end"}

\* Every variable keeps to its type, and no file or loop has a board with
\* more packets than its cockpit was fed.
TypeOK ==
  /\ running \in BOOLEAN /\ stopping \in BOOLEAN
  /\ cmds \in Seq(Commands)
  /\ alive \in 0..Len(services)
  /\ \A i \in DOMAIN services : /\ services[i].cockpit \in 0..Len(sessions)
                                /\ services[i].tunnel \in 0..Len(sessions)
  /\ \A k \in DOMAIN sessions :
       /\ sessions[k].of \in DOMAIN services
       /\ sessions[k].reader \in PCs /\ sessions[k].publisher \in PCs
  /\ \A b \in {disk} \cup {sessions[k].json : k \in DOMAIN sessions} :
       b # Nothing => /\ b \in Boards /\ b.of \in DOMAIN sessions
                      /\ b.n <= sessions[b.of].fed

\* The sessions of an instance that got a tunnel.
Tunnels(i) == {k \in DOMAIN sessions : sessions[k].of = i /\ sessions[k].tunnel}

\* An instance whose start() was called again after one of its tunnels was
\* there: the first tunnel's loops are then out of reach of onDestroy.
Restarted(i) == \E j, k \in Tunnels(i) : j # k

Destroyed(i) == i \in DOMAIN services /\ i # alive

\* onDestroy ends an instance that was started once: its tunnel is closed and
\* its scope cancelled, and at most the board its loop had in hand still comes,
\* however slow its thread.  And no board, in a loop's hand or on disk, shows
\* more than its own cockpit was fed (TypeOK).
AfterDestroy ==
  /\ TypeOK
  /\ \A i \in DOMAIN services : \A k \in Tunnels(i) :
       Destroyed(i) /\ ~Restarted(i) =>
         ~sessions[k].open /\ sessions[k].cancelled /\ sessions[k].late <= 1

\* stopSelf is enough to end an instance that was started once: both of its
\* loops end, though packets and publications go on until they notice, or until
\* the one that reads ends the process.
StopEnds ==
  stopping ~>
    /\ ~stopping
    /\ \A i \in DOMAIN services : Destroyed(i) /\ ~Restarted(i) =>
         \A k \in Tunnels(i) :
           sessions[k].reader = "end" /\ sessions[k].publisher = "end"

Fed(k) == IF k = 0 THEN 0 ELSE sessions[k].fed

\* "publishLoop writes the latest board to a file the UI polls": what has been
\* fed to the cockpit of the running instance is in the file some time later,
\* in spite of failed writes and of other loops on the same file, unless the
\* instance ends or starts over.
Published ==
  \A n \in 1..MaxPackets :
    (alive # 0 /\ Fed(Fields.cockpit) >= n) ~>
      \/ alive = 0 \/ Fed(Fields.cockpit) < n
      \/ disk # Nothing /\ disk.of = Fields.cockpit /\ disk.n >= n

\* Once the starts and stops are over, the activity finds the board of the
\* running instance or, at times, none, and never again that of an earlier one,
\* provided that no instance that has ended was started twice.
Settles ==
  <>[](\/ alive = 0 \/ ReadBoard = Nothing \/ ReadBoard.of = Fields.cockpit
       \/ \E i \in DOMAIN services : Destroyed(i) /\ Restarted(i))
=============================================================================
