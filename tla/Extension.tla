----------------------------- MODULE Extension -----------------------------
(***************************************************************************)
(* The two parts of the browser extension that stand between the browser   *)
(* and a diagnosis: the badge of a tab (extension/background.js) and the   *)
(* native host (internal/nativemsg).                                       *)
(***************************************************************************)
EXTENDS Integers, FiniteSetsExt, Sequences

CONSTANTS MaxMessage,   \* the longest message the host accepts
          Navigations,  \* bound: the sequences of events checked
          Inputs        \* bound: the host's inputs checked

Navigation == [tab : Nat, frame : Nat, kind : {"completed", "interference", "other"}]
Message    == [len : Nat, valid : BOOLEAN, target : STRING]

ASSUME ExtensionAssumption ==
  /\ MaxMessage \in Nat
  /\ Navigations \subseteq Seq(Navigation) /\ Inputs \subseteq Seq(Message)

-----------------------------------------------------------------------------
(* The badge: the tabs that have one, after events of navigations. *)

OnErrorOccurred(badged, e) ==
  IF e.frame # 0 \/ e.kind # "interference" THEN badged ELSE badged \cup {e.tab}

\* Mutant of OnCompleted: a frame that loads clears the badge of its page.
OnCompletedAnyFrame(badged, e) == badged \ {e.tab}

OnCompleted(badged, e) == IF e.frame # 0 THEN badged ELSE badged \ {e.tab}

\* One of the two listeners is called for an event.
OnEvent(badged, e) ==
  IF e.kind = "completed" THEN OnCompleted(badged, e) ELSE OnErrorOccurred(badged, e)

Badged(events) ==
  LET after[i \in 0..Len(events)] ==
        IF i = 0 THEN {} ELSE OnEvent(after[i - 1], events[i])
  IN after[Len(events)]

-----------------------------------------------------------------------------
(* The native host.  Its input is a sequence of messages, each with the       *)
(* length it claims and that of its body, of which got bytes arrive before    *)
(* the pipe is closed.                                                        *)

Header == 4

\* Mutant of ReadMessage: the length is not limited.
ReadMessageUnlimited(m, got) ==
  IF got <= Header \/ m.len = 0 THEN "eof"
  ELSE IF got < Header + m.len \/ ~m.valid THEN "error" ELSE "request"

\* readMessage: one message, or how the input ends.  A body of which nothing
\* came is an end of input like a header cut short; one cut short is an error.
ReadMessage(m, got) ==
  IF got < Header THEN "eof"
  ELSE IF m.len = 0 \/ m.len > MaxMessage THEN "error"
  ELSE IF got = Header THEN "eof"
  ELSE IF got < Header + m.len \/ ~m.valid THEN "error" ELSE "request"

\* handle
Handle(m) == IF m.target = "" THEN [error |-> "missing target"]
             ELSE [verdict |-> m.target]

\* One turn of the loop of Serve, which has got so many bytes left to read.
ServeOne(s, m) ==
  LET r == ReadMessage(m, s.left)
  IN IF s.end # "serving" THEN s
     ELSE IF r # "request" THEN [s EXCEPT !.end = r]
     ELSE [s EXCEPT !.answers = Append(@, Handle(m)), !.left = @ - Header - m.len]

\* Serve: the answers written, and how it returns.
Serve(messages, got) ==
  LET after[i \in 0..Len(messages)] ==
        IF i = 0 THEN [answers |-> <<>>, left |-> got, end |-> "serving"]
        ELSE ServeOne(after[i - 1], messages[i])
      last == after[Len(messages)]
  IN [last EXCEPT !.end = IF @ = "serving" THEN "eof" ELSE @]

\* sendNativeMessage takes the host's first answer.
Relayed(answers) ==
  IF answers = <<>> THEN [error |-> "host has exited", coreMissing |-> TRUE]
  ELSE Head(answers)

\* The popup: a verdict is rendered, an error is explained.
PopupShows(resp) ==
  IF "verdict" \in DOMAIN resp THEN "verdict"
  ELSE IF "coreMissing" \in DOMAIN resp THEN "install the core" ELSE "error"

-----------------------------------------------------------------------------
(* Properties. *)

\* A tab has the badge exactly when the last navigation of its own main frame
\* that loaded, or failed as interference does, failed: its other frames, other
\* tabs and aborted navigations leave it alone, in any order of the events.
BadgeTells ==
  \A events \in Navigations : \A tab \in {events[i].tab : i \in DOMAIN events} :
    LET own == {i \in DOMAIN events : /\ events[i].tab = tab /\ events[i].frame = 0
                                      /\ events[i].kind # "other"}
    IN tab \in Badged(events) <=>
         own # {} /\ events[Max(own)].kind = "interference"

\* Where each message ends.
MessageEnds(messages) ==
  LET end[i \in 0..Len(messages)] ==
        IF i = 0 THEN 0 ELSE end[i - 1] + Header + messages[i].len
  IN end

\* Wherever the pipe is closed, the host answers in order every message that
\* came whole before the first it cannot accept, and no other; it returns an
\* error only if one of its messages is malformed or cut within its body.  The
\* popup, which asks a process of its own once, shows a verdict exactly if the
\* message is whole and names a target.
HostAnswers ==
  \A messages \in Inputs :
    LET end == MessageEnds(messages)
        bad == {i \in DOMAIN messages : \/ messages[i].len \notin 1..MaxMessage
                                        \/ ~messages[i].valid}
    IN \A got \in 0..end[Len(messages)] :
         LET whole == Max({i \in 0..Len(messages) : /\ end[i] <= got
                                                    /\ \A j \in bad : j > i})
             r     == Serve(messages, got)
         IN /\ r.answers = [i \in 1..whole |-> Handle(messages[i])]
            /\ r.end = "error" => whole + 1 \in bad \/ got > end[whole] + Header
            /\ PopupShows(Relayed(r.answers)) = "verdict" <=>
                 whole > 0 /\ messages[1].target # ""
=============================================================================
