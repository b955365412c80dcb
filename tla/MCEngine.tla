------------------------------ MODULE MCEngine ------------------------------
(***************************************************************************)
(* A small instance of Engine for TLC: the TTLs are those of a server 14   *)
(* hops away and of resets from 6 hops, from the server, and from one hop  *)
(* less than the margin; the rates lie around the floor and the ratio.     *)
(* Inputs for the functions of Extension: events of two tabs with a frame, *)
(* and messages around the greatest length.  Inputs for those of Resolver: *)
(* every way three providers can answer, budgets around their timeouts, up *)
(* to three replies around the waits, and records of two parameters.  For  *)
(* Evidence: bundles of two fields, one omitted when empty and one emptied *)
(* by null, and of every text of at most two members, some of which are in *)
(* another case or no field.                                               *)
(***************************************************************************)
EXTENDS FrontEnds

MCTTLs == {50, 52, 249}
MCRates == {0, 1, 4, 5}

MCNavigations ==
  BoundedSeq([tab : {1, 2}, frame : {0, 1},
              kind : {"completed", "interference", "other"}], 3)

MCMessages ==
  {m \in [len : 0..3, valid : BOOLEAN, target : {"", "a"}] : m.valid \/ m.target = ""}
MCInputs == BoundedSeq(MCMessages, 3)

MCPool == <<"json", "json", "wire">>
MCNetworks ==
  [1..3 -> [kind : {"answer"}, ips : SUBSET {1, 2}] \cup [kind : {"dark", "error"}, ips : {{}}]]
MCBudgets == {0, 1, 10, 25, 26, 50, 51, 75, 100}

MCReply == [at : {0, 1, 2, 10}, own : {TRUE}, valid : {TRUE},
            ips : {<<>>, <<1>>, <<2>>, <<1, 2>>, <<2, 1>>, <<1, 1>>}]
           \cup [at : {0, 1}, own : {FALSE}, valid : {TRUE}, ips : {<<3>>}]
           \cup [at : {1}, own : {TRUE}, valid : {FALSE}, ips : {<<3>>}]
MCReplies ==
  {r \in BoundedSeq(MCReply, 3) :
     \A i \in DOMAIN r : i > 1 => r[i - 1].at <= r[i].at}

\* Names of one empty label, of one with a letter, and of one with a zero in it.
MCNames ==
  {[bytes |-> <<0>>, labels |-> <<2>>],
   [bytes |-> <<1, 7, 0>>, labels |-> <<2, 4>>],
   [bytes |-> <<2, 0, 5, 0>>, labels |-> <<2, 5>>]}

MCParams ==
  BoundedSeq([key : {1, 3, 5},
              value : {<<>>, <<5>>, <<2, 104, 51>>, <<1, 104, 2, 104, 51>>}], 2)

MCBytes(params) ==
  FlattenSeq([i \in DOMAIN params |->
                <<0, params[i].key, 0, Len(params[i].value)>> \o params[i].value])

MCRecords ==
  {[bytes  |-> <<0, 1>> \o name.bytes \o MCBytes(params),
    labels |-> name.labels,
    params |-> [i \in DOMAIN params |->
                  [key |-> params[i].key, len |-> Len(params[i].value),
                   at  |-> 2 + Len(name.bytes) + Len(MCBytes(SubSeq(params, 1, i - 1)))]]]
     : name \in MCNames, params \in MCParams}

MCSchema    == <<"attribution", "evidence">>
MCOtherCase == [Attribution |-> "attribution"]

MCTexts ==
  [indented : BOOLEAN,
   members : BoundedSeq([name : {"attribution", "Attribution", "evidence", "later"},
                         value : {"", "a", "mistyped", "null"}], 2)]
=============================================================================
