# Verification of lumra

lumra measures interference with a connection: it runs active probes against a
target, folds what they find into one verdict, watches verdicts over time, and
in its live mode observes the host's own traffic and diagnoses the domains it
sees on its own. This directory holds TLA+ modules of that behaviour, TLC runs
that check them on small instances, and theorems that TLAPS proves for every
instance. `PROJECT.json` maps each definition to the lines it models.

## 1. Inventory

| Component | State | Operations | Hard parts |
|---|---|---|---|
| Verdict model (`internal/verdict`, `live/policy.go`) | none | type → nature, type → lever | totality when a type is added |
| Tracker (`live/tracker.go`) | one `Flow` per domain under a mutex | `Observe`, `SetVerdict`, `SetEnforced`, `PendingAnalysis`, `Snapshot` | fed by the tap, the escalator's goroutines and the renderer at once |
| Tap and dispatcher (`live/packet.go`, `reassemble.go`, `sni.go`, `serverhello.go`, `dns.go`, `tap_*.go`, `monitor.go`) | a map from (server IP, client port) to domain and two handshake reassemblers | one call per captured packet | no TCP sequence numbers, no connection end: retransmission, reordering, port reuse, leaks; lengths and offsets that a packet claims |
| Escalator (`live/escalate.go`) | semaphore, WaitGroup, `inFlight`, one goroutine per pending domain | sweep, acquire, diagnose, record, enforce, shut down | sweeps, goroutines, tap and cancellation interleave |
| Enforcer (`live/enforce.go`) | `overrides` map under a mutex; the `hosts` file and its `.tmp` | `Enforce` | the file is written outside the lock by several goroutines |
| Board renderer (`live/render.go`) | none | snapshot → rows | what a row claims against what the flow holds |
| Live mode (`cmd/lumra`, `runLive`) | all of the above | tap, escalator, enforcer and renderer run at once | a row read while goroutines stand inside `Enforce` |
| Engine and probes (`internal/engine`, `internal/probe`) | one `Verdict` per diagnosis | measure, then contribute, probe by probe | the order of contributions, guards on overwriting, deadlines |
| Resolvers (`probe/dns.go`, `doh.go`, `ech.go`) | none between diagnoses | ask the pool in turn, collect racing replies, parse a record | one deadline for all providers, replies that race, bounds |
| Watch (`internal/watch`) | the last verdict type per target | poll, classify, report | which transitions count as blocked, polls cut off |
| Evidence (`internal/evidence`) | the key pair on disk; the bundle | `LoadOrCreateKey`, `Sign`, `Verify`, OONI export | two processes creating the key, a crash between the two files; two verifiers of one bundle |
| CLI (`cmd/lumra`) | none of its own | check, push, watch, live, host | retry of a push whose answer was lost |
| Cloud (`cloud/`) | table of measurements keyed by digest | ingest, events, targets, bundle | the same measurement delivered twice |
| Native messaging host (`internal/nativemsg`) and browser extension (`extension/`) | a pipe; the badge of each tab | request, reply | truncated messages, navigations that overtake each other |
| Mobile (`mobile/`) | a `Cockpit` around a Monitor; the platform services | feed, board | two service starts, loops that outlive their service, a reader during a file write |
| Report (`internal/report`), egress lookup (`live/egress.go`) | none | formatting, one interface lookup | the report's own table of what is a block |

How they interact: the tap's goroutine calls `Tracker.Observe`; the escalator
asks the tracker which domains need analysis, runs `engine.Diagnose` for each in
a goroutine, writes the verdict to the tracker and hands the recommended lever
to the enforcer; the renderer copies the board. `engine.Diagnose` calls the
probes in a fixed order and each changes the one shared `Verdict`. `watch` calls
`engine.Diagnose` on a timer and compares types. `push` signs the verdict with
the stored key and posts it to the cloud's ingest handler, which verifies it
again. The extension's popup starts the native host, which runs a diagnosis per
message. The Android activity starts and stops a service whose two loops feed
packets to a cockpit and publish its board to a file the activity polls.

What makes each correct: the escalator must not diagnose a domain twice at a
time, must keep its limit, must not lose a domain and must stop; the enforcer's
file must always be complete and hold every override reported as applied, and a
row that says so must be true; the dispatcher must attribute a segment to the
connection it belongs to and forget connections that ended, and its parsers must
take what was sent and nothing else; the engine must not let a later probe
discard what an earlier one established, nor conclude from a probe that never
ran; a dark resolver must not blind a diagnosis; watch must report every change
of state once and accuse no one of what did not happen; the key must be stable,
and a bundle must verify wherever it is verified; the shell must end what it
started and show the board of what runs.

## 2. Plan

Done, in this order:

1. `Verdict`, `Tracker`, `Escalator`: the live board and its automatic
   escalation, checked and proved.
2. `OverrideFile` (what the managed hosts file promises) and `Enforcer`, shown
   to implement it with any number of writers.
3. `Tap`: the dispatcher over the tracker, with connections that end, ports that
   are reused and segments in any order, checked and proved.
4. `Probe`, `Engine`: the probes' classifications and the fold of their findings,
   with a context that may end between any two measurements.
5. `KeyStore`: the key files over runs that overlap, fail or end anywhere.
6. `Cloud`: pushes and the ingest handler over an unreliable network.
7. `Watch`: the polling loop with its ticker, cut-off diagnoses and cancellation.
8. `Board` and `Live`: the composition of escalator, enforcer and renderer, and
   the end of its process, checked and proved.
9. `Packet`, `Wire`: the tap's parsers and its reassembler as functions of bytes;
   those of packets proved.
10. `Mobile`: the Android shell over starts, stops, revocation and the end of
    its process.
11. `Extension`, `FrontEnds`: the badge and the native host, and what reports,
    exports and the popup make of a verdict.
12. `DoH`: the pool under its deadline; `Resolver`: racing replies, the HTTPS
    record.
13. `Evidence`: the bundle and its two verifiers.
14. Proofs of the safety properties of `Watch` and `Mobile`, of `FrontEnds` over
    the engine, and by induction of the loops of `DoH`, `Extension` and `Evidence`.
15. `Wire` and `Resolver` as recursive functions over the turns of their loops,
    and proofs of what they read, for inputs of any length.

Every safety property of the passing runs is thereby a theorem. Left: what the
managed file holds while writings overlap, of which `OverrideFile` says only that
it may be anything until the next one that none overlaps.

## 3. The modules and the code

| Module | Extends | Models | Proofs |
|---|---|---|---|
| `Verdict` | | types, natures, policy table | |
| `Tracker` | `Verdict` | the board's operations, one operator per method | `Live_proofs` |
| `Escalator` | `Tracker` | `Escalator.Run`, its goroutines, the world around them | `Live_proofs` |
| `OverrideFile` | | abstract: what a reader of the hosts file is promised | |
| `Enforcer` | `Verdict`, instance of `OverrideFile` | `Enforce` and the files under it | `Enforcer_proofs` |
| `Board` | `Tracker` | the rows of the board | |
| `Live` | `Escalator`, `Board`, instance of `Enforcer` | `runLive`: all of them at once | `Live_proofs` |
| `Tap` | `Tracker`, `Wire` | dispatcher and reassemblers over the host's connections | `Tap_proofs` |
| `Packet` | | the parser of IP packets | `Tap_proofs` |
| `Wire` | `Packet` | the parsers of DNS replies, records and hellos | `Tap_proofs` |
| `Probe` | `Verdict` | what each probe can measure, and how it classifies it | |
| `DoH` | | the pool of resolvers under one deadline | `Engine_proofs` |
| `Engine` | `Probe`, `Resolver` | `Diagnose`, statement by statement | `Engine_proofs` |
| `Resolver` | `DoH` | racing replies and the HTTPS record | `Engine_proofs` |
| `Extension` | | the badge of each tab, the native host | `Engine_proofs` |
| `FrontEnds` | `Engine`, `Extension`, `Evidence` | report, OONI record, popup | `Engine_proofs` |
| `KeyStore` | | `LoadOrCreateKey` in several processes | `KeyStore_proofs` |
| `Evidence` | | signing, encoding and both verifications of a bundle | `Engine_proofs` |
| `Cloud` | | `lumra push` and the ingest handler | `Cloud_proofs` |
| `Watch` | `Verdict` | `Monitor.Run` | `Watch_proofs` |
| `Mobile` | | the Android activity, service and loops | `Mobile_proofs` |

**Tracker.** The map `flows` is the code's `flows`. Every method of the tracker
holds the mutex from its first to its last statement, so each is one atomic
step: `Observe`, `SetVerdict`, `SetEnforced` and `PendingAnalysis`. Times are
abstracted to the one question the code asks of them, whether `Reanalyze` has
passed since the verdict (`due`, set by `Age`). Domains are numbers because
`PendingAnalysis` returns them sorted and the sweep visits them in that order.
The module has no behaviour of its own; the tap and the escalator drive it.

**Escalator.** `runPc` is where `Run` stands (its `select`, its loop over the
pending list, `wg.Wait`), `tick` the one place of the ticker's channel, `todo`
the list the sweep is working through, which was taken under the lock and is
used after it. Each goroutine has a `pc`: waiting for a slot, diagnosing,
recording, enforcing, marking, and then its three deferred calls one at a time,
last in first out. `sem`, `wg` and `inFlight` are the semaphore channel, the
WaitGroup and the `sync.Map`. `Diagnoser` and `Enforcer` are parameters of the
code. `answer` is what a diagnosis that finishes now would report, with a
number that grows whenever the network changes; a diagnosis reads it at its
end. The tap's events, the clock, the network and the cancellation are
actions of the environment and may come between any two statements.
`SetVerdict` does not clear `Enforced`, so a mark outlives its verdict;
`EnforcedUnderItsVerdict` is about the time before, from the recording of a
verdict to the mark it asks for.

**Enforcer.** `overrides` is the map under the mutex; `Update` is the critical
section. The write is three steps after the unlock, as in the code:
`os.WriteFile` opens with truncation (`Open`) and writes (`Write`), `os.Rename`
moves (`Rename`); each may fail (`WriteFails`), and the process may end between
any two (`Restart`). Paths name inodes, and an open file remains the same inode
when its path is renamed, which is all that two writers of one temporary file
can tell. Calls overlap in any way. `solo` and `apart` are not in the code: they
record whether a writing was alone from its snapshot on, and whether no two have
overlapped since the file was last replaced by one that was alone. `OverrideFile`
states the promise with three variables: what has been accepted, what a reader
finds, and `calm`. While it is calm the file is the whole of what was accepted
when it was last replaced; a disturbed file may hold anything until a replacement
that nothing disturbs.

**Board and Live.** `Board` is what `RenderBoard` and `Rows` say of a flow. In
`Live` the goroutines of `Escalator` are the writers of an instance of
`Enforcer`: one that stands at its call (`Calls`) steps through the enforcer's
statements (`at`, `host`), and returns into the escalator's next statement with
the error or without (`NotEnforced`). Every step is one of `Escalator`, one of
`Enforcer`, or the two at a call and a return. That two calls are never for one
domain, which the enforcer does not see to itself, is a theorem here
(`CallsAreApart`). `Restart` is the end of the process at any moment and the
next start: `runLive` returns when its context is done or its tap fails and waits
for none of its goroutines, so that is no other case than a kill.

**Tap.** `table` is the dispatcher's map. Every packet is one step, for one
goroutine drives the dispatcher. `Feed` is the reassembler: a message comes
whole or in two halves, and bytes out of step with the records may be waited
for, end the handshake or fall back into step. The environment opens and closes
connections (`conn`) and may show the tap any segment of any connection of a
socket pair, open or ended (`Senders`), in any order, any number of times or
never, also after a reset, which the host may have ignored. `ended`, `heard` (from
whose connections outbound bytes were read since the entry was last dropped) and
an entry's `held` (whose bytes wait in it) are not in the code: they record what
was true of the connection a segment came from.

**Packet and Wire.** What `Tap` takes as its input is computed here. `Packet` reads
packets given by their header fields and lengths, `Wire` DNS messages given by
their bytes, streams of TLS records given by their lengths, and hellos given by
their extensions. A loop of the code is a recursive function over its turns
(`ReadOne`, `Question`, `Answer`, `SplitOne`, `Pass` are one turn each), with as
many turns as the loop can make. The first byte of a compression pointer is
`Pointer`, 192, plus its target, which may lie in the header. A parser that fails
returns `No`, as the code returns `false`: also for a message whose QR bit is
not set, and for a list of names whose inner lengths disagree.

**Probe and Engine.** `Probe` says for each probe which outcomes its measurements
can have and how it classifies them; the parameter `done` is how many of the
measurements were made before the context ended, and every later one fails as the
code's would. `Engine` runs the probes in the order of `Diagnose`; each action
measures, classifies and contributes. A context that has ended (`ended`) stays so.
`found`, `resets`, `silent`, `late` and `short` record what the probes reported,
`late` those that began after the end of the context and `short` those it cut
short, so that properties can compare the verdict with it. The engine's
`Providers` is the length of the pool. Left out: wording, wire formats and the TLS
probe's branch for a single attempt, which is never taken because `TLS` always
makes its trials.

**DoH and Resolver.** The three measurements in which time or bytes decide. In
`DoH` the pool is asked provider by provider, each at the cost of nothing (it
answers or fails) or of its timeout (it is dark), from one budget: `GroundTruth`
for the probes, `ResolveDoH` for the enforcer. In `Resolver` replies to one query
arrive at times of their own, and collecting them waits a grace period after the
first; a record's parameters are parsed byte by byte. A record is given by its
bytes and by where in them its labels and parameters lie (`Laid`), so that what
the parser finds can be compared with what is there.

**Extension and FrontEnds.** `Badged` folds the browser's events into the badges
of the tabs as `background.js` does; `Serve` is the native host over a pipe that
closes after any byte. The report, the OONI record and the popup have tables of
their own of what counts as interference; `FlagsFollowFindings` compares them, in
both directions, with what the engine found. What a table lacks is named:
`Unlabelled` are the types the OONI record has no label for, `Unlisted` those the
popup does not list.

**KeyStore.** A run of the program reads the key file, generates a key when
there is none, writes it, writes the public key and signs; each is a step, and
the two writes are an `Open` that truncates and a `Write`. A run may fail at a
write (`WriteFails`, `PubFails`) or end at any step (`Crash`). `Bad` is the
content of a file that is empty or cut short. `Runs` are the processes that may
be under way at a time, one or more, for nothing in the code keeps runs apart;
`signed` records the keys of the bundles the host has signed, and `raced` whether
a run found no key while another was storing one.

**Evidence.** A JSON text is a sequence of members in one layout or another.
`json.Unmarshal` takes the last member of a name, in any case if no field has it
exactly (`OtherCase`), drops unknown ones and passes over `null` unless the field
is a pointer or a slice (`Nullable`); `json.Marshal` writes the fields in the
order of the struct and omits empty ones marked so; the digest and the signature
are over that. `lumra` verifies by marshalling what it has parsed, the worker by
hashing the bytes it is sent.

**Cloud.** A push verifies its bundle (`Send`), waits for an answer and ends with
it (`Receive`) or without (`GiveUp`); its request may be handled long after. The
handler's one statement that touches the table is atomic, and so is each of its
outcomes: `Insert`, `Ignore`, `Refuse`, and `InsertUnanswered` for a handler that
ends between the statement and its answer. `rows` is the table by its primary key,
the digest. `Lose` and `Alter` are the network's; an altered byte is in what was
signed or beside it, in the network and country the worker stores without a
signature. A user who pushes again is another member of `Pushes` with the same
bundle.

**Watch.** `prev` and `started` are the Monitor's fields, `tick` the ticker's
channel with a note of whether the tick fired during a poll, and `now` the
argument of `Poll`. `seen` collects what the running diagnosis may come to, as
the network changes under it or a deadline or the cancellation cuts it off.
`CutOff` is what the module `Engine` yields when its context ends early: the
type itself, `OK`, `LOCAL_ISSUE` or `INCONCLUSIVE`; for `IP_BLOCKING` also
`RST_INJECTION`, from a capture that outlives the cancellation; and, for what
the QUIC probe is reached with, `QUIC_BLOCKING` from a datagram never sent. The
probes measure one arm after the other (`tls.go:92`), so a network that changes
in between is taken for a difference: `FirstArms` are the comparisons it has made
half of, `SecondArms` those it completes, and `halves` those begun in this poll.

**Mobile.** The service's callbacks run on the main thread, each in one step;
its loops run on threads of their own and notice a cancellation only where they
look for it. `services` holds the fields of every instance so far, `sessions`
what every call of `start` has made: a cockpit, a tunnel, a scope and two loops.
Commands reach the service later than the button is pressed (`cmds`), `stopSelf`
is followed by `onDestroy` some time later, the user may revoke the VPN and the
system may end the process at any moment; a write of the board may fail or be
read half-done. A loop that reads or writes a tunnel that was closed under it
throws, and as nothing catches that the process ends (`Throws`). What a packet
does to a board is the concern of `Tap`.

## 4. What the runs check

The type invariants are theorems (`TypeCorrect`, `TapTypes`, `LiveTypes`) and not
checked again; that of `Watch` is a conjunct of `Timeline`, that of `Mobile` one of
`AfterDestroy`.

| Run | Shows |
|---|---|
| `MCEscalator` | Two domains and one slot, with nil verdicts, enforcement that fails and a cancellation at any moment: no slot lost, freed twice or exceeded on any return (`SlotsAccounted`), nothing left running once `Run` has returned (`QuietAfterReturn`), and under fairness each of the two domains that share the slot comes to its turn (`BadgeResolves`). |
| `MCEscalatorLive` | One domain, two slots, a network that changes twice and diagnoses that may return nil: two diagnoses of the domain never overlap (`OneDiagnosisPerDomain`), verdicts arrive in the order of their measurements (`NoStaleOverwrite`), the board is given the mark of an enforcement while it still shows the verdict that asked for it (`EnforcedUnderItsVerdict`); and under fairness a domain with an outcome is diagnosed (`BadgeResolves`), a change of the network is picked up again and again (`ChangePickedUp`), and a cancelled `Run` returns (`ShutdownCompletes`). |
| `MCEnforcer` | Three writers whose calls overlap, fail and end with their process: a reader finds a broken file only from an overlap to the next writing that is alone (`WholeUnlessOverlapped`), and the enforcer implements `OverrideFile` (`Implements`). |
| `MCEnforcerTorn` | Violation; see the findings. |
| `MCLive` | The escalator over the enforcer's own steps, for two domains whose writings may overlap, with the process ended and started anywhere: a row that shows an override is true of the managed file through failed writes and later writes for any domain, unless writings overlapped (`AppliedRowInFile`). |
| `MCTap` | Attempts and resets of a domain stay in balance with the open entries under loss, repetition, reordering and segments that come after a reset (`AttemptsAccounted`), no late segment answers for a domain without an open attempt (`AnswersNeedAttempt`), and an entry and its waiting bytes are of connections read from since the last reset (`RightUnlessMixed`). Of the parsers, over all small inputs: packets (`PacketsTaken`), DNS replies (`RepliesTaken`), cut streams and hellos (`StreamsTaken`) yield what was sent, or nothing. |
| `MCEngine` | Over every combination of findings and every end of the context: the strongest finding prevails after every probe (`ByPrecedence`), grade and operator fit the type (`VerdictCoherent`), a lone reset claims nothing (`LoneResetClaimsNothing`), a probe that begins after the end of its context accuses no one and one that is cut short concludes nothing from what it did not measure, QUIC's excepted (`ExpiredAccusesNoOne`), and report, record and popup flag what was found and nothing else, but for the types their tables lack (`FlagsFollowFindings`). Over bounded inputs: the badge and the native host (`ExtensionTells`), a pool with dark providers (`PoolHeard`), racing replies and cut records (`AnswersRead`), and bundles, which both verifiers judge alike and rightly, reformatted or altered in any way (`BundlesVerify`). |
| `MCEngineRST` | Violation; see the findings. |
| `MCKeyStore` | Three runs that overlap, fail or end anywhere: unless one looked for a key while another was storing one, one identity (`StableUnlessRaced`), which a whole public key file names (`PinnedUnlessRaced`); and even then one key remains in the end (`SettlesOnOneKey`). |
| `MCCloud` | A push that did not fail is in the table (`PushedIsStored`), and no replay changes a row (`RowsKept`). |
| `MCWatch` | The events form one timeline (`Timeline`); what is reported of interference that never was rests on nothing that is received, and on a comparison only if the network changed between its arms (`AccusesOnlyWhatWas`). Under fairness the timeline follows a network that settles (`Follows`), and a cancelled loop returns (`Returns`). |
| `MCMobile` | Unless an instance was started twice: a destroyed instance writes at most the board it had in hand (`AfterDestroy`), `stopSelf` ends both loops (`StopEnds`), and the file settles on the running instance's board (`Settles`). What the cockpit was fed is published, in any case (`Published`). |

Properties of functions (those of `Packet`, `Wire`, `DoH`, `Resolver`, `Extension`
and `Evidence`) depend on constants alone. They are stated as invariants that look
at the initial states, `Init => ...`: in the module that has the behaviour and
extends theirs (`PacketsTaken`, `RepliesTaken` and `StreamsTaken` in `Tap`,
`PoolHeard` and `AnswersRead` in `Engine`, `ExtensionTells` and `BundlesVerify` in
`FrontEnds`).

### Bounds, and why they are enough

- Escalator: `MaxCount` bounds the hits and resets of a flow, of which the
  escalator only asks whether there is one; `MaxChanges` bounds the changes of
  the network, two being the fewest that let an older result overtake a newer
  one. In `MCEscalator` two domains and one slot are the fewest of which one is
  always left waiting; a goroutine for each lets one wait for the slot while the
  other holds it or is in its deferred calls. With one domain, two goroutines
  are enough for a sweep that lists it while its old goroutine has not ended,
  and two slots would let both diagnose.
- Enforcer: `MaxCalls` bounds calls and restarts together. Five allow three calls
  that overlap, a failure or a restart and the repair after it. The
  counterexample with two writers needs one call each; four inodes are more than
  two paths and the open files can name.
- Live: two domains with two slots and three calls let two writings overlap and a
  third one, or a process started anew, follow; a row can be marked, and its
  domain or the other be enforced again, with or without a failed write. That
  verdicts of other kinds change nothing about it rests on the theorem `RowsTrue`.
- Tap: connections are not bounded, for only the set of domains that a socket
  pair's ended ones were for is kept. `MaxCount` bounds the ClientHellos counted:
  two let an entry be dropped by a reset and come back with a late segment or
  the next connection. One server and port are enough: entries do not meet.
- Packet and Wire: `MaxJumps` 2 stands for 16 and `MaxBuffer` 16 for 64 KiB, so
  that short inputs reach both limits. Packets vary version, protocol, options,
  fragments, padding and missing bytes on both sides of each header's end;
  messages are all of four bytes that are zero, short labels or pointers to any
  position, which claim up to two questions and answers (`MaxClaimed`); streams
  have up to three records and messages, cut into up to three segments
  (`MaxSegments`) anywhere; hellos up to two extensions, with lengths claimed on
  both sides of each boundary.
- Engine: the diagnosis itself is finite. Three trials are the code's number;
  TTLs lie on both sides of the hop margin and of a guessed initial TTL, rates
  on both sides of the floor and of the ratio. Providers 3 is the code's pool.
- Extension: sequences of three events of two tabs with a frame, and of three
  messages around a greatest length of two, with a pipe that closes after every
  number of bytes.
- DoH and Resolver: the code's pool of two providers that speak JSON and one that
  does not, in units of 200 ms: 25 for a lookup, 10 for the window and 2 for the
  grace period, with budgets on both sides of one, two and three lookups and up to
  three replies around the two waits. Records have up to two parameters, cut after
  every byte.
- KeyStore: five runs, three of them at a time, let two race and a third come
  while they do, first uses fail before they leave a file, and later uses follow.
  Three keys are one more than any mutant needs to show.
- Evidence: two fields, one of which is omitted when empty and one of which null
  empties, and texts of up to two members, which may be unknown, repeated, null,
  of another type or in another case.
- Cloud: three pushes of two measurements let a lost attempt, its repetition and
  another reporter's push meet; everything else is finite.
- Watch: no bound but the three things the network does: nothing, a hard block
  and a local fault. A change between the first two is one the probes' comparisons
  take for a difference, and one that is cut off comes to types of its own.
- Mobile: three presses or ends of the process from without are a start, a stop
  and the next start, to which those the loops cause are added; one packet tells
  an old board from a new one, one failed write a board that is missing.

### Fairness

`MCEscalator`, `MCEscalatorLive`, `MCWatch` and `MCMobile` assume some. In
the first two, weak fairness of `Run`'s own statements and of every goroutine's
steps stands for the Go scheduler and for `PerDiagnosis`, which bounds the one
call that could block. Strong fairness of `Acquire` stands for the first-in
first-out queue of senders on a channel, and of `SeeCancel` for the random choice
of a `select` among ready cases. The ticker and the clock go on. Nothing makes the
tap, the network or the user act, so the three properties hold if they never do;
`BadgeResolves` and `ChangePickedUp` say nothing of a domain whose diagnoses
return nil or after a cancellation.

In `Watch`, weak fairness of `Poll`, `TakeTick` and `Tick` stands for the 20
seconds that bound a diagnosis, the loop and the clock, and strong fairness of
`Return` for the random choice of `select`: with polls longer than the interval
a tick is always waiting, and a `select` that preferred it would never end.
Neither the network nor the user is assumed to act.

In `Mobile`, weak fairness of the main thread's steps and of each loop's own
stands for Android's looper and its thread scheduler. Nothing makes the user,
the system or the network act; a read of the tunnel returns only when a packet
comes or the tunnel is closed.

## 5. What is proved

TLAPS checks these for every value of the constants that satisfies the named
assumptions of the modules (`DomainsAssumption`, `EscalatorAssumption`,
`EnforcerAssumption`, `LiveAssumption`, `TapAssumption`, `PacketAssumption`,
`WireAssumption`, `ProbeAssumption`, `DoHAssumption`, `ResolverAssumption`,
`ProvidersAssumption`, `ExtensionAssumption`, `EvidenceAssumption`, `KeyAssumption`,
`PathsAssumption`, `MobileAssumption`). TLC evaluates them in the runs.
`WireAssumption` gives the inputs their types and no more; `ResolverAssumption` says
that replies come in the order of their times and that a record is laid out as
DNS lays it out before it is cut. `PathsAssumption` says that no path yields by
itself `INCONCLUSIVE`, a type that only cut-off diagnoses have, or
`GENUINE_OUTAGE`, which none has;
`EvidenceAssumption` keeps what a field may hold apart from nothing and from a
value of the wrong type; `ProvidersAssumption` ties the engine to the pool.

- **Escalator** (`Live_proofs`). The inductive invariant `IInv` joins to
  the types and to exclusive ownership of domains: `Counts`, that the semaphore
  and the WaitGroup equal the numbers of goroutines that still have to give
  back; `Values`, that the verdict a goroutine holds is no older than the one
  on the board and no newer than the network's; `Levers`, that a goroutine
  between recording and marking still finds its own verdict on the board. The
  last two need exclusive ownership, because only another goroutine of the same
  domain could write in between. From it follow `TypeCorrect`,
  `SlotsAreAccounted`, `BoundedConcurrency`, `CleanReturn`,
  `ExclusiveDiagnosis`, `VerdictsInOrder` and `LeverMatchesVerdict`.
- **Enforcer** (`Enforcer_proofs`). For any number of writers. `SoloRepairs`: as
  long as no other call is between its unlock and its return, the temporary file
  is the one the call opened and the map is the one it rendered (`SoloInv`).
  `FileInv` says the same of a file that is calm: the inode of the managed file
  is no one's to write, and what it holds was rendered. From it follow
  `WholeFile`, `AppliedPersists` (what was reported as written stays in the file,
  unless writings overlapped) and the refinement `Implementation` of
  `OverrideFile`, where `Update` accepts, a `Rename` that was alone replaces,
  `Restart` restarts, and any other step stutters or meets a disturbed file. With
  one writer nothing ever overlaps (`OneWriter`).
- **Live** (`Live_proofs`). Every step of the composition is one of `Escalator` and
  `Enforcer`, or starts the process anew, which keeps the escalator's invariant
  (`RestartIInv`); these are lemmas. By `LiveTypes` a goroutine inside `Enforce` is
  called for the domain it owns, and by exclusive ownership no two calls are for
  one domain (`CallsAreApart`). For any slots and domains the file keeps the
  promise (`PromiseKept`) and a write that no other overlaps leaves it with every
  override resolved so far (`AnySlotsRepair`). `RowsTrue` joins the two parts: a
  row is marked only by the goroutine whose call has just been applied, and every
  marked row's override is in the map that the next writing renders (`Marks`).
- **Tap** (`Tap_proofs`). `Conservation` by counting: reading a ClientHello adds
  one hit and one entry, a reset one reset and removes that entry, nothing else
  changes either. `LateAnswersIgnored` then follows, since with all attempts
  reset there is no entry through which a message could be credited.
  `EntriesOwned`: an entry and the bytes that wait in it are of connections from
  which bytes were read since the last reset, because a reset removes both; a
  late segment that brings the entry back is such a byte.
- **Packets** (`Tap_proofs`). `PayloadsAsSent`: of any packet that can be sent,
  however padded, cut or fragmented, the payload read is the one sent or none (the
  later fragments of IPv4 excepted, of which what is read stays within them). By
  arithmetic on the offsets, per version of the protocol (`IPv4Read`, `IPv6Read`).
- **DNS replies** (`Tap_proofs`). `RepliesRead`, for messages of any length, with
  labels and pointers laid anyhow, and any limit of jumps. `NamesAsWritten`: the
  name is read exactly if its bytes lead to a zero within the limit. Each turn
  passes bytes or spends a jump, so reading ends (`NameEnds`); and what it passes
  is, position by position, what the bytes lead to (`NameReached`).
  `RepliesWithin`: the addresses taken lie within the message, one behind
  another, behind the questions, whatever the header claims (`AnswersInOrder`).
- **Streams and hellos** (`Tap_proofs`). `StreamsRead`, for records, messages,
  segments and extensions of any number and length, and any cap. After each
  segment a reassembler that goes on has taken exactly the records that lie whole
  within what it was fed, and returned the messages they complete (`FedKept`), so
  the cuts do not matter (`StreamsAsSent`). The walk over the extensions ends at
  the first of its type or where the claimed length ends (`HellosAsSent`).
- **Engine** (`Engine_proofs`). The invariant adds to the properties of the run
  `Fresh`, what is known before the TLS probe, and `Reported`, which findings
  can exist before each statement. Thereby each probe's own finding is weaker
  than all before it, with the exception of SNI filtering, which is the
  strongest; `Strengthen` and `StrongestOfAll` say that the guard `canSet`
  (or its absence) then keeps the order of precedence. The theorems are
  `TypeCorrect`, `VerdictByPrecedence`, `VerdictIsCoherent`, `LoneResetIsNoise`
  and `NoAccusationAfterEnd`, for any number of trials of at least two. The last
  takes probe by probe what can still be reported with some of its measurements
  missing (`CutShort`).
- **Front ends** (`Engine_proofs`). `FrontEndsAgree` adds to the engine's
  invariant `FoldedIn`, that the type is the strongest of what was found or, when
  the baseline failed, `LOCAL_ISSUE`; the tables are then compared type by type.
- **Loops** (`Engine_proofs`). The library's induction takes an operator, which
  none of the provers can instantiate. Its first-order use can be proved:
  `LeastNatural`, that a set of numbers has a least member, from the
  well-foundedness of `<`; `Induction`, by the least number a set lacks; and
  `Recursion`, that a definition along `0..n` defines a function (by the same
  argument on the lengths for which there is one), which is what a `LET` with a
  recursive function stands on. The next four rest on them, and those above on
  DNS replies, streams and hellos on the same lemmas in `Tap_proofs`.
- **Pool** (`Engine_proofs`). `PoolIsHeard`, for any pool, network and budget.
  When those that are dark speak JSON, the time left after each provider is the
  budget less one timeout for every dark one so far, and if it covers all of them
  each that answers is heard (`NotBlind`). `TruthOfOverride` follows both loops
  side by side: until `ResolveDoH` finds an address, both have the same time left.
- **Answers** (`Engine_proofs`). `AnswersAreRead`, for replies of any number and
  records of any length, cut anywhere. Sorting tells two answers apart exactly if
  some address is in one more often (`AnswerSetFacts`, `SortedSame`), and what was
  read by the end of the wait is what came within it (`HeardInTime`): so
  `ForgeriesToldApart`. The two loops over a record stand, after each turn, at the
  next label and at the next parameter, or have stopped at the cut (`SkipOne`,
  `ReadOne`): so `ParamWhole`, and with `OnlyListed` also `RecordsWhole`.
- **Extension** (`Engine_proofs`). `ExtensionKeepsWord`, for any events, tabs and
  messages. After each event the badge of a tab is that of the last event about
  its page (`BadgeRight`); after each message the host has read to where that
  message ends, or has stopped at the one that was cut or too long (`HostRight`).
- **Bundles** (`Engine_proofs`). `BundlesStand`, for any struct, keys and texts.
  `MembersOfFields` says by induction over the fields which members `Marshal`
  writes, each true of its field and none missing but of empty ones; so parsing
  finds the fields again (`RoundTrip`), and a digest that matches is that of the
  fields the text parses to (`OnlyGenuine`).
- **Tracker** (`Live_proofs`). Lemmas only: what each method does to the types
  and the counters.
- **KeyStore** (`KeyStore_proofs`). For any number of overlapping runs. Until two
  race, one run at most is between its look and the end of its write, and once it
  has written the file holds the key that everyone after it signs with
  (`KeyInv`): so `OneIdentity` and `PinnedKeyHolds`. `IdentitySettles` holds after
  a race, too: with a key in the file no run sets out to store one, and a file
  cut short stays so and no run gets past it.
- **Cloud** (`Cloud_proofs`). What a push was told, or is about to be told,
  implies that the row is there (`AnswersTrue`); since `Insert` needs the row to
  be missing, no other push of that measurement can have been told "stored"
  (`AnsweredOnce`). `PushesAreStored`, `StoredAtMostOnce`, `ReplayIsIdempotent`
  and `TypeCorrect` hold for any number of pushes, measurements and keys.
- **Watch** (`Watch_proofs`). `EventsFormTimeline`, since the Monitor remembers the
  type of the event it emitted last (`Remembered`), whatever the network did during
  the poll. `NothingInvented`: unless the path did it, a type that is received is
  neither among what the running diagnosis may come to nor in the last event, and
  one that is compared only if the poll began a comparison that the network
  changed under (`Cleared`), cut off or not.
- **Mobile** (`Mobile_proofs`). `DestroyEnds`, for any number of starts, packets,
  failures and ends of the process. The invariant says of every loop that after
  its cancellation it writes the board in its hand and no other (`LastBoard`), of
  every board that it shows no more than was fed (`Honest`), and of every
  destroyed instance that the session its fields name was closed and cancelled
  (`Reached`); an instance started once has no other.

Only model-checked: the liveness properties (`BadgeResolves`, `ChangePickedUp`,
`ShutdownCompletes`, `Follows`, `Returns`, `StopEnds`, `Published`, `Settles`),
since nothing under fairness is within the reach of these provers, and the
violations.

## 6. Findings

Two have runs of their own, which TLC ends with a counterexample.

| Run | What the code does | What is said of it |
|---|---|---|
| `MCEnforcerTorn` | Concurrent calls share `hosts.tmp`; a truncation between another call's write and rename puts an empty file in place. | `enforce.go:92`: a reader never sees a half-written file. |
| `MCEngineRST` | Any RST on the probe's flow counts as injected, also the server's own. | `attribution.go:94`: only justified once confirmed as injected and in-path. |

The modules state more properties that documentation claims and the code does
not keep. They are not among the runs; with the constants named here TLC finds
each violated within a minute (the last two, which are constant, are false).

| Property | Constants | What the code does | What is said of it |
|---|---|---|---|
| `AppliedInFile` without its premise | two writers, two calls | Renderings are written after the unlock, so the older may be renamed last. | `enforce_test.go:64`: both overrides should persist. |
| `RightDomain` | as `MCTap` | No end of a connection removes its entry; the next connection from the port is credited to the old domain; and a segment of a connection that is over brings back the entry that a reset removed. | `packet.go:18`: `flowKey` identifies one connection. |
| `NonTLSNotLeaked` | as `MCTap` | Bytes that are no TLS are read as a record header and waited for; the entry stays. | `packet.go:102`: a non-TLS connection does not leak an empty flow. |
| `QUICProbed` | as `MCEngine` | A QUIC datagram that could not be sent any more is taken for one that drew no response, also in `watch`. | `quic.go:16`: only when a QUIC probe draws no response. |
| `UnlabelledMeansNone` | as `MCEngine` | The record has no label for `ECH_BLOCKING`, `QUIC_BLOCKING` and `DOH_BLOCKING` and says `false`. | `ooni.go:45`: false when no interference. |
| `ColouredIsInterference` | as `MCEngine` | `LOCAL_ISSUE` has the colour of a block. | `report.go:19`: any interference concluded. |
| `AuthoritySelfIdentified` | as `MCEngine` | `LOCAL_ISSUE` replaces the attribution and keeps the operator of a block page. | `verdict.go:110`: set when Attribution is self_identified. |
| `StableIdentity` | as `MCKeyStore` | Two first runs both find no key and each signs with its own. | `keys.go:27`: the key is the machine's stable identity across bundles. |
| `KeyUsable` | as `MCKeyStore` | A crash between truncation and write leaves a file every later run refuses. | `keys.go:25`: returns the host's persistent key, generating one on first use. |
| `OneRowPerBundle` | as `MCCloud` | The second of two reporters of one measurement in the same second is dropped as a duplicate. | `0001_init.sql:3`: one row per signed bundle. |
| `BlockedIsInterference` | as `MCWatch` | `LOCAL_ISSUE` and `INCONCLUSIVE` after `OK` are "blocked". | `watch.go:23`: a transition into any interference. |
| `StampedWhenObserved` | as `MCWatch` | A tick that waited for a long poll dates the next event before its observation. | `watch.go:31`: a state transition observed at a time. |
| `OpenStaysOpen` | as `MCWatch` | The diagnosis that Ctrl-C cuts off is reported as a change. | `watch.go:4`: an event only when the interference state changes. |
| `Settles` without its last disjunct | as `MCMobile` | A rotation loses the activity's flag; a second start of one instance leaves the first tunnel's loops out of reach, and they go on publishing their board after `onDestroy`. | `LumraVpnService.kt:79`: `publishLoop` writes the latest board to the file the UI polls. |
| `BlockedNotBlind` without its first premise | as `MCEngine` | A lookup in wireformat has no timeout of its own: when that provider is dark it takes all the time of the diagnosis. | `dns.go:30`: a single blocked endpoint cannot blind us. |
| `VersionsAgree` | as `MCEngine` | A tool that does not know a field drops it before it hashes, and calls the bundle altered. | `evidence.go:30`: digest and signature always cover the bytes that were signed. |

What the properties that hold except:

- A row that shows an override may be untrue of the managed file once two writings
  overlapped, which three slots and many domains allow: the older rendering may be
  renamed last, or the file be left empty. The next writing that is alone
  brings every override of the process back (`AnySlotsRepair`).
- After a restart the board and the map are empty while the file still holds the
  overrides of the process before; the first write of the new one drops them.
- A row keeps its mark when a later verdict is of another kind, since `SetVerdict`
  does not clear it; the override is in the file all the same.
- A poll of `watch` under which the network changes may report a difference
  between the arms of a probe: a block that lifts between the target's handshakes
  and the control's is `SNI_FILTERING` (`tls.go:92`).
- The popup does not list `TLS_DOWNGRADE`, `ECH_BLOCKING`, `DOH_BLOCKING` and
  `QUIC_BLOCKING` (`Unlisted`); nothing says what it should list.
- The loop of a destroyed instance that meets its closed tunnel ends the process,
  and with it the next instance, which the system starts once more (`Throws`).
- The badge's worker takes every failure of the host for a missing installation
  (`background.js:44`); no property judges it.

## 7. Not modelled

- The popup's and the worker's asynchrony beyond one request: each request
  starts a host of its own and the browser serialises the rest.
- `nativemsg/install.go`, which writes one manifest; `live/egress.go`, one
  lookup of an interface; the flags and printing of the command line; layout,
  wording and colours everywhere.
- The capture sockets of the platforms: the models start at the packets they
  yield.
- Cryptography and X.509: a signature or a verified chain is a fact of the
  model and never a result.
- The iOS provider, whose publication is atomic and whose loop ends with its
  cockpit.
- The cloud's three read handlers: queries that change nothing.
- The branch of the TLS probe for a single attempt, which is never taken; rates
  as real numbers; the wire formats of probes other than the HTTPS record.
