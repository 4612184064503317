# A TLA+ development of reentry

reentry sends CCSDS command packets to a flight-software target over UDP, reads
the target's housekeeping (HK) counters before and after each, and turns the
difference into a verdict. What makes it hard to get right is that the evidence
travels over UDP: a reply may be lost, late, of another sender or of an earlier
request, the target may hang, die or come back, and the code puts no identifier
into a request. This directory models that system in TLA+, checks the models with
TLC and proves the main results with TLAPS for every value of the constants.

Contents: [components](#the-system) · [modules](#modules) ·
[environment](#the-environment) · [runs](#runs) · [findings](#findings) ·
[proofs](#proofs) · [limits](#what-is-not-covered) · [plan](#plan)

## The system

Paths are relative to `src/reentry/` unless they start with another directory.

| Component | State | Operations | What must hold |
|---|---|---|---|
| UDP transport (`transport/udp.py`) | receive socket's queue, `last_error`, the deadline of a receive | `send`, `receive`, `drain_stale_replies`, `probe` | an error is never mistaken for silence; skipped datagrams do not move the deadline |
| CiLabOracle (`oracle/ci_lab.py`) | the reading before the case | `judge`, `_read_counters` | a verdict has a cause; the verdict is the one the case deserves whenever the network allows it |
| LivenessOracle (`oracle/liveness.py`) | none between cases | `judge` | a crash reported is real; a crash is not hidden for long |
| Runner (`harness/runner.py`) | the findings so far | `run`, `_select_cases`, `_load_oracle` | one finding for each selected case, in order; nothing is sent under a profile the adapter cannot back |
| Health check (`harness/health.py`) | none | `__call__` | tells a dead target from a hung one |
| Adapter contracts and profiles (`harness/adapters.py`, `harness/profiles.py`) | constants | `requirements_for`, `validate_profile`, `categories_for_profile` | a profile runs exactly on the adapters that can back it |
| Configuration (`harness/config.py`) | the `RunConfig` | validators, `with_profile` | a refused configuration sends nothing |
| Command line (`cli.py`) | exit status, report files | `run`, `compare`, `list-cases` | exit status 0 is earned; a readable report is of a whole suite |
| Baseline comparison (`report/baseline.py`) | none | `compare_reports` | passes exactly on the same cases with the same verdicts |
| Reports and provenance (`report/`) | none | `to_json`, `to_junit_xml`, `build_provenance` | hold every finding; JUnit and exit status agree |
| CCSDS packets (`ccsds/`) | none | pack, unpack, `to_bytes`, `from_bytes`, `validate`, the command checksum | a header survives the round trip at every field width |
| Case generator (`generator/boundary.py`) | none | one builder per category, `generate_all` | each case breaks what its category names and nothing else, at every target APID |
| Run scripts (`scripts/run-local.sh`, `scripts/run-cfs-docker.sh`) | UDP port 1234, the container of a name, the exit trap | start, poll, wait for HK, run, clean up | take down no target but their own; end |
| Sandbox helpers (`docker/cfs_ci_lab/`) | the files of resolved IDs and of the configuration, TO_LAB's subscriptions | `resolve_ids`, `render_config`, `enable_to_lab` | the run is aimed at the build in the container |
| Target (`tests/fixtures/mock_target.py`, or cFS with ci_lab) | HK counters, up, hung or dead | serve HK requests and commands | nothing: it is what is tested |

How they interact. `cli.run` validates the configuration, hands it to the
`Runner`, which calls `oracle.judge(case, transport)` for case after case; the
oracle calls the transport several times for each case and, on silence, the
health check, an external command. The transport reports errors through a field,
`last_error`, that every send and receive clears. Reports are written when the
suite is over; `cli.compare` reads them back. The scripts bring a target up around
one `cli run`; the sandbox script also takes the message IDs out of its build,
renders the configuration from them and commands TO_LAB to send telemetry to the
host. The harness is a single thread: concurrency is between harness,
network, target, other users of the target, and other invocations of the same
commands on one machine.

Hard behaviours: a reply that arrives after the drain and is taken for the next
reading; counters that wrap; a target that restarts between two readings; an
error that leaves its request in flight; a receive that foreign telemetry keeps
awake; an exception in the loop over the cases; two scripts between their checks
and their claims; a report that is read while it is written; a packet that is
changed once more after its checksum was made; message IDs that are not cFE's
usual ones. `PROJECT.json`
lists each at its line under `hazards`, with the property that covers it or the
reason none does.

## Modules

| Module | Models | Correspondence |
|---|---|---|
| `Verdicts` | `oracle/base.py` | the verdicts, the unsafe ones, and the effects a packet can have |
| `Telemetry` | HK counters | three counters that wrap at `ByteMod`, `WordMod` (256 and 2^32 in the code) |
| `UdpTransport` | `transport/udp.py` and the network | `uplink`, `downlink` are packets in flight, `inbox` the kernel queue; one operator per transport operation, and the network's own actions |
| `Target` | the target | `mode`, `counters`, and the history `effects` of what it did with each case |
| `CounterDeltas` | `_delta_verdict`'s table (`oracle/ci_lab.py`) | from two readings of the counters to a verdict; used by `CiLabOracle` and `SuiteRun` |
| `CiLabOracle` | `Runner.run` with the CiLabOracle | `pc` and `phase` are the place in `judge` and `_read_counters`; drain, request, receive, send and health check are steps, between which network and target move |
| `LivenessOracle` | `Runner.run` with the LivenessOracle | the same for its `judge` and `probe` |
| `Campaign` | what a suite promises | the abstract specification: what the target did with each case (`deeds`) and the one verdict for that |
| `SpacePacket` | `ccsds/packet.py`, the command checksum | an octet, a header field, a word are sets of bit positions, so that a field is an intersection and the XOR of a checksum a symmetric difference; `LengthBits` is the width of the length field (16 in the code) |
| `CaseGenerator` | `generator/boundary.py` | one operator per builder; a packet is a sequence of octets, and the sizes that depend on the length field follow `LengthBits` |
| `Filtering`, `CaseSelection` | `_select_cases` (`harness/runner.py`) | the cases kept, by position; retargeting to another APID with the checksum made anew, left alone or damaged again |
| `SandboxSetup` | `resolve_ids.py`, `render_config.py`, `enable_to_lab.py` and the script's HK request | one action per step of the script, each of which may fail; the three packets it sends may be lost, and `mishaps` remembers which were or that a command failed; the HK reply is taken by its source, length and APID |
| `SuiteRun` | a run end to end, packet by packet | the above composed with the rule of `tests/fixtures/mock_target.py`, octet by octet, and with the exit status of `cli.py` or of the script |
| `RunScripts` | the two scripts | `pc` per instance; the port is owned by whoever `Serving`, containers are looked up by name, `quiet` counts the seconds since the socket that waits for HK telemetry last heard anything; a removal may fail, a signal takes its time, and a script may be killed at any place |
| `AdapterContract`, `Baseline` | `adapters.py`, `profiles.py`, `baseline.py` | operators used by `CliRun` |
| `CliRun` | `cli.py` | invocations of `run` and `compare` that share files; opening (which empties) and writing a report, or the details of a comparison, are two steps |
| `MC*` | | the values given to constants for TLC |
| `*Proofs` | | the theorems |

`CiLabOracle` and `LivenessOracle` extend `Target`, which extends `UdpTransport`:
they are compositions of one harness, one network and one target. `SuiteRun`
composes the sandbox's set-up, the generator, the selection and a target that
keeps to the mock's rule; there the packets are exact and the network is not
modelled but for the set-up, while the oracles have the network and no packets.
`Campaign` is instantiated by all three with a refinement mapping (`Promise`), and
is what the two views have in common: the campaign's report is the list of verdicts,
its target the model's, except that a target which has already had its effect counts
as up until the case in hand is judged. Its `deeds` are mapped to what the target of the
implementation really did with each case judged (`Deed` of the oracles' `effects`, the
`deeds` of `SuiteRun`, which follow the mock's rule and not the counters). So the verdict
is determined: an accepted case that is filed as rejected, or a handled one filed as
inconclusive, is no step of `Campaign`. `inconclusive` is left for two things
only: a case no datagram carries (`Unsendable`), and a live target where the oracle does
not see counters.

Variables that the code does not have: `effects`, `deeds`, the `req` of a datagram (which
request it answers), `answeredBy` and `mishaps` are history, read by properties and by no
guard. A finding keeps the datagrams of both readings where the code keeps their
counters, for the same reason.

Abstractions: in the oracles the content of a packet is the case it belongs to
(`SuiteRun` has the octets); `IngestPackets`, which only changes wording, is left
out; a timeout is a number of ticks
(`Timeout`), so that a deadline that moves can be told from one that does not.
Definitions called "plausible errors" in the modules are not part of the
specifications: each is a wrong form of a definition, and TLC finds the property
it belongs to violated when it is put in that definition's place (`mutants` in
`PROJECT.json`).

## The environment

`Faults` names what may go wrong; each is a nondeterministic choice at any moment:
`lose`, `duplicate`, `reorder` (packets in both directions), `foreign` (telemetry
of another host or APID), `malformed` (a reply too short to parse), `send_error`
and `receive_error` (the local socket), `recover` (a hung target answers again),
`restart` (a supervisor starts it with counters at zero), `others` (another client
commands the target), `health_error` (the health command cannot run or hangs).

`Latency` says how late an answer may be. `timely`: before its receive times out.
`late`: it may miss its receive but is at the socket before the next drain ends.
`unbounded`: at any time. The code guarantees none of these; `late` is exactly
what its drain needs to stand in for correlation, and the theorems say so.

A run may begin with the target up, hung or dead and with any counters of
`InitialCounters`.

**Fairness.** The harness is one thread that only ever waits in `receive`, with a
deadline: weak fairness of its own steps (`OracleNext`) and of the clock
(`TimePasses`). A drain ends at the first `recvfrom` that finds the socket empty:
strong fairness of `EndDrain`, since telemetry may arrive in between. Nothing is
assumed of network and target in `FairSpec`; `TimelySpec`, which the refinement
uses, adds that they act at all. `EveryCaseJudged` has the premise that the socket
is empty again and again: the drain loop has no deadline, and telemetry that
arrives faster than it is read would hold the code there as well. In `RunScripts`
each script is a process that keeps running (weak fairness of its steps, the clock
of a sandbox that waits for HK telemetry included); its target and the other scripts owe
it nothing. `EveryScriptEnds` has the premise that telemetry that is not the HK
reply (`HkForeign`) stops some time: `run-cfs-docker.sh:90` sets a timeout for each
datagram and none for the wait as a whole, and every datagram starts it anew.

`CHECK_DEADLOCK FALSE` appears in every configuration because a suite, a script
and a command end.

## Runs

| Run | Question | Instance |
|---|---|---|
| `ci_delays` | What does the CiLabOracle guarantee when replies are lost or arbitrarily late, sockets fail, replies are short and a hung target recovers? `ErrorsAreReported`, `VerdictHasCause`, `NoEffectCountedTwice` | 3 cases, counters about to wrap at 3 and 2 |
| `ci_late` | When is draining enough? `EvidenceIsFresh`, `ConclusiveVerdictExact` under `late` | 3 cases, wrap at 2 |
| `ci_live` | Does the suite end? `EveryCaseJudged` with foreign telemetry, restarts and other clients | 1 case, 2 ticks |
| `ci_refines` | Does it implement `Campaign`: for each case the verdict for what the target did with it? (`ImplementsCampaign`, liveness included) | 4 cases, no faults, `timely` |
| `live_hidden` | What is left of the LivenessOracle under loss and delay? `CrashIsReal`, `MissedCrashesAreBounded`, `ErrorsAreReported` | 3 cases |
| `live_refines` | Does it implement `Campaign` without counters? | 4 cases |
| `scripts_mixed` | Two sandbox scripts and one local run racing, crashing, interrupted and killed: `OnlyOwnContainerRemoved`, `SandboxOnOwnTarget`, `EveryScriptEnds` | two container names, of which each sandbox has either; 2 polls, 2 seconds of patience for HK |
| `cli` | Two runs and a comparison, with its details or without, on shared files: `PassIsEarned`, `OnlySupportedProfilesRun`, `NoVacuousPass`, `ReportsAreOfWholeSuites`, `JUnitAgreesWithExit`, `EarlierReportsKept`, `ComparisonIsExact`, `RegressionsAreCaught` | 2 cases, the command lines of `MCSettings`, 5 contents of the baseline file |
| `suite` | Is a suite what it is meant to be, packet by packet, and does the sandbox aim it at its own build? `OneDefectEach`, `StaysOnTarget`, `WellBehavedTargetIsSafe`, `BuggyTargetIsCaught`, `ControlTellsReach`, `GoodBuildReachesSuite`, `PassedOnItsOwnTarget`, `ImplementsCampaign` | all 2048 APIDs and none; builds with classic, renumbered and extended message IDs, a moved port, exports that are partial, unreadable or missing, telemetry from the container's own address or too short |
| `ci_restart`, `ci_short`, `ci_inspect` | the findings below: each checks one statement of the documents and TLC refutes it | smallest instance that does |

**Why the bounds are enough.** A late reply can be taken for the reading of the
next case and its own for the one after: three cases let one effect be charged
twice with a case between. Every counter starts one below its wrap, so that a
single accept, reject or drop wraps it. Two places in the kernel queue make room
for a stale and a fresh reply and still overflow. One case is enough for `ci_live`,
because the steps of a case do not depend on how many follow, and two ticks are the
least with which a deadline that moves differs from one that does not. Four
cases in the refinement runs: one expected to be rejected, then enough for a hang
or crash at any place and silence after it. In `scripts_mixed` a race needs two,
two polls let a script fail, retry and succeed, and two seconds let a foreign datagram
come between and start the wait anew. In `cli` the two runs can
write the same file or the two files compared; a smoke run and filters give
suites that differ; the two runs are interchangeable (`SYMMETRY`), their settings
being chosen for each independently.

`suite` has every APID that eleven bits hold and a length field of 8 bits for 16.
The sizes that hang on it are scaled in the order the code has them in: the reachable
size over the command buffer (64 > 32 for 4096 > 2048), under what a UDP datagram
holds (227 for 65507), under what the field can say (256 for 65536). Octets, header
fields, message IDs and checksums have their own widths. The counters start at 250,
so that the NOOPs of a suite take them over the wrap of 256.

The largest, `ci_delays`, has five million states; `cli` has 2.1 million, `scripts_mixed`
1.0 million, `suite` 0.3 million.

What the safety runs show together: with any delay, a verdict read off the counters
is caused by something the target did, with this case or an earlier one, and no
effect is charged to two cases; with delays the drain can see, the verdict is
exact. Between the two lies the hazard the code has: a reply that arrives after the
drain makes the evidence stale, and a case can be judged on the previous case's
readings.

`duplicate` makes the state spaces too large to be checked together with the other
faults; it is covered by the theorems `ErrorsReported` and `VerdictsHaveCauses`,
which do not exclude it. `ci_refines` and `live_refines` leave out all faults
because the promise fails with any of them: a lost reply is a hang.

`SandboxOnOwnTarget` says that a sandbox starts its suite on an answer of its own
container, whatever names the others have, unless that container has crashed since
it was looked at and one of another name has taken the port. It speaks of sandboxes
only, because a local run does not have it: `run-local.sh` takes any answer on the
port for its target's, and of two local runs that passed the port check together
one may test the other's target.

That a script leaves nothing behind is *not* a property: `run-cfs-docker.sh:21` ignores a
`docker rm` that fails, `run-local.sh:30` sends a signal and does not wait for it, and
either script may be killed. What holds all the same is that what one has left behind
is neither removed nor tested by another.

`GoodBuildReachesSuite` is about the helpers: what they build is what TO_LAB and CI_LAB
understand. Its premises are what the script cannot do anything about (a lost packet,
a failing command, an export that is not complete) or takes for granted: message IDs
with the classic prefixes, port 1234, and telemetry that the host sees come from 127.0.0.1
(`run-cfs-docker.sh:67`) with all the counters in it. The builds checked include
one for each of these premises that fails.

`ImplementsCampaign` of `suite` is where the exact packets meet the exact verdicts: what the
target did is decided by the mock's rule, what is reported by the difference of two
counters of one byte, and the two agree for every packet at every APID, over the wrap.

`PassedOnItsOwnTarget` is about the renumbered builds above all: a configuration
rendered from them names other APIDs than 128, and a suite that missed the target
must not pass. `ControlTellsReach` is why it does not: the control is accepted
exactly if the suite was aimed at what the target listens to.

## Findings

* **`ci_restart`.** Any change of the command counter is an acceptance
  (`oracle/ci_lab.py:162`): a target that crashed on the case and was restarted,
  counter back at 0, is filed as `clean_accept`. `README.md:256` says `+1`.
* **`ci_short`.** A reply too short to parse raises `ValueError` through `judge` and
  `run` (`oracle/ci_lab.py:43`); all findings so far are lost, and `cli.py` reports
  an error of `--config`. `ROADMAP.md:25` says observed verdicts are retained.
* **`ci_inspect`.** With the health command that `README.md:264` gives, a crashed
  target is filed as `hang`: `docker inspect` exits 0 for a stopped container and
  prints `false`, and the check looks at the exit status alone
  (`harness/health.py:32`).

Seen while modelling and not refuted by a run:

* No adapter can run `hardened-cfs`: `requirements_for` (`harness/adapters.py:45`)
  names `enforces_hardened_policy` as missing without reading the capability of that
  name, which nothing reads. `ROADMAP.md:66` has the profile require a capability.
* A report that cannot be written and an occupied listen port end `run` with exit
  status 1, that of an unsafe finding; `compare` on a file that holds JSON but not an
  object ends with an uncaught exception and exit status 1, that of a difference.
* A selection that leaves no case exits 0 (`NoVacuousPass` says when that is); so does
  a run by hand whose control was rejected, since a rejection is no unsafe verdict. It
  is `run-cfs-docker.sh` that looks at the control.
* `validate` (`ccsds/packet.py:103`) compares the payload with the length field of the
  header it was given, never with the `declared_data_length` that `to_bytes` writes in
  its place; no run calls it. `ParsedIssues` is what it says of a packet read back.
* `length_zero` and `length_claims_less_than_sent` are the same packet.
* Of `sec_hdr_flag_set_but_absent` the octet in the checksum's place is the right one
  at eight of the 2048 APIDs (37 is one); there a target that enforces checksums
  accepts it. `WellBehavedTargetIsSafe` names them.
* The script publishes port 1234 whatever port it has resolved; a build that moved
  `CI_LAB_CMD_UDP_PORT` gets no answer. So does one whose single HK request is lost:
  telemetry of others keeps the wait for it awake.
* The script reads `report.json` after its run: what is there can be another run's,
  of another script in the same checkout. The exit status is the run's own.
* The script renders `allowed_reply_host` as 127.0.0.1 (`run-cfs-docker.sh:67`); for the same
  container `README.md:160` and `.github/workflows/reentry-preflight.yml:90` take the address of
  the container. The two can both be right only on different networks; where the second is,
  the script drops every HK reply and stops (`AllowedReplyHost`, `HkReplyAccepted`).
* `ROADMAP.md:38` counts as done that stale packets cannot be used as evidence. Draining
  does that for what is at the socket before the drain ends: `EvidenceIsFresh` is checked and
  proved under `late` only, and a reply that comes after the drain makes it false.
* A drain has no deadline (`transport/udp.py:92`): `EveryCaseJudged` assumes, by its premise and by
  the strong fairness of `EndDrain`, that telemetry does not keep it busy for ever.

## Proofs

The theorems hold for every suite, every counter width, every `Timeout` and
`InboxCap`, any number of script instances, runs and comparisons, every width of the
length field up to 16. What they assume beyond the constants' own `ASSUME`s is stated
in each theorem and in the third column.

| Theorem | Says | Assumes | Inductive invariant |
|---|---|---|---|
| `TypeCorrect` | `Spec => []TypeOK` (CiLabOracle) | – | itself |
| `ErrorsReported` | `[]ErrorsAreReported` | – | `ErrorInv`: with it, that `last_error` is clear while the suite goes on (`NoErrorPending`) |
| `VerdictsHaveCauses` | `[]VerdictHasCause` | `SoleClient` | `CauseInv` |
| `EvidenceFresh` | `[]EvidenceIsFresh` | `Punctual` | `FreshInv` |
| `ConclusiveExact` | `[]ConclusiveVerdictExact` | `Punctual`, `WideCounters` | `ExactInv`, on top of `FreshInv` |
| `EffectsCountedOnce` | `[]NoEffectCountedTwice` | `InOrder` | `OnceInv`, on top of `CauseInv` |
| `CiLabImplementsCampaign` | `Spec => Promise!Spec` | `Lossless`, `WideCounters` | `StageInv` |
| `LivenessTypeCorrect`, `LivenessErrorsReported` | the same two for the LivenessOracle | – | `TypeOK`, `ErrorInv` |
| `CrashesAreReal` | `[]CrashIsReal` | `CrashesShow` | itself |
| `MissedCrashesBounded` | `[]MissedCrashesAreBounded` | `OneAnswerEach` | `MissedInv` |
| `LivenessImplementsCampaign` | `Spec => Promise!Spec` | `Lossless` | `StageInv` |
| `TypesAreRight` | `[]TypeOK` (RunScripts) | – | `Inv` |
| `RemovesOwnOnly` | `OnlyOwnContainerRemoved` | – | `Inv` (`OwnsItsContainer`) |
| `AnsweredByItsOwn` | `[]SandboxOnOwnTarget` | – | `AnswerInv`, on top of `Inv` |
| `PassesAreEarned`, `OnlySupportedRun` | `[]PassIsEarned`, `[]OnlySupportedProfilesRun` | – | `RunsInv` |
| `PassesAreNotVacuous` | `[]NoVacuousPass` | the suite has a known-good case | `RunsInv` |
| `ReportsAreWhole` | `[]ReportsAreOfWholeSuites` | – | `RunsInv`, `FilesInv` |
| `ReportsTouchedLast` | `EarlierReportsKept` | – | `RunsInv`, `ComparesInv` |
| `JUnitAndExitAgree` | `[]JUnitAgreesWithExit` | – | `JUnitInv`, on top of both |
| `ComparisonsAreExact`, `RegressionsCaught` | `[]ComparisonIsExact`, `[]RegressionsAreCaught` | – | `ComparesInv`, on top of both |
| `CliTypesAreRight` | `[]TypeOK` (CliRun) | – | `Shapes`, on top of these |
| `HeaderRoundTrip` | unpacking what was packed gives the header back | – | |
| `BuiltPacketsValidate` | a packet with a header of version 0, not idle, and a payload the field can count is read back whole and validates | – | |
| `RetargetedToApid` | a retargeted packet has the APID it was given, and the length and the command bit it had | the case is not kept as it is | |
| `ChecksumsSurviveRetargeting` | after retargeting the checksum is right exactly if the case is meant to have a right one | the case is one of those sealed again | |
| `NoCommandGoesAstray` | `[]StaysOnTarget` | – | `IInv` (SuiteRun) |
| `PassingScriptReachedItsTarget` | `[]PassedOnItsOwnTarget` | – | `IInv` |
| `SuiteTypesAreRight` | `[]TypeOK` (SuiteRun) | – | `TypeInv`: `IInv`, `TypeOK`, `SetupReady` |
| `GoodBuildIsReached` | `[]GoodBuildReachesSuite` | `LengthBits >= 5` | `ReachInv`: `SetUp`, on top of `TypeInv` |
| `DefectsAreIntended` | `[]OneDefectEach` | `AsSized` | `IInv` |
| `ControlShowsReach` | `[]ControlTellsReach` | `AsSized`, `ByteMod > 1` | `ControlInv` |
| `GoodTargetIsNeverBlamed` | `[]WellBehavedTargetIsSafe` | `AsSized`, `ByteMod > 1` | `SafeInv` |
| `BuggyTargetIsAlwaysCaught` | `[]BuggyTargetIsCaught` | `AsSized`, `"oversized" \in Categories` | `CaughtInv`, on top of `TypeInv` |
| `SuiteImplementsCampaign` | `Spec => Promise!Spec`, which is `ImplementsCampaign` of SuiteRun | `ByteMod > 1` | `IInv` |

* `SoleClient`: nobody else moves the counters (`restart`, `others` excluded), and
  foreign telemetry, if any, is filtered. Without it the claim is false.
* `InOrder`: `SoleClient` without `duplicate` and `reorder`. Loss, any delay, short
  replies, failing sockets, hung targets that recover remain.
* `Punctual`: `SoleClient`, `Latency = "late"`, and no `duplicate`, `reorder`,
  `receive_error` or `recover`. Loss, send errors, short replies, foreign telemetry
  and failing health checks remain.
* `Lossless`: no faults and `Latency = "timely"`.
* `CrashesShow`: no `restart` and no `health_error`; everything else may happen.
* `OneAnswerEach`: no `duplicate`, `reorder`, `recover` or `restart`, replies filtered.
  Messages and replies may still be lost or arbitrarily late.
* `WideCounters`, `ByteMod > 1`: a counter of one value could not show that it moved.
* `AsSized`: the sizes stand to each other as those of the code do (2048 octets of a
  command, 4096 reachable, 65507 of a datagram, a field of 16 bits, a surplus of 100).
  TLC evaluates it for the instance of `suite` (`MCSizes`).
* `LengthBits >= 5`: the field can count the packets the set-up sends to TO_LAB.
* `"oversized" \in Categories`: a suite without such a packet sends a target that
  overflows nothing to overflow on.
* Of the constants' own `ASSUME`s, those not of a type only: what a build exports
  is its own IDs, all or some, or unreadable, and its HK packet has a length
  (`BuildsAssumption`), the host's address
  fits TO_LAB's field and has no NUL in it (`HostAssumption`), and the profiles of
  the command line and of the file are members of the enumeration (`SettingsAssumption`).

*Why the invariants are needed.* `VerdictHasCause` compares two readings, of which
either may be stale. `CauseInv` relates every reading anywhere in the system, in
flight, queued or kept, to history: it differs from the present counters in a field
only if the target has counted something in that field (`ReadingsAgree`); any two
readings therefore differ only by what happened, and nothing has happened to a case
that was not yet sent (`NoneAheadOfTurn`). `FreshInv` says that once a drain is over,
only answers to the request now to be sent can reach the socket. `ExactInv` follows
the case through its two readings: what is in flight answers each request once
(`AnsweredOnce`), the counters are those of the first reading plus the effect of
this case (`ReadingsFollow`), and a target that did not answer in time is down or
its answer lost (`SilentTargetIsDown`).

`OnceInv` puts everything sent in one line, by case and step, and every reading at the
place of the request it answers (`InLine`): readings used, in the socket, on the way
back, on the way there, sent next. Two readings differ in a counter only if a case
handled between their places moved it (`MovedBetween`, `MovedSince`), and the pairs of
readings behind two verdicts span disjoint pieces of the line (`CountedBetween`). So
the cases that report an effect map one to one to cases that had it.

`MissedInv` follows each probe of the LivenessOracle: it is on its way, or at most one
reply to it is in flight, queued or in a finding, and whatever is answered was asked
before the case that took the target down. The replies in the findings that came
after that case `c` map one to one into `1 .. c - 1`, which bounds them.

A refinement needs more: not only that a verdict is right, but that the case was
handled exactly once when it is filed, so that what the target did is one deed (`Deed`). `StageInv` says for each place in `judge`
what is still on its way and whether the case is still to be handled, was handled,
or met or made a target that is down. With it a second reading, an answered probe or a health
check is a step of `Campaign`, and everything else is a stutter.

`OwnsItsContainer` is what names alone do not say: an instance that may still remove a
container created the one of that name. `AnswerInv` adds that the port has one owner.
`RunsInv` says that findings are of the first cases selected, in order; `FilesInv`
that a file which names a run has its findings and that these change no more;
`JUnitInv` that nothing is written after the last report asked for; `ComparesInv`
that what was loaded is still what the run reported, though the file may by now
be another's. In `SuiteRun`, `IInv` carries what the set-up has established (`Aimed`,
`FromTheBuild`) to the suite: an accepted control means that it was aimed right.

The other theorems about `SuiteRun` are about single packets, at every APID and width.
Their lemmas take a packet apart once: a packet is a header and a payload (`Formed`),
so a case of each builder has the header, the size and the function code the
builder gave it (`Made`, `Shaped`), and retargeting changes its APID and its checksum
(`SpacePacketProofs`). The suite is the generator's list with gaps
(`SuiteInOrder`, `CaseOfBuilder`), so that the control is its first case and the first
oversized packet has a known place (`FirstDeadly`).

* `ControlInv`: until something is judged the target is up, so the control is
  accepted if it is aimed right, and if it was accepted it was.
* `SafeInv`: a target that keeps to the rule stays up, and what it accepts of the cases
  to be rejected is the octet that is right by chance (`Chance`), at the APIDs named above.
* `CaughtInv`: the target that overflows is up exactly until `FirstDeadly`, and every
  verdict from there on is `hang`, none before. That a script does not pass then
  needs `TypeInv`, for a suite of any length and with `RunPasses` read off the findings.
* `SetUp`: what each step of the set-up achieved for a build that exports everything,
  and that a script stopped short of its suite had a `mishap` or a build it cannot reach.
  What the script packs, in either order of octets, TO_LAB unpacks: the stream
  (`AddDoes`) and the host's address, padded with NULs (`AddressComesBack`).

The selection of cases is written by position (`Filtering`) and checksums as
symmetric differences over positions, because the provers cannot do induction over
data. What the target and the network do to a packet is shared by both oracles:
`TargetProofs` has those lemmas once.

Each proof has one step per action of `Next`. The invariants were checked with TLC
on the instances above before they were proved.

*Model-checked only.* Liveness (`EveryCaseJudged`, `EveryScriptEnds`) and the fairness
half of the two oracles' refinements are out of the prover's reach. Every invariant
and every safety property of steps that a passing run checks is also a theorem above.

## What is not covered

* `Dockerfile` and the workflow in `.github/`: a build, and the same commands on a
  fresh machine where nothing competes for port or name.
* Layout of the reports and provenance: formatting.
* Validators of single fields (`config.py`) are one Boolean; the rules for categories
  and profiles are modelled. A configuration by hand may be the sample in `README.md`,
  whose `allowed_reply_apid` of 2056 the validator refuses.
* `verdict_for`, `verdicts_for` and `missing_evidence` (`harness/adapters.py`) and
  `validate` (`ccsds/packet.py`) as a call of its own are reached by tests only.
* The timing of the health command: it is asked once, at one moment after the
  timeout.
* A write is one step after the truncation; a report larger than the buffer is
  written in pieces, which the model counts as torn until the last.
* A report file shared between a script that reads it and another run: `SuiteRun` has
  one run, `CliRun` has no script.

## Plan

Done: the transport, both oracles, the target, the abstract campaign and its
refinements, the scripts, the command line with contracts and baseline, the packets,
the generator, the selection, the sandbox's set-up and the run end to end, and the
theorems above. The order was that of risk: evidence over UDP first, then what
is sent, then who it is sent to.

Next: the reading of `report.json` by the script, composed with the runs of `CliRun`
that may share the file.
