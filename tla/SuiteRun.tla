------------------------------ MODULE SuiteRun ------------------------------
(***************************************************************************)
(* A run end to end, packet by packet: the configuration (written by a     *)
(* user, or rendered for a sandbox), the cases made from it, a target that *)
(* keeps to the rule of tests/fixtures/mock_target.py, the verdicts and    *)
(* the exit status.                                                        *)
(*                                                                         *)
(* The rule is exact, octet for octet; the network is the one of a local   *)
(* run, where a reading of the counters answers at once.  CiLabOracle has  *)
(* the readings, and the networks and targets that misbehave.  In the      *)
(* sandbox the rule stands for CI_LAB's.                                   *)
(***************************************************************************)
EXTENDS CaseSelection, SandboxSetup, Verdicts

CONSTANTS
    EXPECTED_APID,      \* where the mock target listens
    MAX_COMMAND_SIZE,   \* of the target, in octets: 2048
    UdpLimit,           \* octets a datagram can carry: 65507
    ByteMod,            \* the one-byte counters wrap here: 256
    FirstCounts         \* the counter values a target may start with

ASSUME TargetAssumption ==
    /\ EXPECTED_APID \in SUBSET APID_MAX
    /\ ByteMod \in Nat \ {0} /\ FirstCounts \subseteq 0 .. ByteMod - 1
ASSUME ConfigsAssumption == Configs \subseteq [target_apid : (SUBSET APID_MAX) \cup {None}]

\* Sizes of the target, the generator and the network that stand to each other as
\* those of the code do: 2048, 4096, 65507, 16 bits, 100.
AsSized ==
    /\ MAX_COMMAND_SIZE \in Nat /\ UdpLimit \in Nat
    /\ 10 <= MAX_COMMAND_SIZE /\ MAX_COMMAND_SIZE <= MAX_PACKET_DATA_LENGTH
    /\ MAX_COMMAND_SIZE < ReachableSize /\ ReachableSize <= UdpLimit
    /\ LengthBits >= 5
    /\ Surplus >= 1 /\ Surplus + 3 < 2^LengthBits

VARIABLES
    target,     \* [mid, buggy, up, counters]: mid heads the commands it takes
    findings,   \* the verdicts so far
    deeds       \* history: what the target did with each of those cases

suiteVars == <<target, findings, deeds>>
vars == <<setupVars, suiteVars>>

Counters == [command : 0 .. ByteMod - 1, command_error : 0 .. ByteMod - 1, ingest_errors : {0}]

TypeOK ==
    /\ SetupTypeOK
    /\ target \in [mid : Word, buggy : BOOLEAN, up : BOOLEAN, counters : Counters]
    /\ findings \in Seq(Verdict)
    /\ Len(findings) <= Len(Suite)
    /\ deeds \in Seq(Effect \cup {"none"}) /\ Len(deeds) = Len(findings)
    /\ step \in {"exit", "passed"} => Len(findings) = Len(Suite)

\* The APID a configuration aims at, and the message IDs that can be there.
Aim == IF config.target_apid = None THEN DefaultApid ELSE config.target_apid

CommandMid(apid) == {11, 12} \cup apid

Listens ==
    IF build # None THEN {build.ids["CI_LAB_CMD_MID"]}
    ELSE {CommandMid(EXPECTED_APID), CommandMid(Aim)}

OnAim == target.mid = CommandMid(Aim)

Init ==
    /\ SetupInit
    /\ \E mid \in Listens, buggy \in BOOLEAN, n \in FirstCounts :
          target = [mid |-> mid, buggy |-> buggy, up |-> TRUE,
                    counters |-> [command |-> n, command_error |-> n, ingest_errors |-> 0]]
    /\ findings = <<>>
    /\ deeds = <<>>

-----------------------------------------------------------------------------
(***************************************************************************)
(* MockTarget.                                                             *)
(***************************************************************************)

\* Plausible errors: a counter that does not wrap, a report not looked into.
CountedOn(counters, field) == [counters EXCEPT ![field] = @ + 1]

\* What _is_well_formed finds wrong with a packet.
Defects(data, mid) ==
    IF Len(data) \notin PRIMARY_HEADER_SIZE .. MAX_COMMAND_SIZE THEN {"size"}
    ELSE LET header == Unpack(data)
             wrong == [version      |-> header.version # {},
                       packet_type  |-> header.packet_type # {0},
                       seq_flags    |-> header.seq_flags # SEQ_FLAGS_UNSEGMENTED,
                       length       |-> ~DataLengthIs(header, Len(data) - PRIMARY_HEADER_SIZE),
                       apid         |-> mid # CommandMid(header.apid),
                       sec_hdr_flag |-> header.sec_hdr_flag # {0},
                       function     |-> Len(data) < 8 \/ data[7] # {},
                       checksum     |-> ~ChecksumHolds(data)]
         IN  {defect \in DOMAIN wrong : wrong[defect]}

\* Oversized packets kill a buggy target.
Kills(data) == target.buggy /\ Len(data) > MAX_COMMAND_SIZE

Counted(counters, field) == [counters EXCEPT ![field] = (@ + 1) % ByteMod]

Handled(data) ==
    IF Kills(data) THEN [target EXCEPT !.up = FALSE]
    ELSE [target EXCEPT !.counters =
             Counted(@, IF Defects(data, target.mid) = {} THEN "command" ELSE "command_error")]

\* What that amounts to, whatever is then read off the counters.
DeedOn(data) ==
    IF Kills(data) THEN "crash"
    ELSE IF Defects(data, target.mid) = {} THEN "accept" ELSE "reject"

Did(deed) == deeds' = Append(deeds, deed)

-----------------------------------------------------------------------------
(***************************************************************************)
(* Runner.run with the CiLabOracle and no health command.                  *)
(***************************************************************************)
RejectIndices == {k \in DOMAIN Suite : Suite[k].expect_safe_reject}

Deltas == INSTANCE CounterDeltas WITH RejectCases <- RejectIndices

Position == Len(findings) + 1
Packet == Retargeted(Suite[Position], config.target_apid).packet_bytes
Carried == Len(Packet) <= UdpLimit

Judged(verdict) ==
    /\ findings' = Append(findings, verdict)
    /\ Goto(IF Position = Len(Suite) THEN "exit" ELSE "suite")
    /\ UNCHANGED <<build, resolved, config, telemetry, mishaps>>

InSuite == step = "suite" /\ Position \in DOMAIN Suite

CaseCounted ==
    /\ InSuite /\ target.up /\ Carried
    /\ ~Kills(Packet)
    /\ target' = Handled(Packet)
    /\ Did(DeedOn(Packet))
    /\ Judged(Deltas!DeltaVerdict(Position, target, target'))

CaseKills ==
    /\ InSuite /\ target.up /\ Carried
    /\ Kills(Packet)
    /\ target' = Handled(Packet)
    /\ Did(DeedOn(Packet))
    /\ Judged("hang")

CaseNotCarried ==
    /\ InSuite /\ target.up
    /\ ~Carried
    /\ Judged("inconclusive")
    /\ Did("none")
    /\ UNCHANGED target

\* The first reading of the counters already fails.
TargetSilent ==
    /\ InSuite /\ ~target.up
    /\ Judged("hang")
    /\ Did("none")
    /\ UNCHANGED target

\* The exit status of the command line, and of the script that looks for the
\* control in the report as well.
RunPasses == \A k \in DOMAIN findings : findings[k] \notin UnsafeVerdict

Controls == {k \in DOMAIN findings : Suite[k].category = "known_good"}
ControlUnchecked == RunPasses
ScriptPasses ==
    /\ RunPasses
    /\ Cardinality(Controls) = 1
    /\ \A k \in Controls : findings[k] = "clean_accept"

\* A suite without a case is over at once.
Exit ==
    /\ step \in {"suite", "exit"} /\ Len(findings) = Len(Suite)
    /\ Goto(IF (IF build = None THEN RunPasses ELSE ScriptPasses) THEN "passed" ELSE "failed")
    /\ UNCHANGED <<build, resolved, config, telemetry, mishaps, suiteVars>>

Next ==
    \/ SetupNext /\ UNCHANGED suiteVars
    \/ CaseCounted \/ CaseKills \/ CaseNotCarried \/ TargetSilent
    \/ Exit

Spec == Init /\ [][Next]_vars

-----------------------------------------------------------------------------
(***************************************************************************)
(* The packets.                                                            *)
(***************************************************************************)

\* generator: "one controlled command-level defect each".  When an APID is
\* configured, whichever it is, the cases of the five categories that are about
\* a field of the command break the target's rule in the field their category
\* names, and in no other: a checksum or a flag gone wrong on the way would have
\* the target reject them for that, and say nothing about what they test.  And
\* with a case that need not be rejected nothing is wrong by the standard either.
DefectOf(case) ==
    CASE case.category \in {"version", "seq_flags"} ->
            IF case.expect_safe_reject THEN {case.category} ELSE {}
      [] case.category = "known_good"                  -> {}
      [] case.name[1] = "command_bad_checksum"         -> {"checksum"}
      [] case.name[1] = "command_invalid_function"     -> {"function"}
      [] OTHER                                         -> {"length"}

OneDefectEach ==
    InSuite =>
       /\ config.target_apid # None
             /\ Suite[Position].category \in {"known_good", "command_malformed", "version",
                                              "seq_flags", "packet_length"}
          => Defects(Packet, CommandMid(Aim)) = DefectOf(Suite[Position])
       /\ ~Suite[Position].expect_safe_reject /\ Aim # APID_MAX => ParsedIssues(Packet) = {}

IsCommand(data) == Len(data) >= PRIMARY_HEADER_SIZE /\ Unpack(data).packet_type = {0}

\* A suite aimed at one application sends no command to another, whatever the
\* case does to the header.
StaysOnTarget == InSuite /\ IsCommand(Packet) => Unpack(Packet).apid = Aim

-----------------------------------------------------------------------------
(***************************************************************************)
(* The verdicts.                                                           *)
(***************************************************************************)

\* A target that keeps to the rule is never called unsafe, but where a case that
\* is sent with the checksum octet of its payload has the right one by chance.
WellBehavedTargetIsSafe ==
    ~target.buggy =>
        \A k \in DOMAIN findings :
           findings[k] \in UnsafeVerdict =>
              /\ Suite[k].name[1] = "sec_hdr_flag_set_but_absent"
              /\ OnAim
              /\ {0, 2, 5} = {i \in 0 .. 7 : (i \in Aim) # (i <= 2 /\ i + 8 \in Aim)}

\* mock_target: "so tests can prove the harness actually detects" a death.  The
\* first verdict that says so is the one of the packet that killed the target.
FirstDeadly ==
    CHOOSE k \in DOMAIN Suite :
       /\ Len(Suite[k].packet_bytes) > MAX_COMMAND_SIZE
       /\ \A j \in 1 .. k - 1 : Len(Suite[j].packet_bytes) <= MAX_COMMAND_SIZE
BuggyTargetIsCaught ==
    target.buggy /\ step \in {"exit", "passed", "failed"} =>
        /\ step # "passed"
        /\ \A k \in DOMAIN findings : findings[k] = "hang" <=> k >= FirstDeadly

\* The control is accepted exactly when the suite was aimed at the target: of a
\* run that missed it every other verdict could look as clean.
ControlTellsReach ==
    \A k \in Controls : findings[k] = "clean_accept" <=> OnAim

-----------------------------------------------------------------------------
(***************************************************************************)
(* The sandbox.                                                            *)
(***************************************************************************)

\* The classic message IDs: 0x18.. for a command, 0x08.. for telemetry.
Classic(ids) ==
    /\ \A name \in {"CI_LAB_CMD_MID", "CI_LAB_SEND_HK_MID", "TO_LAB_CMD_MID"} :
          ids[name] \ APID_MAX = {11, 12}
    /\ ids["CI_LAB_HK_TLM_MID"] \ APID_MAX = {11}

\* Of a flight software with classic message IDs, on the port that the script
\* publishes, whose export is complete, the script gets to the suite unless a
\* packet of its own was lost or a command failed: what the helpers build is what
\* TO_LAB and CI_LAB understand.  Provided that the telemetry comes from where
\* the script takes it to come from: README and workflow name another address.
GoodBuildReachesSuite ==
    step = "stopped" =>
       \/ mishaps # {}
       \/ build.exported # <<build.ids>>
       \/ ~Classic(build.ids)
       \/ build.ids["CI_LAB_CMD_UDP_PORT"] # PublishedPort
       \/ build.hk_source # AllowedReplyHost
       \/ build.hk_length < HkCountersEnd

\* A script that passes has exercised the CI_LAB of its own container, at the
\* port it listens on.
PassedOnItsOwnTarget ==
    step = "passed" /\ build # None =>
       /\ OnAim
       /\ config.port = build.ids["CI_LAB_CMD_UDP_PORT"]
       /\ config.listen_port = build.ids["TO_LAB_TLM_PORT"]

Unsendable == {k \in DOMAIN Suite : ~(Len(Suite[k].packet_bytes) <= UdpLimit)}

\* Packet by packet the run is a Campaign: one verdict for each case, the one for
\* what the target did with it by its own rule.  An accepted packet is not filed
\* as rejected, nor a handled one as inconclusive: only what no datagram carries
\* is, and only that.
Promise == INSTANCE Campaign WITH
    NCases <- Len(Suite),
    RejectCases <- RejectIndices,
    HealthCommand <- "none",
    SeesCounters <- TRUE,
    Unsendable <- Unsendable,
    target <- IF target.up THEN "up" ELSE "dead",
    deeds <- deeds,
    report <- findings

ImplementsCampaign == Promise!Spec
=============================================================================
