---------------------------- MODULE SandboxSetup -----------------------------
(***************************************************************************)
(* How run-cfs-docker.sh points a run at its container, once cFE is up:    *)
(* resolve_ids.py takes the message IDs out of what the build exported,    *)
(* render_config.py writes them into a configuration, enable_to_lab.py     *)
(* commands TO_LAB to send CI_LAB's housekeeping telemetry to the host,    *)
(* and the script waits for one such packet, from the address and of the   *)
(* stream it expects.  The helpers' packets go over UDP unacknowledged.  A *)
(* step that fails ends the script (set -e).                               *)
(***************************************************************************)
EXTENDS SpacePacket

CONSTANTS
    Builds,     \* [ids: the IDs of the flight software, exported: the ci_lab_ids.json
                \*  found, hk_source: the address its telemetry is seen to come from,
                \*  hk_length: octets of its CI_LAB housekeeping packet]
    HostIp,     \* the host's address as the container sees it, in octets
    Configs     \* configurations that a user wrote

\* getent ahostsv4 prints no address that would not fit TO_LAB's field.
ASSUME HostAssumption ==
    HostIp \in Seq(Octet) /\ Len(HostIp) \in 1 .. 15 /\ \A k \in DOMAIN HostIp : HostIp[k] # {}

WantedDefines ==
    {"CI_LAB_CMD_MID", "CI_LAB_SEND_HK_MID", "CI_LAB_HK_TLM_MID",
     "CI_LAB_CMD_UDP_PORT", "TO_LAB_CMD_MID", "TO_LAB_TLM_PORT"}

\* A message ID, or a port, is a 16-bit word.
Word == SUBSET (0 .. 15)
Ids == [WantedDefines -> Word]
PartialIds == [WantedDefines -> Word \cup {None}]
Unreadable == [unreadable |-> TRUE]

\* docker run -p publishes one port of the container: 1234, not a resolved one.
PublishedPort == {1, 4, 6, 7, 10}

\* What a build exports, if it can be read, are its own IDs, maybe not all.
ASSUME BuildsAssumption ==
    /\ None \notin Builds
    /\ \A b \in Builds :
          /\ b.ids \in Ids
          /\ b.hk_length \in Nat
          /\ \/ b.exported = <<>>
             \/ Head(b.exported) = Unreadable
             \/ /\ Head(b.exported) \in PartialIds
                /\ \A name \in WantedDefines : Head(b.exported)[name] \in {b.ids[name], None}

VARIABLES
    step,       \* what the script does next
    build,      \* the flight software in the container, None without one
    resolved,   \* the file of resolved IDs, None before it is written
    config,     \* the configuration of the run, None before it is written
    telemetry,  \* what TO_LAB sends: to which address, which streams
    mishaps     \* history: the packets of the set-up that were lost, and
                \* "command" if one of its commands failed

setupVars == <<step, build, resolved, config, telemetry, mishaps>>

\* Where the script takes the telemetry to come from.
AllowedReplyHost == "127.0.0.1"

\* The counters end here in a housekeeping packet: 16 octets of header, 12 more.
HkCountersEnd == 28

Config == [target_apid : (SUBSET APID_MAX) \cup {None}]
            \cup [target_apid : SUBSET APID_MAX, allowed_reply_apid : SUBSET APID_MAX,
                  allowed_reply_host : {AllowedReplyHost},
                  port : Word, listen_port : Word, hk_request : Seq(Octet)]

ASSUME NoneAssumption == None \notin Nat /\ None \notin Config /\ \A word \in Word : word # None

SetupTypeOK ==
    /\ step \in {"resolve", "render", "enable", "hk", "stopped",
                "suite", "exit", "passed", "failed"}
    /\ build \in Builds \cup {None}
    /\ resolved \in PartialIds \cup {None}
    /\ config \in Config \cup {None}
    /\ telemetry.to \in {None, HostIp} /\ telemetry.streams \subseteq Word
    /\ mishaps \subseteq {"enable", "add", "hk", "command"}
    /\ step \in {"enable", "hk", "suite", "exit", "passed"} => config # None

\* A sandbox, or a run on a target and a configuration that are there.
SetupInit ==
    /\ \/ step = "resolve" /\ build \in Builds /\ config = None
       \/ step = "suite" /\ build = None /\ config \in Configs
    /\ resolved = None
    /\ telemetry = [to |-> None, streams |-> {}]
    /\ mishaps = {}

Goto(next) == step' = next

\* Plausible error: the stream in network order.
BigEndianStream(mid) == <<High(mid), Low(mid), {}, {}>>
-----------------------------------------------------------------------------
(***************************************************************************)
(* resolve_ids.py and render_config.py.                                    *)
(***************************************************************************)
NothingFound == [name \in WantedDefines |-> None]
FindResolvedDefines(exported) == IF exported = <<>> THEN NothingFound ELSE Head(exported)

AllResolved(ids) == \A name \in WantedDefines : ids[name] # None

\* What was found is written even if it is not all that is wanted.
Resolve ==
    /\ step = "resolve"
    /\ LET found == FindResolvedDefines(build.exported) IN
       IF found = Unreadable
         THEN Goto("stopped") /\ UNCHANGED resolved
         ELSE /\ resolved' = found
              /\ Goto(IF AllResolved(found) THEN "render" ELSE "stopped")
    /\ UNCHANGED <<build, config, telemetry, mishaps>>

CommandHeader(mid) ==
    [version |-> {}, packet_type |-> {0}, sec_hdr_flag |-> {0}, apid |-> mid \cap APID_MAX,
     seq_flags |-> SEQ_FLAGS_UNSEGMENTED, seq_count |-> {}, packet_data_length_field |-> {}]

Command(mid, function, arguments) ==
    WithCommandChecksum(ToBytes(CommandHeader(mid), <<function, {}>> \o arguments, None))

BuildHkRequest(mid) == Command(mid, {}, <<>>)

Render ==
    /\ step = "render"
    /\ config' = [target_apid        |-> resolved["CI_LAB_CMD_MID"] \cap APID_MAX,
                  allowed_reply_apid |-> resolved["CI_LAB_HK_TLM_MID"] \cap APID_MAX,
                  allowed_reply_host |-> AllowedReplyHost,
                  port               |-> resolved["CI_LAB_CMD_UDP_PORT"],
                  listen_port        |-> resolved["TO_LAB_TLM_PORT"],
                  hk_request         |-> BuildHkRequest(resolved["CI_LAB_SEND_HK_MID"])]
    /\ Goto("enable")
    /\ UNCHANGED <<build, resolved, telemetry, mishaps>>

-----------------------------------------------------------------------------
(***************************************************************************)
(* enable_to_lab.py, and TO_LAB at the other end.                          *)
(***************************************************************************)
LittleEndian(mid) == <<Low(mid), High(mid), {}, {}>>

Padded(ip) == [k \in 1 .. 16 |-> IF k <= Len(ip) THEN ip[k] ELSE {}]

BuildEnablePacket(mid, ip) == Command(mid, {1, 2}, Padded(ip))
BuildAddPacket(mid, stream) == Command(mid, {1}, LittleEndian(stream) \o <<{}, {}, {0}>>)

\* An application takes the commands for its message ID that are in order.
Understood(data, mid) ==
    /\ Len(data) >= 8
    /\ WordAt(data, 1) = mid
    /\ DataLengthIs(Unpack(data), Len(data) - PRIMARY_HEADER_SIZE)
    /\ ChecksumHolds(data)

\* CI_LAB gets what is sent to the published port, if it listens there.
Arrives(port) == {port, build.ids["CI_LAB_CMD_UDP_PORT"]} = {PublishedPort}

\* A string in a field of fixed size ends at the first NUL.
AddressIn(octets) ==
    [k \in {k \in DOMAIN octets : \A j \in 1 .. k : octets[j] # {}} |-> octets[k]]

ToLabAfter(sends, mid, data) ==
    IF ~Understood(data, mid) THEN sends
    ELSE CASE data[7] = {1, 2} -> [sends EXCEPT !.to = AddressIn(SubSeq(data, 9, 24))]
           [] data[7] = {1}    -> [sends EXCEPT !.streams = @ \cup {WordAt(<<data[10], data[9]>>, 1)}]
           [] OTHER            -> sends

AfterPacket(sends, name, data) ==
    IF name \in mishaps' \/ ~Arrives(resolved["CI_LAB_CMD_UDP_PORT"]) THEN sends
    ELSE ToLabAfter(sends, build.ids["TO_LAB_CMD_MID"], data)

EnableToLab ==
    /\ step = "enable"
    /\ mishaps' \in SUBSET {"enable", "add"}
    /\ LET mid == resolved["TO_LAB_CMD_MID"]
           enabled == AfterPacket(telemetry, "enable", BuildEnablePacket(mid, HostIp))
           stream == resolved["CI_LAB_HK_TLM_MID"]
       IN  telemetry' = AfterPacket(enabled, "add", BuildAddPacket(mid, stream))
    /\ Goto("hk")
    /\ UNCHANGED <<build, resolved, config>>

-----------------------------------------------------------------------------
(***************************************************************************)
(* The script's own HK request.                                            *)
(***************************************************************************)
HkReplyAccepted(source, length, mid) ==
    /\ source = config.allowed_reply_host
    /\ length >= PRIMARY_HEADER_SIZE
    /\ mid \cap APID_MAX = config.allowed_reply_apid

HkTelemetryComes ==
    /\ Arrives(config.port)
    /\ Understood(config.hk_request, build.ids["CI_LAB_SEND_HK_MID"])
    /\ telemetry.to = HostIp
    /\ build.ids["CI_LAB_HK_TLM_MID"] \in telemetry.streams
    /\ HkReplyAccepted(build.hk_source, build.hk_length, build.ids["CI_LAB_HK_TLM_MID"])

\* A reply that ends before the counters do cannot be parsed.
AwaitHk ==
    /\ step = "hk"
    /\ HkTelemetryComes
    /\ Goto(IF build.hk_length < HkCountersEnd THEN "stopped" ELSE "suite")
    /\ UNCHANGED <<build, resolved, config, telemetry, mishaps>>

HkTimesOut ==
    /\ step = "hk"
    /\ IF HkTelemetryComes THEN mishaps' = mishaps \cup {"hk"} ELSE UNCHANGED mishaps
    /\ Goto("stopped")
    /\ UNCHANGED <<build, resolved, config, telemetry>>

\* docker cp or exec fails, a helper cannot read, write or send, or the port the
\* telemetry is awaited on is taken.
CommandFails ==
    /\ step \in {"resolve", "render", "enable", "hk"}
    /\ mishaps' = mishaps \cup {"command"}
    /\ Goto("stopped")
    /\ UNCHANGED <<build, resolved, config, telemetry>>

SetupNext == Resolve \/ Render \/ EnableToLab \/ AwaitHk \/ HkTimesOut \/ CommandFails
=============================================================================
