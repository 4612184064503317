------------------------------- MODULE CliRun -------------------------------
(***************************************************************************)
(* The command line (cli.py): invocations of "reentry run" and "reentry    *)
(* compare" that share one directory of reports, in any order and at the   *)
(* same time, each of which may be killed or fail to write.                *)
(*                                                                         *)
(* A run validates its configuration, selects the cases, loads the oracle, *)
(* judges case after case, writes the reports asked for and exits.  How a  *)
(* case gets its verdict is the subject of CiLabOracle and LivenessOracle: *)
(* here it is any verdict, or the exception of a reply too short to parse. *)
(***************************************************************************)
EXTENDS AdapterContract, Baseline, Filtering, Verdicts

CONSTANTS
    Runs,           \* invocations of "reentry run"
    Compares,       \* invocations of "reentry compare"
    Suite,          \* the generated cases: a sequence of names
    CategoryOf,     \* the category of each
    Judgeable,      \* the verdicts an oracle gives
    Settings,       \* command lines and configurations of a run
    File,           \* files for reports
    Compared,       \* the two files compared: baseline and actual
    ComparisonFile, \* where a comparison may write its details
    Archived        \* what may be in the baseline's file to begin with

CaseName == {Suite[k] : k \in DOMAIN Suite}

ASSUME SuiteAssumption == Suite \in Seq(CaseName)

ASSUME CliAssumption ==
    /\ \A j, k \in DOMAIN Suite : Suite[j] = Suite[k] => j = k
    /\ Judgeable \subseteq Verdict
    /\ Compared \in File \X File
    /\ ComparisonFile \in File
    /\ Runs \cap Compares = {}

\* Profiles are the members of TargetProfile, on the command line and in the file.
ASSUME SettingsAssumption ==
    \A s \in Settings : {s.cli, s.profile} \subseteq Profile \cup {None}

\* What is there to begin with is no JUnit report, and of an earlier run.
ASSUME ArchiveAssumption ==
    \A content \in Archived :
       /\ content.kind \in {"absent", "torn", "not_object", "bad_schema", "report"}
       /\ content.kind = "report" => content.run \notin Runs

VARIABLES
    setting,    \* the command line and configuration of a run
    pc,         \* what an invocation does next; where it ended
    status,     \* how it ended: exit status 0, 1, 2 ("ok", "fail", "usage")
    profile,    \* the profile in force in a run
    selection,  \* the cases of the run
    findings,   \* its findings so far
    written,    \* how many of its reports it has written
    files,      \* what is in each file
    loaded      \* the reports a compare has read

vars == <<setting, pc, status, profile, selection, findings, written, files, loaded>>

\* Plausible error: only a crash a failed test.
FailedOnCrash(fs) == {fs[k].name : k \in {k \in DOMAIN fs : fs[k].verdict = "crash"}}

\* A file is absent, holds a JSON or a JUnit report, JSON that is not an object,
\* an object without a proper list of findings, or part of a report ("torn").
Absent == [kind |-> "absent"]
Torn == [kind |-> "torn"]
Report(r) == [kind |-> "report", run |-> r, findings |-> findings[r]]

FailedCases(fs) == {fs[k].name : k \in {k \in DOMAIN fs : fs[k].verdict \in UnsafeVerdict}}
\* The details of a comparison are an object that lists no findings.
Comparison == [kind |-> "bad_schema"]
JUnit(r) == [kind |-> "junit", run |-> r, tests |-> Len(findings[r]),
             failed |-> FailedCases(findings[r])]

Ended(p) == status[p] # "running"

Finding == [name : CaseName, verdict : Verdict]

TypeOK ==
    /\ setting \in [Runs -> Settings]
    /\ pc \in [Runs \cup Compares ->
                  {"config", "oracle", "judge", "open", "write", "read", "compare"}]
    /\ status \in [Runs \cup Compares -> {"running", "ok", "fail", "usage", "killed"}]
    /\ profile \in [Runs -> Profile \cup {None}]
    /\ DOMAIN files = File
    /\ \A r \in Runs :
          /\ selection[r] \in Seq(CaseName)
          /\ findings[r] \in Seq(Finding)
          /\ Len(findings[r]) <= Len(selection[r])
          /\ pc[r] = "judge" /\ ~Ended(r) => Len(findings[r]) < Len(selection[r])
          /\ written[r] \in 0 .. 2
    /\ \A c \in Compares : Len(loaded[c]) <= 2

Init ==
    /\ setting \in [Runs -> Settings]
    /\ pc = [p \in Runs \cup Compares |-> IF p \in Runs THEN "config" ELSE "read"]
    /\ status = [p \in Runs \cup Compares |-> "running"]
    /\ profile = [r \in Runs |-> None]
    /\ selection = [r \in Runs |-> <<>>]
    /\ findings = [r \in Runs |-> <<>>]
    /\ written = [r \in Runs |-> 0]
    /\ \E content \in Archived :
          files = [f \in File |-> IF f = Compared[1] THEN content ELSE Absent]
    /\ loaded = [c \in Compares |-> <<>>]

At(p, step) == pc[p] = step /\ ~Ended(p)
Goto(p, step) == pc' = [pc EXCEPT ![p] = step] /\ UNCHANGED status
Exit(p, how) == status' = [status EXCEPT ![p] = how] /\ UNCHANGED pc

-----------------------------------------------------------------------------
\* Plausible errors: the profile of the command line ignored, one unsafe verdict
\* looked for instead of three, reports of a suite that broke off or has yet to
\* begin, one case too many.
ConfiguredProfile(s) == s.profile
CrashesOnly(fs) == \E k \in DOMAIN fs : fs[k].verdict = "crash"
ReportsWhatItHas(r) == Goto(r, "open")
ReportsFirst(r) == "open"
PastLastCase(r) == Len(findings'[r]) > Len(selection[r])

-----------------------------------------------------------------------------
(***************************************************************************)
(* reentry run: the configuration, the cases and the oracle.               *)
(***************************************************************************)
Filtered(s) == s.include # None \/ s.exclude # {}

KnownCategories == {CategoryOf[c] : c \in CaseName}
UnknownCategory(s) ==
    \/ s.include # None /\ ~(s.include \subseteq KnownCategories)
    \/ ~(s.exclude \subseteq KnownCategories)

\* valid: the file parses and its other fields pass their validators.
ConfigRefused(s) == ~s.valid \/ UnknownCategory(s) \/ (s.profile # None /\ Filtered(s))

\* The profile of the command line replaces that of the configuration.
EffectiveProfile(s) == IF s.cli # None THEN s.cli ELSE s.profile

Configure(r) ==
    LET s == setting[r] IN
    /\ At(r, "config")
    /\ IF ConfigRefused(s) \/ (s.cli # None /\ Filtered(s))
         THEN Exit(r, "usage") /\ UNCHANGED profile
         ELSE /\ profile' = [profile EXCEPT ![r] = EffectiveProfile(s)]
              /\ Goto(r, "oracle")
    /\ UNCHANGED <<setting, selection, findings, written, files, loaded>>

SelectCases(s, p) ==
    LET included == IF p # None THEN CategoriesForProfile(p) ELSE s.include IN
    AtPositions(Suite, {k \in DOMAIN Suite :
                           /\ included = None \/ CategoryOf[Suite[k]] \in included
                           /\ CategoryOf[Suite[k]] \notin s.exclude})

\* An oracle without a contract runs without a profile only.
ProfileRefused(contract, p) ==
    p # None /\ (contract = None \/ RequirementsFor(contract, p) # {})

AfterLoading(r) == IF selection'[r] = <<>> THEN "open" ELSE "judge"

LoadOracle(r) ==
    LET s == setting[r] IN
    /\ At(r, "oracle")
    /\ selection' = [selection EXCEPT ![r] = SelectCases(s, profile[r])]
    /\ IF ProfileRefused(s.contract, profile[r])
         THEN Exit(r, "usage")
         ELSE Goto(r, AfterLoading(r))
    /\ UNCHANGED <<setting, profile, findings, written, files, loaded>>

-----------------------------------------------------------------------------
(***************************************************************************)
(* reentry run: the cases and the reports.                                 *)
(***************************************************************************)
AllJudged(r) == Len(findings'[r]) = Len(selection[r])

JudgeCase(r) ==
    LET name == selection[r][Len(findings[r]) + 1] IN
    /\ At(r, "judge")
    /\ \E v \in Judgeable :
          findings' = [findings EXCEPT ![r] = Append(@, [name |-> name, verdict |-> v])]
    /\ IF AllJudged(r) THEN Goto(r, "open") ELSE UNCHANGED <<pc, status>>
    /\ UNCHANGED <<setting, profile, selection, written, files, loaded>>

\* A ValueError out of the oracle is taken for an error of the command line.
AfterValueError(r) == Exit(r, "usage")

ReplyTooShort(r) ==
    /\ At(r, "judge")
    /\ AfterValueError(r)
    /\ UNCHANGED <<setting, profile, selection, findings, written, files, loaded>>

\* The JSON report first.
ReportTo(f) == IF f = None THEN <<>> ELSE <<f>>
Reports(s) == ReportTo(s.json) \o ReportTo(s.junit)
NextReport(r) == Reports(setting[r])[written[r] + 1]
ReportWritten(r) == IF written[r] = 0 /\ setting[r].json # None THEN Report(r) ELSE JUnit(r)
ReportsLeft(r) == written[r] < Len(Reports(setting[r]))

\* write_text opens the file, which empties it ...
OpenReport(r) ==
    /\ At(r, "open")
    /\ ReportsLeft(r)
    /\ files' = [files EXCEPT ![NextReport(r)] = Torn]
    /\ Goto(r, "write")
    /\ UNCHANGED <<setting, profile, selection, findings, written, loaded>>

\* ... and writes from its start: over what another invocation has written there
\* since, of which a tail may stay.
WhatStays(f, content) == {content} \cup (IF files[f] # Torn THEN {Torn} ELSE {})

WriteReport(r) ==
    /\ At(r, "write")
    /\ \E content \in WhatStays(NextReport(r), ReportWritten(r)) :
          files' = [files EXCEPT ![NextReport(r)] = content]
    /\ written' = [written EXCEPT ![r] = @ + 1]
    /\ Goto(r, "open")
    /\ UNCHANGED <<setting, profile, selection, findings, loaded>>

Unsafe(fs) == \E k \in DOMAIN fs : fs[k].verdict \in UnsafeVerdict

Conclude(r) ==
    /\ At(r, "open")
    /\ ~ReportsLeft(r)
    /\ Exit(r, IF Unsafe(findings[r]) THEN "fail" ELSE "ok")
    /\ UNCHANGED <<setting, profile, selection, findings, written, files, loaded>>

\* An exception nobody catches: the oracle's arguments, the socket, a report.
\* The interpreter exits with 1, as for an unsafe finding.
Raises(r) ==
    /\ At(r, "oracle") \/ (At(r, "open") /\ ReportsLeft(r)) \/ At(r, "write")
    /\ Exit(r, "fail")
    /\ \/ UNCHANGED files
       \/ pc[r] = "write" /\ files' = [files EXCEPT ![NextReport(r)] = Torn]
    /\ UNCHANGED <<setting, profile, selection, findings, written, loaded>>

-----------------------------------------------------------------------------
(***************************************************************************)
(* reentry compare.                                                        *)
(***************************************************************************)
ReadReport(c) ==
    LET content == files[Compared[Len(loaded[c]) + 1]] IN
    /\ At(c, "read")
    /\ IF content.kind \in {"absent", "torn", "junit"}
         THEN Exit(c, "usage") /\ UNCHANGED loaded
         ELSE /\ loaded' = [loaded EXCEPT ![c] = Append(@, content)]
              /\ IF Len(loaded[c]) = 1 THEN Goto(c, "compare") ELSE UNCHANGED <<pc, status>>
    /\ UNCHANGED <<setting, profile, selection, findings, written, files>>

\* What _findings_by_name says to a report: an AttributeError nobody catches, or
\* a ValueError.
Complaint(content) ==
    CASE content.kind = "not_object" -> "fail"
      [] content.kind = "bad_schema" -> "usage"
      [] OTHER -> IF HasDuplicate(content.findings) THEN "usage" ELSE "none"

Outcome(c) ==
    IF CompareReports(loaded[c][1].findings, loaded[c][2].findings) = {} THEN "ok" ELSE "fail"

\* The baseline's complaint comes first.  The details may be asked for or not.
Compare(c) ==
    LET first == Complaint(loaded[c][1])
        second == Complaint(loaded[c][2])
    IN
    /\ At(c, "compare")
    /\ IF first # "none" THEN Exit(c, first)
       ELSE IF second # "none" THEN Exit(c, second)
       ELSE Exit(c, Outcome(c)) \/ Goto(c, "open")
    /\ UNCHANGED <<setting, profile, selection, findings, written, files, loaded>>

\* The details are written like a report, but a file that cannot be written is
\* an error of the command line.
OpenComparison(c) ==
    /\ At(c, "open")
    /\ \/ Goto(c, "write") /\ files' = [files EXCEPT ![ComparisonFile] = Torn]
       \/ Exit(c, "usage") /\ UNCHANGED files
    /\ UNCHANGED <<setting, profile, selection, findings, written, loaded>>

WriteComparison(c) ==
    /\ At(c, "write")
    /\ \/ /\ Exit(c, Outcome(c))
          /\ \E content \in WhatStays(ComparisonFile, Comparison) :
                files' = [files EXCEPT ![ComparisonFile] = content]
       \/ /\ Exit(c, "usage")
          /\ UNCHANGED files \/ files' = [files EXCEPT ![ComparisonFile] = Torn]
    /\ UNCHANGED <<setting, profile, selection, findings, written, loaded>>

Killed(p) ==
    /\ ~Ended(p)
    /\ Exit(p, "killed")
    /\ UNCHANGED <<setting, profile, selection, findings, written, files, loaded>>

RunNext(r) ==
    \/ Configure(r) \/ LoadOracle(r) \/ JudgeCase(r) \/ ReplyTooShort(r)
    \/ OpenReport(r) \/ WriteReport(r) \/ Conclude(r) \/ Raises(r)

CompareNext(c) == ReadReport(c) \/ Compare(c) \/ OpenComparison(c) \/ WriteComparison(c)

Next ==
    \/ \E r \in Runs : RunNext(r)
    \/ \E c \in Compares : CompareNext(c)
    \/ \E p \in Runs \cup Compares : Killed(p)

Spec == Init /\ [][Next]_vars

-----------------------------------------------------------------------------
(***************************************************************************)
(* Properties.                                                             *)
(***************************************************************************)

\* What the user asked for: the cases of the profile, or those the filters
\* leave, in the order of the suite.
Asked(s, c) ==
    LET p == IF s.cli = None THEN s.profile ELSE s.cli IN
    IF p = None THEN (s.include = None \/ CategoryOf[c] \in s.include) /\ CategoryOf[c] \notin s.exclude
    ELSE p = "smoke" => CategoryOf[c] = "known_good"

AskedCases(s) == AtPositions(Suite, {k \in DOMAIN Suite : Asked(s, Suite[k])})

JudgedCases(fs) == [k \in DOMAIN fs |-> fs[k].name]

\* Exit status 0 is earned: every case the user asked for was judged, and none
\* is unsafe.
PassIsEarned ==
    \A r \in Runs :
       status[r] = "ok" =>
          /\ JudgedCases(findings[r]) = AskedCases(setting[r])
          /\ \A k \in DOMAIN findings[r] : findings[r][k].verdict \notin UnsafeVerdict

\* No packet is sent under a profile the adapter cannot back, whichever way the
\* profile was chosen, nor under a profile and filters at once.
OnlySupportedProfilesRun ==
    \A r \in Runs :
       LET s == setting[r]
           p == IF s.cli = None THEN s.profile ELSE s.cli
       IN  findings[r] # <<>> /\ p # None =>
              /\ s.include = None /\ s.exclude = {}
              /\ s.contract # None
              /\ RequirementsFor(s.contract, p) = {}

\* A report that can be read is never one of part of a suite, whatever it took
\* the place of and whoever was killed while writing.
ReportsAreOfWholeSuites ==
    \A f \in File :
       /\ files[f].kind = "report" /\ files[f].run \in Runs =>
             JudgedCases(files[f].findings) = AskedCases(setting[files[f].run])
       /\ files[f].kind = "junit" =>
             files[f].tests = Len(AskedCases(setting[files[f].run]))

\* CI systems look at the exit status or at the JUnit report: of a run that ended
\* after its reports, both say the same.
JUnitAgreesWithExit ==
    \A f \in File :
       files[f].kind = "junit" =>
          LET r == files[f].run IN
          status[r] \in {"ok", "fail"} => (status[r] = "ok" <=> files[f].failed = {})

\* A run that passes without a single packet is one whose own filters leave no
\* category of the suite: no profile, and no oversight, comes down to nothing.
NoVacuousPass ==
    \A r \in Runs :
       LET s == setting[r] IN
       status[r] = "ok" /\ findings[r] = <<>> =>
          /\ s.cli = None /\ s.profile = None
          /\ (IF s.include = None THEN KnownCategories ELSE s.include) \subseteq s.exclude

\* Reports are touched only by a run that has judged all that was asked, and by a
\* comparison of two reports it could read, in the file of its details: a refused
\* run, a suite that breaks off and a refused comparison leave them as they were.
\* (A write that breaks off does take the earlier report with it.)
EarlierReportsKept ==
    [][\A f \in File :
          files'[f] # files[f] =>
             \/ \E r \in Runs : /\ pc[r] \in {"open", "write"}
                                /\ JudgedCases(findings[r]) = AskedCases(setting[r])
             \/ \E c \in Compares : /\ pc[c] \in {"open", "write"}
                                    /\ f = ComparisonFile
                                    /\ \A k \in 1 .. 2 : Complaint(loaded[c][k]) = "none"]_vars

\* Two lists of findings say the same of the same cases.
SameFindings(base, actual) ==
    {<<base[k].name, base[k].verdict>> : k \in DOMAIN base}
      = {<<actual[k].name, actual[k].verdict>> : k \in DOMAIN actual}

\* A comparison passes only if no case was added or removed or changed its
\* verdict.
ComparisonIsExact ==
    \A c \in Compares :
       status[c] = "ok" => SameFindings(loaded[c][1].findings, loaded[c][2].findings)

\* The chain a CI job relies on: a run that was compared with the report of a
\* run that passed has judged the same cases, and none is unsafe.
RegressionsAreCaught ==
    \A c \in Compares :
       LET base == loaded[c][1]
           actual == loaded[c][2]
       IN  status[c] = "ok" /\ base.run \in Runs /\ status[base.run] = "ok" =>
              /\ NamesOf(actual.findings) = NamesOf(base.findings)
              /\ \A k \in DOMAIN actual.findings :
                    actual.findings[k].verdict \notin UnsafeVerdict
=============================================================================
