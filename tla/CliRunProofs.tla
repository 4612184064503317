----------------------------- MODULE CliRunProofs -----------------------------
(***************************************************************************)
(* Theorems about the command line, for any number of runs and comparisons *)
(* that share files, every suite, every command line and configuration.    *)
(***************************************************************************)
EXTENDS CliRun, FiniteSetTheorems, SequenceTheorems, TLAPS

-----------------------------------------------------------------------------
(***************************************************************************)
(* Lists, whatever their elements are.                                     *)
(***************************************************************************)
IsList(list) == Len(list) \in Nat /\ list = [k \in 1 .. Len(list) |-> list[k]]

LEMMA AppendToList ==
    ASSUME NEW list, IsList(list), NEW e
    PROVE  /\ IsList(Append(list, e))
           /\ Len(Append(list, e)) = Len(list) + 1
           /\ \A k \in 1 .. Len(list) : Append(list, e)[k] = list[k]
           /\ Append(list, e)[Len(list) + 1] = e
<1> DEFINE S == {list[k] : k \in 1 .. Len(list)} \cup {e}
<1>1. [k \in 1 .. Len(list) |-> list[k]] \in Seq(S)
  BY DEF IsList
<1>2. list \in Seq(S)
  BY <1>1, Zenon DEF IsList
<1> HIDE DEF S
<1>3. e \in S
  BY DEF S
<1>4. Append(list, e) \in Seq(S) /\ Len(Append(list, e)) = Len(list) + 1
      /\ \A k \in 1 .. Len(list) : Append(list, e)[k] = list[k]
      /\ Append(list, e)[Len(list) + 1] = e
  BY <1>2, <1>3, AppendProperties
<1>5. ASSUME NEW a \in Seq(S) PROVE a = [k \in 1 .. Len(a) |-> a[k]]
  OBVIOUS
<1>6. Append(list, e) = [k \in 1 .. Len(Append(list, e)) |-> Append(list, e)[k]]
  BY <1>4, <1>5, Zenon
<1>7. Len(list) \in Nat /\ Len(Append(list, e)) \in Nat
  BY <1>4 DEF IsList
<1>8. IsList(Append(list, e))
  BY <1>6, <1>7, Zenon DEF IsList
<1> QED
  BY <1>4, <1>8

LEMMA EmptyIsList == IsList(<<>>)
  BY DEF IsList

-----------------------------------------------------------------------------
(***************************************************************************)
(* What was asked for is what is selected.                                 *)
(***************************************************************************)
Accepted(s) == ~ConfigRefused(s) /\ ~(s.cli # None /\ Filtered(s))

LEMMA SelectionIsAsked ==
    ASSUME NEW s, Accepted(s)
    PROVE  SelectCases(s, EffectiveProfile(s)) = AskedCases(s)
<1> DEFINE p == EffectiveProfile(s)
           included == IF p # None THEN CategoriesForProfile(p) ELSE s.include
           kept == {k \in DOMAIN Suite : /\ included = None \/ CategoryOf[Suite[k]] \in included
                                         /\ CategoryOf[Suite[k]] \notin s.exclude}
<1>1. p # None => s.include = None /\ s.exclude = {}
  BY DEF Accepted, ConfigRefused, Filtered, EffectiveProfile
<1>2. p = IF s.cli = None THEN s.profile ELSE s.cli
  BY DEF EffectiveProfile
<1>3. kept = {k \in DOMAIN Suite : Asked(s, Suite[k])}
  BY <1>1, <1>2, NoneIsNoCategories DEF Asked, CategoriesForProfile
<1> QED
  BY <1>3 DEF SelectCases, AskedCases

\* A suite is a sequence, and so is every selection from it.
LEMMA AskedIsList ==
    ASSUME NEW s
    PROVE  IsList(AskedCases(s))
<1> DEFINE kept == {k \in DOMAIN Suite : Asked(s, Suite[k])}
<1>1. Cardinality(kept) \in Nat
  <2>1. Suite \in Seq(CaseName) /\ DOMAIN Suite = 1 .. Len(Suite) /\ Len(Suite) \in Nat
    BY SuiteAssumption, LenProperties
  <2>2. IsFiniteSet(1 .. Len(Suite))
    BY <2>1, FS_Interval
  <2>3. IsFiniteSet(kept)
    BY <2>1, <2>2, FS_Subset
  <2> QED
    BY <2>3, FS_CardinalityType
<1> HIDE DEF kept
<1>2. ASSUME NEW n \in Nat, NEW f PROVE IsList([k \in 1 .. n |-> f[k]])
  BY <1>2 DEF IsList
<1> QED
  BY <1>1 DEF AskedCases, AtPositions, IsList, kept

-----------------------------------------------------------------------------
(***************************************************************************)
(* A run, step by step.                                                    *)
(***************************************************************************)
Judging == {"judge", "open", "write"}

Configured(r) == Accepted(setting[r]) /\ profile[r] = EffectiveProfile(setting[r])

\* A run that is past its configuration and its oracle's contract selects what
\* was asked for, and its findings are of the first of these cases.
Begun(r) ==
    /\ Configured(r)
    /\ ~ProfileRefused(setting[r].contract, profile[r])
    /\ selection[r] = AskedCases(setting[r])

FindingsInOrder(r) ==
    /\ IsList(findings[r])
    /\ Len(findings[r]) <= Len(selection[r])
    /\ \A k \in 1 .. Len(findings[r]) : findings[r][k].name = selection[r][k]

RunInv(r) ==
    /\ pc[r] \in {"config", "oracle"} \cup Judging
    /\ pc[r] \in {"config", "oracle"} => findings[r] = <<>> /\ status[r] # "ok"
    /\ pc[r] = "oracle" => Configured(r)
    /\ pc[r] \in Judging => Begun(r) /\ FindingsInOrder(r)
    /\ pc[r] = "judge" => status[r] # "ok"
    /\ pc[r] = "judge" /\ status[r] = "running" => Len(findings[r]) < Len(selection[r])
    /\ pc[r] \in {"open", "write"} => Len(findings[r]) = Len(selection[r])
    /\ status[r] = "ok" => ~Unsafe(findings[r]) /\ pc[r] = "open"

RunsTyped ==
    /\ DOMAIN pc = Runs \cup Compares /\ DOMAIN status = Runs \cup Compares
    /\ DOMAIN profile = Runs /\ DOMAIN selection = Runs /\ DOMAIN findings = Runs
    /\ DOMAIN written = Runs /\ DOMAIN files = File /\ DOMAIN loaded = Compares

RunsInv == RunsTyped /\ \A r \in Runs : RunInv(r)

LEMMA InitRuns == Init => RunsInv
  BY DEF Init, RunsInv, RunsTyped, RunInv, Judging

\* What a step of one run leaves of another, and of the comparisons.
OthersAlone(r) ==
    /\ setting' = setting
    /\ \A q \in Runs \ {r} :
          /\ pc'[q] = pc[q] /\ status'[q] = status[q] /\ profile'[q] = profile[q]
          /\ selection'[q] = selection[q] /\ findings'[q] = findings[q]

LEMMA RunInvKept ==
    ASSUME NEW q \in Runs, RunInv(q), setting' = setting,
           pc'[q] = pc[q], profile'[q] = profile[q],
           selection'[q] = selection[q], findings'[q] = findings[q],
           status'[q] # "ok" \/ status'[q] = status[q],
           status'[q] = "running" => status[q] = "running"
    PROVE  RunInv(q)'
  BY DEF RunInv, Begun, Configured, FindingsInOrder, Accepted, ConfigRefused, Unsafe

LEMMA ConfigureOK ==
    ASSUME RunsTyped, NEW r \in Runs, RunInv(r), Configure(r)
    PROVE  RunInv(r)'
<1>1. pc[r] = "config" /\ findings'[r] = <<>> /\ setting' = setting /\ status[r] = "running"
  BY DEF Configure, At, Ended, RunInv
<1>2. CASE status'[r] = "usage" /\ pc' = pc
  BY <1>1, <1>2 DEF RunInv, Judging
<1>3. CASE Accepted(setting[r]) /\ profile'[r] = EffectiveProfile(setting[r]) /\ pc'[r] = "oracle"
           /\ status' = status
  BY <1>1, <1>3 DEF RunInv, Judging, Configured
<1> QED
  BY <1>2, <1>3 DEF Configure, Exit, Goto, RunsTyped, Accepted

LEMMA LoadOracleOK ==
    ASSUME RunsTyped, NEW r \in Runs, RunInv(r), LoadOracle(r)
    PROVE  RunInv(r)'
<1>1. /\ pc[r] = "oracle" /\ findings'[r] = <<>> /\ setting' = setting /\ profile' = profile
      /\ status[r] = "running" /\ Configured(r)
      /\ selection'[r] = SelectCases(setting[r], profile[r])
  BY DEF LoadOracle, At, Ended, RunInv, RunsTyped
<1>2. CASE status'[r] = "usage" /\ pc' = pc
  BY <1>1, <1>2 DEF RunInv, Judging, Configured
<1>3. CASE ~ProfileRefused(setting[r].contract, profile[r]) /\ pc'[r] = AfterLoading(r)
           /\ status' = status
  <2>1. selection'[r] = AskedCases(setting[r])
    BY <1>1, SelectionIsAsked DEF Configured
  <2>2. IsList(selection'[r])
    BY <2>1, AskedIsList
  <2>3. Begun(r)'
    BY <1>1, <1>3, <2>1 DEF Begun, Configured
  <2>4. Len(<<>>) = 0 /\ IsList(<<>>)
    BY EmptyIsList
  <2>5. FindingsInOrder(r)'
    BY <1>1, <2>2, <2>4 DEF FindingsInOrder, IsList
  <2>6. CASE selection'[r] = <<>>
    <3>1. pc'[r] = "open"
      BY <1>3, <2>6 DEF AfterLoading
    <3> QED
      BY <1>1, <1>3, <2>3, <2>4, <2>5, <2>6, <3>1 DEF RunInv, Judging
  <2>7. CASE selection'[r] # <<>>
    <3>1. pc'[r] = "judge"
      BY <1>3, <2>7 DEF AfterLoading
    <3>2. Len(selection'[r]) > 0
      BY <2>2, <2>7 DEF IsList
    <3> QED
      BY <1>1, <1>3, <2>3, <2>4, <2>5, <3>1, <3>2 DEF RunInv, Judging
  <2> QED
    BY <2>6, <2>7
<1> QED
  BY <1>2, <1>3 DEF LoadOracle, Exit, Goto, RunsTyped

LEMMA JudgeCaseOK ==
    ASSUME RunsTyped, NEW r \in Runs, RunInv(r), JudgeCase(r)
    PROVE  RunInv(r)'
<1>1. PICK v \in Judgeable :
        findings'[r] = Append(findings[r], [name |-> selection[r][Len(findings[r]) + 1], verdict |-> v])
  BY DEF JudgeCase, RunsTyped
<1>2. /\ pc[r] = "judge" /\ status[r] = "running" /\ status'[r] = "running"
      /\ setting' = setting /\ profile' = profile /\ selection' = selection
      /\ pc'[r] = IF AllJudged(r) THEN "open" ELSE "judge"
  BY DEF JudgeCase, At, Ended, Goto, RunsTyped, RunInv
<1>3. /\ Begun(r) /\ FindingsInOrder(r) /\ Len(findings[r]) < Len(selection[r])
  BY <1>2 DEF RunInv, Judging
<1>4. /\ IsList(findings'[r]) /\ Len(findings'[r]) = Len(findings[r]) + 1
      /\ \A k \in 1 .. Len(findings[r]) : findings'[r][k] = findings[r][k]
      /\ findings'[r][Len(findings[r]) + 1].name = selection[r][Len(findings[r]) + 1]
  BY <1>1, <1>3, AppendToList DEF FindingsInOrder
<1>5. Len(findings[r]) \in Nat /\ Len(selection[r]) \in Nat
  BY <1>3, AskedIsList DEF FindingsInOrder, Begun, IsList
<1>6. FindingsInOrder(r)'
  <2>1. ASSUME NEW k \in 1 .. Len(findings'[r])
        PROVE  findings'[r][k].name = selection[r][k]
    <3>1. CASE k \in 1 .. Len(findings[r])
      BY <1>3, <1>4, <3>1 DEF FindingsInOrder
    <3>2. CASE k = Len(findings[r]) + 1
      BY <1>4, <3>2
    <3> QED
      BY <1>4, <1>5, <3>1, <3>2
  <2> QED
    BY <1>2, <1>3, <1>4, <1>5, <2>1 DEF FindingsInOrder
<1>7. Begun(r)'
  BY <1>2, <1>3 DEF Begun, Configured
<1>8. pc'[r] = "judge" => Len(findings'[r]) < Len(selection'[r])
  BY <1>2, <1>3, <1>4, <1>5 DEF AllJudged
<1>9. pc'[r] = "open" => Len(findings'[r]) = Len(selection'[r])
  BY <1>2 DEF AllJudged
<1> QED
  BY <1>2, <1>6, <1>7, <1>8, <1>9 DEF RunInv, Judging

LEMMA ConcludeOK ==
    ASSUME RunsTyped, NEW r \in Runs, RunInv(r), Conclude(r)
    PROVE  RunInv(r)'
<1>1. /\ pc[r] = "open" /\ pc' = pc /\ status'[r] = (IF Unsafe(findings[r]) THEN "fail" ELSE "ok")
      /\ UNCHANGED <<setting, profile, selection, findings>>
  BY DEF Conclude, At, Exit, RunsTyped
<1> QED
  BY <1>1 DEF RunInv, Begun, Configured, FindingsInOrder, Accepted, ConfigRefused, Unsafe, Judging

\* Steps that end a run otherwise, or write.
LEMMA OtherRunStepsOK ==
    ASSUME RunsTyped, NEW r \in Runs, RunInv(r),
           ReplyTooShort(r) \/ OpenReport(r) \/ WriteReport(r) \/ Raises(r)
    PROVE  RunInv(r)'
<1>1. CASE ReplyTooShort(r) \/ Raises(r)
  <2>1. /\ pc' = pc /\ status'[r] \in {"usage", "fail"}
        /\ UNCHANGED <<setting, profile, selection, findings>>
    BY <1>1 DEF ReplyTooShort, AfterValueError, Raises, Exit, RunsTyped
  <2> QED
    BY <2>1, RunInvKept
<1>2. CASE OpenReport(r) \/ WriteReport(r)
  <2>1. /\ pc[r] \in {"open", "write"} /\ pc'[r] \in {"open", "write"}
        /\ status' = status /\ status[r] = "running"
        /\ UNCHANGED <<setting, profile, selection, findings>>
    BY <1>2 DEF OpenReport, WriteReport, At, Ended, Goto, RunsTyped
  <2> QED
    BY <2>1 DEF RunInv, Begun, Configured, FindingsInOrder, Accepted, ConfigRefused, Unsafe, Judging
<1> QED
  BY <1>1, <1>2

LEMMA TypedKept == RunsTyped /\ [Next]_vars => RunsTyped'
  BY DEF RunsTyped, Next, RunNext, CompareNext, Configure, LoadOracle, JudgeCase, ReplyTooShort,
         AfterValueError, OpenReport, WriteReport, Conclude, Raises, ReadReport, Compare,
         OpenComparison, WriteComparison, Killed, Exit, Goto, vars

LEMMA StepRuns == RunsInv /\ [Next]_vars => RunsInv'
<1> SUFFICES ASSUME RunsInv, [Next]_vars PROVE RunsInv'
  OBVIOUS
<1>1. RunsTyped'
  BY TypedKept DEF RunsInv
<1>2. ASSUME NEW q \in Runs PROVE RunInv(q)'
  <2>1. RunInv(q) /\ RunsTyped /\ Runs \cap Compares = {}
    BY CliAssumption DEF RunsInv
  <2>2. ASSUME NEW r \in Runs, RunNext(r) PROVE RunInv(q)'
    <3>1. CASE r = q
      BY <2>1, <2>2, <3>1, ConfigureOK, LoadOracleOK, JudgeCaseOK, ConcludeOK, OtherRunStepsOK
         DEF RunNext
    <3>2. CASE r # q
      <4>1. /\ pc'[q] = pc[q] /\ status'[q] = status[q] /\ setting' = setting
            /\ profile'[q] = profile[q] /\ selection'[q] = selection[q]
            /\ findings'[q] = findings[q]
        BY <2>1, <2>2, <3>2
           DEF RunNext, Configure, LoadOracle, JudgeCase, ReplyTooShort, AfterValueError,
               OpenReport, WriteReport, Conclude, Raises, Exit, Goto, RunsTyped
      <4> QED
        BY <2>1, <4>1, RunInvKept
    <3> QED
      BY <3>1, <3>2
  <2>3. ASSUME NEW c \in Compares, CompareNext(c) PROVE RunInv(q)'
    <3>1. q # c
      BY <2>1
    <3>2. /\ pc'[q] = pc[q] /\ status'[q] = status[q]
          /\ UNCHANGED <<setting, profile, selection, findings>>
      BY <2>1, <2>3, <3>1 DEF CompareNext, ReadReport, Compare, OpenComparison,
               WriteComparison, Exit, Goto, RunsTyped
    <3> QED
      BY <2>1, <3>2, RunInvKept
  <2>4. ASSUME NEW p \in Runs \cup Compares, Killed(p) PROVE RunInv(q)'
    <3>1. /\ pc' = pc /\ status'[q] \in {"killed", status[q]}
          /\ UNCHANGED <<setting, profile, selection, findings>>
      BY <2>1, <2>4 DEF Killed, Exit, RunsTyped
    <3> QED
      BY <2>1, <3>1, RunInvKept
  <2>5. CASE UNCHANGED vars
    BY <2>1, <2>5, RunInvKept DEF vars
  <2> QED
    BY <2>2, <2>3, <2>4, <2>5 DEF Next
<1> QED
  BY <1>1, <1>2 DEF RunsInv

LEMMA RunsInvariant == Spec => []RunsInv
  BY InitRuns, StepRuns, PTL DEF Spec

\* The findings of a run whose cases are all judged are of the cases asked for.
LEMMA WholeSuite ==
    ASSUME RunsInv, NEW r \in Runs, pc[r] \in {"open", "write"}
    PROVE  JudgedCases(findings[r]) = AskedCases(setting[r])
<1>1. /\ selection[r] = AskedCases(setting[r]) /\ FindingsInOrder(r)
      /\ Len(findings[r]) = Len(selection[r])
  BY DEF RunsInv, RunInv, Judging, Begun
<1>2. IsList(selection[r]) /\ IsList(findings[r])
  BY <1>1, AskedIsList DEF FindingsInOrder
<1>3. DOMAIN findings[r] = 1 .. Len(findings[r])
  BY <1>2 DEF IsList
<1>4. JudgedCases(findings[r]) = [k \in 1 .. Len(selection[r]) |-> selection[r][k]]
  BY <1>1, <1>3 DEF JudgedCases, FindingsInOrder
<1> QED
  BY <1>1, <1>2, <1>4 DEF IsList

\* Runner.run and cli.run: exit status 0 is earned.  Every case that was asked
\* for was judged, none of them unsafe, however many runs there are and whenever
\* they are killed or fail.
THEOREM PassesAreEarned == Spec => []PassIsEarned
<1>1. RunsInv => PassIsEarned
  <2> SUFFICES ASSUME RunsInv, NEW r \in Runs, status[r] = "ok"
               PROVE  /\ JudgedCases(findings[r]) = AskedCases(setting[r])
                      /\ \A k \in DOMAIN findings[r] : findings[r][k].verdict \notin UnsafeVerdict
    BY DEF PassIsEarned
  <2>1. pc[r] = "open" /\ ~Unsafe(findings[r])
    BY DEF RunsInv, RunInv
  <2> QED
    BY <2>1, WholeSuite DEF Unsafe
<1> QED
  BY <1>1, RunsInvariant, PTL

\* _load_oracle: whichever way a profile was chosen, nothing is sent under one the
\* adapter cannot back.
THEOREM OnlySupportedRun == Spec => []OnlySupportedProfilesRun
<1>1. RunsInv => OnlySupportedProfilesRun
  <2> SUFFICES ASSUME RunsInv, NEW r \in Runs, findings[r] # <<>>,
                      NEW p, p = IF setting[r].cli = None THEN setting[r].profile ELSE setting[r].cli,
                      p # None
               PROVE  /\ setting[r].include = None /\ setting[r].exclude = {}
                      /\ setting[r].contract # None
                      /\ RequirementsFor(setting[r].contract, p) = {}
    BY Zenon DEF OnlySupportedProfilesRun
  <2>1. Begun(r)
    BY DEF RunsInv, RunInv
  <2>2. p = profile[r] /\ Accepted(setting[r])
    BY <2>1 DEF Begun, Configured, EffectiveProfile
  <2>3. ~ProfileRefused(setting[r].contract, p)
    BY <2>1, <2>2 DEF Begun
  <2> QED
    BY <2>2, <2>3 DEF Accepted, ConfigRefused, Filtered, ProfileRefused
<1> QED
  BY <1>1, RunsInvariant, PTL

LEMMA NothingAsked ==
    ASSUME NEW s, AskedCases(s) = <<>>
    PROVE  \A c \in CaseName : ~Asked(s, c)
<1> DEFINE kept == {k \in DOMAIN Suite : Asked(s, Suite[k])}
<1>1. IsFiniteSet(kept)
  <2>1. Suite \in Seq(CaseName) /\ DOMAIN Suite = 1 .. Len(Suite) /\ Len(Suite) \in Nat
    BY SuiteAssumption, LenProperties
  <2>2. IsFiniteSet(1 .. Len(Suite))
    BY <2>1, FS_Interval
  <2> QED
    BY <2>1, <2>2, FS_Subset
<1>2. Cardinality(kept) \in Nat /\ (Cardinality(kept) = 0 <=> kept = {})
  BY <1>1, FS_CardinalityType, FS_EmptySet
<1>3. AskedCases(s) = AtPositions(Suite, kept)
  BY DEF AskedCases
<1> HIDE DEF kept
<1>4. Len(AtPositions(Suite, kept)) = Cardinality(kept)
  BY <1>2 DEF AtPositions
<1>5. kept = {}
  BY <1>2, <1>3, <1>4
<1> QED
  BY <1>5 DEF kept, CaseName

\* Runner.select_cases: of a suite with a known-good case, only filters that
\* exclude every category they include leave a run without a packet that passes.
THEOREM PassesAreNotVacuous ==
    ASSUME \E c \in CaseName : CategoryOf[c] = "known_good"
    PROVE  Spec => []NoVacuousPass
<1>1. RunsInv => NoVacuousPass
  <2> SUFFICES ASSUME RunsInv, NEW r \in Runs, status[r] = "ok", findings[r] = <<>>,
                      NEW s, s = setting[r]
               PROVE  /\ s.cli = None /\ s.profile = None
                      /\ (IF s.include = None THEN KnownCategories ELSE s.include) \subseteq s.exclude
    BY DEF NoVacuousPass
  <2>1. pc[r] = "open" /\ Accepted(s)
    BY DEF RunsInv, RunInv, Judging, Begun, Configured
  <2>2. AskedCases(s) = <<>>
    <3>1. JudgedCases(<<>>) = <<>>
      BY DEF JudgedCases
    <3> QED
      BY <2>1, <3>1, WholeSuite
  <2>3. \A c \in CaseName : ~Asked(s, c)
    BY <2>2, NothingAsked
  <2>4. s.cli = None /\ s.profile = None
    BY <2>3 DEF Asked
  <2>5. \A c \in CaseName : (s.include = None \/ CategoryOf[c] \in s.include) => CategoryOf[c] \in s.exclude
    BY <2>3, <2>4 DEF Asked
  <2>6. s.include # None => s.include \subseteq KnownCategories
    BY <2>1 DEF Accepted, ConfigRefused, UnknownCategory
  <2> QED
    BY <2>4, <2>5, <2>6 DEF KnownCategories
<1> QED
  BY <1>1, RunsInvariant, PTL

-----------------------------------------------------------------------------
(***************************************************************************)
(* The reports.  A run that writes has its findings together, and whatever *)
(* becomes of it they stay what they are.                                  *)
(***************************************************************************)
Writing == {"open", "write"}

LEMMA FindingsStay ==
    ASSUME RunsInv, [Next]_vars, NEW q \in Runs, pc[q] \in Writing
    PROVE  pc'[q] \in Writing /\ findings'[q] = findings[q] /\ setting' = setting
<1>1. RunsTyped /\ Runs \cap Compares = {}
  BY CliAssumption DEF RunsInv
<1> QED
  BY <1>1 DEF RunsTyped, Next, RunNext, CompareNext, Configure, LoadOracle, JudgeCase, ReplyTooShort,
         AfterValueError, OpenReport, WriteReport, Conclude, Raises, ReadReport, Compare,
         OpenComparison, WriteComparison, Killed, Exit, Goto, At, vars, Writing

\* The steps that change a file, and what they leave in it.
LEMMA FileChanges ==
    ASSUME RunsInv, [Next]_vars, NEW f \in File, files'[f] # files[f]
    PROVE  \/ \E r \in Runs :
                 /\ pc[r] \in Writing
                 /\ \/ files'[f] = Torn
                    \/ WriteReport(r) /\ files'[f] = ReportWritten(r)
           \/ \E c \in Compares :
                 /\ pc[c] \in Writing
                 /\ f = ComparisonFile /\ files'[f] \in {Torn, Comparison}
<1>1. RunsTyped
  BY DEF RunsInv
<1>2. \/ \E r \in Runs : OpenReport(r) \/ WriteReport(r) \/ Raises(r)
      \/ \E c \in Compares : OpenComparison(c) \/ WriteComparison(c)
  BY DEF Next, RunNext, CompareNext, Configure, LoadOracle, JudgeCase, ReplyTooShort,
         Conclude, ReadReport, Compare, Killed, vars
<1>3. ASSUME NEW r \in Runs, OpenReport(r)
      PROVE  pc[r] \in Writing /\ files'[f] = Torn
  BY <1>1, <1>3 DEF OpenReport, At, Writing, RunsTyped
<1>4. ASSUME NEW r \in Runs, WriteReport(r)
      PROVE  pc[r] \in Writing /\ (files'[f] = Torn \/ files'[f] = ReportWritten(r))
  <2>1. PICK content \in WhatStays(NextReport(r), ReportWritten(r)) :
           files' = [files EXCEPT ![NextReport(r)] = content]
    BY <1>4 DEF WriteReport
  <2>2. content = ReportWritten(r) \/ content = Torn
    BY <2>1 DEF WhatStays
  <2>3. files'[f] = content
    BY <1>1, <2>1 DEF RunsTyped
  <2> QED
    BY <1>4, <2>2, <2>3 DEF WriteReport, At, Writing
<1>5. ASSUME NEW r \in Runs, Raises(r)
      PROVE  pc[r] \in Writing /\ files'[f] = Torn
  BY <1>1, <1>5 DEF Raises, At, Writing, RunsTyped
<1>6. ASSUME NEW c \in Compares, OpenComparison(c)
      PROVE  pc[c] \in Writing /\ f = ComparisonFile /\ files'[f] = Torn
  BY <1>1, <1>6 DEF OpenComparison, At, Writing, RunsTyped
<1>7. ASSUME NEW c \in Compares, WriteComparison(c)
      PROVE  pc[c] \in Writing /\ f = ComparisonFile /\ files'[f] \in {Torn, Comparison}
  <2>1. PICK content \in {Torn, Comparison} : files' = [files EXCEPT ![ComparisonFile] = content]
    BY <1>7 DEF WriteComparison, WhatStays
  <2>2. f = ComparisonFile /\ files'[f] = content
    BY <1>1, <2>1 DEF RunsTyped
  <2> QED
    BY <1>7, <2>2 DEF WriteComparison, At, Writing
<1> QED
  BY <1>2, <1>3, <1>4, <1>5, <1>6, <1>7

\* A report has the findings of its run, which has come to writing reports.
OfItsRun(f) ==
    /\ files[f].kind = "report" /\ files[f].run \in Runs =>
          /\ pc[files[f].run] \in Writing
          /\ files[f].findings = findings[files[f].run]
    /\ files[f].kind = "junit" =>
          /\ files[f].run \in Runs
          /\ pc[files[f].run] \in Writing
          /\ files[f].tests = Len(findings[files[f].run])
          /\ files[f].failed = FailedCases(findings[files[f].run])

FilesInv == \A f \in File : OfItsRun(f)

LEMMA InitFiles == Init => FilesInv
<1> SUFFICES ASSUME Init, NEW f \in File PROVE OfItsRun(f)
  BY DEF FilesInv
<1>1. PICK content \in Archived :
         files = [g \in File |-> IF g = Compared[1] THEN content ELSE Absent]
  BY DEF Init
<1>2. files[f] = content \/ files[f].kind = "absent"
  BY <1>1 DEF Absent
<1> QED
  BY <1>2, ArchiveAssumption DEF OfItsRun

LEMMA StepFiles == RunsInv /\ FilesInv /\ [Next]_vars => FilesInv'
<1> SUFFICES ASSUME RunsInv, FilesInv, [Next]_vars, NEW f \in File PROVE OfItsRun(f)'
  BY DEF FilesInv
<1>1. CASE files'[f] = files[f]
  BY <1>1, FindingsStay DEF FilesInv, OfItsRun
<1>2. CASE files'[f] # files[f]
  <2>1. CASE files'[f] \in {Torn, Comparison}
    BY <2>1 DEF OfItsRun, Torn, Comparison
  <2>2. ASSUME NEW r \in Runs, pc[r] \in Writing, files'[f] = ReportWritten(r)
        PROVE  OfItsRun(f)'
    <3>1. pc'[r] \in Writing /\ findings'[r] = findings[r]
      BY <2>2, FindingsStay
    <3>2. CASE files'[f] = Report(r)
      BY <3>1, <3>2 DEF OfItsRun, Report
    <3>3. CASE files'[f] = JUnit(r)
      BY <3>1, <3>3 DEF OfItsRun, JUnit, FailedCases
    <3> QED
      BY <2>2, <3>2, <3>3 DEF ReportWritten
  <2> QED
    BY <1>2, <2>1, <2>2, FileChanges
<1> QED
  BY <1>1, <1>2

LEMMA FilesInvariant == Spec => [](RunsInv /\ FilesInv)
  BY RunsInvariant, InitFiles, StepFiles, PTL DEF Spec

\* write_json_report and write_junit_report: a report that can be read is of all
\* the cases its run was asked for.
THEOREM ReportsAreWhole == Spec => []ReportsAreOfWholeSuites
<1>1. RunsInv /\ FilesInv => ReportsAreOfWholeSuites
  <2> SUFFICES ASSUME RunsInv, FilesInv, NEW f \in File
               PROVE  /\ files[f].kind = "report" /\ files[f].run \in Runs =>
                            JudgedCases(files[f].findings) = AskedCases(setting[files[f].run])
                      /\ files[f].kind = "junit" =>
                            files[f].tests = Len(AskedCases(setting[files[f].run]))
    BY DEF ReportsAreOfWholeSuites
  <2>1. OfItsRun(f)
    BY DEF FilesInv
  <2>2. ASSUME files[f].kind = "report", files[f].run \in Runs
        PROVE  JudgedCases(files[f].findings) = AskedCases(setting[files[f].run])
    BY <2>1, <2>2, WholeSuite DEF OfItsRun, Writing
  <2>3. ASSUME files[f].kind = "junit"
        PROVE  files[f].tests = Len(AskedCases(setting[files[f].run]))
    <3> DEFINE r == files[f].run
    <3>1. r \in Runs /\ pc[r] \in Writing /\ files[f].tests = Len(findings[r])
      BY <2>1, <2>3 DEF OfItsRun
    <3>2. Len(findings[r]) = Len(selection[r]) /\ selection[r] = AskedCases(setting[r])
      BY <3>1 DEF RunsInv, RunInv, Writing, Judging, Begun
    <3> QED
      BY <3>1, <3>2
  <2> QED
    BY <2>2, <2>3
<1> QED
  BY <1>1, FilesInvariant, PTL

-----------------------------------------------------------------------------
(***************************************************************************)
(* The JUnit report comes last: after it, a run that ends of itself ends   *)
(* with the exit status its findings call for.                             *)
(***************************************************************************)
LEMMA AtMostTwoReports ==
    ASSUME NEW s
    PROVE  /\ Len(Reports(s)) \in 0 .. 2
           /\ s.json = None => Len(Reports(s)) <= 1
<1>1. ASSUME NEW f
      PROVE  /\ ReportTo(f) \in Seq({f}) /\ Len(ReportTo(f)) <= 1 /\ Len(ReportTo(f)) \in Nat
             /\ f = None => Len(ReportTo(f)) = 0
  <2>1. CASE f = None
    <3>1. ReportTo(f) = <<>>
      BY <2>1 DEF ReportTo
    <3> QED
      BY <3>1
  <2>2. CASE f # None
    <3>1. ReportTo(f) = <<f>>
      BY <2>2 DEF ReportTo
    <3> QED
      BY <2>2, <3>1
  <2> QED
    BY <2>1, <2>2
<1> DEFINE first == ReportTo(s.json)
           second == ReportTo(s.junit)
           Files == {s.json, s.junit}
<1>2. first \in Seq(Files) /\ second \in Seq(Files)
  <2>1. first \in Seq({s.json}) /\ second \in Seq({s.junit})
    BY <1>1, Zenon
  <2> QED
    BY <2>1
<1>3. Len(first) <= 1 /\ Len(first) \in Nat /\ Len(second) <= 1 /\ Len(second) \in Nat
      /\ (s.json = None => Len(first) = 0)
  BY <1>1, Zenon
<1>4. Reports(s) = first \o second
  BY DEF Reports
<1> HIDE DEF first, second, Files
<1>5. Len(first \o second) = Len(first) + Len(second)
  BY <1>2, ConcatProperties
<1> QED
  BY <1>3, <1>4, <1>5

\* A run counts the reports it has written, and opens none beyond those asked for.
WritesWhatIsAsked(r) ==
    /\ written[r] \in Nat
    /\ pc[r] = "write" => ReportsLeft(r)

Concluded(r) ==
    /\ pc[r] = "open" /\ ~ReportsLeft(r)
    /\ status[r] = "fail" => Unsafe(findings[r])

JUnitInv ==
    /\ \A r \in Runs : WritesWhatIsAsked(r)
    /\ \A f \in File : files[f].kind = "junit" => Concluded(files[f].run)

LEMMA InitJUnit == Init => JUnitInv
<1> SUFFICES ASSUME Init PROVE JUnitInv
  OBVIOUS
<1>1. PICK content \in Archived :
         files = [g \in File |-> IF g = Compared[1] THEN content ELSE Absent]
  BY DEF Init
<1>2. ASSUME NEW f \in File PROVE files[f].kind # "junit"
  BY <1>1, ArchiveAssumption DEF Absent
<1>3. ASSUME NEW r \in Runs PROVE WritesWhatIsAsked(r)
  BY DEF WritesWhatIsAsked, Init
<1> QED
  BY <1>2, <1>3 DEF JUnitInv

LEMMA WrittenCounted ==
    ASSUME RunsInv, [Next]_vars, NEW r \in Runs, WritesWhatIsAsked(r)
    PROVE  WritesWhatIsAsked(r)'
<1>1. RunsTyped /\ Runs \cap Compares = {}
  BY CliAssumption DEF RunsInv
<1>2. setting' = setting /\ written'[r] \in {written[r], written[r] + 1}
  BY <1>1 DEF RunsTyped, Next, RunNext, CompareNext, Configure, LoadOracle, JudgeCase, ReplyTooShort,
         OpenReport, WriteReport, Conclude, Raises, ReadReport, Compare,
         OpenComparison, WriteComparison, Killed, vars
<1>3. ASSUME pc'[r] = "write" PROVE ReportsLeft(r) /\ written'[r] = written[r]
  BY <1>1, <1>3 DEF RunsTyped, Next, RunNext, CompareNext, Configure, LoadOracle, AfterLoading,
         JudgeCase, ReplyTooShort, AfterValueError, OpenReport, WriteReport, Conclude, Raises,
         ReadReport, Compare, OpenComparison, WriteComparison, Killed, Exit, Goto, vars,
         WritesWhatIsAsked
<1> QED
  BY <1>2, <1>3 DEF WritesWhatIsAsked, ReportsLeft

\* A run that has concluded may still end, by what its findings say or by a kill.
LEMMA ConcludedStays ==
    ASSUME RunsInv, [Next]_vars, NEW r \in Runs, Concluded(r)
    PROVE  Concluded(r)'
<1>1. RunsTyped /\ Runs \cap Compares = {}
  BY CliAssumption DEF RunsInv
<1>2. findings'[r] = findings[r] /\ setting' = setting
  BY FindingsStay DEF Concluded, Writing
<1>3. pc'[r] = "open" /\ written'[r] = written[r]
  BY <1>1 DEF Concluded, RunsTyped, Next, RunNext, CompareNext, Configure, LoadOracle, JudgeCase,
         ReplyTooShort, AfterValueError, OpenReport, WriteReport, Conclude, Raises, ReadReport,
         Compare, OpenComparison, WriteComparison, Killed, Exit, Goto, At, vars
<1>4. status'[r] = "fail" => Unsafe(findings[r])
  BY <1>1 DEF Concluded, RunsTyped, Next, RunNext, CompareNext, Configure, LoadOracle, JudgeCase,
         ReplyTooShort, AfterValueError, OpenReport, WriteReport, Conclude, Raises, ReadReport,
         Compare, OpenComparison, WriteComparison, Killed, Exit, Goto, At, vars
<1> QED
  BY <1>2, <1>3, <1>4 DEF Concluded, ReportsLeft, Unsafe

LEMMA JUnitIsLast ==
    ASSUME RunsInv, NEW r \in Runs, WritesWhatIsAsked(r), WriteReport(r),
           ReportWritten(r).kind = "junit"
    PROVE  Concluded(r)'
<1>1. RunsTyped
  BY DEF RunsInv
<1>2. /\ pc'[r] = "open" /\ status'[r] = "running" /\ written'[r] = written[r] + 1
      /\ setting' = setting
  BY <1>1 DEF WriteReport, At, Ended, Goto, RunsTyped
<1>3. written[r] # 0 \/ setting[r].json = None
  BY DEF ReportWritten, Report
<1>4. ~ReportsLeft(r)'
  <2>1. Len(Reports(setting[r])) \in 0 .. 2
        /\ (setting[r].json = None => Len(Reports(setting[r])) <= 1)
    BY AtMostTwoReports
  <2>2. written'[r] >= Len(Reports(setting[r])) /\ written'[r] \in Nat
    <3> DEFINE n == Len(Reports(setting[r]))
               w == written[r]
    <3>1. w \in Nat /\ n \in 0 .. 2 /\ (w # 0 \/ n <= 1) /\ written'[r] = w + 1
      BY <1>2, <1>3, <2>1, Zenon DEF WritesWhatIsAsked
    <3> HIDE DEF n, w
    <3>2. w + 1 >= n /\ w + 1 \in Nat
      BY <3>1
    <3> QED
      BY <3>1, <3>2 DEF n
  <2> QED
    BY <1>2, <2>1, <2>2 DEF ReportsLeft
<1> QED
  BY <1>2, <1>4 DEF Concluded

LEMMA StepJUnit == RunsInv /\ FilesInv /\ JUnitInv /\ [Next]_vars => JUnitInv'
<1> SUFFICES ASSUME RunsInv, FilesInv, JUnitInv, [Next]_vars PROVE JUnitInv'
  OBVIOUS
<1>1. ASSUME NEW r \in Runs PROVE WritesWhatIsAsked(r)'
  BY WrittenCounted DEF JUnitInv
<1>2. ASSUME NEW f \in File, files'[f].kind = "junit" PROVE Concluded(files[f].run)'
  <2>1. CASE files'[f] = files[f]
    <3>1. files[f].run \in Runs /\ Concluded(files[f].run)
      BY <1>2, <2>1 DEF JUnitInv, FilesInv, OfItsRun
    <3> QED
      BY <2>1, <3>1, ConcludedStays
  <2>2. CASE files'[f] # files[f]
    <3>1. files'[f] \notin {Torn, Comparison}
      BY <1>2 DEF Torn, Comparison
    <3>2. PICK r \in Runs : WriteReport(r) /\ files'[f] = ReportWritten(r)
      BY <2>2, <3>1, FileChanges
    <3>3. files'[f].run = r
      BY <1>2, <3>2 DEF ReportWritten, Report, JUnit
    <3>4. Concluded(r)'
      BY <1>2, <3>2, JUnitIsLast DEF JUnitInv
    <3> QED
      BY <3>3, <3>4
  <2> QED
    BY <2>1, <2>2
<1> QED
  BY <1>1, <1>2 DEF JUnitInv

LEMMA JUnitInvariant == Spec => [](RunsInv /\ FilesInv /\ JUnitInv)
  BY FilesInvariant, InitJUnit, StepJUnit, PTL DEF Spec

\* run's exit status and write_junit_report: who looks at the one and who looks at
\* the other come to the same conclusion.
THEOREM JUnitAndExitAgree == Spec => []JUnitAgreesWithExit
<1>1. RunsInv /\ FilesInv /\ JUnitInv => JUnitAgreesWithExit
  <2> SUFFICES ASSUME RunsInv, FilesInv, JUnitInv, NEW f \in File, files[f].kind = "junit",
                      NEW r, r = files[f].run, status[r] \in {"ok", "fail"}
               PROVE  status[r] = "ok" <=> files[f].failed = {}
    BY DEF JUnitAgreesWithExit
  <2>1. r \in Runs /\ Concluded(r) /\ files[f].failed = FailedCases(findings[r])
    BY DEF FilesInv, OfItsRun, JUnitInv
  <2>2. Unsafe(findings[r]) <=> files[f].failed # {}
    BY <2>1 DEF Unsafe, FailedCases
  <2>3. status[r] = "ok" => ~Unsafe(findings[r])
    BY <2>1 DEF RunsInv, RunInv
  <2> QED
    BY <2>1, <2>2, <2>3 DEF Concluded
<1> QED
  BY <1>1, JUnitInvariant, PTL

-----------------------------------------------------------------------------
(***************************************************************************)
(* The comparison.  Without duplicates a verdict is that of the one        *)
(* finding of the name, so that nothing to report means nothing different. *)
(***************************************************************************)
LEMMA OneVerdict ==
    ASSUME NEW fs, ~HasDuplicate(fs), NEW k \in DOMAIN fs
    PROVE  VerdictOf(fs, fs[k].name) = fs[k].verdict
<1> DEFINE j == CHOOSE j \in DOMAIN fs : fs[j].name = fs[k].name
<1>1. j \in DOMAIN fs /\ fs[j].name = fs[k].name
  OBVIOUS
<1> HIDE DEF j
<1>2. j = k
  BY <1>1 DEF HasDuplicate
<1> QED
  BY <1>2 DEF VerdictOf, j

LEMMA NothingDiffers ==
    ASSUME NEW base, NEW actual, ~HasDuplicate(base), ~HasDuplicate(actual),
           CompareReports(base, actual) = {}
    PROVE  SameFindings(base, actual)
<1>1. /\ Missing(base, actual) = {} /\ New(base, actual) = {} /\ Changed(base, actual) = {}
  BY Zenon DEF CompareReports
<1>2. NamesOf(base) = NamesOf(actual)
  BY <1>1 DEF Missing, New
<1>3. ASSUME NEW n \in NamesOf(base) PROVE VerdictOf(base, n) = VerdictOf(actual, n)
  BY <1>1, <1>2 DEF Changed
<1>4. ASSUME NEW k \in DOMAIN base
      PROVE  \E j \in DOMAIN actual : actual[j].name = base[k].name /\ actual[j].verdict = base[k].verdict
  <2>1. base[k].name \in NamesOf(base)
    BY DEF NamesOf
  <2>2. PICK j \in DOMAIN actual : actual[j].name = base[k].name
    BY <1>2, <2>1 DEF NamesOf
  <2>3. VerdictOf(base, base[k].name) = base[k].verdict /\ VerdictOf(actual, actual[j].name) = actual[j].verdict
    BY OneVerdict
  <2> QED
    BY <1>3, <2>1, <2>2, <2>3
<1>5. ASSUME NEW j \in DOMAIN actual
      PROVE  \E k \in DOMAIN base : actual[j].name = base[k].name /\ actual[j].verdict = base[k].verdict
  <2>1. actual[j].name \in NamesOf(base)
    BY <1>2 DEF NamesOf
  <2>2. PICK k \in DOMAIN base : base[k].name = actual[j].name
    BY <2>1 DEF NamesOf
  <2>3. VerdictOf(base, base[k].name) = base[k].verdict /\ VerdictOf(actual, actual[j].name) = actual[j].verdict
    BY OneVerdict
  <2> QED
    BY <1>3, <2>1, <2>2, <2>3
<1> QED
  BY <1>4, <1>5 DEF SameFindings

Loadable == {"report", "not_object", "bad_schema"}

\* What a comparison has loaded is what was in the files, and is of runs whose
\* findings no longer change.
LoadedOK(c) ==
    /\ IsList(loaded[c])
    /\ \A k \in 1 .. Len(loaded[c]) :
          LET content == loaded[c][k] IN
          /\ content.kind \in Loadable
          /\ content.kind = "report" /\ content.run \in Runs =>
                pc[content.run] \in Writing /\ content.findings = findings[content.run]

BothReports(c) == Complaint(loaded[c][1]) = "none" /\ Complaint(loaded[c][2]) = "none"

CompareInv(c) ==
    /\ LoadedOK(c)
    /\ pc[c] \in {"read", "compare"} \cup Writing
    /\ pc[c] = "read" => Len(loaded[c]) \in {0, 1}
    /\ pc[c] # "read" => Len(loaded[c]) = 2
    /\ pc[c] \in Writing => BothReports(c)
    /\ status[c] = "ok" =>
          /\ pc[c] # "read" /\ BothReports(c)
          /\ CompareReports(loaded[c][1].findings, loaded[c][2].findings) = {}

ComparesInv ==
    /\ \A f \in File : files[f].kind \in Loadable \cup {"absent", "torn", "junit"}
    /\ \A c \in Compares : CompareInv(c)

LEMMA ComparedAreFiles == Compared[1] \in File /\ Compared[2] \in File
  BY CliAssumption

LEMMA InitCompares == Init => ComparesInv
<1> SUFFICES ASSUME Init PROVE ComparesInv
  OBVIOUS
<1>1. PICK content \in Archived :
         files = [g \in File |-> IF g = Compared[1] THEN content ELSE Absent]
  BY DEF Init
<1>2. ASSUME NEW f \in File PROVE files[f].kind \in Loadable \cup {"absent", "torn", "junit"}
  BY <1>1, ArchiveAssumption DEF Absent, Loadable
<1>3. ASSUME NEW c \in Compares PROVE CompareInv(c)
  <2>1. pc[c] = "read" /\ status[c] = "running" /\ loaded[c] = <<>>
    BY CliAssumption DEF Init
  <2> QED
    BY <2>1, EmptyIsList DEF CompareInv, LoadedOK, Writing
<1> QED
  BY <1>2, <1>3 DEF ComparesInv

LEMMA LoadedStays ==
    ASSUME RunsInv, [Next]_vars, NEW c \in Compares, LoadedOK(c), loaded'[c] = loaded[c]
    PROVE  LoadedOK(c)'
<1> SUFFICES ASSUME NEW k \in 1 .. Len(loaded[c])
             PROVE  /\ loaded[c][k].kind \in Loadable
                    /\ loaded[c][k].kind = "report" /\ loaded[c][k].run \in Runs =>
                          /\ pc'[loaded[c][k].run] \in Writing
                          /\ loaded[c][k].findings = findings'[loaded[c][k].run]
  BY DEF LoadedOK
<1> QED
  BY FindingsStay DEF LoadedOK

LEMMA ReadReportOK ==
    ASSUME RunsInv, FilesInv, ComparesInv, [Next]_vars, NEW c \in Compares, ReadReport(c)
    PROVE  CompareInv(c)'
<1> DEFINE n == Len(loaded[c])
           content == files[Compared[n + 1]]
<1>1. /\ RunsTyped /\ CompareInv(c) /\ LoadedOK(c) /\ IsList(loaded[c])
      /\ pc[c] = "read" /\ status[c] = "running" /\ n \in {0, 1}
  BY DEF RunsInv, ComparesInv, CompareInv, LoadedOK, ReadReport, At, Ended
<1>2. CASE loaded' = loaded /\ status'[c] = "usage" /\ pc' = pc
  <2>1. LoadedOK(c)'
    BY <1>1, <1>2, LoadedStays
  <2> QED
    BY <1>1, <1>2, <2>1 DEF CompareInv, Writing
<1>3. CASE /\ content.kind \notin {"absent", "torn", "junit"}
           /\ loaded'[c] = Append(loaded[c], content) /\ status' = status
           /\ pc'[c] = IF n = 1 THEN "compare" ELSE "read"
           /\ UNCHANGED findings
  <2>1. Compared[n + 1] \in File
    <3>1. ASSUME NEW m \in {0, 1} PROVE Compared[m + 1] \in File
      BY ComparedAreFiles
    <3> QED
      BY <1>1, <3>1, Zenon
  <2>2. content.kind \in Loadable /\ OfItsRun(Compared[n + 1])
    BY <1>3, <2>1 DEF ComparesInv, FilesInv
  <2>3. /\ IsList(loaded'[c]) /\ Len(loaded'[c]) = n + 1
        /\ \A k \in 1 .. n : loaded'[c][k] = loaded[c][k]
        /\ loaded'[c][n + 1] = content
    BY <1>1, <1>3, AppendToList
  <2>4. ASSUME NEW k \in 1 .. Len(loaded'[c])
        PROVE  LET it == loaded'[c][k] IN
               /\ it.kind \in Loadable
               /\ it.kind = "report" /\ it.run \in Runs =>
                     pc'[it.run] \in Writing /\ it.findings = findings'[it.run]
    <3>1. CASE k \in 1 .. n
      BY <1>1, <2>3, <3>1, FindingsStay DEF LoadedOK
    <3>2. CASE k = n + 1
      BY <2>2, <2>3, <3>2, FindingsStay DEF OfItsRun
    <3> QED
      BY <1>1, <2>3, <3>1, <3>2
  <2>5. LoadedOK(c)'
    BY <2>3, <2>4 DEF LoadedOK
  <2> HIDE DEF n
  <2> QED
    BY <1>1, <1>3, <2>3, <2>5 DEF CompareInv, Writing
<1> QED
  BY <1>1, <1>2, <1>3 DEF ReadReport, Exit, Goto, RunsTyped

LEMMA CompareOK ==
    ASSUME RunsInv, ComparesInv, [Next]_vars, NEW c \in Compares,
           Compare(c) \/ OpenComparison(c) \/ WriteComparison(c)
    PROVE  CompareInv(c)'
<1>1. /\ RunsTyped /\ CompareInv(c) /\ LoadedOK(c) /\ loaded' = loaded
      /\ pc[c] # "read" /\ Len(loaded[c]) = 2
  BY DEF RunsInv, ComparesInv, CompareInv, Compare, OpenComparison, WriteComparison, At
<1>2. LoadedOK(c)'
  BY <1>1, LoadedStays
<1>3. CASE Compare(c)
  <2>1. /\ pc'[c] \in {"compare", "open"} /\ (pc'[c] = "open" \/ status'[c] = "ok" => BothReports(c))
        /\ status'[c] \in {"running", "usage", "fail", Outcome(c)}
    BY <1>1, <1>3 DEF Compare, At, Ended, Exit, Goto, RunsTyped, BothReports, Complaint, Outcome
  <2> QED
    BY <1>1, <1>2, <2>1 DEF CompareInv, BothReports, Outcome, Writing
<1>4. CASE OpenComparison(c) \/ WriteComparison(c)
  <2>1. /\ pc[c] \in Writing /\ pc'[c] \in Writing
        /\ status'[c] \in {"running", "usage", Outcome(c)}
    BY <1>1, <1>4 DEF OpenComparison, WriteComparison, At, Ended, Exit, Goto, RunsTyped, Writing
  <2>2. BothReports(c) /\ pc'[c] # "read"
    BY <1>1, <2>1 DEF CompareInv, Writing
  <2> QED
    BY <1>1, <1>2, <2>1, <2>2 DEF CompareInv, BothReports, Outcome
<1> QED
  BY <1>3, <1>4

\* The kinds a file can be of.
LEMMA StepKinds ==
    ASSUME RunsInv, ComparesInv, [Next]_vars, NEW f \in File
    PROVE  files'[f].kind \in Loadable \cup {"absent", "torn", "junit"}
<1>1. CASE files'[f] = files[f]
  BY <1>1 DEF ComparesInv
<1>2. CASE files'[f] # files[f]
  <2>1. \/ files'[f] = Torn \/ files'[f] = Comparison
        \/ \E r \in Runs : files'[f] = ReportWritten(r)
    BY <1>2, FileChanges
  <2>2. /\ Torn.kind = "torn" /\ Comparison.kind = "bad_schema"
        /\ \A r \in Runs : ReportWritten(r).kind \in {"report", "junit"}
    BY DEF Torn, Comparison, ReportWritten, Report, JUnit
  <2> QED
    BY <2>1, <2>2 DEF Loadable
<1> QED
  BY <1>1, <1>2

LEMMA StepCompares == RunsInv /\ FilesInv /\ ComparesInv /\ [Next]_vars => ComparesInv'
<1> SUFFICES ASSUME RunsInv, FilesInv, ComparesInv, [Next]_vars PROVE ComparesInv'
  OBVIOUS
<1>1. ASSUME NEW f \in File PROVE files'[f].kind \in Loadable \cup {"absent", "torn", "junit"}
  BY StepKinds
<1>2. ASSUME NEW c \in Compares PROVE CompareInv(c)'
  <2>1. CASE ReadReport(c)
    BY <2>1, ReadReportOK
  <2>2. CASE Compare(c) \/ OpenComparison(c) \/ WriteComparison(c)
    BY <2>2, CompareOK
  <2>3. CASE ~ReadReport(c) /\ ~Compare(c) /\ ~OpenComparison(c) /\ ~WriteComparison(c)
    <3>1. RunsTyped /\ Runs \cap Compares = {}
      BY CliAssumption DEF RunsInv
    <3>2. /\ loaded'[c] = loaded[c] /\ pc'[c] = pc[c]
          /\ status'[c] = status[c] \/ status'[c] = "killed"
      <4>1. CASE \E r \in Runs : RunNext(r)
        BY <3>1, <4>1 DEF RunsTyped, RunNext, Configure, LoadOracle, JudgeCase, ReplyTooShort,
           AfterValueError, OpenReport, WriteReport, Conclude, Raises, Exit, Goto
      <4>2. ASSUME NEW d \in Compares, CompareNext(d)
            PROVE  /\ loaded'[c] = loaded[c] /\ pc'[c] = pc[c]
                   /\ status'[c] = status[c] \/ status'[c] = "killed"
        <5>1. d # c
          BY <2>3, <4>2 DEF CompareNext
        <5> QED
          BY <3>1, <4>2, <5>1 DEF RunsTyped, CompareNext, ReadReport, Compare, OpenComparison,
             WriteComparison, Exit, Goto
      <4>3. CASE \E p \in Runs \cup Compares : Killed(p)
        BY <3>1, <4>3 DEF RunsTyped, Killed, Exit
      <4>4. CASE UNCHANGED vars
        BY <4>4 DEF vars
      <4> QED
        BY <4>1, <4>2, <4>3, <4>4 DEF Next
    <3>3. CompareInv(c)
      BY DEF ComparesInv
    <3>4. LoadedOK(c)'
      BY <3>2, <3>3, LoadedStays DEF CompareInv
    <3> QED
      BY <3>2, <3>3, <3>4 DEF CompareInv, BothReports
  <2> QED
    BY <2>1, <2>2, <2>3
<1> QED
  BY <1>1, <1>2 DEF ComparesInv

LEMMA ComparesInvariant == Spec => [](RunsInv /\ ComparesInv)
  BY FilesInvariant, InitCompares, StepCompares, PTL DEF Spec

LEMMA PassedComparison ==
    ASSUME ComparesInv, NEW c \in Compares, status[c] = "ok"
    PROVE  /\ SameFindings(loaded[c][1].findings, loaded[c][2].findings)
           /\ loaded[c][1].kind = "report" /\ LoadedOK(c) /\ Len(loaded[c]) = 2
<1>1. /\ LoadedOK(c) /\ Len(loaded[c]) = 2
      /\ Complaint(loaded[c][1]) = "none" /\ Complaint(loaded[c][2]) = "none"
      /\ CompareReports(loaded[c][1].findings, loaded[c][2].findings) = {}
  BY DEF ComparesInv, CompareInv, BothReports
<1>2. loaded[c][1].kind = "report" /\ loaded[c][2].kind \in Loadable
  BY <1>1 DEF LoadedOK, Loadable, Complaint
<1>3. ~HasDuplicate(loaded[c][1].findings) /\ ~HasDuplicate(loaded[c][2].findings)
  BY <1>1, <1>2 DEF Complaint, Loadable
<1> QED
  BY <1>1, <1>2, <1>3, NothingDiffers

\* Reporting in cli.run and cli.compare: only a run whose cases are all judged and
\* a comparison of two reports it could read touch a file.
THEOREM ReportsTouchedLast == Spec => EarlierReportsKept
<1> DEFINE Kept ==
             \A f \in File :
                files'[f] # files[f] =>
                   \/ \E r \in Runs : /\ pc[r] \in {"open", "write"}
                                      /\ JudgedCases(findings[r]) = AskedCases(setting[r])
                   \/ \E c \in Compares : /\ pc[c] \in {"open", "write"}
                                          /\ f = ComparisonFile
                                          /\ \A k \in 1 .. 2 : Complaint(loaded[c][k]) = "none"
<1>1. RunsInv /\ ComparesInv /\ [Next]_vars => Kept
  <2> DEFINE ByRun == \E r \in Runs : /\ pc[r] \in {"open", "write"}
                                      /\ JudgedCases(findings[r]) = AskedCases(setting[r])
             ByCompare(f) == \E c \in Compares :
                                /\ pc[c] \in {"open", "write"}
                                /\ f = ComparisonFile
                                /\ \A k \in 1 .. 2 : Complaint(loaded[c][k]) = "none"
  <2> SUFFICES ASSUME RunsInv, ComparesInv, [Next]_vars, NEW f \in File, files'[f] # files[f]
               PROVE  ByRun \/ ByCompare(f)
    OBVIOUS
  <2>1. ASSUME NEW r \in Runs, pc[r] \in Writing PROVE ByRun
    BY <2>1, WholeSuite DEF Writing
  <2>2. ASSUME NEW c \in Compares, pc[c] \in Writing, f = ComparisonFile PROVE ByCompare(f)
    <3>1. Complaint(loaded[c][1]) = "none" /\ Complaint(loaded[c][2]) = "none"
      BY <2>2 DEF ComparesInv, CompareInv, BothReports
    <3>2. \A k \in 1 .. 2 : Complaint(loaded[c][k]) = "none"
      BY <3>1
    <3> QED
      BY <2>2, <3>2 DEF Writing
  <2> QED
    BY <2>1, <2>2, FileChanges
<1>2. Kept => [Kept]_vars
  OBVIOUS
<1>3. RunsInv /\ ComparesInv /\ [Next]_vars => [Kept]_vars
  BY <1>1
<1> QED
  BY <1>3, ComparesInvariant, PTL DEF Spec, EarlierReportsKept

\* compare_reports: a comparison that passes is of equal findings, whatever is
\* being written to the two files meanwhile.
THEOREM ComparisonsAreExact == Spec => []ComparisonIsExact
<1>1. RunsInv /\ ComparesInv => ComparisonIsExact
  BY PassedComparison DEF ComparisonIsExact
<1> QED
  BY <1>1, ComparesInvariant, PTL

\* cli.run and cli.compare together: what was compared with the report of a run
\* that passed has the cases of that run, none of them unsafe.
THEOREM RegressionsCaught == Spec => []RegressionsAreCaught
<1>1. RunsInv /\ ComparesInv => RegressionsAreCaught
  <2> SUFFICES ASSUME RunsInv, ComparesInv, NEW c \in Compares, status[c] = "ok",
                      NEW base, base = loaded[c][1], NEW actual, actual = loaded[c][2],
                      base.run \in Runs, status[base.run] = "ok"
               PROVE  /\ NamesOf(actual.findings) = NamesOf(base.findings)
                      /\ \A k \in DOMAIN actual.findings :
                            actual.findings[k].verdict \notin UnsafeVerdict
    BY DEF RegressionsAreCaught
  <2>1. SameFindings(base.findings, actual.findings) /\ base.findings = findings[base.run]
    BY PassedComparison DEF LoadedOK
  <2>2. \A k \in DOMAIN base.findings : base.findings[k].verdict \notin UnsafeVerdict
    BY <2>1 DEF RunsInv, RunInv, Unsafe
  <2>3. ASSUME NEW k \in DOMAIN actual.findings
        PROVE  \E j \in DOMAIN base.findings : /\ base.findings[j].name = actual.findings[k].name
                                               /\ base.findings[j].verdict = actual.findings[k].verdict
    <3>1. <<actual.findings[k].name, actual.findings[k].verdict>> \in
             {<<base.findings[j].name, base.findings[j].verdict>> : j \in DOMAIN base.findings}
      BY <2>1 DEF SameFindings
    <3> QED
      BY <3>1
  <2>4. ASSUME NEW j \in DOMAIN base.findings
        PROVE  \E k \in DOMAIN actual.findings : base.findings[j].name = actual.findings[k].name
    <3>1. <<base.findings[j].name, base.findings[j].verdict>> \in
             {<<actual.findings[k].name, actual.findings[k].verdict>> : k \in DOMAIN actual.findings}
      BY <2>1 DEF SameFindings
    <3> QED
      BY <3>1
  <2> QED
    BY <2>2, <2>3, <2>4 DEF NamesOf
<1> QED
  BY <1>1, ComparesInvariant, PTL

-----------------------------------------------------------------------------
(***************************************************************************)
(* The types.                                                              *)
(***************************************************************************)

\* The positions kept of a sequence are numbered without a gap: of the members of a
\* finite set of numbers each has another rank, so that every rank is taken.
LEMMA NthIsKept ==
    ASSUME NEW S \in SUBSET Nat, IsFiniteSet(S), NEW n \in 1 .. Cardinality(S)
    PROVE  Nth(S, n) \in S
<1> DEFINE upto(k) == {j \in S : j <= k}
           rank == [k \in S |-> Cardinality(upto(k))]
           ranks == 1 .. Cardinality(S)
<1>1. Cardinality(S) \in Nat
  BY FS_CardinalityType
<1>2. ASSUME NEW k \in S
      PROVE  IsFiniteSet(upto(k)) /\ Cardinality(upto(k)) \in ranks
  <2>1. upto(k) \in SUBSET S /\ k \in upto(k)
    OBVIOUS
  <2>2. IsFiniteSet(upto(k)) /\ Cardinality(upto(k)) <= Cardinality(S)
    BY <2>1, FS_Subset
  <2>3. Cardinality(upto(k)) \in Nat /\ Cardinality(upto(k)) # 0
    BY <2>1, <2>2, FS_CardinalityType, FS_EmptySet
  <2> QED
    BY <1>1, <2>2, <2>3
<1>3. ASSUME NEW k \in S, NEW l \in S, k < l PROVE Cardinality(upto(k)) # Cardinality(upto(l))
  <2>1. k \in Nat /\ l \in Nat /\ \A j \in S : j \in Nat
    OBVIOUS
  <2>2. \A j \in S : j <= k => j <= l
    BY <1>3, <2>1
  <2>3. upto(k) \in SUBSET upto(l)
    BY <2>2
  <2>4. l \in upto(l) /\ l \notin upto(k)
    BY <1>3, <2>1
  <2>5. IsFiniteSet(upto(l))
    BY <1>2
  <2> QED
    BY <2>3, <2>4, <2>5, FS_Subset
<1>4. rank \in [S -> ranks] /\ \A k \in S : rank[k] = Cardinality(upto(k))
  BY <1>2
<1>5. \A k, l \in S : k # l => rank[k] # rank[l]
  <2> TAKE k, l \in S
  <2>1. k < l \/ l < k \/ k = l
    OBVIOUS
  <2> QED
    BY <1>3, <1>4, <2>1
<1>6. IsFiniteSet(ranks) /\ Cardinality(ranks) = Cardinality(S)
  BY <1>1, FS_Interval
<1> HIDE DEF rank, ranks, upto
<1>7. rank \in Injection(S, ranks)
  BY <1>4, <1>5, Zenon DEF Injection, IsInjective
<1>8. rank \in Surjection(S, ranks)
  BY <1>6, <1>7, FS_Injection
<1>9. \E k \in S : Cardinality({j \in S : j <= k}) = n
  BY <1>4, <1>8, Zenon DEF Surjection, ranks, upto
<1> QED
  BY <1>9, Zenon DEF Nth

LEMMA SelectionsAreSequences ==
    ASSUME NEW s, NEW p
    PROVE  SelectCases(s, p) \in Seq(CaseName)
<1> DEFINE included == IF p # None THEN CategoriesForProfile(p) ELSE s.include
           kept == {k \in DOMAIN Suite : /\ included = None \/ CategoryOf[Suite[k]] \in included
                                         /\ CategoryOf[Suite[k]] \notin s.exclude}
<1>1. kept \in SUBSET DOMAIN Suite
  OBVIOUS
<1>2. SelectCases(s, p) = AtPositions(Suite, kept)
  BY DEF SelectCases
<1> HIDE DEF kept
<1>3. Suite \in Seq(CaseName) /\ DOMAIN Suite = 1 .. Len(Suite) /\ Len(Suite) \in Nat
  BY SuiteAssumption, LenProperties
<1>4. IsFiniteSet(kept) /\ kept \in SUBSET Nat
  <2>1. kept \in SUBSET (1 .. Len(Suite)) /\ kept \in SUBSET Nat
    BY <1>1, <1>3
  <2>2. IsFiniteSet(1 .. Len(Suite))
    BY <1>3, FS_Interval
  <2>3. IsFiniteSet(kept)
    BY <2>1, <2>2, FS_Subset
  <2> QED
    BY <2>1, <2>3
<1>5. Cardinality(kept) \in Nat
  BY <1>4, FS_CardinalityType
<1>6. \A n \in 1 .. Cardinality(kept) : Suite[Nth(kept, n)] \in CaseName
  BY <1>1, <1>4, NthIsKept DEF CaseName
<1> QED
  BY <1>2, <1>5, <1>6 DEF AtPositions

CliSteps == {"config", "oracle", "judge", "open", "write", "read", "compare"}
CliStatus == {"running", "ok", "fail", "usage", "killed"}

\* What the invariants of the runs, the reports and the comparisons leave of the
\* types.
Shapes ==
    /\ setting \in [Runs -> Settings]
    /\ pc \in [Runs \cup Compares -> CliSteps]
    /\ status \in [Runs \cup Compares -> CliStatus]
    /\ profile \in [Runs -> Profile \cup {None}]
    /\ selection \in [Runs -> Seq(CaseName)]
    /\ findings \in [Runs -> Seq(Finding)]
    /\ written \in [Runs -> 0 .. 2]

LEMMA InitShapes == Init => Shapes
  BY CliAssumption DEF Init, Shapes, CliSteps, CliStatus

\* Steps that change what the next action is and how an invocation ended.
LEMMA ShapesMove ==
    ASSUME Shapes, NEW p \in Runs \cup Compares,
           \/ \E next \in CliSteps : Goto(p, next)
           \/ \E how \in CliStatus : Exit(p, how)
           \/ UNCHANGED <<pc, status>>
    PROVE  /\ pc' \in [Runs \cup Compares -> CliSteps]
           /\ status' \in [Runs \cup Compares -> CliStatus]
  BY DEF Shapes, Goto, Exit

LEMMA ShapesOfRun ==
    ASSUME Shapes, RunsInv, JUnitInv, NEW r \in Runs, RunNext(r)
    PROVE  Shapes'
<1>1. r \notin Compares /\ RunInv(r) /\ WritesWhatIsAsked(r)
  BY CliAssumption DEF RunsInv, JUnitInv
<1>2. CASE Configure(r)
  <2>1. EffectiveProfile(setting[r]) \in Profile \cup {None}
    BY SettingsAssumption DEF Shapes, EffectiveProfile
  <2>2. "oracle" \in CliSteps /\ "usage" \in CliStatus
    BY DEF CliSteps, CliStatus
  <2>3. profile' \in [Runs -> Profile \cup {None}]
    BY <1>2, <2>1 DEF Configure, Shapes
  <2>4. \/ Exit(r, "usage")
        \/ Goto(r, "oracle")
    BY <1>2 DEF Configure
  <2> QED
    BY <1>1, <1>2, <2>2, <2>3, <2>4, ShapesMove DEF Configure, Shapes
<1>3. CASE LoadOracle(r)
  <2>1. "open" \in CliSteps /\ "judge" \in CliSteps /\ "usage" \in CliStatus
    BY DEF CliSteps, CliStatus
  <2>2. selection' \in [Runs -> Seq(CaseName)]
    BY <1>3, SelectionsAreSequences DEF LoadOracle, Shapes
  <2>3. Exit(r, "usage") \/ Goto(r, "open") \/ Goto(r, "judge")
    BY <1>3 DEF LoadOracle, AfterLoading
  <2> QED
    BY <1>1, <1>3, <2>1, <2>2, <2>3, ShapesMove DEF LoadOracle, Shapes
<1>4. CASE JudgeCase(r)
  <2>1. PICK v \in Judgeable :
          findings' = [findings EXCEPT ![r] =
             Append(@, [name |-> selection[r][Len(findings[r]) + 1], verdict |-> v])]
    BY <1>4 DEF JudgeCase
  <2>2. Len(findings[r]) < Len(selection[r])
    BY <1>1, <1>4 DEF JudgeCase, At, Ended, RunInv, RunsInv, Shapes, CliStatus
  <2>3. selection[r][Len(findings[r]) + 1] \in CaseName
    BY <2>2, ElementOfSeq, LenProperties DEF Shapes
  <2>4. [name |-> selection[r][Len(findings[r]) + 1], verdict |-> v] \in Finding
    BY <2>3, CliAssumption DEF Finding
  <2>5. findings' \in [Runs -> Seq(Finding)]
    BY <2>1, <2>4, AppendProperties DEF Shapes
  <2>6. "open" \in CliSteps
    BY DEF CliSteps
  <2>7. Goto(r, "open") \/ UNCHANGED <<pc, status>>
    BY <1>4 DEF JudgeCase
  <2> QED
    BY <1>1, <1>4, <2>5, <2>6, <2>7, ShapesMove DEF JudgeCase, Shapes
<1>5. CASE WriteReport(r)
  <2>1. ReportsLeft(r)
    BY <1>1, <1>5 DEF WriteReport, At, WritesWhatIsAsked
  <2>2. written[r] + 1 \in 0 .. 2
    <3> DEFINE n == Len(Reports(setting[r]))
               w == written[r]
    <3>1. n \in 0 .. 2
      BY AtMostTwoReports, Zenon
    <3>2. w \in 0 .. 2 /\ w < n
      BY <2>1 DEF ReportsLeft, Shapes
    <3> HIDE DEF n, w
    <3>3. w + 1 \in 0 .. 2
      BY <3>1, <3>2
    <3> QED
      BY <3>3 DEF w
  <2>3. written' \in [Runs -> 0 .. 2]
    BY <1>5, <2>2 DEF WriteReport, Shapes
  <2>4. Goto(r, "open") /\ "open" \in CliSteps
    BY <1>5 DEF WriteReport, CliSteps
  <2> QED
    BY <1>1, <1>5, <2>3, <2>4, ShapesMove DEF WriteReport, Shapes
<1>6. CASE ReplyTooShort(r) \/ OpenReport(r) \/ Conclude(r) \/ Raises(r)
  <2>1. \/ Exit(r, "usage") \/ Exit(r, "ok") \/ Exit(r, "fail")
        \/ Goto(r, "write")
    BY <1>6 DEF ReplyTooShort, AfterValueError, OpenReport, Conclude, Raises
  <2>2. "write" \in CliSteps /\ "usage" \in CliStatus /\ "ok" \in CliStatus /\ "fail" \in CliStatus
    BY DEF CliSteps, CliStatus
  <2>3. UNCHANGED <<setting, profile, selection, findings, written>>
    BY <1>6 DEF ReplyTooShort, OpenReport, Conclude, Raises
  <2> QED
    BY <1>1, <2>1, <2>2, <2>3, ShapesMove DEF Shapes
<1> QED
  BY <1>2, <1>3, <1>4, <1>5, <1>6 DEF RunNext

LEMMA StepShapes == Shapes /\ RunsInv /\ JUnitInv /\ [Next]_vars => Shapes'
<1> SUFFICES ASSUME Shapes, RunsInv, JUnitInv, [Next]_vars PROVE Shapes'
  OBVIOUS
<1>1. ASSUME NEW c \in Compares, CompareNext(c) PROVE Shapes'
  <2>1. \/ Exit(c, "usage") \/ Exit(c, "ok") \/ Exit(c, "fail")
        \/ Goto(c, "compare") \/ Goto(c, "open") \/ Goto(c, "write")
        \/ UNCHANGED <<pc, status>>
    BY <1>1 DEF CompareNext, ReadReport, Compare, OpenComparison, WriteComparison, Complaint, Outcome
  <2>2. /\ "compare" \in CliSteps /\ "open" \in CliSteps /\ "write" \in CliSteps
        /\ "usage" \in CliStatus /\ "ok" \in CliStatus /\ "fail" \in CliStatus
    BY DEF CliSteps, CliStatus
  <2>3. UNCHANGED <<setting, profile, selection, findings, written>>
    BY <1>1 DEF CompareNext, ReadReport, Compare, OpenComparison, WriteComparison
  <2> QED
    BY <2>1, <2>2, <2>3, ShapesMove DEF Shapes
<1>2. ASSUME NEW p \in Runs \cup Compares, Killed(p) PROVE Shapes'
  <2>1. "killed" \in CliStatus /\ Exit(p, "killed")
        /\ UNCHANGED <<setting, profile, selection, findings, written>>
    BY <1>2 DEF Killed, CliStatus
  <2> QED
    BY <2>1, ShapesMove DEF Shapes
<1>3. CASE UNCHANGED vars
  BY <1>3 DEF Shapes, vars
<1> QED
  BY <1>1, <1>2, <1>3, ShapesOfRun DEF Next

\* CliRun keeps its types, for any number of runs and comparisons, every suite and
\* every command line: in particular no run has more findings than cases, and none
\* with all its cases judged asks for one more.
THEOREM CliTypesAreRight == Spec => []TypeOK
<1> DEFINE All == Shapes /\ RunsInv /\ JUnitInv /\ ComparesInv
<1>1. Spec => []All
  BY RunsInvariant, JUnitInvariant, ComparesInvariant, InitShapes, StepShapes, PTL DEF Spec
<1>2. All => TypeOK
  <2> SUFFICES ASSUME All PROVE TypeOK
    OBVIOUS
  <2>1. ASSUME NEW r \in Runs
        PROVE  /\ Len(findings[r]) <= Len(selection[r])
               /\ pc[r] = "judge" /\ ~Ended(r) => Len(findings[r]) < Len(selection[r])
    <3>1. RunInv(r) /\ selection[r] \in Seq(CaseName)
      BY DEF RunsInv, Shapes
    <3>2. Len(selection[r]) \in Nat
      BY <3>1, LenProperties
    <3>3. CASE pc[r] \in Judging
      BY <3>1, <3>3 DEF RunInv, FindingsInOrder, Ended
    <3>4. CASE pc[r] \notin Judging
      <4>1. Len(findings[r]) = 0 /\ pc[r] # "judge"
        BY <3>1, <3>4 DEF RunInv, Judging
      <4> QED
        BY <3>2, <4>1
    <3> QED
      BY <3>3, <3>4
  <2>2. ASSUME NEW c \in Compares PROVE Len(loaded[c]) <= 2
    <3> DEFINE n == Len(loaded[c])
    <3>1. CompareInv(c)
      BY DEF ComparesInv
    <3>2. n = 0 \/ n = 1 \/ n = 2
      BY <3>1 DEF CompareInv
    <3> HIDE DEF n
    <3>3. n <= 2
      BY <3>2
    <3> QED
      BY <3>3 DEF n
  <2>3. DOMAIN files = File
    BY DEF RunsInv, RunsTyped
  <2> QED
    BY <2>1, <2>2, <2>3 DEF TypeOK, Shapes, CliSteps, CliStatus
<1> QED
  BY <1>1, <1>2, PTL
=============================================================================
