------------------------------ MODULE MCCliRun ------------------------------
EXTENDS CliRun, TLC

Names == <<"noop", "version">>
Categories == [c \in {"noop", "version"} |-> IF c = "noop" THEN "known_good" ELSE c]

Interchangeable == Permutations(Runs)

Plain ==
    [valid |-> TRUE, profile |-> None, cli |-> None, include |-> None, exclude |-> {},
     contract |-> CiLabContract, json |-> "baseline.json", junit |-> None]

Later == [Plain EXCEPT !.json = "report.json", !.junit = "report.xml"]

\* A baseline's run and a later run, and ways to go wrong.
BaselineSettings ==
    {Plain,
     [Plain EXCEPT !.cli = "smoke"],
     [Plain EXCEPT !.exclude = {"version"}]}
LaterSettings ==
    {Later,
     [Later EXCEPT !.cli = "smoke", !.profile = "full-robustness"],
     [Later EXCEPT !.include = {"version"}],
     [Later EXCEPT !.cli = "hardened-cfs", !.profile = "smoke"],
     [Later EXCEPT !.cli = "stock-cfs", !.contract = None],
     [Later EXCEPT !.cli = "smoke", !.exclude = {"version"}],
     [Later EXCEPT !.profile = "smoke", !.exclude = {"version"}],
     [Later EXCEPT !.exclude = {"nonsense"}],
     [Later EXCEPT !.valid = FALSE],
     [Later EXCEPT !.exclude = {"known_good", "version"}]}
MCSettings == BaselineSettings \cup LaterSettings

CIFiles == <<"baseline.json", "report.json">>

Clean(name) == [name |-> name, verdict |-> "clean_reject"]
Archive(list) == [kind |-> "report", run |-> None, findings |-> list]

MCArchived ==
    {Absent,
     [kind |-> "not_object", run |-> None],
     [kind |-> "bad_schema", run |-> None],
     Archive(<<Clean("version"), Clean("noop")>>),
     Archive(<<Clean("noop"), Clean("noop")>>)}
=============================================================================
