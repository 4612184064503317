-------------------------- MODULE AdapterContract ---------------------------
(***************************************************************************)
(* What the adapter of an oracle declares of itself (harness/adapters.py), *)
(* what a target profile asks of it and which cases the profile selects    *)
(* (harness/profiles.py).  Names, versions, telemetry fields and verdicts  *)
(* of a contract are left out: nothing in a run depends on them.           *)
(***************************************************************************)
CONSTANT None

ASSUME NoneIsNoCategories == {"known_good"} # None

Profile == {"stock-cfs", "hardened-cfs", "smoke", "full-robustness"}

\* Plausible error: the control named in place of its category.
SmokeByName(profile) == IF profile = "smoke" THEN {"ci_lab_noop"} ELSE None

\* None: the profile selects every category.
CategoriesForProfile(profile) == IF profile = "smoke" THEN {"known_good"} ELSE None

LivenessContract ==
    [reports_command_outcome  |-> FALSE,
     enforces_hardened_policy |-> FALSE,
     required_evidence        |-> {},
     profile_evidence         |-> [p \in {} |-> {}],
     supported_profiles       |-> Profile]

CiLabContract ==
    [reports_command_outcome  |-> TRUE,
     enforces_hardened_policy |-> FALSE,
     required_evidence        |-> {"before", "after"},
     profile_evidence         |-> [p \in {"hardened-cfs"} |-> {"before", "after"}],
     supported_profiles       |-> Profile]

EvidenceFieldsFor(contract, profile) ==
    IF profile \in DOMAIN contract.profile_evidence
      THEN contract.profile_evidence[profile]
      ELSE contract.required_evidence

\* What the contract lacks for the profile.  The first requirement of
\* hardened-cfs is named whatever the contract says of it.
RequirementsFor(contract, profile) ==
    IF profile = "hardened-cfs"
      THEN {"enforces_hardened_policy"}
             \cup {r \in {"reports_command_outcome"} : ~contract.reports_command_outcome}
             \cup {r \in {"profile evidence"} : EvidenceFieldsFor(contract, profile) = {}}
      ELSE {r \in {"supports profile"} : profile \notin contract.supported_profiles}
=============================================================================
