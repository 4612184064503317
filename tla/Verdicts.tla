------------------------------ MODULE Verdicts ------------------------------
(***************************************************************************)
(* The verdicts an oracle can return, the ones that fail a run, and what a *)
(* target can do with a packet it is sent.                                 *)
(***************************************************************************)

Verdict == {"clean_accept", "clean_reject", "safe_drop",
            "unexpected_accept", "crash", "hang", "inconclusive"}

UnsafeVerdict == {"unexpected_accept", "crash", "hang"}

\* The verdicts that claim the target did something with the packet.
CounterVerdict == {"clean_accept", "clean_reject", "safe_drop", "unexpected_accept"}

\* "ignore": alive, and no counter changed.
Effect == {"accept", "reject", "drop", "ignore", "hang", "crash"}
=============================================================================
