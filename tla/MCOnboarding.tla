---------------------------- MODULE MCOnboarding ----------------------------
(* Small instances of Onboarding for TLC.                                  *)
EXTENDS Onboarding, TLC

CONSTANTS r1, r2

\* Requests are only names of slots.
Symmetry == Permutations(StepRequests)

============================================================================
