--------------------------- MODULE MCSettingsFile ---------------------------
(* Two copies of one setup: the one that runs and one launched beside it.   *)
EXTENDS SettingsFile, TLC

Twins == Permutations(Copies)

\* No property speaks of what comes after programs ran side by side without
\* the lock, so TLC need not go on from there.
NotYetCrowded == ~crowded
=============================================================================
