------------------------- MODULE MCFirmwareReleases -------------------------
EXTENDS FirmwareReleases, TLC

\* Interchangeable values of an instance.
Threads == Permutations(Uploaders) \cup Permutations(Editors)
=============================================================================
