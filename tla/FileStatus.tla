------------------------------ MODULE FileStatus ------------------------------
(***************************************************************************)
(* The verdicts a scan can give to a file (enum a6o_file_status) and the   *)
(* comparison libcore/status.c defines on them.  Every scanning component  *)
(* (scan context, on-access monitor, on-demand scan) uses these values.    *)
(***************************************************************************)
EXTENDS Integers

\* The verdicts that the comparison function orders.
RankedStatus == {"UNDECIDED", "CLEAN", "IERROR", "SUSPICIOUS", "WHITE_LISTED", "MALWARE"}

\* The verdicts it does not expect as its first argument: it would reach
\* assert(1 == 0).
UnrankedStatus == {"UNKNOWN_TYPE", "EINVAL"}

FileStatuses == RankedStatus \cup UnrankedStatus

\* Mutant: SUSPICIOUS does not win over IERROR.
MutBelow(s) ==
    CASE s = "CLEAN"        -> {"UNDECIDED"}
      [] s = "IERROR"       -> {"UNDECIDED", "CLEAN", "SUSPICIOUS"}
      [] s = "SUSPICIOUS"   -> {"UNDECIDED", "CLEAN"}
      [] s = "WHITE_LISTED" -> {"UNDECIDED", "CLEAN", "IERROR", "SUSPICIOUS"}
      [] s = "MALWARE"      -> FileStatuses
      [] OTHER              -> {}

\* The statuses a status is "greater than" in the switch of the comparison.
Below(s) ==
    CASE s = "CLEAN"        -> {"UNDECIDED"}
      [] s = "IERROR"       -> {"UNDECIDED", "CLEAN"}
      [] s = "SUSPICIOUS"   -> {"UNDECIDED", "CLEAN", "IERROR"}
      [] s = "WHITE_LISTED" -> {"UNDECIDED", "CLEAN", "IERROR", "SUSPICIOUS"}
      [] s = "MALWARE"      -> FileStatuses
      [] OTHER              -> {}

\* a6o_file_status_cmp(s1, s2), for an s1 on which it does not assert.
file_status_cmp(s1, s2) ==
    IF s1 = s2 THEN 0 ELSE IF s2 \in Below(s1) THEN 1 ELSE -1

\* Statuses after which scan_apply_modules consults no further module.
Authoritative == {"WHITE_LISTED", "MALWARE"}

\* Statuses for which the scanners fire a detection event.
Detected == {"MALWARE", "SUSPICIOUS"}
===============================================================================
