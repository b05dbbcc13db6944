----------------------------- MODULE MCDnsPage -----------------------------
(***************************************************************************)
(* Small instances of DnsPage.  The page shows one time unit back, so that *)
(* a record leaves the live window after a tick or two.                    *)
(***************************************************************************)
EXTENDS DnsPage

CONSTANTS a, b, no_domain, no_window, never

OneDomain == {a}
TwoDomains == {a, b}
JustBefore == {9}

ShiftBack == {-1}
============================================================================
