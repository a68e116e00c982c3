------------------------------- MODULE MCAuth -------------------------------
EXTENDS CLILogin

CONSTANTS l1, l2, main, mirror

\* The two logins use two URLs, so they share the credentials file and not its entry.
McServerOf == [l \in Login |-> IF l = l1 THEN main ELSE mirror]
=============================================================================
