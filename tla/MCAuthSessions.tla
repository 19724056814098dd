--------------------------- MODULE MCAuthSessions ---------------------------
\* The instances of AuthSessions that TLC checks.
EXTENDS AuthSessions, TLC

\* Every route, and time.
AllOperations == Routes \cup {"expiry"}

\* The routes that open sessions, or fail to, and revoke them one at a time.
OneByOne == {"login", "failed_login", "refresh", "logout"}

\* Failed logins and what a lockout would stop.
Failures == {"login", "failed_login"}

LoginAndSweep == {"login", "revoke_sessions"}

Symmetry == Permutations(Sessions) \cup Permutations(Requests)
=============================================================================
