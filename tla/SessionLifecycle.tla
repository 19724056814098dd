-------------------------- MODULE SessionLifecycle --------------------------
(***************************************************************************)
(* What app/auth promises of a sign-in session, without requests,          *)
(* transactions or Redis: a session is opened once, is live until it ends, *)
(* and never comes back; a refresh ends one session and opens its          *)
(* successor in one step.                                                  *)
(*                                                                         *)
(* Rotate does not ask its session to be still live: two refreshes with    *)
(* the same token both open a successor when neither sees the other's      *)
(* revocation, and the code does not promise otherwise.                    *)
(***************************************************************************)
CONSTANTS Sessions, None

VARIABLES
    live, ended,
    origin          \* the session a session was refreshed from

TypeInvariant ==
    /\ live \subseteq Sessions
    /\ ended \subseteq Sessions
    /\ origin \in [Sessions -> Sessions \cup {None}]

Fresh(s) == s \notin live \cup ended

Init ==
    /\ live = {} /\ ended = {}
    /\ origin = [s \in Sessions |-> None]

\* login
Open(s) ==
    /\ Fresh(s)
    /\ live' = live \cup {s}
    /\ UNCHANGED <<ended, origin>>

\* refresh
Rotate(s, t) ==
    /\ s \in live \cup ended
    /\ Fresh(t)
    /\ live' = (live \ {s}) \cup {t}
    /\ ended' = ended \cup {s}
    /\ origin' = [origin EXCEPT ![t] = s]

\* logout, and revoke_all_sessions of a user
End(S) ==
    /\ live' = live \ S
    /\ ended' = ended \cup S
    /\ UNCHANGED origin

Next ==
    \/ \E s \in Sessions : Open(s)
    \/ \E s, t \in Sessions : Rotate(s, t)
    \/ \E S \in SUBSET live : End(S)

Spec == Init /\ [][Next]_<<live, ended, origin>>
=============================================================================
