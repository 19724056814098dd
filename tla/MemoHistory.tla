----------------------------- MODULE MemoHistory -----------------------------
(***************************************************************************)
(* What the versions of memos promise: each memo has a list of contents,   *)
(* which grows at its end, by one content at a time.  Nothing in the list  *)
(* is changed, lost or put in twice, whatever requests run together.       *)
(***************************************************************************)
EXTENDS Sequences

CONSTANTS MemoIds, Contents

VARIABLE history

Init == history = [m \in MemoIds |-> <<>>]

Save(m, content) == history' = [history EXCEPT ![m] = Append(@, content)]

Next == \E m \in MemoIds, content \in Contents : Save(m, content)

Spec == Init /\ [][Next]_history
=============================================================================
