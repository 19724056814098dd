------------------------------ MODULE Scheduling ------------------------------
(***************************************************************************)
(* The events of an organization, app/scheduling.  Of the columns, the two *)
(* times are modelled: the schemas of the calls check them together.       *)
(***************************************************************************)
EXTENDS Repository

CONSTANTS EventIds, Times, DayLength

ASSUME TimesAssumption == Times \subseteq Nat /\ DayLength \in Nat \ {0}

\* end: None for an event without an end.
Event == [start : Times, end : Times \cup {None}, deleted : BOOLEAN]
EventRoutes == {"create_event", "update_event", "delete_event"}

Day(t) == t \div DayLength

\* EventCreate.check_end_time.
ValidNew(s, e) == e # None => s <= e /\ Day(s) = Day(e)

\* EventUpdate.check_end_time: what is not in the body is not checked.
Valid(data) == {"start", "end"} \subseteq DOMAIN data => ValidNew(data.start, data.end)

\* The bodies of a PATCH that change times.
Bodies == {[start |-> s] : s \in Times} \cup {[end |-> e] : e \in Times \cup {None}}
          \cup {[start |-> s, end |-> e] : s \in Times, e \in Times \cup {None}}

CreateEvent(r, u, s, e) ==
    /\ u \in Managers
    /\ ValidNew(s, e)
    /\ Create(r, "create_event", u, EventIds, [start |-> s, end |-> e, deleted |-> FALSE])

UpdateEvent(r, u, x, data) ==
    /\ u \in Managers
    /\ Valid(data)
    /\ Update(r, "update_event", u, x, data)

DeleteEvent(r, u, x) == u \in Managers /\ Live(x) /\ DeleteSoft(r, "delete_event", u, x)

EventCall(r, u) ==
    \/ \E s \in Times, e \in Times \cup {None} : CreateEvent(r, u, s, e)
    \/ \E x \in EventIds :
          DeleteEvent(r, u, x) \/ \E data \in Bodies : UpdateEvent(r, u, x, data)
=============================================================================
