------------------------------- MODULE Projects -------------------------------
(***************************************************************************)
(* Projects, their assignees and their tasks: app/projects, app/tasks.     *)
(* The tags are in Labels.                                                 *)
(*                                                                         *)
(* The status of a project, and of a task, stands for the columns that an  *)
(* update may change; archived_at is a flag.                               *)
(***************************************************************************)
EXTENDS Repository

CONSTANTS ProjectIds, AssignmentIds, TaskIds, Statuses

Project == [owner : Users, status : Statuses, archived : BOOLEAN, deleted : BOOLEAN]
ProjectAssignment == [project : ProjectIds, user : Users, deleted : BOOLEAN]
Task == [project : ProjectIds, status : Statuses, deleted : BOOLEAN]

ProjectRoutes == {"create_project", "update_project", "delete_project", "archive_project",
                  "restore_project"}
AssigneeRoutes == {"add_assignee", "remove_assignee"}
TaskRoutes == {"create_task", "update_task", "delete_task"}

\* get_assignment; it raises if there are several.
AssignmentsOf(p, u) == {x \in All(AssignmentIds) : row[x].project = p /\ row[x].user = u}
NewAssignment(p, u) == [project |-> p, user |-> u, deleted |-> FALSE]

-----------------------------------------------------------------------------
CreateProject(r, u, v) ==
    /\ u \in Managers
    /\ Fresh(ProjectIds) # {} /\ Fresh(AssignmentIds) # {}
    /\ LET p == Some(ProjectIds)
       IN  Begin(r, [Idle EXCEPT !.pc = "done", !.op = "create_project", !.user = u,
                        !.new = Both(Row(p, [owner |-> u, status |-> v, archived |-> FALSE,
                                             deleted |-> FALSE]),
                                     Row(Some(AssignmentIds), NewAssignment(p, u)))])

UpdateProject(r, u, p, v) == u \in Managers /\ Update(r, "update_project", u, p, [status |-> v])
DeleteProject(r, u, p) == u \in Managers /\ Live(p) /\ DeleteSoft(r, "delete_project", u, p)
ArchiveProject(r, u, p) ==
    /\ u \in Managers
    /\ Live(p) /\ ~row[p].archived
    /\ Update(r, "archive_project", u, p, [archived |-> TRUE])
RestoreProject(r, u, p) ==
    /\ u \in Managers
    /\ Live(p) /\ row[p].archived
    /\ Update(r, "restore_project", u, p, [archived |-> FALSE])

AddAssignee(r, u, p, v) ==
    /\ u \in Managers
    /\ Live(p) /\ AssignmentsOf(p, v) = {}
    /\ Create(r, "add_assignee", u, AssignmentIds, NewAssignment(p, v))
RemoveAssignee(r, u, p, v) ==
    /\ u \in Managers
    /\ Live(p)
    /\ \E x \in AssignmentIds :
          AssignmentsOf(p, v) = {x} /\ DeleteSoft(r, "remove_assignee", u, x)

-----------------------------------------------------------------------------
CreateTask(r, u, p, v) ==
    /\ u \in Managers
    /\ Live(p)
    /\ Create(r, "create_task", u, TaskIds, [project |-> p, status |-> v, deleted |-> FALSE])

\* get_active_by_id does not look at the project: its tasks outlive it.
UpdateTask(r, u, t, v) == u \in Managers /\ Update(r, "update_task", u, t, [status |-> v])
DeleteTask(r, u, t) == u \in Managers /\ Live(t) /\ DeleteSoft(r, "delete_task", u, t)

ProjectCall(r, u) ==
    \/ \E v \in Statuses : CreateProject(r, u, v)
    \/ \E p \in ProjectIds :
          \/ DeleteProject(r, u, p) \/ ArchiveProject(r, u, p) \/ RestoreProject(r, u, p)
          \/ \E v \in Statuses : UpdateProject(r, u, p, v) \/ CreateTask(r, u, p, v)
          \/ \E v \in Users : AddAssignee(r, u, p, v) \/ RemoveAssignee(r, u, p, v)
    \/ \E t \in TaskIds :
          DeleteTask(r, u, t) \/ \E v \in Statuses : UpdateTask(r, u, t, v)
=============================================================================
