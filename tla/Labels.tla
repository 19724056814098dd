-------------------------------- MODULE Labels --------------------------------
(***************************************************************************)
(* What entries, memos and projects are filed under: vault categories and  *)
(* tags, memo folders and tags, project tags.  Five tables of one          *)
(* organization, told apart by kind.                                       *)
(*                                                                         *)
(* The names of tags are looked up before they are inserted; no table has  *)
(* a unique index.  The links between a tag and what it marks are left     *)
(* out, and so are the columns other than the name.                        *)
(***************************************************************************)
EXTENDS Repository

CONSTANTS LabelIds, Names

Kinds == {"category", "folder", "vault_tag", "memo_tag", "project_tag"}
Label == [kind : Kinds, name : Names, deleted : BOOLEAN]

CategoryRoutes == {"create_category", "update_category", "delete_category"}
VaultTagRoutes == {"create_vault_tag", "update_vault_tag", "delete_vault_tag"}
FolderRoutes == {"create_folder", "delete_folder"}
MemoTagRoutes == {"create_memo_tag", "delete_memo_tag"}
ProjectTagRoutes == {"create_project_tag", "update_project_tag", "delete_project_tag"}

Of(kind) == {x \in All(LabelIds) : row[x].kind = kind}
\* get_by_name_and_org; it raises if there are several, as if one of another id were there.
Named(kind, name) == {x \in Of(kind) : row[x].name = name}

NewLabel(r, op, u, kind, name) ==
    Create(r, op, u, LabelIds, [kind |-> kind, name |-> name, deleted |-> FALSE])

-----------------------------------------------------------------------------
(***************************************************************************)
(* Vault: every active user may call                                       *)
(***************************************************************************)
CreateCategory(r, u, name) == NewLabel(r, "create_category", u, "category", name)
UpdateCategory(r, u, x, name) ==
    x \in Of("category") /\ Update(r, "update_category", u, x, [name |-> name])
DeleteCategory(r, u, x) == x \in Of("category") /\ DeleteSoft(r, "delete_category", u, x)

CreateVaultTag(r, u, name) ==
    /\ Named("vault_tag", name) = {}
    /\ NewLabel(r, "create_vault_tag", u, "vault_tag", name)
\* The name is looked up only if it is another one.
UpdateVaultTag(r, u, x, name) ==
    /\ x \in Of("vault_tag")
    /\ row[x].name # name => Named("vault_tag", name) = {}
    /\ Update(r, "update_vault_tag", u, x, [name |-> name])
DeleteVaultTag(r, u, x) == x \in Of("vault_tag") /\ DeleteSoft(r, "delete_vault_tag", u, x)

-----------------------------------------------------------------------------
(***************************************************************************)
(* Memos and projects: permissions in the organization                     *)
(***************************************************************************)
CreateFolder(r, u, name) == u \in Managers /\ NewLabel(r, "create_folder", u, "folder", name)
DeleteFolder(r, u, x) ==
    u \in Managers /\ x \in Of("folder") /\ DeleteSoft(r, "delete_folder", u, x)

CreateMemoTag(r, u, name) ==
    /\ u \in Managers
    /\ Named("memo_tag", name) = {}
    /\ NewLabel(r, "create_memo_tag", u, "memo_tag", name)
DeleteMemoTag(r, u, x) ==
    u \in Managers /\ x \in Of("memo_tag") /\ DeleteSoft(r, "delete_memo_tag", u, x)

CreateProjectTag(r, u, name) ==
    /\ u \in Managers
    /\ Named("project_tag", name) = {}
    /\ NewLabel(r, "create_project_tag", u, "project_tag", name)
\* The name is looked up even if it is the one that the tag has: with two tags of that name
\* the lookup raises.
UpdateProjectTag(r, u, x, name) ==
    /\ u \in Managers
    /\ x \in Of("project_tag")
    /\ Named("project_tag", name) \in {{}, {x}}
    /\ Update(r, "update_project_tag", u, x, [name |-> name])
\* The route has no permission check.
DeleteProjectTag(r, u, x) == x \in Of("project_tag") /\ DeleteSoft(r, "delete_project_tag", u, x)

LabelCall(r, u) ==
    \/ \E name \in Names :
          \/ CreateCategory(r, u, name) \/ CreateVaultTag(r, u, name) \/ CreateFolder(r, u, name)
          \/ CreateMemoTag(r, u, name) \/ CreateProjectTag(r, u, name)
    \/ \E x \in LabelIds :
          \/ DeleteCategory(r, u, x) \/ DeleteVaultTag(r, u, x) \/ DeleteFolder(r, u, x)
          \/ DeleteMemoTag(r, u, x) \/ DeleteProjectTag(r, u, x)
          \/ \E name \in Names :
                \/ UpdateCategory(r, u, x, name) \/ UpdateVaultTag(r, u, x, name)
                \/ UpdateProjectTag(r, u, x, name)
=============================================================================
