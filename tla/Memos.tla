-------------------------------- MODULE Memos --------------------------------
(***************************************************************************)
(* Memos and their versions, app/memos.  Folders and tags are in Labels.   *)
(*                                                                         *)
(* Of the columns, the content, which versions copy, stands for those that *)
(* the update may change; is_pinned and is_favorite begin with their       *)
(* defaults.                                                               *)
(***************************************************************************)
EXTENDS Repository

CONSTANTS MemoIds, VersionIds, Contents

Memo == [content : Contents, pinned : BOOLEAN, favorite : BOOLEAN, deleted : BOOLEAN]
MemoVersion == [memo : MemoIds, content : Contents, number : Nat, deleted : BOOLEAN]

MemoRoutes == {"create_memo", "update_memo", "delete_memo"}
FlagRoutes == {"pin_memo", "unpin_memo", "favorite_memo", "unfavorite_memo"}

VersionsOf(m) == {x \in All(VersionIds) : row[x].memo = m}
Version(m, c, n) == [memo |-> m, content |-> c, number |-> n, deleted |-> FALSE]

CreateMemo(r, u, c) ==
    /\ u \in Managers
    /\ Fresh(MemoIds) # {} /\ Fresh(VersionIds) # {}
    /\ LET m == Some(MemoIds)
       IN  Begin(r, [Idle EXCEPT !.pc = "done", !.op = "create_memo", !.user = u,
                                 !.new = Both(Row(m, [content |-> c, pinned |-> FALSE,
                                                      favorite |-> FALSE, deleted |-> FALSE]),
                                              Row(Some(VersionIds), Version(m, c, 1)))])

\* A new version follows only if the content differs from the one read before the UPDATE.
UpdateMemo(r, u, m, c) ==
    /\ u \in Managers
    /\ Live(m)
    /\ Begin(r, [Idle EXCEPT !.pc = "write", !.op = "update_memo", !.user = u,
                             !.data = Changed(m, [content |-> c]), !.todo = {m},
                             !.next = IF row[m].content # c THEN "version" ELSE "done"])

PinMemo(r, u, m) == u \in Managers /\ Update(r, "pin_memo", u, m, [pinned |-> TRUE])
UnpinMemo(r, u, m) == u \in Managers /\ Update(r, "unpin_memo", u, m, [pinned |-> FALSE])
FavoriteMemo(r, u, m) == u \in Managers /\ Update(r, "favorite_memo", u, m, [favorite |-> TRUE])
UnfavoriteMemo(r, u, m) ==
    u \in Managers /\ Update(r, "unfavorite_memo", u, m, [favorite |-> FALSE])

DeleteMemo(r, u, m) == u \in Managers /\ Live(m) /\ DeleteSoft(r, "delete_memo", u, m)

-----------------------------------------------------------------------------
\* Variant: the number is the one after those known before the UPDATE.
AddVersionBefore(r) ==
    /\ At(r, "write") /\ req[r].next = "version"
    /\ Fresh(VersionIds) # {}
    /\ \E m \in req[r].todo :
          Continue(r, [req[r] EXCEPT !.next = "done",
                          !.new = Row(Some(VersionIds),
                                      Version(m, req[r].data.content,
                                              Cardinality(VersionsOf(m)) + 1))])

\* len(existing_versions) + 1, counted after the UPDATE of the memo.
AddVersion(r) ==
    /\ At(r, "version")
    /\ \E m \in req[r].hold :
          IF Fresh(VersionIds) = {} THEN Abort(r)        \* bound: without an id the INSERT fails
          ELSE Continue(r, [req[r] EXCEPT !.pc = "done",
                               !.new = Row(Some(VersionIds),
                                           Version(m, req[r].data.content,
                                                   Cardinality(VersionsOf(m)) + 1))])

MemoCall(r, u) ==
    \/ \E c \in Contents : CreateMemo(r, u, c)
    \/ \E m \in MemoIds :
          \/ PinMemo(r, u, m) \/ UnpinMemo(r, u, m)
          \/ FavoriteMemo(r, u, m) \/ UnfavoriteMemo(r, u, m)
          \/ DeleteMemo(r, u, m)
          \/ \E c \in Contents : UpdateMemo(r, u, m, c)
=============================================================================
