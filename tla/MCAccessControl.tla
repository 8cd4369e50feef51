--------------------------- MODULE MCAccessControl ---------------------------
(* AccessControl on small instances: two users and a contact that is none, a   *)
(* group and room for a second one, one ordinary application, and commands    *)
(* that meet on them.                                                        *)
EXTENDS AccessControl

CONSTANTS r1, r2, r3, ann, bob, cyd, staff, temps

Symmetry == Permutations(Request)

MCFallback == ("backend" :> None) @@ ("edit.own" :> "edit.all") @@ ("edit.all" :> "edit.all")

Holding(rows) == rows @@ [row \in Row |-> None]
People == (ContactRow(ann) :> 1) @@ (ContactRow(bob) :> 1) @@ (ContactRow(cyd) :> 0)

(* Ann is the administrator, Bob alone in a group with limited access to the   *)
(* blog, where the guests hold the right the others fall back to.             *)
OneAdministrator ==
    Holding(People
        @@ (GroupRow(staff) :> 1) @@ (MemberRow(bob, staff) :> 1)
        @@ (RightRow(ann, Global, Backend) :> 1)
        @@ (RightRow(staff, "blog", Backend) :> 1)
        @@ (RightRow(Guests, "blog", "edit.all") :> 2))

(* Every user of the group is an administrator, a contact that is no user has  *)
(* been left in it, and it has a right in the control application itself.     *)
GroupOfAdministrators ==
    Holding(People
        @@ (GroupRow(staff) :> 2)
        @@ (MemberRow(ann, staff) :> 1) @@ (MemberRow(bob, staff) :> 1)
        @@ (MemberRow(cyd, staff) :> 1)
        @@ (RightRow(staff, Global, Backend) :> 1)
        @@ (RightRow(staff, Global, "edit.all") :> 1)
        @@ (RightRow(bob, "blog", Backend) :> 1))

MCDirectories == {OneAdministrator, GroupOfAdministrators}

Asked(op, fields) ==
    [op |-> op] @@ fields @@
    [actor |-> ann, group |-> None, contacts |-> {}, target |-> None,
     app |-> "blog", name |-> "backend", value |-> 0]

Aim(op, actor, target, value) ==
    Asked(op, [actor |-> actor, target |-> target, value |-> value])
Members(op, actor, contacts) ==
    Asked(op, [actor |-> actor, group |-> staff, contacts |-> contacts])

GroupCommands ==
    {Asked("create_group", [actor |-> ann]),
     Asked("update_group", [group |-> staff]),
     Asked("delete_group", [group |-> staff]),
     Members("add_member", ann, {bob}),
     Members("add_member", bob, {ann}),
     Members("remove_member", ann, {bob}),
     Members("remove_member", bob, {cyd}),
     Members("add_member", bob, {cyd}),
     Members("replace_members", ann, {ann}),
     Members("replace_members", bob, {ann, bob})}

RightCommands ==
    {Asked("assign_right", [target |-> staff, name |-> "edit.own", value |-> 1]),
     Asked("assign_right", [target |-> staff]),
     Asked("revoke_right", [target |-> staff, name |-> "edit.own"]),
     Aim("set_app_access", ann, staff, 0),
     Aim("set_app_access", ann, staff, 2),
     Aim("set_app_access", bob, Guests, 1),
     Aim("set_global_access", ann, bob, 1),
     Aim("set_global_access", bob, ann, 0),
     Aim("set_global_access", ann, cyd, 1),
     Aim("set_global_access", ann, staff, 1)}

MCCommands ==
    GroupCommands \cup RightCommands
    \cup {Asked("delete_contacts", [contacts |-> {bob}])}

(* The commands that meet on one group. *)
OneGroup ==
    {c \in MCCommands : c.group = staff \/ c.target = staff}
=============================================================================
