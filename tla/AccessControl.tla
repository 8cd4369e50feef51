---------------------------- MODULE AccessControl ----------------------------
(***************************************************************************)
(* Groups, their members and the rights of users, groups and guests: the   *)
(* tables wa_contact, wa_group, wa_user_groups and wa_contact_rights, and   *)
(* the use cases that change them, each in one database transaction        *)
(* (application/access_control.py, application/contacts.py and the          *)
(* SQLAlchemy repositories).                                                *)
(*                                                                         *)
(* A table is a set of rows, and the directory db maps every possible row   *)
(* to its value, None while the row is not there.  A transaction reads the  *)
(* snapshot of its first read overlaid with its own writes; its writing     *)
(* statements act on the latest committed rows, wait for the transactions   *)
(* that have uncommitted writes on the rows they touch, and become visible  *)
(* together at the commit.                                                  *)
(***************************************************************************)
EXTENDS Integers, Sequences, FiniteSets, FiniteSetsExt, SequencesExt, TLC

CONSTANTS
    Request,     \* calls of the use cases, one transaction each
    Contact,
    Group,       \* the identifiers the group sequence hands out
    App, Name,   \* identifiers of applications and of rights
    Fallback,    \* the prefix.all right of a dotted right name, or None
    Commands,    \* what a request may ask for
    Directories, \* what the tables may hold at the start
    Guests,
    None

Global == "webasyst"
Backend == "backend"
Target == Contact \cup Group \cup {Guests}

ContactRow(c) == <<"wa_contact", c>>
GroupRow(g) == <<"wa_group", g>>
MemberRow(c, g) == <<"wa_user_groups", c, g>>
RightRow(t, a, n) == <<"wa_contact_rights", t, a, n>>

ContactRows == {ContactRow(c) : c \in Contact}
GroupRows == {GroupRow(g) : g \in Group}
MemberRows == {MemberRow(c, g) : c \in Contact, g \in Group}
RightRows == {RightRow(t, a, n) : t \in Target, a \in App, n \in Name}

Row == ContactRows \cup GroupRows \cup MemberRows \cup RightRows

\* The value of a row is is_user of a contact, cnt of a group, the value of a
\* right; a membership has no value of its own.

Command ==
    [op : {"create_group", "update_group", "delete_group", "add_member",
           "remove_member", "replace_members", "assign_right", "revoke_right",
           "set_app_access", "set_global_access", "delete_contacts"},
     actor : Contact, group : Group \cup {None}, contacts : SUBSET Contact,
     target : Target \cup {None}, app : App, name : Name, value : Nat]

ASSUME NoneAssumption ==
    /\ None \notin Int
    /\ None \notin Contact \cup Group \cup {Guests}
\* A target is kept as a number: a group as its own, a contact as its negation,
\* the guests as zero.
ASSUME TargetsAssumption == Contact \cap Group = {} /\ Guests \notin Contact \cup Group
ASSUME NamesAssumption ==
    /\ Global \in App /\ Backend \in Name
    /\ Fallback \in [Name -> (Name \ {Backend}) \cup {None}]
ASSUME CommandsAssumption ==
    /\ Commands \subseteq Command
    /\ \A c \in Commands :
          /\ c.op \in {"update_group", "delete_group", "add_member", "remove_member",
                      "replace_members"} => c.group \in Group
          /\ c.op \in {"assign_right", "revoke_right", "set_app_access",
                      "set_global_access"} => c.target \in Target
ASSUME DirectoriesAssumption == Directories \subseteq [Row -> Int \cup {None}]
ASSUME FinitenessAssumption == IsFiniteSet(Contact) /\ IsFiniteSet(Group)

VARIABLES
    db,      \* the committed rows
    issued,  \* the group identifiers handed out so far, those only memberships name included
    pc,      \* "idle", "open" while the transaction is, "done"
    cmd,     \* what the request asks for
    view,    \* the snapshot it reads
    todo,    \* the statements it has still to execute
    written, \* the rows it has written, not yet committed
    overtaken \* history: others have changed the rows it is about since it opened
vars == <<db, issued, pc, cmd, view, todo, written, overtaken>>

-----------------------------------------------------------------------------
(* What a directory d says of the subjects in it. *)

Exists(d, g) == d[GroupRow(g)] # None
IsUser(d, c) == d[ContactRow(c)] # None /\ d[ContactRow(c)] > 0
MembersOf(d, g) == {c \in Contact : d[MemberRow(c, g)] # None}
GroupsOf(d, c) == {g \in Group : d[MemberRow(c, g)] # None}
UsersIn(d, g) == {c \in MembersOf(d, g) : IsUser(d, c)}

(* The targets whose rights a subject has, and the highest of their values. *)
Targets(d, c) == {c, Guests} \cup GroupsOf(d, c)

Highest(d, c, a, n) ==
    LET values == {d[RightRow(t, a, n)] : t \in Targets(d, c)} \ {None}
    IN  IF values = {} THEN 0 ELSE Max(values)

GlobalValue(d, c) == Highest(d, c, Global, Backend)
AppValue(d, c, a) == Highest(d, c, a, Backend)

AppAccess(d, c, a) ==
    IF GlobalValue(d, c) > 0 THEN "global"
    ELSE IF a = Global THEN "none"
    ELSE IF AppValue(d, c, a) >= 2 THEN "full"
    ELSE IF AppValue(d, c, a) = 1 THEN "limited"
    ELSE "none"

IsAdmin(d, c) == IsUser(d, c) /\ AppAccess(d, c, Global) = "global"

Unlimited == [unlimited |-> TRUE, value |-> 0]
Finite(v) == [unlimited |-> FALSE, value |-> v]

EffectiveRight(d, c, a, n) ==
    LET exact == Highest(d, c, a, n) IN
    IF (a # Global /\ GlobalValue(d, c) > 0) \/ AppValue(d, c, a) >= 2 THEN Unlimited
    ELSE IF AppValue(d, c, a) <= 0 THEN Finite(0)
    ELSE IF exact # 0 \/ Fallback[n] = None THEN Finite(exact)
    ELSE Finite(Highest(d, c, a, Fallback[n]))

(* The names that have a row for the subject, with what each comes to. *)
NamedRights(d, c, a) ==
    [n \in {n \in Name \ {Backend} : \E t \in Targets(d, c) : d[RightRow(t, a, n)] # None}
        |-> EffectiveRight(d, c, a, n).value]

(* Fault: The snapshot forgets that the control application is no ordinary one. *)
RightsSnapshotUnclassified(d, c, a) ==
    IF GlobalValue(d, c) > 0 \/ AppValue(d, c, a) >= 2
    THEN [unlimited |-> TRUE, names |-> <<>>]
    ELSE [unlimited |-> FALSE, names |-> NamedRights(d, c, a)]

RightsSnapshot(d, c, a) ==
    IF \/ a # Global /\ GlobalValue(d, c) > 0
       \/ AppValue(d, c, a) >= 2
    THEN [unlimited |-> TRUE, names |-> <<>>]
    ELSE [unlimited |-> FALSE, names |-> NamedRights(d, c, a)]

-----------------------------------------------------------------------------
(* Statements, and the rows a statement meets. *)

Delete(rows) == [do |-> "delete", rows |-> rows, value |-> 0]
Insert(row) == [do |-> "insert", rows |-> {row}, value |-> 1]
Upsert(row, v) == [do |-> "upsert", rows |-> {row}, value |-> v]
Recount(g) == [do |-> "recount", rows |-> {GroupRow(g)}, value |-> 0]
Touch(g) == [do |-> "touch", rows |-> {GroupRow(g)}, value |-> 0]
Create == [do |-> "create", rows |-> {}, value |-> 0]

\* One statement for each row of the set, in a fixed order.
Each(rows, Make(_)) == LET s == SetToSeq(rows) IN [i \in DOMAIN s |-> Make(s[i])]

RightsOf(targets) == {RightRow(t, a, n) : t \in targets, a \in App, n \in Name}
AppRightsOf(t, a) == {RightRow(t, a, n) : n \in Name}

\* The member rows to delete and to insert when wanted replaces the members.
Delta(d, g, wanted) ==
       Each({MemberRow(c, g) : c \in MembersOf(d, g) \ wanted}, LAMBDA row : Delete({row}))
    \o Each({MemberRow(c, g) : c \in wanted \ MembersOf(d, g)}, Insert)

\* Rows of one kind laid over others, and the value of a single row.
Over(rows, others) ==
    [row \in DOMAIN rows \cup DOMAIN others |->
        IF row \in DOMAIN rows THEN rows[row] ELSE others[row]]
Single(row, v) == [x \in {row} |-> v]

Latest(r) == Over(written[r], db)
Own(r) == Over(written[r], view[r])
Free(r, rows) == \A o \in Request \ {r} : DOMAIN written[o] \cap rows = {}

Init ==
    /\ db \in Directories
    /\ issued = {g \in Group : Exists(db, g) \/ MembersOf(db, g) # {}}
    /\ pc = [r \in Request |-> "idle"]
    /\ cmd = [r \in Request |-> None]
    /\ view = [r \in Request |-> <<>>]
    /\ todo = [r \in Request |-> <<>>]
    /\ written = [r \in Request |-> <<>>]
    /\ overtaken = [r \in Request |-> FALSE]

-----------------------------------------------------------------------------
(* A request opens its transaction with the reads that decide what it will   *)
(* write: the actor's standing, the target, the rows to change.  A refusal,   *)
(* or nothing to change, closes the transaction without a write.             *)

Close(r) ==
    /\ pc' = [pc EXCEPT ![r] = "done"]
    /\ cmd' = [cmd EXCEPT ![r] = None]
    /\ view' = [view EXCEPT ![r] = <<>>]
    /\ todo' = [todo EXCEPT ![r] = <<>>]
    /\ written' = [written EXCEPT ![r] = <<>>]

Open(r, c, statements) ==
    /\ pc' = [pc EXCEPT ![r] = "open"]
    /\ cmd' = [cmd EXCEPT ![r] = c]
    /\ view' = [view EXCEPT ![r] = db]
    /\ todo' = [todo EXCEPT ![r] = statements]
    /\ UNCHANGED <<db, issued, written, overtaken>>

Refuse(r) == Close(r) /\ UNCHANGED <<db, issued, overtaken>>

(* Fault: Any user may administer. *)
AuthorizedAnyUser(c) == IsUser(db, c.actor)

Authorized(c) == IsAdmin(db, c.actor)

Administer(r, c, valid, statements) ==
    \/ Authorized(c) /\ valid /\ Open(r, c, statements)
    \/ ~(Authorized(c) /\ valid) /\ Refuse(r)

Valid(t) ==
    \/ t = Guests
    \/ t \in Contact /\ IsUser(db, t)
    \/ t \in Group /\ Exists(db, t)

Asks(r, c, op) == pc[r] = "idle" /\ c.op = op

CreateGroup(r, c) ==
    /\ Asks(r, c, "create_group")
    /\ Administer(r, c, TRUE, <<Create>>)

UpdateGroup(r, c) ==
    /\ Asks(r, c, "update_group")
    /\ Administer(r, c, Exists(db, c.group), <<Touch(c.group)>>)

DeleteGroup(r, c) ==
    /\ Asks(r, c, "delete_group")
    /\ Administer(r, c, Exists(db, c.group),
           Delta(db, c.group, {})
           \o <<Delete(RightsOf({c.group})), Delete({GroupRow(c.group)})>>)

AddGroupMember(r, c) ==
    /\ Asks(r, c, "add_member")
    /\ \E m \in c.contacts :
           Administer(r, c,
               Exists(db, c.group) /\ IsUser(db, m) /\ db[MemberRow(m, c.group)] = None,
               <<Insert(MemberRow(m, c.group)), Recount(c.group)>>)

RemoveGroupMember(r, c) ==
    /\ Asks(r, c, "remove_member")
    /\ \E m \in c.contacts :
           Administer(r, c,
               Exists(db, c.group) /\ db[MemberRow(m, c.group)] # None,
               <<Delete({MemberRow(m, c.group)}), Recount(c.group)>>)

ReplaceGroupMembers(r, c) ==
    /\ Asks(r, c, "replace_members")
    /\ Administer(r, c,
           Exists(db, c.group) /\ \A m \in c.contacts : IsUser(db, m),
           Append(Delta(db, c.group, c.contacts), Recount(c.group)))

AssignRight(r, c) ==
    /\ Asks(r, c, "assign_right")
    /\ Administer(r, c,
           Valid(c.target) /\ c.name # Backend /\ c.value # 0,
           <<Upsert(RightRow(c.target, c.app, c.name), c.value)>>)

RevokeRight(r, c) ==
    /\ Asks(r, c, "revoke_right")
    /\ LET row == RightRow(c.target, c.app, c.name)
       IN  Administer(r, c,
               Valid(c.target) /\ c.name # Backend /\ db[row] # None,
               <<Delete({row})>>)

\* value: 0 no access, 1 limited, 2 full
SetAppAccess(r, c) ==
    /\ Asks(r, c, "set_app_access")
    /\ LET clear == Delete(AppRightsOf(c.target, c.app))
           set == Upsert(RightRow(c.target, c.app, Backend), c.value)
       IN  Administer(r, c,
               Valid(c.target) /\ c.app # Global,
               IF c.value = 0 THEN <<clear>>
               ELSE IF c.value = 1 THEN <<set>> ELSE <<clear, set>>)

\* value: 0 disabled, 1 enabled
SetGlobalAdminAccess(r, c) ==
    /\ Asks(r, c, "set_global_access")
    /\ LET clear == Delete(RightsOf({c.target}))
           set == Upsert(RightRow(c.target, Global, Backend), 1)
       IN  Administer(r, c,
               Valid(c.target),
               IF c.value = 0 THEN <<clear>> ELSE <<clear, set>>)

\* The deletion asks for no actor; the tables the directory leaves out are
\* cleared by statements of the same transaction.
DeleteContacts(r, c) ==
    /\ Asks(r, c, "delete_contacts")
    /\ Open(r, c,
           << Delete(RightsOf(c.contacts)),
              Delete({MemberRow(m, g) : m \in c.contacts, g \in Group}),
              Delete({ContactRow(m) : m \in c.contacts}) >>)

-----------------------------------------------------------------------------
(* The statements of an open transaction, in their order. *)

Faces(r, do) == pc[r] = "open" /\ todo[r] # <<>> /\ Head(todo[r]).do = do
Rows(r) == Head(todo[r]).rows
TheRow(r) == CHOOSE row \in Rows(r) : TRUE

Wrote(r, writes) ==
    /\ written' = [written EXCEPT ![r] = Over(writes, @)]
    /\ todo' = [todo EXCEPT ![r] = Tail(@)]
    /\ UNCHANGED <<db, issued, pc, cmd, view, overtaken>>

\* An exception: the unit of work rolls back, the request fails.
Fail(r) == Close(r) /\ overtaken' = [overtaken EXCEPT ![r] = FALSE] /\ UNCHANGED <<db, issued>>

DeleteRows(r) ==
    /\ Faces(r, "delete")
    /\ Free(r, Rows(r))
    /\ Wrote(r, [row \in {row \in Rows(r) : Latest(r)[row] # None} |-> None])

\* The insert of a row that is there breaks the primary key.
InsertRow(r) ==
    /\ Faces(r, "insert")
    /\ Free(r, Rows(r))
    /\ \/ Latest(r)[TheRow(r)] = None /\ Wrote(r, Single(TheRow(r), 1))
       \/ Latest(r)[TheRow(r)] # None /\ Fail(r)

\* What the session reads decides between an insert, an update and nothing;
\* an insert may meet a row, an update may miss one, and both are errors.
UpsertRow(r) ==
    /\ Faces(r, "upsert")
    /\ LET row == TheRow(r)
           v == Head(todo[r]).value
           seen == Own(r)[row]
       IN  \/ seen = v /\ Wrote(r, <<>>)
           \/ /\ seen # v
              /\ Free(r, Rows(r))
              /\ \/ (Latest(r)[row] = None) = (seen = None) /\ Wrote(r, Single(row, v))
                 \/ (Latest(r)[row] = None) # (seen = None) /\ Fail(r)

(* Fault: The count is read before the session has flushed the change. *)
RecountGroupUnflushed(r) ==
    /\ Faces(r, "recount")
    /\ Free(r, Rows(r))
    /\ LET row == TheRow(r)
       IN  \/ Latest(r)[row] = None /\ Wrote(r, <<>>)
           \/ Latest(r)[row] # None /\ Wrote(r, Single(row, Cardinality(UsersIn(view[r], row[2]))))

\* The count is read from the snapshot and the transaction's own rows; the
\* update of a group that is gone changes no row, and that is no error.
RecountGroup(r) ==
    /\ Faces(r, "recount")
    /\ Free(r, Rows(r))
    /\ LET row == TheRow(r)
       IN  \/ Latest(r)[row] = None /\ Wrote(r, <<>>)
           \/ Latest(r)[row] # None /\ Wrote(r, Single(row, Cardinality(UsersIn(Own(r), row[2]))))

\* Name, icon, type or order change: the row is written, its count is not.
TouchGroup(r) ==
    /\ Faces(r, "touch")
    /\ Free(r, Rows(r))
    /\ LET row == TheRow(r)
       IN  \/ Latest(r)[row] = None /\ Fail(r)
           \/ Latest(r)[row] # None /\ Wrote(r, Single(row, Latest(r)[row]))

\* The sequence never hands out an identifier twice, rolled back or not.
CreateRow(r) ==
    /\ Faces(r, "create")
    /\ \/ \E g \in Group \ issued :
              /\ issued' = issued \cup {g}
              /\ written' = [written EXCEPT ![r] = Over(Single(GroupRow(g), 0), @)]
              /\ todo' = [todo EXCEPT ![r] = Tail(@)]
              /\ UNCHANGED <<db, pc, cmd, view, overtaken>>
       \/ Group \subseteq issued /\ Fail(r)

(* The rows that bear on what a command does: all contacts, and the groups,    *)
(* memberships and rights of the subjects it names.                           *)
Footprint(c) ==
    LET subjects == c.contacts \cup {c.group, c.target}
    IN  ContactRows \cup {row \in Row \ ContactRows : row[2] \in subjects}
        \cup {row \in MemberRows : row[3] \in subjects}
Overtakes(r, o) ==
    pc[o] = "open" /\ DOMAIN written[r] \cap Footprint(cmd[o]) # {}

\* The rows as they are once the transaction of r has been committed.
Applied(r) == Over(written[r], db)

Commit(r) ==
    /\ pc[r] = "open" /\ todo[r] = <<>>
    /\ db' = Applied(r)
    /\ Close(r)
    /\ overtaken' =
           [o \in Request |->
               o # r /\ (overtaken[o] \/ Overtakes(r, o))]
    /\ UNCHANGED issued

\* A lost connection, a restart, or the victim of a lock cycle.
RollBack(r) == pc[r] = "open" /\ Fail(r)

Ask(r, c) ==
    \/ CreateGroup(r, c)
    \/ UpdateGroup(r, c)
    \/ DeleteGroup(r, c)
    \/ AddGroupMember(r, c)
    \/ RemoveGroupMember(r, c)
    \/ ReplaceGroupMembers(r, c)
    \/ AssignRight(r, c)
    \/ RevokeRight(r, c)
    \/ SetAppAccess(r, c)
    \/ SetGlobalAdminAccess(r, c)
    \/ DeleteContacts(r, c)

Next ==
    \E r \in Request :
        \/ \E c \in Commands : Ask(r, c)
        \/ DeleteRows(r)
        \/ InsertRow(r)
        \/ UpsertRow(r)
        \/ RecountGroup(r)
        \/ TouchGroup(r)
        \/ CreateRow(r)
        \/ Commit(r)
        \/ RollBack(r)

Spec == Init /\ [][Next]_vars

-----------------------------------------------------------------------------
(* Properties *)

(* Rows whose contact or group is gone, and groups whose count is not the     *)
(* number of their members that are users.                                    *)
Gone(d, t) ==
    \/ t \in Contact /\ d[ContactRow(t)] = None
    \/ t \in Group /\ ~Exists(d, t)
Orphans(d) ==
    {row \in MemberRows \cup RightRows :
        /\ d[row] # None
        /\ \/ Gone(d, row[2])
           \/ row \in MemberRows /\ Gone(d, row[3])}
Miscounted(d) ==
    {g \in Group : Exists(d, g) /\ d[GroupRow(g)] # Cardinality(UsersIn(d, g))}

Closes(r) == pc[r] = "open" /\ pc'[r] = "done"

(* A transaction leaves no membership or right without its owner and no group *)
(* miscounted that was not so before, provided nobody changed the rows it is   *)
(* about between its first read and its commit.  A contact deletion is         *)
(* excepted from the counts: delete_batch removes memberships and recounts no  *)
(* group.  (Each use case is a read, a write and a recount over three tables.) *)
UndisturbedKeepsWhole ==
    [][\A r \in Request : Closes(r) /\ ~overtaken[r] =>
           /\ Orphans(db') \subseteq Orphans(db)
           /\ cmd[r].op # "delete_contacts" => Miscounted(db') \subseteq Miscounted(db)]_vars

Level(d, c, a) ==
    LET access == AppAccess(d, c, a)
    IN  CHOOSE i \in 0..3 : access = <<"none", "limited", "full", "global">>[i + 1]

(* Whoever gains access to an application gains it from a transaction of an    *)
(* administrator, as its snapshot has him, that puts him into a group or gives *)
(* a right to him, to one of his groups or to the guests.  No removal, and no   *)
(* clearing of rights on the way to new ones, opens an application to anybody. *)
AccessIsGranted ==
    [][\A c \in Contact, a \in App : Level(db', c, a) > Level(db, c, a) =>
           \E r \in Request :
               /\ Closes(r)
               /\ IsAdmin(view[r], cmd[r].actor)
               /\ \/ cmd[r].op \in {"add_member", "replace_members"} /\ c \in cmd[r].contacts
                  \/ /\ cmd[r].op \in {"set_app_access", "set_global_access"}
                     /\ cmd[r].value > 0
                     /\ cmd[r].target \in Targets(db', c)]_vars

(* The snapshot of a user's rights in an application and the single questions  *)
(* about them agree: the snapshot is unlimited exactly if every right is, and  *)
(* otherwise every right that is not zero can be read from it, by its name or  *)
(* by the name it falls back to, and nothing in it is more than the right is.  *)
SnapshotTellsRights ==
    \A c \in Contact, a \in App :
        LET told == RightsSnapshot(db, c, a)
            Told(n) == IF n \in DOMAIN told.names THEN told.names[n] ELSE 0
        IN  \A n \in Name \ {Backend} :
                LET right == EffectiveRight(db, c, a, n) IN
                /\ right.unlimited = told.unlimited
                /\ ~right.unlimited =>
                       \/ right.value = Told(n)
                       \/ /\ Fallback[n] # None
                          /\ right.value = Told(Fallback[n])

(* Deleting a group prevents orphan ACL state: no right and no membership of a *)
(* group outlives it.                                                         *)
NoOrphanOfGroup ==
    \A row \in MemberRows \cup RightRows :
        db[row] # None =>
            /\ row[2] \in Group => Exists(db, row[2])
            /\ row \in MemberRows => Exists(db, row[3])

=============================================================================
