----------------------------- MODULE TeamDirectory -----------------------------
(***************************************************************************)
(* What the Team application lists: users and groups, to an actor who may  *)
(* not see all of them.  Operators over a directory d, the part of the     *)
(* database the two lists read:                                            *)
(*   d.user     the contacts that are there, each with is_user, whether it *)
(*              has a login, when it was last active, whether its login    *)
(*              is logged as open and its browser as idle;                 *)
(*   d.members  pairs of a contact and a group;                            *)
(*   d.groups   the groups that are there and their types;                 *)
(*   d.rights   the values of the rights that are there, by target,        *)
(*              application and name.                                      *)
(***************************************************************************)
EXTENDS Integers, FiniteSets, FiniteSetsExt

CONSTANTS
    Contact,
    Group,
    Guests,      \* the target whose rights everybody has
    AllGroups    \* the suffix "all" of a right over groups

(* Guests are nobody in particular, and "all" is the id of no group. *)
ASSUME TargetsAssumption == Guests \notin Contact \cup Group /\ AllGroups \notin Group

ControlApp == "webasyst"
TeamApp == "team"

Backend == <<"backend">>
ManageUsers(group) == <<"manage_users_in_group", group>>

(* What the tables of d hold: rights and groups are few, and each right has *)
(* one value.  A user is `active` if last_datetime is there, and `last` is *)
(* its distance in seconds from now by the clock of the list, that of the  *)
(* time zone which is configured: negative if it lies ahead.               *)
UserRow == [isUser : Int, login : BOOLEAN, active : BOOLEAN, last : Int, loggedIn : BOOLEAN, idle : BOOLEAN]

IsDirectory(d) ==
    /\ DOMAIN d = {"user", "members", "groups", "rights", "tokens"}
    /\ DOMAIN d.user \subseteq Contact
    /\ \A c \in DOMAIN d.user : d.user[c] \in UserRow
    /\ IsFiniteSet(DOMAIN d.rights)
    /\ \A r \in DOMAIN d.rights : d.rights[r] \in Int

-----------------------------------------------------------------------------
(* Rights of a list of targets. *)

GroupsIn(d, c) == {g \in Group : <<c, g>> \in d.members}

(* The rights of a caller count the guests', those of a candidate do not.  *)
ActorTargets(d, c) == {c, Guests} \cup GroupsIn(d, c)
CandidateTargets(c, groups) == {c} \cup groups

ValuesOf(d, targets, app, name) ==
    {d.rights[r] : r \in DOMAIN d.rights \cap (targets \X {app} \X {name})}

HighestOf(values) == IF values = {} THEN 0 ELSE Max(values)

AccessOf(d, targets, app) ==
    LET control == HighestOf(ValuesOf(d, targets, ControlApp, Backend))
        value == HighestOf(ValuesOf(d, targets, app, Backend))
    IN  IF control > 0 THEN "global"
        ELSE IF app = ControlApp THEN "none"
        ELSE IF value >= 2 THEN "full"
        ELSE IF value = 1 THEN "limited"
        ELSE "none"

(* effective_right of a group: its own right, or the one for all groups.   *)
MayManage(d, targets, group) ==
    LET access == AccessOf(d, targets, TeamApp)
        exact == HighestOf(ValuesOf(d, targets, TeamApp, ManageUsers(group)))
        all == HighestOf(ValuesOf(d, targets, TeamApp, ManageUsers(AllGroups)))
    IN  CASE access \in {"full", "global"} -> TRUE
          [] access = "none" -> TRUE
          [] access = "limited" -> (IF exact # 0 THEN exact ELSE all) >= 0

-----------------------------------------------------------------------------
(* SQLAlchemyTeamUserReader.list_candidates: one transaction. *)

(* _contact_rows: of some groups any user, otherwise those with a login.   *)
IsCandidate(d, groupIds, c) ==
    IF groupIds = {}
    THEN d.user[c].login /\ d.user[c].isUser = 1
    ELSE d.user[c].isUser > 0 /\ GroupsIn(d, c) \cap groupIds # {}

(* _online_statuses *)
OnlineStatus(user) ==
    IF ~user.active \/ user.last >= 300 THEN "offline"
    ELSE IF user.loggedIn /\ user.idle THEN "idle"
    ELSE "online"

Candidates(d, groupIds) ==
    {[id |-> c, groups |-> GroupsIn(d, c), status |-> OnlineStatus(d.user[c])] :
        c \in {x \in DOMAIN d.user : IsCandidate(d, groupIds, x)}}

-----------------------------------------------------------------------------
(* ListVisibleTeamUsers, once it has the candidates: a second transaction. *)

(* Fault: the lowest of several rights over a group counts. *)
HiddenGroupsLowest(d, actor, candidates) ==
    {g \in UNION {u.groups : u \in candidates} :
        LET values == ValuesOf(d, ActorTargets(d, actor), TeamApp, ManageUsers(g))
        IN  values # {} /\ Min(values) < 0}

(* _hidden_group_ids: a group is hidden by a right over that group that is *)
(* there, and negative; the right for all groups hides none.               *)
HiddenGroups(d, actor, candidates) ==
    {g \in UNION {u.groups : u \in candidates} :
        HighestOf(ValuesOf(d, ActorTargets(d, actor), TeamApp, ManageUsers(g))) < 0}

(* _is_visible_to_actor *)
VisibleTo(actor, candidate, hidden) ==
    \/ candidate.id = actor
    \/ candidate.groups = {}
    \/ ~(candidate.groups \subseteq hidden)

(* _candidate_has_access: a requirement is an application and a level. *)
HasRequired(d, candidate, requirements) ==
    \A r \in requirements :
        AccessOf(d, CandidateTargets(candidate.id, candidate.groups), r.app) \in
            (IF r.level = "limited" THEN {"limited", "full", "global"} ELSE {"full", "global"})

(* An actor without access to the application has nothing hidden. *)
ListedUsers(d, actor, candidates, requirements) ==
    LET access == AccessOf(d, ActorTargets(d, actor), TeamApp)
        hidden == IF access = "limited" THEN HiddenGroups(d, actor, candidates) ELSE {}
    IN  {u \in candidates :
            /\ access \in {"full", "global"} \/ VisibleTo(actor, u, hidden)
            /\ HasRequired(d, u, requirements)}

-----------------------------------------------------------------------------
(* ListVisibleTeamGroups: the groups of one transaction, the rights of the *)
(* next.  No type asked for is any type.                                   *)
ListedGroups(d, actor, groups, types) ==
    {g \in groups :
        /\ types = {} \/ g.type \in types
        /\ MayManage(d, ActorTargets(d, actor), g.id)}
=============================================================================
