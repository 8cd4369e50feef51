------------------------ MODULE WebasystProcessProofs ------------------------
(***************************************************************************)
(* Proofs about calls of the API, events and requests in a whole process:  *)
(* whatever the files say, whatever modules are linked, whatever the       *)
(* tables hold and however they change while a call is under way, whatever *)
(* the handlers of events do, and whatever routes and addresses there are. *)
(***************************************************************************)
EXTENDS RuntimeLinkerProofs

-----------------------------------------------------------------------------
(* What others do to the database leaves it well formed; contacts only go, *)
(* and nobody's last activity changes.                                     *)

Fewer(d, e) ==
    /\ DOMAIN e.user \subseteq DOMAIN d.user
    /\ \A c \in DOMAIN e.user : e.user[c].active = d.user[c].active /\ e.user[c].last = d.user[c].last

LEMMA UsersKept ==
    ASSUME NEW d, IsDirectory(d), NEW e, DOMAIN e = DOMAIN d, e.user = d.user,
           IsFiniteSet(DOMAIN e.rights), \A r \in DOMAIN e.rights : e.rights[r] \in Int
    PROVE  IsDirectory(e) /\ Fewer(d, e)
BY DEF IsDirectory, Fewer

LEMMA RightsWithout ==
    ASSUME NEW rights, IsFiniteSet(DOMAIN rights), \A r \in DOMAIN rights : rights[r] \in Int, NEW gone
    PROVE  /\ IsFiniteSet(DOMAIN WithoutRows(rights, gone))
           /\ \A r \in DOMAIN WithoutRows(rights, gone) : WithoutRows(rights, gone)[r] \in Int
<1>1. DOMAIN WithoutRows(rights, gone) = DOMAIN rights \ gone
  BY DEF WithoutRows
<1>2. IsFiniteSet(DOMAIN rights \ gone)
  BY FS_Difference
<1>3. QED
  BY <1>1, <1>2 DEF WithoutRows

LEMMA RightsWith ==
    ASSUME NEW rights, IsFiniteSet(DOMAIN rights), \A r \in DOMAIN rights : rights[r] \in Int,
           NEW right, NEW value \in Int
    PROVE  /\ IsFiniteSet(DOMAIN WithRow(rights, right, value))
           /\ \A r \in DOMAIN WithRow(rights, right, value) : WithRow(rights, right, value)[r] \in Int
<1>1. DOMAIN WithRow(rights, right, value) = DOMAIN rights \cup {right}
  BY DEF WithRow
<1>2. IsFiniteSet(DOMAIN rights \cup {right})
  BY FS_AddElement
<1>3. QED
  BY <1>1, <1>2 DEF WithRow

LEMMA ChangedKeeps ==
    ASSUME NEW d, IsDirectory(d), NEW change \in Change, Applies(d, change)
    PROVE  IsDirectory(Changed(d, change)) /\ Fewer(d, Changed(d, change))
<1>1. /\ change.op \in {"revoke", "right", "leave", "join", "bar", "delete"}
      /\ change.op = "right" => change.value \in Int
  BY CallAssumption
<1>2. IsFiniteSet(DOMAIN d.rights) /\ \A r \in DOMAIN d.rights : d.rights[r] \in Int
  BY DEF IsDirectory
<1>3. DOMAIN d = {"user", "members", "groups", "rights", "tokens"}
  BY DEF IsDirectory
<1>4. CASE change.op = "revoke"
  <2>1. Changed(d, change) = [d EXCEPT !.tokens = WithoutRows(@, {change.token})]
    BY <1>4 DEF Changed
  <2>2. QED
    BY <1>2, <1>3, <2>1, UsersKept
<1>5. CASE change.op = "right"
  <2>1. Changed(d, change) =
          [d EXCEPT !.rights = IF change.value = 0 THEN WithoutRows(@, {change.right})
                               ELSE WithRow(@, change.right, change.value)]
    BY <1>5 DEF Changed
  <2>2. QED
    BY <1>1, <1>2, <1>3, <1>5, <2>1, UsersKept, RightsWithout, RightsWith
<1>6. CASE change.op = "leave"
  <2>1. Changed(d, change) = [d EXCEPT !.members = @ \ {change.member}]
    BY <1>6 DEF Changed
  <2>2. QED
    BY <1>2, <1>3, <2>1, UsersKept
<1>7. CASE change.op = "join"
  <2>1. Changed(d, change) = [d EXCEPT !.members = @ \cup {change.member}]
    BY <1>7 DEF Changed
  <2>2. QED
    BY <1>2, <1>3, <2>1, UsersKept
<1>8. CASE change.op = "bar"
  <2>1. Changed(d, change) = [d EXCEPT !.user[change.contact].isUser = -1]
    BY <1>8 DEF Changed
  <2>2. PICK e : e = [d EXCEPT !.user[change.contact].isUser = -1]
    OBVIOUS
  <2>3. DOMAIN e = DOMAIN d /\ e.rights = d.rights /\ e.user = [d.user EXCEPT ![change.contact].isUser = -1]
    BY <1>3, <2>2
  <2>4. QED
    BY <1>2, <1>3, <2>1, <2>2, <2>3 DEF IsDirectory, Fewer, UserRow
<1>9. CASE change.op = "delete"
  <2>1. PICK e : e = Changed(d, change)
    OBVIOUS
  <2>2. /\ DOMAIN e = DOMAIN d
        /\ e.user = WithoutRows(d.user, {change.contact})
        /\ e.rights = WithoutRows(d.rights, {r \in DOMAIN d.rights : r[1] = change.contact})
    BY <1>3, <1>9, <2>1 DEF Changed
  <2>3. IsFiniteSet(DOMAIN e.rights) /\ \A r \in DOMAIN e.rights : e.rights[r] \in Int
    BY <1>2, <2>2, RightsWithout
  <2>4. /\ DOMAIN e.user \subseteq DOMAIN d.user
        /\ \A c \in DOMAIN e.user : e.user[c] = d.user[c]
    BY <2>2 DEF WithoutRows
  <2>5. QED
    BY <1>3, <2>1, <2>2, <2>3, <2>4 DEF IsDirectory, Fewer
<1>10. QED
  BY <1>1, <1>4, <1>5, <1>6, <1>7, <1>8, <1>9

-----------------------------------------------------------------------------
(* The rights of a directory, and what a list shows by them.               *)

LEMMA HighestIsNumber ==
    ASSUME NEW d, IsDirectory(d), NEW targets, NEW app, NEW name
    PROVE  HighestOf(ValuesOf(d, targets, app, name)) \in Int
<1> DEFINE rows == DOMAIN d.rights \cap (targets \X {app} \X {name})
           values == {d.rights[r] : r \in rows}
           f == [r \in rows |-> d.rights[r]]
<1>1. IsFiniteSet(rows)
  BY FS_Subset, FS_Intersection DEF IsDirectory
<1>2. f \in Surjection(rows, values)
  BY DEF Surjection
<1>3. values \in SUBSET Int
  BY DEF IsDirectory
<1>4. ValuesOf(d, targets, app, name) = values
  BY DEF ValuesOf
<1> HIDE DEF rows, values, f
<1>5. IsFiniteSet(values)
  BY <1>1, <1>2, FS_Surjection
<1>6. values # {} => Max(values) \in Int
  BY <1>3, <1>5, MaxOfFinite
<1>7. QED
  BY <1>4, <1>6 DEF HighestOf

(* Rights over groups have no part in access to an application. *)
WithoutAll(d) ==
    [d EXCEPT !.rights = WithoutRows(@, {r \in DOMAIN @ : r[3] = ManageUsers(AllGroups)})]

LEMMA WithoutAllGroups ==
    ASSUME NEW d, IsDirectory(d), NEW targets
    PROVE  /\ \A app : ValuesOf(WithoutAll(d), targets, app, Backend) = ValuesOf(d, targets, app, Backend)
           /\ \A g \in Group : ValuesOf(WithoutAll(d), targets, TeamApp, ManageUsers(g)) =
                               ValuesOf(d, targets, TeamApp, ManageUsers(g))
           /\ ValuesOf(WithoutAll(d), targets, TeamApp, ManageUsers(AllGroups)) = {}
<1> DEFINE own == WithoutAll(d)
<1>1. own.rights = [r \in {x \in DOMAIN d.rights : x[3] # ManageUsers(AllGroups)} |-> d.rights[r]]
  BY DEF WithoutAll, WithoutRows, IsDirectory
<1> HIDE DEF own
<1>2. ASSUME NEW app, NEW name, name # ManageUsers(AllGroups)
      PROVE  ValuesOf(own, targets, app, name) = ValuesOf(d, targets, app, name)
  <2>1. DOMAIN own.rights \cap (targets \X {app} \X {name}) = DOMAIN d.rights \cap (targets \X {app} \X {name})
    BY <1>1, <1>2
  <2>2. PICK rows : rows = DOMAIN d.rights \cap (targets \X {app} \X {name})
    OBVIOUS
  <2>3. \A r \in rows : own.rights[r] = d.rights[r]
    <3>1. \A r \in rows : r \in DOMAIN own.rights
      BY <2>1, <2>2
    <3>2. QED
      BY <1>1, <3>1
  <2>4. {own.rights[r] : r \in rows} = {d.rights[r] : r \in rows}
    BY <2>3
  <2>5. QED
    BY <2>1, <2>2, <2>4 DEF ValuesOf
<1>3. Backend # ManageUsers(AllGroups)
  BY DEF Backend, ManageUsers
<1>4. \A g \in Group : ManageUsers(g) # ManageUsers(AllGroups)
  BY TargetsAssumption DEF ManageUsers
<1>5. ValuesOf(own, targets, TeamApp, ManageUsers(AllGroups)) = {}
  BY <1>1 DEF ValuesOf
<1>6. QED
  BY <1>2, <1>3, <1>4, <1>5 DEF own

LEMMA KeptFromIs ==
    ASSUME NEW d, IsDirectory(d), NEW actor, NEW g \in Group,
           AccessOf(d, ActorTargets(d, actor), TeamApp) = "limited"
    PROVE  KeptFrom(d, actor, g) <=>
              HighestOf(ValuesOf(d, ActorTargets(d, actor), TeamApp, ManageUsers(g))) < 0
<1>1. PICK own : own = WithoutAll(d)
  OBVIOUS
<1>2. PICK targets : targets = ActorTargets(d, actor)
  OBVIOUS
<1>3. AccessOf(own, targets, TeamApp) = "limited"
  BY <1>1, <1>2, WithoutAllGroups DEF AccessOf
<1>4. /\ \A h \in Group :
            ValuesOf(own, targets, TeamApp, ManageUsers(h)) = ValuesOf(d, targets, TeamApp, ManageUsers(h))
      /\ ValuesOf(own, targets, TeamApp, ManageUsers(AllGroups)) = {}
  BY <1>1, WithoutAllGroups
<1>5. PICK exact \in Int :
          /\ exact = HighestOf(ValuesOf(d, targets, TeamApp, ManageUsers(g)))
          /\ HighestOf(ValuesOf(own, targets, TeamApp, ManageUsers(g))) = exact
          /\ HighestOf(ValuesOf(own, targets, TeamApp, ManageUsers(AllGroups))) = 0
  <2>1. HighestOf({}) = 0
    BY DEF HighestOf
  <2>2. QED
    BY <1>4, <2>1, HighestIsNumber
<1>6. MayManage(own, targets, g) <=> (IF exact # 0 THEN exact ELSE 0) >= 0
  BY <1>3, <1>5 DEF MayManage
<1>7. KeptFrom(d, actor, g) <=> ~MayManage(own, targets, g)
  BY <1>1, <1>2 DEF KeptFrom, WithoutAll
<1>8. QED
  BY <1>2, <1>5, <1>6, <1>7

(* The guests' rights are not among those of a contact and its groups. *)
LEMMA WithoutGuestsIs ==
    ASSUME NEW e, IsDirectory(e), NEW d, NEW c \in Contact, NEW app
    PROVE  AccessOf(WithoutGuests(e), ActorTargets(d, c), app) =
           AccessOf(e, CandidateTargets(c, GroupsIn(d, c)), app)
<1>1. PICK own : own = WithoutGuests(e)
  OBVIOUS
<1>2. PICK with : with = ActorTargets(d, c)
  OBVIOUS
<1>3. PICK targets : targets = CandidateTargets(c, GroupsIn(d, c))
  OBVIOUS
<1>4. own.rights = [r \in {x \in DOMAIN e.rights : x[1] # Guests} |-> e.rights[r]]
  BY <1>1 DEF WithoutGuests, WithoutRows, IsDirectory
<1>5. with = targets \cup {Guests} /\ Guests \notin targets
  BY <1>2, <1>3, TargetsAssumption DEF ActorTargets, CandidateTargets, GroupsIn
<1>6. ASSUME NEW a, NEW name
      PROVE  ValuesOf(own, with, a, name) = ValuesOf(e, targets, a, name)
  <2>1. DOMAIN own.rights \cap (with \X {a} \X {name}) = DOMAIN e.rights \cap (targets \X {a} \X {name})
    BY <1>4, <1>5
  <2>2. PICK rows : rows = DOMAIN e.rights \cap (targets \X {a} \X {name})
    OBVIOUS
  <2>3. \A r \in rows : own.rights[r] = e.rights[r]
    <3>1. \A r \in rows : r \in DOMAIN own.rights
      BY <2>1, <2>2
    <3>2. QED
      BY <1>4, <3>1
  <2>4. {own.rights[r] : r \in rows} = {e.rights[r] : r \in rows}
    BY <2>3
  <2>5. QED
    BY <2>1, <2>2, <2>4 DEF ValuesOf
<1>7. AccessOf(own, with, app) = AccessOf(e, targets, app)
  BY <1>6 DEF AccessOf
<1>8. QED
  BY <1>1, <1>2, <1>3, <1>7

(* What a list of users must be, of the state d by the rights of e.        *)
MaySee(d, e, actor, c) ==
    LET access == AccessOf(e, ActorTargets(e, actor), TeamApp)
    IN  \/ access # "limited" \/ c = actor
        \/ GroupsIn(d, c) = {}
        \/ \E g \in GroupsIn(d, c) : ~KeptFrom(e, actor, g)

Satisfying(d, e, requirements, installed, c) ==
    \A r \in requirements :
        /\ r.app \in installed
        /\ AccessOf(WithoutGuests(e), ActorTargets(d, c), r.app) \in
              {"full", "global"} \cup {l \in {"limited"} : r.level = l}

RightList(users, d, e, actor, groupIds, requirements, installed) ==
    {u.id : u \in users} =
        {c \in DOMAIN d.user : /\ IsCandidate(d, groupIds, c)
                               /\ MaySee(d, e, actor, c)
                               /\ Satisfying(d, e, requirements, installed, c)}

LEMMA ListedIsRight ==
    ASSUME NEW d, IsDirectory(d), NEW e, IsDirectory(e), NEW actor, NEW groupIds, NEW requirements,
           NEW installed, {r.app : r \in requirements} \subseteq installed
    PROVE  RightList(ListedUsers(e, actor, Candidates(d, groupIds), requirements),
                     d, e, actor, groupIds, requirements, installed)
<1> DEFINE access == AccessOf(e, ActorTargets(e, actor), TeamApp)
           candidates == Candidates(d, groupIds)
           hidden == IF access = "limited" THEN HiddenGroups(e, actor, candidates) ELSE {}
           Row(c) == [id |-> c, groups |-> GroupsIn(d, c), status |-> OnlineStatus(d.user[c])]
           fit == {c \in DOMAIN d.user : IsCandidate(d, groupIds, c)}
           listed == ListedUsers(e, actor, candidates, requirements)
<1>1. candidates = {Row(c) : c \in fit}
  BY DEF Candidates
<1>2. access \in {"global", "none", "full", "limited"}
  BY DEF AccessOf
<1>3. listed = {u \in candidates : /\ access \in {"full", "global"} \/ VisibleTo(actor, u, hidden)
                                   /\ HasRequired(e, u, requirements)}
  BY DEF ListedUsers
<1>4. ASSUME NEW c \in fit
      PROVE  (access \in {"full", "global"} \/ VisibleTo(actor, Row(c), hidden)) <=> MaySee(d, e, actor, c)
  <2>1. VisibleTo(actor, Row(c), hidden) <=> \/ c = actor
                                             \/ GroupsIn(d, c) = {}
                                             \/ \E g \in GroupsIn(d, c) : g \notin hidden
    BY DEF VisibleTo
  <2>2. CASE access = "limited"
    <3>1. ASSUME NEW g \in GroupsIn(d, c)
          PROVE  g \notin hidden <=> ~KeptFrom(e, actor, g)
      <4>1. g \in UNION {u.groups : u \in candidates}
        <5>1. Row(c) \in candidates /\ Row(c).groups = GroupsIn(d, c)
          BY <1>1
        <5>2. QED
          BY <5>1
      <4>2. g \in hidden <=> HighestOf(ValuesOf(e, ActorTargets(e, actor), TeamApp, ManageUsers(g))) < 0
        BY <2>2, <4>1 DEF HiddenGroups
      <4>3. g \in Group
        BY DEF GroupsIn
      <4>4. QED
        BY <2>2, <4>2, <4>3, KeptFromIs
    <3>2. QED
      BY <2>1, <2>2, <3>1 DEF MaySee
  <2>3. CASE access # "limited"
    BY <1>2, <2>1, <2>3 DEF MaySee
  <2>4. QED
    BY <2>2, <2>3
<1>5. ASSUME NEW c \in fit
      PROVE  HasRequired(e, Row(c), requirements) <=> Satisfying(d, e, requirements, installed, c)
  <2>1. c \in Contact
    BY DEF IsDirectory
  <2>2. ASSUME NEW r \in requirements
        PROVE  /\ r.app \in installed
               /\ AccessOf(e, CandidateTargets(c, GroupsIn(d, c)), r.app) =
                  AccessOf(WithoutGuests(e), ActorTargets(d, c), r.app)
    BY <2>1, WithoutGuestsIs
  <2>3. HasRequired(e, Row(c), requirements) <=>
          \A r \in requirements :
              AccessOf(e, CandidateTargets(c, GroupsIn(d, c)), r.app) \in
                  (IF r.level = "limited" THEN {"limited", "full", "global"} ELSE {"full", "global"})
    BY DEF HasRequired
  <2>4. \A r \in requirements :
          (IF r.level = "limited" THEN {"limited", "full", "global"} ELSE {"full", "global"}) =
          {"full", "global"} \cup {l \in {"limited"} : r.level = l}
    OBVIOUS
  <2>5. QED
    BY <2>2, <2>3, <2>4 DEF Satisfying
<1>6. \A c \in fit : Row(c).id = c
  OBVIOUS
<1> HIDE DEF access, candidates, hidden, Row, fit, listed
<1>7. {u.id : u \in listed} = {c \in fit : MaySee(d, e, actor, c) /\ Satisfying(d, e, requirements, installed, c)}
  BY <1>1, <1>3, <1>4, <1>5, <1>6
<1>8. QED
  BY <1>7 DEF RightList, listed, candidates, fit

(* Nobody fits, or some application is not installed: an empty list.       *)
LEMMA EmptyIsRight ==
    ASSUME NEW d, NEW e, NEW actor, NEW groupIds, NEW requirements,
           NEW installed, Candidates(d, groupIds) = {} \/ ~({r.app : r \in requirements} \subseteq installed)
    PROVE  RightList({}, d, e, actor, groupIds, requirements, installed)
<1>1. {u.id : u \in {}} = {}
  OBVIOUS
<1>2. CASE Candidates(d, groupIds) = {}
  <2>1. {x \in DOMAIN d.user : IsCandidate(d, groupIds, x)} = {}
    BY <1>2 DEF Candidates
  <2>2. QED
    BY <1>1, <2>1 DEF RightList
<1>3. CASE ~({r.app : r \in requirements} \subseteq installed)
  BY <1>1, <1>3 DEF RightList, Satisfying
<1>4. QED
  BY <1>2, <1>3

-----------------------------------------------------------------------------
(* What is known of a call k while the database is d, the applications are *)
(* `as` and the registries hold `rs`.                                      *)

Fields == {"pc", "ahead", "request", "token", "contact", "scope", "method", "read", "answer", "listed", "seen"}
Waiting == {"resolve", "touch_token", "activity", "touch_contact", "flush_contact", "authorize"}
Methods == {"own", "users", "users_rights", "groups", "groups_rights"}

Asked(k) == TargetOfCall(k.request).app[1]
Bears(k, d) == Authentic(d, k.token)
MayUse(k, d) ==
    /\ IsThere(d, k.contact) /\ d.user[k.contact].isUser > 0
    /\ Asked(k) = ControlApp \/ AccessOf(d, ActorTargets(d, k.contact), Asked(k)) # "none"

(* A method is known from the authorization on, and the step is its own. *)
Shaped(k) ==
    /\ DOMAIN k = Fields
    /\ k.ahead \in Int
    /\ k.pc \in {"none", "answered"} \cup Waiting \cup Methods
    /\ k.pc \in Waiting \cup Methods => k.answer = "none"
    /\ k.pc \in Waiting => k.method = None
    /\ k.pc \in {"own", "users", "groups"} => k.method.handler = k.pc
    /\ k.pc = "users_rights" => k.method.handler = "users"
    /\ k.pc = "groups_rights" => k.method.handler = "groups"

(* Contacts only go, and what is written of their activity is that they    *)
(* are active now, by the clock of the process.                            *)
Ages(d, e, ahead) ==
    /\ DOMAIN e.user \subseteq DOMAIN d.user
    /\ \A c \in DOMAIN e.user :
          \/ e.user[c].active = d.user[c].active /\ e.user[c].last = d.user[c].last
          \/ e.user[c].active /\ e.user[c].last = -ahead

(* The states of the database a call has met, the present one last. *)
Followed(k, d) ==
    /\ Sequential(k.seen)
    /\ \A i \in 1..Len(k.seen) : IsDirectory(k.seen[i]) /\ Ages(k.seen[1], k.seen[i], k.ahead)
    /\ k.pc \in Waiting \cup Methods => Len(k.seen) > 0 /\ d = k.seen[Len(k.seen)]

(* Whoever got past the token held it at some time of the call. *)
Bearing(k) ==
    k.pc \in (Waiting \cup Methods) \ {"resolve"} =>
        \E i \in 1..Len(k.seen) : /\ Bears(k, k.seen[i])
                                  /\ k.seen[i].tokens[k.token].contact = k.contact
                                  /\ k.seen[i].tokens[k.token].scope = k.scope

(* Past the recording of activity there is none left to record. *)
Recorded(k, d) ==
    k.pc \in {"authorize"} \cup Methods /\ k.contact \in DOMAIN d.user => ~Due(d.user[k.contact], k.ahead)

NotOffline(k, users) ==
    \A u \in users :
        u.id = k.contact /\ k.seen[1].user[k.contact].active /\ k.ahead > -270 => u.status # "offline"

Selecting(k, as) ==
    k.pc = "users_rights" =>
        /\ \E i \in 1..Len(k.seen) : k.read = Candidates(k.seen[i], k.request.groups)
        /\ NotOffline(k, k.read)
        /\ {r.app : r \in k.request.access} \subseteq Range(as)

Executed(k, as, rs) ==
    k.method # None =>
        /\ \E i, j \in 1..Len(k.seen) :
              /\ i <= j
              /\ Bears(k, k.seen[i]) /\ Asked(k) \in k.seen[i].tokens[k.token].scope
              /\ k.seen[i].tokens[k.token].contact = k.contact
              /\ MayUse(k, k.seen[j])
        /\ Asked(k) \in Range(as)
        /\ k.method \in Range(rs)
        /\ k.request.verb \in k.method.verbs

RefusedRightly(k) ==
    /\ k.answer = "invalid_token" => \E i \in 1..Len(k.seen) : ~Bears(k, k.seen[i])
    /\ k.answer = "access_denied" =>
          \/ Asked(k) \notin k.scope
          \/ \E i \in 1..Len(k.seen) : ~MayUse(k, k.seen[i])

ListedRightly(k, as) ==
    k.answer = "ok" /\ k.method.handler = "users" =>
        /\ NotOffline(k, k.listed)
        /\ \E i, j \in 1..Len(k.seen) :
              /\ i <= j
              /\ RightList(k.listed, k.seen[i], k.seen[j], k.contact, k.request.groups,
                           k.request.access, Range(as))

CallOK(k, d, as, rs) ==
    /\ Shaped(k)
    /\ Followed(k, d)
    /\ Bearing(k)
    /\ Recorded(k, d)
    /\ Selecting(k, as)
    /\ Executed(k, as, rs)
    /\ RefusedRightly(k)
    /\ ListedRightly(k, as)

LEMMA NoCallOK ==
    ASSUME NEW d, NEW as, NEW rs
    PROVE  CallOK(NoCall, d, as, rs)
<1>1. PICK k : k = NoCall
  OBVIOUS
<1>2. /\ DOMAIN k = Fields /\ k.pc = "none" /\ k.method = None /\ k.answer = "none" /\ k.seen = <<>>
      /\ k.ahead = 0
  BY <1>1 DEF NoCall, Fields
<1>3. Sequential(<<>>) /\ Len(<<>>) = 0
  BY EmptyModules
<1>4. CallOK(k, d, as, rs)
  BY <1>2, <1>3 DEF CallOK, Shaped, Followed, Bearing, Recorded, Selecting, Executed, RefusedRightly,
                    ListedRightly, Waiting, Methods
<1>5. QED
  BY <1>1, <1>4

(* The pipeline goes on. *)
LEMMA MovedOK ==
    ASSUME NEW k, NEW d, NEW as, NEW rs, CallOK(k, d, as, rs),
           k.pc \in Waiting \ {"resolve"}, NEW pc \in Waiting \ {"resolve"},
           pc = "authorize" /\ k.contact \in DOMAIN d.user => ~Due(d.user[k.contact], k.ahead)
    PROVE  CallOK([k EXCEPT !.pc = pc], d, as, rs)
<1>1. PICK g : g = [k EXCEPT !.pc = pc]
  OBVIOUS
<1>2. /\ DOMAIN g = Fields /\ g.pc = pc
      /\ g.request = k.request /\ g.token = k.token /\ g.contact = k.contact /\ g.scope = k.scope
      /\ g.method = k.method /\ g.read = k.read /\ g.answer = k.answer /\ g.listed = k.listed
      /\ g.seen = k.seen /\ g.ahead = k.ahead
  BY <1>1 DEF CallOK, Shaped, Fields
<1>3. Shaped(g)
  BY <1>2 DEF CallOK, Shaped, Waiting, Methods
<1>4. Followed(g, d)
  BY <1>2 DEF CallOK, Followed
<1>5. Bearing(g)
  BY <1>2 DEF CallOK, Bearing, Bears
<1>6. Recorded(g, d)
  BY <1>2 DEF Recorded, Waiting, Methods
<1>7. Selecting(g, as)
  BY <1>2 DEF Selecting, Waiting
<1>8. Executed(g, as, rs)
  BY <1>2 DEF CallOK, Shaped, Executed
<1>9. RefusedRightly(g) /\ ListedRightly(g, as)
  BY <1>2 DEF CallOK, Shaped, RefusedRightly, ListedRightly
<1>10. QED
  BY <1>1, <1>3, <1>4, <1>5, <1>6, <1>7, <1>8, <1>9 DEF CallOK

(* The call ends without a list of users. *)
LEMMA AnsweredOK ==
    ASSUME NEW k, NEW d, NEW as, NEW rs, CallOK(k, d, as, rs),
           k.pc \in Waiting \cup Methods, NEW answer, NEW listed,
           answer = "ok" => k.method.handler # "users",
           answer = "invalid_token" => ~Bears(k, d),
           answer = "access_denied" => Asked(k) \notin k.scope \/ ~MayUse(k, d)
    PROVE  CallOK([k EXCEPT !.pc = "answered", !.answer = answer, !.listed = listed], d, as, rs)
<1>1. PICK g : g = [k EXCEPT !.pc = "answered", !.answer = answer, !.listed = listed]
  OBVIOUS
<1>2. /\ DOMAIN g = Fields /\ g.pc = "answered" /\ g.answer = answer
      /\ g.request = k.request /\ g.token = k.token /\ g.contact = k.contact /\ g.scope = k.scope
      /\ g.method = k.method /\ g.seen = k.seen /\ g.ahead = k.ahead
  BY <1>1 DEF CallOK, Shaped, Fields
<1>3. Shaped(g) /\ Bearing(g) /\ Recorded(g, d) /\ Selecting(g, as)
  BY <1>2 DEF CallOK, Shaped, Bearing, Recorded, Selecting, Waiting, Methods
<1>4. Followed(g, d)
  BY <1>2 DEF CallOK, Followed, Waiting, Methods
<1>5. Executed(g, as, rs)
  BY <1>2 DEF CallOK, Executed, Bears, MayUse, Asked
<1>6. RefusedRightly(g)
  <2>1. Len(k.seen) \in 1..Len(k.seen) /\ k.seen[Len(k.seen)] = d
    BY DEF CallOK, Followed, Sequential
  <2>2. answer = "invalid_token" => ~Bears(g, k.seen[Len(k.seen)])
    BY <1>2, <2>1 DEF Bears
  <2>3. answer = "access_denied" => Asked(g) \notin g.scope \/ ~MayUse(g, k.seen[Len(k.seen)])
    BY <1>2, <2>1 DEF MayUse, Asked
  <2>4. QED
    BY <1>2, <2>1, <2>2, <2>3 DEF RefusedRightly
<1>7. ListedRightly(g, as)
  BY <1>2 DEF ListedRightly
<1>8. QED
  BY <1>1, <1>3, <1>4, <1>5, <1>6, <1>7 DEF CallOK

LEMMA PlainlyAnsweredOK ==
    ASSUME NEW k, NEW d, NEW as, NEW rs, CallOK(k, d, as, rs),
           k.pc \in Waiting \cup Methods, NEW answer,
           answer = "ok" => k.method.handler # "users",
           answer = "invalid_token" => ~Bears(k, d),
           answer = "access_denied" => Asked(k) \notin k.scope \/ ~MayUse(k, d)
    PROVE  CallOK([k EXCEPT !.pc = "answered", !.answer = answer], d, as, rs)
<1>1. PICK g : g = [k EXCEPT !.pc = "answered", !.answer = answer]
  OBVIOUS
<1>2. PICK h : h = [k EXCEPT !.pc = "answered", !.answer = answer, !.listed = k.listed]
  OBVIOUS
<1>3. g = h
  BY <1>1, <1>2 DEF CallOK, Shaped, Fields
<1>4. CallOK(h, d, as, rs)
  BY <1>2, AnsweredOK
<1>5. QED
  BY <1>1, <1>3, <1>4

(* The token is good: whose it is and what it is for is kept. *)
LEMMA ResolvedOK ==
    ASSUME NEW k, NEW d, NEW as, NEW rs, CallOK(k, d, as, rs), k.pc = "resolve", Bears(k, d)
    PROVE  CallOK([k EXCEPT !.pc = "touch_token", !.contact = d.tokens[k.token].contact,
                            !.scope = d.tokens[k.token].scope], d, as, rs)
<1>1. PICK g : g = [k EXCEPT !.pc = "touch_token", !.contact = d.tokens[k.token].contact,
                             !.scope = d.tokens[k.token].scope]
  OBVIOUS
<1>2. /\ DOMAIN g = Fields /\ g.pc = "touch_token" /\ g.answer = k.answer
      /\ g.request = k.request /\ g.token = k.token
      /\ g.contact = d.tokens[k.token].contact /\ g.scope = d.tokens[k.token].scope
      /\ g.method = k.method /\ g.seen = k.seen /\ g.ahead = k.ahead
  BY <1>1 DEF CallOK, Shaped, Fields
<1>3. Shaped(g) /\ Recorded(g, d) /\ Selecting(g, as)
  BY <1>2 DEF CallOK, Shaped, Recorded, Selecting, Waiting, Methods
<1>4. Followed(g, d)
  BY <1>2 DEF CallOK, Followed, Waiting, Methods
<1>5. Bearing(g)
  <2>1. Len(k.seen) \in 1..Len(k.seen) /\ k.seen[Len(k.seen)] = d
    BY DEF CallOK, Followed, Sequential, Waiting
  <2>2. Bears(g, d)
    BY <1>2 DEF Bears
  <2>3. QED
    BY <1>2, <2>1, <2>2 DEF Bearing
<1>6. g.method = None /\ g.answer = "none"
  BY <1>2 DEF CallOK, Shaped, Waiting
<1>7. Executed(g, as, rs) /\ RefusedRightly(g) /\ ListedRightly(g, as)
  BY <1>6 DEF Executed, RefusedRightly, ListedRightly
<1>8. QED
  BY <1>1, <1>3, <1>4, <1>5, <1>7 DEF CallOK

(* The database changes while the call is under way. *)
LEMMA GrownOK ==
    ASSUME NEW k, NEW d, NEW as, NEW rs, CallOK(k, d, as, rs), k.pc \in Waiting \cup Methods,
           NEW e, IsDirectory(e), Ages(d, e, k.ahead)
    PROVE  CallOK([k EXCEPT !.seen = Append(@, e)], e, as, rs)
<1>1. PICK g : g = [k EXCEPT !.seen = Append(@, e)]
  OBVIOUS
<1>2. /\ DOMAIN g = Fields /\ g.pc = k.pc /\ g.answer = k.answer
      /\ g.request = k.request /\ g.token = k.token /\ g.contact = k.contact /\ g.scope = k.scope
      /\ g.method = k.method /\ g.read = k.read /\ g.listed = k.listed
      /\ g.seen = Append(k.seen, e) /\ g.ahead = k.ahead
  BY <1>1 DEF CallOK, Shaped, Fields
<1>3. /\ Sequential(k.seen) /\ Len(k.seen) > 0 /\ d = k.seen[Len(k.seen)]
      /\ \A i \in 1..Len(k.seen) : IsDirectory(k.seen[i]) /\ Ages(k.seen[1], k.seen[i], k.ahead)
  BY DEF CallOK, Followed
<1>4. PICK n \in Nat : n = Len(k.seen)
  BY <1>3 DEF Sequential
<1>5. /\ Sequential(g.seen) /\ Len(g.seen) = n + 1
      /\ g.seen[n + 1] = e /\ \A i \in 1..n : g.seen[i] = k.seen[i]
  BY <1>2, <1>3, <1>4, SequentialAppend
<1>6. n > 0 /\ 1 \in 1..n /\ n \in 1..n /\ d = k.seen[n] /\ g.seen[1] = k.seen[1]
      /\ 1..Len(g.seen) = 1..n \cup {n + 1}
  BY <1>3, <1>4, <1>5
<1>7. Shaped(g)
  BY <1>2 DEF CallOK, Shaped
<1>8. Followed(g, e)
  <2>1. Ages(k.seen[1], d, k.ahead) /\ IsDirectory(d)
    BY <1>3, <1>4, <1>6
  <2>2. Ages(k.seen[1], e, k.ahead)
    BY <2>1 DEF Ages
  <2>3. \A i \in 1..Len(g.seen) : IsDirectory(g.seen[i]) /\ Ages(g.seen[1], g.seen[i], g.ahead)
    BY <1>2, <1>3, <1>4, <1>5, <1>6, <2>2
  <2>4. QED
    BY <1>4, <1>5, <2>3 DEF Followed
<1>9. Bearing(g)
  BY <1>2, <1>4, <1>5, <1>6 DEF CallOK, Bearing, Bears
<1>10. Recorded(g, e)
  <2>1. k.pc \in {"authorize"} \cup Methods /\ k.contact \in DOMAIN d.user => ~Due(d.user[k.contact], k.ahead)
    BY DEF CallOK, Recorded
  <2>2. k.ahead \in Int
    BY DEF CallOK, Shaped
  <2>3. QED
    BY <1>2, <2>1, <2>2 DEF Recorded, Ages, Due
<1>11. Selecting(g, as)
  <2>1. NotOffline(k, k.read) => NotOffline(g, g.read)
    BY <1>2, <1>6 DEF NotOffline
  <2>2. QED
    BY <1>2, <1>4, <1>5, <1>6, <2>1 DEF CallOK, Selecting
<1>12. Executed(g, as, rs)
  <2>1. Asked(g) = Asked(k) /\ \A x : Bears(g, x) <=> Bears(k, x)
    BY <1>2 DEF Asked, Bears
  <2>2. \A x : MayUse(g, x) <=> MayUse(k, x)
    BY <1>2, <2>1 DEF MayUse
  <2>3. QED
    BY <1>2, <1>4, <1>5, <1>6, <2>1, <2>2 DEF CallOK, Executed
<1>13. g.answer = "none"
  BY <1>2 DEF CallOK, Shaped
<1>14. RefusedRightly(g) /\ ListedRightly(g, as)
  BY <1>13 DEF RefusedRightly, ListedRightly
<1>15. QED
  BY <1>1, <1>7, <1>8, <1>9, <1>10, <1>11, <1>12, <1>14 DEF CallOK

(* The method is found, and the caller may use it. *)
LEMMA AuthorizedOK ==
    ASSUME NEW k, NEW d, NEW as, NEW rs, CallOK(k, d, as, rs), k.pc = "authorize",
           Asked(k) \in k.scope, MayUse(k, d), Asked(k) \in Range(as),
           NEW m \in Range(rs), k.request.verb \in m.verbs, m.handler \in {"own", "users", "groups"}
    PROVE  CallOK([k EXCEPT !.pc = m.handler, !.method = m], d, as, rs)
<1>1. PICK g : g = [k EXCEPT !.pc = m.handler, !.method = m]
  OBVIOUS
<1>2. /\ DOMAIN g = Fields /\ g.pc = m.handler /\ g.answer = k.answer
      /\ g.request = k.request /\ g.token = k.token /\ g.contact = k.contact /\ g.scope = k.scope
      /\ g.method = m /\ g.seen = k.seen /\ g.ahead = k.ahead
  BY <1>1 DEF CallOK, Shaped, Fields
<1>3. Shaped(g)
  BY <1>2 DEF CallOK, Shaped, Waiting, Methods
<1>4. Followed(g, d)
  BY <1>2 DEF CallOK, Followed, Waiting, Methods
<1>5. Bearing(g)
  BY <1>2 DEF CallOK, Bearing, Bears, Waiting, Methods
<1>6. Recorded(g, d)
  BY <1>2 DEF CallOK, Recorded, Methods
<1>7. Selecting(g, as)
  BY <1>2 DEF Selecting
<1>8. Executed(g, as, rs)
  <2>1. PICK i \in 1..Len(k.seen) : /\ Bears(k, k.seen[i])
                                    /\ k.seen[i].tokens[k.token].contact = k.contact
                                    /\ k.seen[i].tokens[k.token].scope = k.scope
    BY DEF CallOK, Bearing, Waiting, Methods
  <2>2. PICK j \in 1..Len(k.seen) : j = Len(k.seen) /\ k.seen[j] = d
    BY DEF CallOK, Followed, Sequential, Waiting
  <2>3. i <= j
    BY <2>2
  <2>4. Asked(g) = Asked(k) /\ Bears(g, k.seen[i]) /\ MayUse(g, k.seen[j])
    BY <1>2, <2>1, <2>2 DEF Asked, Bears, MayUse
  <2>5. QED
    BY <1>2, <2>1, <2>3, <2>4 DEF Executed
<1>9. g.answer = "none"
  BY <1>2 DEF CallOK, Shaped, Waiting
<1>10. RefusedRightly(g) /\ ListedRightly(g, as)
  BY <1>9 DEF RefusedRightly, ListedRightly
<1>11. QED
  BY <1>1, <1>3, <1>4, <1>5, <1>6, <1>7, <1>8, <1>10 DEF CallOK

(* A list is begun: what was read is what the database held then. *)
LEMMA ReadOK ==
    ASSUME NEW k, NEW d, NEW as, NEW rs, CallOK(k, d, as, rs),
           NEW pc, NEW read,
           \/ k.pc = "groups" /\ pc = "groups_rights"
           \/ /\ k.pc = "users" /\ pc = "users_rights"
              /\ read = Candidates(d, k.request.groups)
              /\ {r.app : r \in k.request.access} \subseteq Range(as)
    PROVE  CallOK([k EXCEPT !.pc = pc, !.read = read], d, as, rs)
<1>1. PICK g : g = [k EXCEPT !.pc = pc, !.read = read]
  OBVIOUS
<1>2. /\ DOMAIN g = Fields /\ g.pc = pc /\ g.answer = k.answer
      /\ g.request = k.request /\ g.token = k.token /\ g.contact = k.contact /\ g.scope = k.scope
      /\ g.method = k.method /\ g.read = read /\ g.listed = k.listed /\ g.seen = k.seen
      /\ g.ahead = k.ahead
  BY <1>1 DEF CallOK, Shaped, Fields
<1>3. k.pc \in Methods /\ pc \in Methods
  BY DEF Methods
<1>4. Shaped(g)
  BY <1>2 DEF CallOK, Shaped, Waiting, Methods
<1>5. Followed(g, d)
  BY <1>2, <1>3 DEF CallOK, Followed
<1>6. Bearing(g)
  BY <1>2, <1>3 DEF CallOK, Bearing, Bears, Methods
<1>7. Recorded(g, d)
  BY <1>2, <1>3 DEF CallOK, Recorded
<1>8. Selecting(g, as)
  <2> SUFFICES ASSUME g.pc = "users_rights"
               PROVE  Selecting(g, as)
    BY DEF Selecting
  <2>1. /\ read = Candidates(d, k.request.groups)
        /\ {r.app : r \in k.request.access} \subseteq Range(as)
    BY <1>2
  <2>2. PICK j \in 1..Len(k.seen) : j = Len(k.seen) /\ k.seen[j] = d
    BY <1>3 DEF CallOK, Followed, Sequential
  <2>3. ASSUME NEW u \in read, u.id = k.contact, k.seen[1].user[k.contact].active, k.ahead > -270
        PROVE  u.status # "offline"
    <3>1. /\ k.contact \in DOMAIN d.user
          /\ u.status = OnlineStatus(d.user[k.contact])
      BY <2>1, <2>3 DEF Candidates
    <3>2. Ages(k.seen[1], d, k.ahead)
      BY <2>2 DEF CallOK, Followed
    <3>3. ~Due(d.user[k.contact], k.ahead)
      BY <1>3, <3>1 DEF CallOK, Recorded
    <3>4. d.user[k.contact].last \in Int /\ k.ahead \in Int
      BY <2>2, <3>1 DEF CallOK, Shaped, Followed, IsDirectory, UserRow
    <3>5. d.user[k.contact].active
      BY <2>3, <3>1, <3>2 DEF Ages
    <3>6. d.user[k.contact].last < 300
      BY <2>3, <3>3, <3>4, <3>5 DEF Due
    <3>7. QED
      BY <3>1, <3>4, <3>5, <3>6 DEF OnlineStatus
  <2>4. QED
    BY <1>2, <2>1, <2>2, <2>3 DEF Selecting, NotOffline
<1>9. Executed(g, as, rs)
  <2>1. Asked(g) = Asked(k) /\ \A x : Bears(g, x) <=> Bears(k, x)
    BY <1>2 DEF Asked, Bears
  <2>2. \A x : MayUse(g, x) <=> MayUse(k, x)
    BY <1>2, <2>1 DEF MayUse
  <2>3. Executed(k, as, rs)
    BY DEF CallOK
  <2>4. QED
    BY <1>2, <2>1, <2>2, <2>3 DEF Executed
<1>10. g.answer = "none"
  BY <1>2, <1>3 DEF CallOK, Shaped
<1>11. RefusedRightly(g) /\ ListedRightly(g, as)
  BY <1>10 DEF RefusedRightly, ListedRightly
<1>12. QED
  BY <1>1, <1>4, <1>5, <1>6, <1>7, <1>8, <1>9, <1>11 DEF CallOK

(* A list of users is answered. *)
LEMMA ListedOK ==
    ASSUME NEW k, NEW d, NEW as, NEW rs, CallOK(k, d, as, rs), k.pc \in {"users", "users_rights"},
           NEW listed, NotOffline(k, listed),
           \E i \in 1..Len(k.seen) :
               RightList(listed, k.seen[i], d, k.contact, k.request.groups, k.request.access, Range(as))
    PROVE  CallOK([k EXCEPT !.pc = "answered", !.answer = "ok", !.listed = listed], d, as, rs)
<1>1. PICK g : g = [k EXCEPT !.pc = "answered", !.answer = "ok", !.listed = listed]
  OBVIOUS
<1>2. /\ DOMAIN g = Fields /\ g.pc = "answered" /\ g.answer = "ok" /\ g.listed = listed
      /\ g.request = k.request /\ g.token = k.token /\ g.contact = k.contact /\ g.scope = k.scope
      /\ g.method = k.method /\ g.seen = k.seen /\ g.ahead = k.ahead
  BY <1>1 DEF CallOK, Shaped, Fields
<1>3. Shaped(g) /\ Bearing(g) /\ Recorded(g, d) /\ Selecting(g, as) /\ RefusedRightly(g)
  BY <1>2 DEF CallOK, Shaped, Bearing, Recorded, Selecting, RefusedRightly, Waiting, Methods
<1>4. Followed(g, d)
  BY <1>2 DEF CallOK, Followed, Waiting, Methods
<1>5. Executed(g, as, rs)
  BY <1>2 DEF CallOK, Executed, Bears, MayUse, Asked
<1>6. ListedRightly(g, as)
  <2>1. PICK i \in 1..Len(k.seen) :
            RightList(listed, k.seen[i], d, k.contact, k.request.groups, k.request.access, Range(as))
    OBVIOUS
  <2>2. PICK j \in 1..Len(k.seen) : j = Len(k.seen) /\ k.seen[j] = d
    BY DEF CallOK, Followed, Sequential, Methods
  <2>3. i <= j
    BY <2>2
  <2>4. NotOffline(g, listed)
    BY <1>2 DEF NotOffline
  <2>5. QED
    BY <1>2, <2>1, <2>2, <2>3, <2>4 DEF ListedRightly
<1>7. QED
  BY <1>1, <1>3, <1>4, <1>5, <1>6 DEF CallOK

-----------------------------------------------------------------------------
(* The steps of a call.                                                    *)

(* No call is under way while a process starts. *)
Standing == call # NoCall => state = "ready" /\ boot.pc = "idle"

CallInv == Standing /\ CallOK(call, directory, apps, registered)

LEMMA TransportAnswers ==
    ASSUME NEW request \in CallRequest, NEW settings \in Settings
    PROVE  TransportAnswer(request, settings) \notin {"ok", "invalid_token", "access_denied"}
<1>1. settings.enabled \in BOOLEAN /\ settings.forceHttps \in BOOLEAN /\ request.https \in BOOLEAN
  BY CallAssumption
<1>2. CASE ~settings.enabled
  BY <1>1, <1>2 DEF TransportAnswer
<1>3. CASE settings.enabled /\ settings.forceHttps /\ ~request.https
  BY <1>1, <1>3 DEF TransportAnswer
<1>4. CASE settings.enabled /\ (settings.forceHttps => request.https)
  BY <1>1, <1>4 DEF TransportAnswer
<1>5. QED
  BY <1>1, <1>2, <1>3, <1>4

LEMMA ReceiveKeeps ==
    ASSUME NEW request \in CallRequest, NEW settings \in Settings, NEW d \in Directory,
           ReceiveCall(request, settings, d), NEW as, NEW rs
    PROVE  CallOK(call', directory', as, rs)
<1>1. PICK answer : answer = TransportAnswer(request, settings)
  OBVIOUS
<1>2. CASE answer # "none"
  <2>1. PICK g : g = [NoCall EXCEPT !.pc = "answered", !.request = request, !.answer = answer]
    OBVIOUS
  <2>2. call' = g
    BY <1>1, <1>2, <2>1 DEF ReceiveCall
  <2>3. /\ DOMAIN g = Fields /\ g.pc = "answered" /\ g.answer = answer /\ g.method = None /\ g.seen = <<>>
        /\ g.ahead = 0
    BY <2>1 DEF NoCall, Fields
  <2>4. Sequential(<<>>) /\ Len(<<>>) = 0
    BY EmptyModules
  <2>5. answer \notin {"ok", "invalid_token", "access_denied"}
    BY <1>1, TransportAnswers
  <2>6. CallOK(g, directory', as, rs)
    BY <2>3, <2>4, <2>5 DEF CallOK, Shaped, Followed, Bearing, Recorded, Selecting, Executed,
                            RefusedRightly, ListedRightly, Waiting, Methods
  <2>7. QED
    BY <2>2, <2>6
<1>3. CASE answer = "none"
  <2>1. PICK g : g = [NoCall EXCEPT !.pc = "resolve", !.request = request,
                                    !.ahead = settings.ahead,
                                    !.token = CredentialOf(request), !.seen = <<d>>]
    OBVIOUS
  <2>2. call' = g /\ directory' = d
    BY <1>1, <1>3, <2>1 DEF ReceiveCall
  <2>3. /\ DOMAIN g = Fields /\ g.pc = "resolve" /\ g.answer = "none" /\ g.method = None
        /\ g.seen = <<d>> /\ g.ahead = settings.ahead /\ g.ahead \in Int
    BY <2>1, CallAssumption DEF NoCall, Fields
  <2>4. /\ Sequential(g.seen) /\ Len(g.seen) = 1 /\ g.seen[1] = d
    BY <2>3 DEF Sequential
  <2>5. IsDirectory(d)
    BY CallAssumption
  <2>6. Followed(g, d)
    BY <2>4, <2>5 DEF Followed, Ages
  <2>7. Shaped(g) /\ Bearing(g) /\ Recorded(g, d) /\ Selecting(g, as) /\ Executed(g, as, rs)
        /\ RefusedRightly(g) /\ ListedRightly(g, as)
    BY <2>3 DEF Shaped, Bearing, Recorded, Selecting, Executed, RefusedRightly, ListedRightly,
                Waiting, Methods
  <2>8. QED
    BY <2>2, <2>6, <2>7 DEF CallOK
<1>4. QED
  BY <1>2, <1>3

LEMMA InterfereKeeps ==
    ASSUME CallOK(call, directory, apps, registered), NEW change \in Change, Interfere(change)
    PROVE  CallOK(call', directory', apps, registered)
<1>1. call.pc \in Waiting \cup Methods
  BY DEF CallOK, Shaped, Interfere
<1>2. IsDirectory(directory)
  BY <1>1 DEF CallOK, Followed, Sequential
<1>3. /\ directory' = Changed(directory, change) /\ Applies(directory, change)
      /\ call' = [call EXCEPT !.seen = Append(@, directory')]
  BY DEF Interfere
<1>4. PICK e : e = Changed(directory, change)
  OBVIOUS
<1>5. IsDirectory(e) /\ Fewer(directory, e)
  BY <1>2, <1>3, <1>4, ChangedKeeps
<1>6. Ages(directory, e, call.ahead)
  BY <1>5 DEF Ages, Fewer
<1>7. CallOK([call EXCEPT !.seen = Append(@, e)], e, apps, registered)
  BY <1>1, <1>5, <1>6, GrownOK
<1>8. QED
  BY <1>3, <1>4, <1>7

(* The steps up to the authorization. *)
LEMMA PipelineKeeps ==
    ASSUME CallOK(call, directory, apps, registered),
           ResolveCallToken \/ TouchCallToken \/ ReadActivity \/ TouchContact \/ FlushContact
    PROVE  CallOK(call', directory', apps, registered)
<1> DEFINE OK(k, d) == CallOK(k, d, apps, registered)
<1>1. CASE ResolveCallToken
  <2>1. call.pc = "resolve" /\ directory' = directory
    BY <1>1 DEF ResolveCallToken, CallAt, Reads
  <2>2. CASE Authentic(directory, call.token)
    <3>1. call' = [call EXCEPT !.pc = "touch_token", !.contact = directory.tokens[call.token].contact,
                               !.scope = directory.tokens[call.token].scope]
      BY <1>1, <2>2 DEF ResolveCallToken, Step, CallOK, Shaped, Fields
    <3>2. QED
      BY <2>1, <2>2, <3>1, ResolvedOK DEF Bears
  <2>3. CASE ~Authentic(directory, call.token)
    <3>1. call' = [call EXCEPT !.pc = "answered", !.answer = "invalid_token"]
      BY <1>1, <2>3 DEF ResolveCallToken, Answer
    <3>2. QED
      BY <2>1, <2>3, <3>1, PlainlyAnsweredOK DEF Bears, Waiting
  <2>4. QED
    BY <2>2, <2>3
<1>2. CASE TouchCallToken
  <2>1. /\ call.pc = "touch_token" /\ directory' = directory
        /\ \/ call' = [call EXCEPT !.pc = "activity"]
           \/ call' = [call EXCEPT !.pc = "answered", !.answer = "error"]
    BY <1>2 DEF TouchCallToken, CallAt, Reads, Step, Answer
  <2>2. CallOK([call EXCEPT !.pc = "activity"], directory, apps, registered)
    BY <2>1, MovedOK DEF Waiting
  <2>3. CallOK([call EXCEPT !.pc = "answered", !.answer = "error"], directory, apps, registered)
    BY <2>1, PlainlyAnsweredOK DEF Waiting
  <2>4. QED
    BY <2>1, <2>2, <2>3
<1>3. CASE ReadActivity
  <2>1. PICK pc : pc = IF IsThere(directory, call.contact) /\ Due(directory.user[call.contact], call.ahead)
                       THEN "touch_contact" ELSE "authorize"
    OBVIOUS
  <2>2. call.pc = "activity" /\ directory' = directory /\ call' = [call EXCEPT !.pc = pc]
    BY <1>3, <2>1 DEF ReadActivity, CallAt, Reads, Step
  <2>3. pc = "authorize" /\ call.contact \in DOMAIN directory.user =>
            ~Due(directory.user[call.contact], call.ahead)
    BY <2>1 DEF IsThere
  <2>4. QED
    BY <2>1, <2>2, <2>3, MovedOK DEF Waiting
<1>4. CASE TouchContact
  <2>1. PICK pc : pc = IF IsThere(directory, call.contact) THEN "flush_contact" ELSE "authorize"
    OBVIOUS
  <2>2. call.pc = "touch_contact" /\ directory' = directory /\ call' = [call EXCEPT !.pc = pc]
    BY <1>4, <2>1 DEF TouchContact, CallAt, Reads, Step
  <2>3. pc = "authorize" => call.contact \notin DOMAIN directory.user
    BY <2>1 DEF IsThere
  <2>4. QED
    BY <2>1, <2>2, <2>3, MovedOK DEF Waiting
<1>5. CASE FlushContact
  <2>1. call.pc = "flush_contact"
    BY <1>5 DEF FlushContact, CallAt
  <2>2. CASE ~IsThere(directory, call.contact)
    <3>1. directory' = directory /\ call' = [call EXCEPT !.pc = "answered", !.answer = "error"]
      BY <1>5, <2>2 DEF FlushContact, Answer
    <3>2. QED
      BY <2>1, <3>1, PlainlyAnsweredOK DEF Waiting
  <2>3. CASE IsThere(directory, call.contact)
    <3>1. PICK c : c = call.contact
      OBVIOUS
    <3>2. PICK e : e = [directory EXCEPT !.user[c].active = TRUE, !.user[c].last = -call.ahead]
      OBVIOUS
    <3>3. directory' = e /\ call' = [call EXCEPT !.pc = "authorize", !.seen = Append(@, e)]
      BY <1>5, <2>3, <3>1, <3>2 DEF FlushContact, Step, CallOK, Shaped, Fields
    <3>4. IsDirectory(directory) /\ c \in DOMAIN directory.user
      BY <2>1, <2>3, <3>1 DEF CallOK, Followed, Sequential, Waiting, IsThere
    <3>5. /\ DOMAIN e = DOMAIN directory /\ e.rights = directory.rights
          /\ DOMAIN e.user = DOMAIN directory.user
          /\ e.user[c] = [directory.user[c] EXCEPT !.active = TRUE, !.last = -call.ahead]
          /\ \A x \in DOMAIN directory.user : x # c => e.user[x] = directory.user[x]
      BY <3>2, <3>4 DEF IsDirectory
    <3>6. call.ahead \in Int
      BY <2>1 DEF CallOK, Shaped
    <3>7. e.user[c].active /\ e.user[c].last = -call.ahead /\ e.user[c] \in UserRow
      <4>1. directory.user[c] \in UserRow
        BY <3>4 DEF IsDirectory
      <4>2. -call.ahead \in Int
        BY <3>6
      <4>3. QED
        BY <3>5, <4>1, <4>2 DEF UserRow
    <3>8. IsDirectory(e)
      BY <3>4, <3>5, <3>7 DEF IsDirectory
    <3>9. Ages(directory, e, call.ahead)
      BY <3>5, <3>6, <3>7 DEF Ages
    <3>10. PICK k : k = [call EXCEPT !.seen = Append(@, e)]
      OBVIOUS
    <3>11. CallOK(k, e, apps, registered)
      BY <2>1, <3>8, <3>9, <3>10, GrownOK DEF Waiting
    <3>12. k.pc = "flush_contact" /\ k.contact = c /\ k.ahead = call.ahead
      BY <2>1, <3>1, <3>10 DEF CallOK, Shaped, Fields
    <3>13. ~Due(e.user[c], k.ahead)
      BY <3>6, <3>7, <3>12 DEF Due
    <3>14. CallOK([k EXCEPT !.pc = "authorize"], e, apps, registered)
      BY <3>11, <3>12, <3>13, MovedOK DEF Waiting
    <3>15. call' = [k EXCEPT !.pc = "authorize"]
      BY <3>3, <3>10 DEF CallOK, Shaped, Fields
    <3>16. QED
      BY <3>3, <3>14, <3>15
  <2>4. QED
    BY <2>2, <2>3
<1>6. QED
  BY <1>1, <1>2, <1>3, <1>4, <1>5

(* In a process that is ready the registries hold one definition for each  *)
(* place, for what was linked is well formed.                              *)
LEMMA OnePerPlace ==
    ASSUME LinkerInv, state = "ready"
    PROVE  /\ Range(registered) \subseteq Definition
           /\ \A x, y \in Range(registered) : Slot(x) = Slot(y) => x = y
<1> DEFINE cs == AllContributions(boot.modules)
<1>1. Modular(boot.modules) /\ WellFormed(boot.modules) /\ registered = [i \in DOMAIN cs |-> cs[i].def]
  BY DEF LinkerInv, AttemptShape, AttemptInv
<1>2. cs \in Seq(Contribution) /\ OwnSlots(cs)
  BY <1>1, AllTheirContributions, WellFormedParts
<1> HIDE DEF cs
<1>3. \A i \in DOMAIN cs : cs[i].def \in Definition
  <2>1. \A i \in DOMAIN cs : cs[i] \in Contribution
    BY <1>2, SeqIsSequential
  <2>2. QED
    BY <2>1 DEF Contribution
<1>4. Range(registered) = {cs[i].def : i \in DOMAIN cs}
  BY <1>1 DEF Range
<1>5. QED
  BY <1>2, <1>3, <1>4 DEF OwnSlots

LEMMA AuthorizeKeeps ==
    ASSUME CallOK(call, directory, apps, registered), LinkerInv, state = "ready", Authorize
    PROVE  CallOK(call', directory', apps, registered)
<1>1. call.pc = "authorize" /\ directory' = directory
  BY DEF Authorize, CallAt, Reads
<1>2. PICK target : target = TargetOfCall(call.request)
  OBVIOUS
<1>3. PICK methods : methods = MethodsFor(target.app[1], target.method)
  OBVIOUS
<1>4. PICK answer : answer = Authorization
  OBVIOUS
<1>5. answer = IF Len(target.app) > 1 \/ Asked(call) \notin Range(apps) THEN "app_not_installed"
               ELSE IF ~MayUse(call, directory) \/ Asked(call) \notin call.scope THEN "access_denied"
               ELSE IF methods = {} THEN "invalid_method"
               ELSE IF \A m \in methods : call.request.verb \notin m.verbs THEN "not_allowed"
               ELSE "none"
  <2>1. Asked(call) = target.app[1]
    BY <1>2 DEF Asked
  <2>2. Granted(directory, call.contact, target.app[1]) <=> MayUse(call, directory)
    BY <2>1 DEF MayUse, Granted
  <2>3. QED
    BY <1>2, <1>3, <1>4, <2>1, <2>2 DEF Authorization
<1>6. CASE answer # "none"
  <2>1. call' = [call EXCEPT !.pc = "answered", !.answer = answer]
    BY <1>4, <1>6 DEF Authorize, Answer
  <2>2. /\ answer \notin {"ok", "invalid_token"}
        /\ answer = "access_denied" => Asked(call) \notin call.scope \/ ~MayUse(call, directory)
    BY <1>5
  <2>3. QED
    BY <1>1, <2>1, <2>2, PlainlyAnsweredOK DEF Waiting
<1>7. CASE answer = "none"
  <2>1. PICK m : m = CHOOSE x \in methods : TRUE
    OBVIOUS
  <2>2. /\ Asked(call) \in Range(apps) /\ MayUse(call, directory) /\ Asked(call) \in call.scope
        /\ \E x \in methods : call.request.verb \in x.verbs
    BY <1>5, <1>7
  <2>3. m \in methods
    BY <2>1, <2>2
  <2>4. \A x \in methods : x \in Range(registered) /\ x.kind = "api" /\ Slot(x) = Slot(m)
    BY <1>3, <2>3 DEF MethodsFor, Slot
  <2>5. m \in Definition /\ \A x \in methods : x = m
    BY <2>3, <2>4, OnePerPlace
  <2>6. m.handler \in {"own", "users", "groups"} /\ call.request.verb \in m.verbs
    BY <2>2, <2>3, <2>4, <2>5, HandlerAssumption
  <2>7. call' = [call EXCEPT !.pc = m.handler, !.method = m]
    BY <1>2, <1>3, <1>4, <1>7, <2>1 DEF Authorize, Step, CallOK, Shaped, Fields
  <2>8. QED
    BY <1>1, <2>2, <2>3, <2>4, <2>6, <2>7, AuthorizedOK
<1>8. QED
  BY <1>6, <1>7

(* The methods. *)
LEMMA MethodsKeep ==
    ASSUME CallOK(call, directory, apps, registered),
           \/ \E answer \in {"ok", "rejected", "error"} : ExecuteOwn(answer)
           \/ ReadUsers \/ SelectUsers \/ ReadGroups \/ SelectGroups
    PROVE  CallOK(call', directory', apps, registered)
<1>1. ASSUME NEW answer \in {"ok", "rejected", "error"}, ExecuteOwn(answer)
      PROVE  CallOK(call', directory', apps, registered)
  <2>1. /\ call.pc = "own" /\ directory' = directory
        /\ call' = [call EXCEPT !.pc = "answered", !.answer = answer]
    BY <1>1 DEF ExecuteOwn, CallAt, Answer, Reads
  <2>2. call.method.handler = "own"
    BY <2>1 DEF CallOK, Shaped
  <2>3. QED
    BY <2>1, <2>2, PlainlyAnsweredOK DEF Methods
<1>2. CASE ReadUsers
  <2>1. PICK candidates : candidates = Candidates(directory, call.request.groups)
    OBVIOUS
  <2>2. PICK required : required = {r.app : r \in call.request.access}
    OBVIOUS
  <2>3. call.pc = "users" /\ directory' = directory
    BY <1>2 DEF ReadUsers, CallAt, Reads
  <2>4. CASE candidates = {} \/ ~(required \subseteq Range(apps))
    <3>1. call' = [call EXCEPT !.pc = "answered", !.answer = "ok", !.listed = {}]
      BY <1>2, <2>1, <2>2, <2>4 DEF ReadUsers, Lists, Answer, CallOK, Shaped, Fields
    <3>2. PICK j \in 1..Len(call.seen) : call.seen[j] = directory
      BY <2>3 DEF CallOK, Followed, Sequential, Methods
    <3>3. RightList({}, call.seen[j], directory, call.contact, call.request.groups,
                    call.request.access, Range(apps))
      BY <2>1, <2>2, <2>4, <3>2, EmptyIsRight
    <3>4. NotOffline(call, {})
      BY DEF NotOffline
    <3>5. QED
      BY <2>3, <3>1, <3>3, <3>4, ListedOK
  <2>5. CASE ~(candidates = {} \/ ~(required \subseteq Range(apps)))
    <3>1. call' = [call EXCEPT !.pc = "users_rights", !.read = candidates]
      BY <1>2, <2>1, <2>2, <2>5 DEF ReadUsers, Step, CallOK, Shaped, Fields
    <3>2. QED
      BY <2>1, <2>2, <2>3, <2>5, <3>1, ReadOK
  <2>6. QED
    BY <2>4, <2>5
<1>3. CASE SelectUsers
  <2>1. PICK listed : listed = ListedUsers(directory, call.contact, call.read, call.request.access)
    OBVIOUS
  <2>2. call.pc = "users_rights" /\ directory' = directory
    BY <1>3 DEF SelectUsers, CallAt, Reads
  <2>3. call' = [call EXCEPT !.pc = "answered", !.answer = "ok", !.listed = listed]
    BY <1>3, <2>1 DEF SelectUsers, Lists, Answer, CallOK, Shaped, Fields
  <2>4. PICK i \in 1..Len(call.seen) : call.read = Candidates(call.seen[i], call.request.groups)
    BY <2>2 DEF CallOK, Selecting
  <2>5. NotOffline(call, call.read) /\ {r.app : r \in call.request.access} \subseteq Range(apps)
    BY <2>2 DEF CallOK, Selecting
  <2>6. IsDirectory(call.seen[i]) /\ IsDirectory(directory)
    BY <2>2 DEF CallOK, Followed, Sequential, Methods
  <2>7. RightList(listed, call.seen[i], directory, call.contact, call.request.groups,
                  call.request.access, Range(apps))
    BY <2>1, <2>4, <2>5, <2>6, ListedIsRight
  <2>8. NotOffline(call, listed)
    BY <2>1, <2>5 DEF NotOffline, ListedUsers
  <2>9. QED
    BY <2>2, <2>3, <2>7, <2>8, ListedOK
<1>4. CASE ReadGroups
  <2>1. /\ call.pc = "groups" /\ directory' = directory
        /\ call' = [call EXCEPT !.pc = "groups_rights", !.read = directory.groups]
    BY <1>4 DEF ReadGroups, CallAt, Reads, Step, CallOK, Shaped, Fields
  <2>2. QED
    BY <2>1, ReadOK
<1>5. CASE SelectGroups
  <2>1. PICK listed : listed = ListedGroups(directory, call.contact, call.read, call.request.types)
    OBVIOUS
  <2>2. /\ call.pc = "groups_rights" /\ directory' = directory
        /\ call' = [call EXCEPT !.pc = "answered", !.answer = "ok", !.listed = listed]
    BY <1>5, <2>1 DEF SelectGroups, CallAt, Reads, Lists, Answer, CallOK, Shaped, Fields
  <2>3. call.method.handler = "groups"
    BY <2>2 DEF CallOK, Shaped
  <2>4. QED
    BY <2>2, <2>3, AnsweredOK DEF Methods
<1>6. QED
  BY <1>1, <1>2, <1>3, <1>4, <1>5

-----------------------------------------------------------------------------
(* The steps of a process, by what they do to a call.                      *)

LEMMA CallSteps ==
    ASSUME Next, LinkerInv, Standing
    PROVE  \/ call = NoCall /\ call' = NoCall
           \/ call' = call /\ directory' = directory /\ UNCHANGED linkerVars
           \/ call' = NoCall
           \/ /\ Serving /\ UNCHANGED linkerVars
              /\ \E request \in CallRequest, settings \in Settings, d \in Directory :
                    ReceiveCall(request, settings, d)
           \/ ApiStep
           \/ \E change \in Change : Interfere(change)
<1>1. CASE \E t \in Token : ReadFile(t)
  BY <1>1 DEF ReadFile, apiVars
<1>2. CASE \E disk \in Disk : Build(disk)
  BY <1>2 DEF Build, apiVars
<1>3. CASE \E from \in Source : Create(from)
  <2>1. source = None /\ call' = call
    BY <1>3 DEF Create, CreateContainer, apiVars
  <2>2. state = "pending"
    BY <2>1 DEF LinkerInv, AttemptShape
  <2>3. call = NoCall
    BY <2>2 DEF Standing
  <2>4. QED
    BY <2>1, <2>3
<1>4. CASE Enter
  BY <1>4 DEF Enter, Idle, apiVars
<1>5. CASE Boots
  <2>1. call' = call
    BY <1>5 DEF Boots, apiVars
  <2>2. boot.pc # "idle"
    BY <1>5 DEF Boots, ReadPlugins, BuildModules, Link, Register, Finish
  <2>3. QED
    BY <2>1, <2>2 DEF Standing
<1>6. CASE Restart
  BY <1>6 DEF Restart
<1>7. CASE Events
  <2>1. call' = call /\ directory' = directory
    BY <1>7 DEF Events, apiVars
  <2>2. UNCHANGED linkerVars
    BY <1>7 DEF Events, Publish, EventStep, CallHandler, Handle, HandleUnsupported, RelayEvent,
                EndDispatch, EndsWith, TakeReport, CancelDispatch
  <2>3. QED
    BY <2>1, <2>2
<1>8. CASE Route \/ AnswerRouted
  BY <1>8 DEF Route, AnswerRouted, RouteRequest, AnswerRequest, apiVars
<1>9. CASE Receive
  BY <1>9 DEF Receive, ReceiveCall
<1>10. CASE Call \/ Disturb
  BY <1>10 DEF Call, Disturb
<1>11. QED
  BY <1>1, <1>2, <1>3, <1>4, <1>5, <1>6, <1>7, <1>8, <1>9, <1>10 DEF Next

LEMMA CallInvInit == Init => CallInv
BY NoCallOK DEF Init, ApiInit, CallInv, Standing

LEMMA CallInvNext == LinkerInv /\ CallInv /\ [Next]_vars => CallInv'
<1> SUFFICES ASSUME LinkerInv, CallInv, [Next]_vars
             PROVE  CallInv'
  OBVIOUS
<1>1. Standing /\ CallOK(call, directory, apps, registered)
  BY DEF CallInv
<1>2. CASE call' = NoCall
  BY <1>2, NoCallOK DEF CallInv, Standing
<1>3. CASE call' = call /\ directory' = directory /\ UNCHANGED linkerVars
  BY <1>1, <1>3 DEF CallInv, Standing, linkerVars
<1>4. ASSUME Serving, UNCHANGED linkerVars, NEW request \in CallRequest, NEW settings \in Settings,
             NEW d \in Directory, ReceiveCall(request, settings, d)
      PROVE  CallInv'
  BY <1>4, ReceiveKeeps DEF CallInv, Standing, Serving, linkerVars
<1>5. CASE ApiStep /\ call' # NoCall
  <2>1. UNCHANGED linkerVars
    BY <1>5, ApiStepReads
  <2>2. call # NoCall
    BY <1>5 DEF ApiStep, ResolveCallToken, TouchCallToken, ReadActivity, TouchContact, FlushContact,
                Authorize, ExecuteOwn, ReadUsers, SelectUsers, ReadGroups, SelectGroups, EndCall,
                CallAt, NoCall
  <2>3. state = "ready" /\ boot.pc = "idle"
    BY <1>1, <2>2 DEF Standing
  <2>4. CallOK(call', directory', apps, registered)
    BY <1>1, <1>5, <2>3, PipelineKeeps, AuthorizeKeeps, MethodsKeep DEF ApiStep, EndCall
  <2>5. QED
    BY <2>1, <2>3, <2>4 DEF CallInv, Standing, linkerVars
<1>6. ASSUME NEW change \in Change, Interfere(change)
      PROVE  CallInv'
  <2>1. call # NoCall /\ UNCHANGED linkerVars
    BY <1>6 DEF Interfere, NoCall
  <2>2. CallOK(call', directory', apps, registered)
    BY <1>1, <1>6, InterfereKeeps
  <2>3. QED
    BY <1>1, <2>1, <2>2 DEF CallInv, Standing, linkerVars
<1>7. CASE UNCHANGED vars
  BY <1>3, <1>7 DEF vars, apiVars
<1>8. QED
  BY <1>1, <1>2, <1>3, <1>4, <1>5, <1>6, <1>7, CallSteps

(* What is known of a call holds in every state of a process. *)
THEOREM CallInvariant == Spec => []CallInv
<1>1. Init => LinkerInv /\ CallInv
  BY LinkerInvInit, CallInvInit
<1>2. LinkerInv /\ CallInv /\ [Next]_vars => (LinkerInv /\ CallInv)'
  BY LinkerInvNext, CallInvNext
<1>3. QED
  BY <1>1, <1>2, PTL DEF Spec

(* No method runs without authority: ExecutedOnAuthority, whatever is      *)
(* linked and however the database changes between the transactions.       *)
THEOREM NothingRunsUnauthorized == Spec => []ExecutedOnAuthority
<1>1. CallInv => ExecutedOnAuthority
  <2> SUFFICES ASSUME CallInv
               PROVE  ExecutedOnAuthority
    OBVIOUS
  <2>1. /\ Sequential(call.seen) /\ Executed(call, apps, registered) /\ RefusedRightly(call)
    BY DEF CallInv, CallOK, Followed
  <2>2. DOMAIN call.seen = 1..Len(call.seen)
    BY <2>1, SequentialIsSeq
  <2>3. QED
    BY <2>1, <2>2 DEF ExecutedOnAuthority, Executing, Executed, RefusedRightly, AskedApp, Asked, InScope,
                      Bears, MayUse
<1>2. QED
  BY <1>1, CallInvariant, PTL

(* A list of users shows what its actor may see, and all of it:            *)
(* ListedWithinRights, for two states of the database in their order.      *)
THEOREM ListsTellRights == Spec => []ListedWithinRights
<1>1. CallInv => ListedWithinRights
  <2> SUFFICES ASSUME CallInv, call.answer = "ok", call.method.handler = "users"
               PROVE  ListedWithinRights
    BY DEF ListedWithinRights
  <2>1. Sequential(call.seen) /\ ListedRightly(call, apps)
    BY DEF CallInv, CallOK, Followed
  <2>2. DOMAIN call.seen = 1..Len(call.seen)
    BY <2>1, SequentialIsSeq
  <2>3. PICK i \in DOMAIN call.seen, j \in DOMAIN call.seen :
          /\ i <= j
          /\ RightList(call.listed, call.seen[i], call.seen[j], call.contact, call.request.groups,
                       call.request.access, Range(apps))
    BY <2>1, <2>2 DEF ListedRightly
  <2>4. QED
    BY <2>3, ZenonT(60) DEF ListedWithinRights, RightList, MaySee, Satisfying
<1>2. QED
  BY <1>1, CallInvariant, PTL

(* Callers see themselves: CallerSeenOnline, whatever became of the        *)
(* contact's row while the call was under way, and however far the two     *)
(* clocks are apart.                                                       *)
THEOREM CallersAreSeen == Spec => []CallerSeenOnline
<1>1. CallInv => CallerSeenOnline
  BY DEF CallInv, CallOK, ListedRightly, NotOffline, CallerSeenOnline, Foreseen
<1>2. QED
  BY <1>1, CallInvariant, PTL
-----------------------------------------------------------------------------
(* The order of the handlers of an event.                                  *)

(* A sequence in the precedence of handlers. *)
InOrder(s) == \A i, j \in 1..Len(s) : i < j => Before(s[i], s[j])

(* Who is in which of the four lists of the handlers of an event. *)
Meant(h, event, any, exact) ==
    /\ h \in EventDefinitions /\ Heard(h, event)
    /\ h.source = None <=> any
    /\ h.pattern.kind = "exact" <=> exact
Among(s, h) == \E p \in 1..Len(s) : s[p] = h

LEMMA ItsPosition ==
    ASSUME Sequential(registered), Once(registered), NEW k \in 1..Len(registered)
    PROVE  Position(registered[k]) = k
<1>1. DOMAIN registered = 1..Len(registered)
  BY SequentialIsSeq
<1>2. \E i \in DOMAIN registered : registered[i] = registered[k]
  BY <1>1
<1>3. /\ Position(registered[k]) \in DOMAIN registered
      /\ registered[Position(registered[k])] = registered[k]
  BY <1>2, Zenon DEF Position
<1>4. QED
  BY <1>1, <1>3 DEF Once

LEMMA ListedInOrder ==
    ASSUME Sequential(registered), Once(registered), NEW event, NEW any \in BOOLEAN, NEW exact \in BOOLEAN
    PROVE  /\ Sequential(Listed(event, any, exact)) /\ InOrder(Listed(event, any, exact))
           /\ \A h : Meant(h, event, any, exact) <=> Among(Listed(event, any, exact), h)
<1> DEFINE l == Listed(event, any, exact)
           M(h) == Meant(h, event, any, exact)
           places == {i \in EventPlaces : LET d == registered[i]
                                          IN  /\ Heard(d, event)
                                              /\ (d.source = None) <=> any
                                              /\ (d.pattern.kind = "exact") <=> exact}
           n == Len(registered)
<1>1. l = Picked(registered, places)
  BY DEF Listed
<1>2. DOMAIN registered = 1..n /\ n \in Nat
  BY SequentialIsSeq DEF Sequential
<1>3. Sequential(l) /\ PickedOf(l, registered, places, n)
  BY <1>1, PickedSequential, PickedInOrder
<1>4. \A k \in 1..n : k \in places <=> k \in EventPlaces /\ M(registered[k])
  BY DEF EventDefinitions, Meant
<1>5. \A h \in EventDefinitions : \E k \in 1..n : k \in EventPlaces /\ h = registered[k]
  BY <1>2 DEF EventDefinitions, EventPlaces
<1>6. \A h : M(h) => \E k \in 1..n : k \in places /\ h = registered[k]
  BY <1>4, <1>5 DEF Meant
<1>7. \A k \in 1..n : k \in places => M(registered[k])
  BY <1>4
<1> HIDE DEF l, places, n
<1>8. ASSUME NEW h
      PROVE  M(h) <=> \E p \in 1..Len(l) : l[p] = h
  <2>1. ASSUME M(h)
        PROVE  \E p \in 1..Len(l) : l[p] = h
    <3>1. PICK k \in 1..n : k \in places /\ h = registered[k]
      BY <1>6, <2>1
    <3>2. QED
      BY <1>3, <3>1 DEF PickedOf
  <2>2. ASSUME NEW p \in 1..Len(l), l[p] = h
        PROVE  M(h)
    <3>1. PICK k \in 1..n : k \in places /\ l[p] = registered[k]
      BY <1>3 DEF PickedOf
    <3>2. QED
      BY <1>7, <2>2, <3>1
  <2>3. QED
    BY <2>1, <2>2
<1>9. ASSUME NEW i \in 1..Len(l), NEW j \in 1..Len(l), i < j
      PROVE  Before(l[i], l[j])
  <2>1. PICK k \in 1..n, m \in 1..n : k < m /\ l[i] = registered[k] /\ l[j] = registered[m]
    BY <1>3, <1>9 DEF PickedOf
  <2>2. Position(l[i]) < Position(l[j])
    BY <2>1, ItsPosition DEF n
  <2>3. M(l[i]) /\ M(l[j])
    BY <1>8
  <2>4. QED
    BY <2>2, <2>3 DEF Before, Meant
<1>10. QED
  BY <1>3, <1>8, <1>9 DEF InOrder, l, Among

LEMMA ConcatInOrder ==
    ASSUME NEW s, NEW t, Sequential(s), Sequential(t), InOrder(s), InOrder(t),
           \A i \in 1..Len(s) : \A j \in 1..Len(t) : Before(s[i], t[j])
    PROVE  /\ Sequential(s \o t) /\ InOrder(s \o t)
           /\ \A h : (\E p \in 1..Len(s \o t) : (s \o t)[p] = h)
                     <=> \/ \E p \in 1..Len(s) : s[p] = h
                         \/ \E p \in 1..Len(t) : t[p] = h
<1>1. PICK r : r = s \o t
  OBVIOUS
<1>2. /\ Len(s) \in Nat /\ Len(t) \in Nat /\ Len(r) = Len(s) + Len(t)
      /\ \A i \in 1..Len(s) : r[i] = s[i]
      /\ \A j \in 1..Len(t) : r[Len(s) + j] = t[j]
  <2>1. s \in Seq(Elements(s) \cup Elements(t)) /\ t \in Seq(Elements(s) \cup Elements(t))
    <3>1. s \in Seq(Elements(s)) /\ t \in Seq(Elements(t))
      BY SequentialIsSeq
    <3>2. Elements(s) \subseteq Elements(s) \cup Elements(t) /\ Elements(t) \subseteq Elements(s) \cup Elements(t)
      OBVIOUS
    <3>3. QED
      BY <3>1, <3>2
  <2>2. QED
    BY <1>1, <2>1
<1>3. \A i \in 1..Len(r) : i \in 1..Len(s) \/ \E j \in 1..Len(t) : i = Len(s) + j
  <2> SUFFICES ASSUME NEW i \in 1..Len(r), i \notin 1..Len(s)
               PROVE  \E j \in 1..Len(t) : i = Len(s) + j
    OBVIOUS
  <2>1. i - Len(s) \in 1..Len(t) /\ i = Len(s) + (i - Len(s))
    BY <1>2
  <2>2. QED
    BY <2>1
<1>4. \A j \in 1..Len(t) : Len(s) + j \in 1..Len(r)
  BY <1>2
<1>5. 1..Len(s) \subseteq 1..Len(r)
  BY <1>2
<1>6. ASSUME NEW i \in 1..Len(r), NEW j \in 1..Len(r), i < j
      PROVE  Before(r[i], r[j])
  <2>1. CASE i \in 1..Len(s) /\ j \in 1..Len(s)
    BY <1>2, <1>6, <2>1 DEF InOrder
  <2>2. CASE i \in 1..Len(s) /\ \E k \in 1..Len(t) : j = Len(s) + k
    BY <1>2, <2>2
  <2>3. ASSUME NEW k \in 1..Len(t), i = Len(s) + k
        PROVE  Before(r[i], r[j])
    <3>1. j \notin 1..Len(s)
      BY <1>2, <1>6, <2>3
    <3>2. PICK m \in 1..Len(t) : j = Len(s) + m
      BY <1>3, <3>1
    <3>3. k < m
      BY <1>2, <1>6, <2>3, <3>2
    <3>4. QED
      BY <1>2, <2>3, <3>2, <3>3 DEF InOrder
  <2>4. QED
    BY <1>3, <2>1, <2>2, <2>3
<1>7. ASSUME NEW h
      PROVE  (\E p \in 1..Len(r) : r[p] = h) <=> (\/ \E p \in 1..Len(s) : s[p] = h
                                                  \/ \E p \in 1..Len(t) : t[p] = h)
  <2>1. ASSUME NEW p \in 1..Len(r), r[p] = h
        PROVE  (\E q \in 1..Len(s) : s[q] = h) \/ \E q \in 1..Len(t) : t[q] = h
    BY <1>2, <1>3, <2>1
  <2>2. ASSUME NEW q \in 1..Len(s), s[q] = h
        PROVE  \E p \in 1..Len(r) : r[p] = h
    BY <1>2, <1>5, <2>2
  <2>3. ASSUME NEW q \in 1..Len(t), t[q] = h
        PROVE  \E p \in 1..Len(r) : r[p] = h
    BY <1>2, <1>4, <2>3
  <2>4. QED
    BY <2>1, <2>2, <2>3
<1>8. QED
  BY <1>1, <1>6, <1>7, ConcatSequential DEF InOrder

(* The handlers of an event: all that hear it, in their precedence. *)
LEMMA MatchingInOrder ==
    ASSUME Sequential(registered), Once(registered), NEW event
    PROVE  /\ Sequential(Matching(event)) /\ InOrder(Matching(event))
           /\ \A h : h \in EventDefinitions /\ Heard(h, event)
                     <=> \E p \in 1..Len(Matching(event)) : Matching(event)[p] = h
<1>1. ASSUME NEW any \in BOOLEAN, NEW exact \in BOOLEAN
      PROVE  /\ Sequential(Listed(event, any, exact)) /\ InOrder(Listed(event, any, exact))
             /\ \A h : Meant(h, event, any, exact) <=> Among(Listed(event, any, exact), h)
  BY ListedInOrder
<1>2. PICK a : a = Listed(event, FALSE, TRUE)
  OBVIOUS
<1>3. PICK b : b = Listed(event, FALSE, FALSE)
  OBVIOUS
<1>4. PICK c : c = Listed(event, TRUE, TRUE)
  OBVIOUS
<1>5. PICK d : d = Listed(event, TRUE, FALSE)
  OBVIOUS
<1>6. /\ Sequential(a) /\ InOrder(a) /\ \A h : Meant(h, event, FALSE, TRUE) <=> Among(a, h)
      /\ Sequential(b) /\ InOrder(b) /\ \A h : Meant(h, event, FALSE, FALSE) <=> Among(b, h)
      /\ Sequential(c) /\ InOrder(c) /\ \A h : Meant(h, event, TRUE, TRUE) <=> Among(c, h)
      /\ Sequential(d) /\ InOrder(d) /\ \A h : Meant(h, event, TRUE, FALSE) <=> Among(d, h)
  BY <1>1, <1>2, <1>3, <1>4, <1>5, Zenon
<1>7. \A l, i : i \in 1..Len(l) => Among(l, l[i])
  BY DEF Among
<1>8. \A g, h, x, y : Meant(g, event, FALSE, x) /\ Meant(h, event, TRUE, y) => Before(g, h)
  BY DEF Before, Meant
<1>9. \A g, h, any : Meant(g, event, any, TRUE) /\ Meant(h, event, any, FALSE) => Before(g, h)
  BY DEF Before, Meant
<1>10. \A h : h \in EventDefinitions /\ Heard(h, event)
              <=> \/ Meant(h, event, FALSE, TRUE) \/ Meant(h, event, FALSE, FALSE)
                  \/ Meant(h, event, TRUE, TRUE) \/ Meant(h, event, TRUE, FALSE)
  <2> SUFFICES ASSUME NEW h
               PROVE  h \in EventDefinitions /\ Heard(h, event)
                      <=> \/ Meant(h, event, FALSE, TRUE) \/ Meant(h, event, FALSE, FALSE)
                          \/ Meant(h, event, TRUE, TRUE) \/ Meant(h, event, TRUE, FALSE)
    OBVIOUS
  <2>1. PICK any \in BOOLEAN : any <=> h.source = None
    OBVIOUS
  <2>2. PICK exact \in BOOLEAN : exact <=> h.pattern.kind = "exact"
    OBVIOUS
  <2>3. QED
    BY <2>1, <2>2 DEF Meant
<1>11. PICK r : r = a \o b
  OBVIOUS
<1>12. /\ Sequential(r) /\ InOrder(r)
       /\ \A h : Among(r, h) <=> Among(a, h) \/ Among(b, h)
  <2>1. \A i \in 1..Len(a) : \A j \in 1..Len(b) : Before(a[i], b[j])
    BY <1>6, <1>7, <1>9
  <2>2. QED
    BY <1>6, <1>11, <2>1, ConcatInOrder DEF Among
<1>13. PICK s : s = r \o c
  OBVIOUS
<1>14. /\ Sequential(s) /\ InOrder(s)
       /\ \A h : Among(s, h) <=> Among(r, h) \/ Among(c, h)
  <2>1. \A i \in 1..Len(r) : \A j \in 1..Len(c) : Before(r[i], c[j])
    BY <1>6, <1>7, <1>8, <1>12
  <2>2. QED
    BY <1>6, <1>12, <1>13, <2>1, ConcatInOrder DEF Among
<1>15. PICK t : t = s \o d
  OBVIOUS
<1>16. /\ Sequential(t) /\ InOrder(t)
       /\ \A h : Among(t, h) <=> Among(s, h) \/ Among(d, h)
  <2>1. \A i \in 1..Len(s) : \A j \in 1..Len(d) : Before(s[i], d[j])
    BY <1>6, <1>7, <1>8, <1>9, <1>12, <1>14
  <2>2. QED
    BY <1>6, <1>14, <1>15, <2>1, ConcatInOrder DEF Among
<1>17. Matching(event) = t
  BY <1>2, <1>3, <1>4, <1>5, <1>11, <1>13, <1>15 DEF Matching
<1>18. \A h : h \in EventDefinitions /\ Heard(h, event) <=> Among(t, h)
  BY <1>6, <1>10, <1>12, <1>14, <1>16
<1>19. QED
  BY <1>16, <1>17, <1>18 DEF Among

LEMMA SameHandlers ==
    ASSUME UNCHANGED registered
    PROVE  \A event : Matching(event)' = Matching(event)
BY DEF Matching, Listed, EventPlaces, Heard, PatternMatches

-----------------------------------------------------------------------------
(* One dispatch.                                                           *)

DispatchFields == {"event", "todo", "running", "closed", "results", "failures", "ran"}

(* Of the handlers s of an event, x comes before y. *)
Ahead(s, x, y) == \E p, q \in 1..Len(s) : p < q /\ s[p] = x /\ s[q] = y

Answerers(d) == {i \in 1..Len(d.ran) : Said(d, i) = "returned"}

(* The owner of a handler has answered before its turn. *)
Silenced(d, s, h) ==
    \E i \in Answerers(d) : Owner(d.ran[i].handler) = Owner(h) /\ Ahead(s, d.ran[i].handler, h)

(* What ran, ran in the order of the handlers, and none after an answer of *)
(* its owner; the results are the answers.                                 *)
InTurn(d, s) ==
    /\ Sequential(d.ran) /\ Sequential(d.results)
    /\ \A i, j \in 1..Len(d.ran) : i < j => Ahead(s, d.ran[i].handler, d.ran[j].handler)
    /\ \A i, j \in 1..Len(d.ran) :
          i < j /\ Owner(d.ran[i].handler) = Owner(d.ran[j].handler) => Said(d, i) # "returned"
    /\ \A i \in 1..Len(d.ran) : Among(s, d.ran[i].handler)
    /\ {d.results[i].handler : i \in 1..Len(d.results)} = {d.ran[i].handler : i \in Answerers(d)}

(* The handlers that a dispatch is done with when it has taken n of them.  *)
Over(d, n) == IF d.running = None THEN n ELSE n - 1

(* A dispatch has taken the first n handlers: the last of them may be      *)
(* running, each other has run or was passed over.                         *)
Taking(d, s, n) ==
    /\ d.todo = [i \in 1..(Len(s) - n) |-> s[n + i]]
    /\ \A i \in 1..Len(d.ran) : \E p \in 1..Over(d, n) : s[p] = d.ran[i].handler
    /\ \A p \in 1..Over(d, n) :
          (\E i \in 1..Len(d.ran) : d.ran[i].handler = s[p]) \/ Silenced(d, s, s[p])
    /\ d.running # None => n > 0 /\ d.running = s[n] /\ Owner(d.running) \notin d.closed

DispatchOK(d, s) ==
    /\ DOMAIN d = DispatchFields
    /\ InTurn(d, s)
    /\ d.closed = {Owner(d.ran[i].handler) : i \in Answerers(d)}
    /\ \E n \in 0..Len(s) : Taking(d, s, n)

LEMMA SameRan ==
    ASSUME NEW d, NEW e, e.ran = d.ran, e.results = d.results, NEW s, InTurn(d, s)
    PROVE  InTurn(e, s) /\ Answerers(e) = Answerers(d)
<1>1. Answerers(e) = Answerers(d)
  BY DEF Answerers, Said
<1>2. \A i : Said(e, i) = Said(d, i)
  BY DEF Said
<1>3. InTurn(e, s)
  BY <1>1, <1>2, Zenon DEF InTurn
<1>4. QED
  BY <1>1, <1>3

LEMMA Rest ==
    ASSUME NEW t, Sequential(t), NEW m \in 1..Len(t)
    PROVE  SubSeq(t, m + 1, Len(t)) = [i \in 1..(Len(t) - m) |-> t[m + i]]
<1> DEFINE S == Elements(t)
<1>1. /\ t \in Seq(S) /\ Len(t) \in Nat /\ m + 1 \in 1..(Len(t) + 1) /\ Len(t) - m \in Nat
      /\ \A i \in 1..Len(t) : t[i] \in S
  BY SequentialIsSeq DEF Sequential, Elements
<1> HIDE DEF S
<1>2. PICK r : r = SubSeq(t, m + 1, Len(t))
  OBVIOUS
<1>3. /\ r \in Seq(S) /\ Len(r) = Len(t) - m
      /\ \A i \in 1..(Len(t) - m) : r[i] = t[m + i]
  BY <1>1, <1>2, SubSeqProperties
<1>4. r = [i \in 1..(Len(t) - m) |-> r[i]]
  BY <1>3, LenProperties
<1>5. QED
  BY <1>2, <1>3, <1>4

LEMMA StartsInTurn ==
    ASSUME NEW event, Sequential(Matching(event))
    PROVE  DispatchOK(Dispatch(event), Matching(event)) /\ Dispatch(event).event = event
<1>1. PICK s : s = Matching(event)
  OBVIOUS
<1>2. PICK d : d = Dispatch(event)
  OBVIOUS
<1>3. /\ DOMAIN d = DispatchFields /\ d.event = event /\ d.todo = s /\ d.running = None
      /\ d.closed = {} /\ d.results = <<>> /\ d.ran = <<>>
  BY <1>1, <1>2 DEF Dispatch, DispatchFields
<1>4. Sequential(<<>>) /\ Len(<<>>) = 0 /\ 1..0 = {}
  BY EmptyModules
<1>5. Answerers(d) = {}
  BY <1>3, <1>4 DEF Answerers
<1>6. InTurn(d, s)
  BY <1>3, <1>4, <1>5 DEF InTurn
<1>7. Len(s) \in Nat /\ s = [i \in 1..Len(s) |-> s[i]]
  BY <1>1 DEF Sequential
<1>8. Taking(d, s, 0)
  BY <1>3, <1>4, <1>7 DEF Taking, Over
<1>9. QED
  BY <1>1, <1>2, <1>3, <1>5, <1>6, <1>7, <1>8 DEF DispatchOK

(* The next handler whose owner has not answered is called. *)
LEMMA CalledInTurn ==
    ASSUME NEW s, Sequential(s), \A p \in 1..Len(s) : s[p] # None,
           NEW d, DispatchOK(d, s), d.running = None,
           NEW m \in 1..Len(d.todo), Owner(d.todo[m]) \notin d.closed,
           \A k \in 1..(m - 1) : Owner(d.todo[k]) \in d.closed,
           NEW e, e = [d EXCEPT !.running = d.todo[m], !.todo = SubSeq(d.todo, m + 1, Len(d.todo))]
    PROVE  DispatchOK(e, s) /\ e.running # None /\ e.event = d.event
<1>1. PICK n \in 0..Len(s) : Taking(d, s, n)
  BY DEF DispatchOK
<1>2. /\ DOMAIN e = DispatchFields /\ e.event = d.event /\ e.ran = d.ran /\ e.results = d.results
      /\ e.closed = d.closed /\ e.running = d.todo[m]
      /\ e.todo = SubSeq(d.todo, m + 1, Len(d.todo))
  BY DEF DispatchOK, DispatchFields
<1>3. Len(s) \in Nat /\ n \in Nat /\ Len(s) - n \in Nat
  BY DEF Sequential
<1>4. /\ d.todo = [i \in 1..(Len(s) - n) |-> s[n + i]] /\ Len(d.todo) = Len(s) - n
  <2>1. d.todo = [i \in 1..(Len(s) - n) |-> s[n + i]]
    BY <1>1 DEF Taking
  <2>2. QED
    BY <1>3, <2>1
<1>5. m \in 1..(Len(s) - n) /\ d.todo[m] = s[n + m] /\ n + m \in 1..Len(s)
  BY <1>3, <1>4
<1>6. e.todo = [i \in 1..(Len(s) - (n + m)) |-> s[(n + m) + i]]
  <2>1. PICK t : t = d.todo
    OBVIOUS
  <2>2. Sequential(t) /\ Len(t) = Len(s) - n /\ m \in 1..Len(t)
    BY <1>3, <1>4, <1>5, <2>1 DEF Sequential
  <2>3. ASSUME NEW i \in 1..(Len(t) - m)
        PROVE  t[m + i] = s[(n + m) + i]
    <3>1. m + i \in 1..(Len(s) - n) /\ n + (m + i) = (n + m) + i
      <4>1. i \in Int /\ m \in Int /\ n \in Int /\ Len(s) \in Int /\ Len(t) = Len(s) - n
        BY <1>3, <1>5, <2>2, SMTT(60)
      <4>2. 1 <= i /\ i <= Len(t) - m /\ 1 <= m
        BY <1>5, <4>1, SMTT(60)
      <4>3. QED
        BY <4>1, <4>2, SMTT(60)
    <3>2. t[m + i] = s[n + (m + i)]
      BY <1>4, <2>1, <3>1
    <3>3. QED
      BY <3>1, <3>2
  <2>4. SubSeq(t, m + 1, Len(t)) = [i \in 1..(Len(t) - m) |-> t[m + i]]
    BY <2>2, Rest, SMTT(60)
  <2>5. Len(t) - m = Len(s) - (n + m)
    BY <1>3, <1>5, <2>2
  <2>6. e.todo = SubSeq(t, m + 1, Len(t))
    BY <1>2, <2>1
  <2>7. QED
    BY <2>3, <2>4, <2>5, <2>6
<1>7. Answerers(e) = Answerers(d) /\ \A h : Silenced(e, s, h) <=> Silenced(d, s, h)
  BY <1>2 DEF Answerers, Said, Silenced
<1>8. InTurn(e, s)
  BY <1>2, SameRan DEF DispatchOK
<1>9. d.closed = {Owner(d.ran[i].handler) : i \in Answerers(d)}
  BY DEF DispatchOK
<1>10. e.running # None /\ e.running = s[n + m] /\ Owner(e.running) \notin e.closed
  BY <1>2, <1>5
<1>11. Over(d, n) = n /\ Over(e, n + m) = n + m - 1
  BY <1>10 DEF Over
<1>12. \A i \in 1..Len(e.ran) : \E p \in 1..n : s[p] = e.ran[i].handler
  BY <1>1, <1>2, <1>11 DEF Taking
<1>13. 1..n \subseteq 1..(n + m - 1)
  BY <1>3, <1>5
<1>14. ASSUME NEW p \in 1..(n + m - 1)
       PROVE  (\E i \in 1..Len(e.ran) : e.ran[i].handler = s[p]) \/ Silenced(e, s, s[p])
  <2>1. CASE p \in 1..n
    BY <1>1, <1>2, <1>7, <1>11, <2>1 DEF Taking
  <2>2. CASE p \notin 1..n
    <3>1. p - n \in 1..(m - 1) /\ p = n + (p - n) /\ p - n \in 1..(Len(s) - n) /\ p \in 1..Len(s)
      <4>1. n \in Int /\ m \in Int /\ p \in Int /\ Len(s) \in Int
            /\ 0 <= n /\ 1 <= m /\ m <= Len(s) - n /\ 1 <= p /\ p <= n + m - 1
        BY <1>3, <1>5
      <4>2. n < p
        BY <2>2, <4>1
      <4>3. QED
        BY <4>1, <4>2
    <3>2. d.todo[p - n] = s[p]
      BY <1>4, <3>1
    <3>3. Owner(s[p]) \in d.closed
      BY <3>1, <3>2
    <3>4. PICK i \in Answerers(d) : Owner(d.ran[i].handler) = Owner(s[p])
      BY <1>9, <3>3
    <3>5. PICK q \in 1..n : s[q] = d.ran[i].handler
      BY <1>2, <1>12, <3>4 DEF Answerers
    <3>6. q < p /\ q \in 1..Len(s)
      BY <1>3, <2>2, <3>1
    <3>7. Ahead(s, d.ran[i].handler, s[p])
      BY <3>1, <3>5, <3>6 DEF Ahead
    <3>8. QED
      BY <1>7, <3>4, <3>7 DEF Silenced
  <2>3. QED
    BY <2>1, <2>2
<1>15. Taking(e, s, n + m)
  <2>1. \A i \in 1..Len(e.ran) : \E p \in 1..Over(e, n + m) : s[p] = e.ran[i].handler
    BY <1>11, <1>12, <1>13
  <2>2. \A p \in 1..Over(e, n + m) :
            (\E i \in 1..Len(e.ran) : e.ran[i].handler = s[p]) \/ Silenced(e, s, s[p])
    BY <1>11, <1>14
  <2>3. n + m > 0
    BY <1>3, <1>5
  <2>4. QED
    BY <1>6, <1>10, <2>1, <2>2, <2>3 DEF Taking
<1>16. n + m \in 0..Len(s)
  BY <1>3, <1>5
<1>17. QED
  BY <1>2, <1>7, <1>8, <1>9, <1>10, <1>15, <1>16 DEF DispatchOK

(* The running handler is done, whatever it came to. *)
LEMMA OutcomeInTurn ==
    ASSUME NEW s, Sequential(s), NEW d, DispatchOK(d, s), d.running # None,
           NEW outcome, NEW value, NEW inner,
           NEW e, DOMAIN e = DispatchFields, e.todo = d.todo, e.running = None,
           e.ran = Append(d.ran, [handler |-> d.running, outcome |-> outcome, inner |-> inner]),
           \/ /\ outcome = "returned"
              /\ e.results = Append(d.results, [handler |-> d.running, value |-> value])
              /\ e.closed = d.closed \cup {Owner(d.running)}
           \/ outcome # "returned" /\ e.results = d.results /\ e.closed = d.closed
    PROVE  DispatchOK(e, s)
<1> DEFINE l == Len(d.ran)
           h == d.running
<1>1. PICK n \in 0..Len(s) : Taking(d, s, n)
  BY DEF DispatchOK
<1>2. InTurn(d, s) /\ d.closed = {Owner(d.ran[i].handler) : i \in Answerers(d)}
  BY DEF DispatchOK
<1>3. Sequential(d.ran) /\ Sequential(d.results) /\ l \in Nat /\ Len(d.results) \in Nat
  BY <1>2 DEF InTurn, Sequential
<1>4. PICK item : item = [handler |-> h, outcome |-> outcome, inner |-> inner]
  OBVIOUS
<1>5. item.handler = h /\ item.outcome = outcome /\ e.ran = Append(d.ran, item)
  BY <1>4
<1>6. /\ Sequential(e.ran) /\ Len(e.ran) = l + 1 /\ e.ran[l + 1] = item
      /\ \A i \in 1..l : e.ran[i] = d.ran[i]
  BY <1>3, <1>5, SequentialAppend
<1>7. /\ l + 1 \in 1..(l + 1) /\ 1..l \subseteq 1..(l + 1)
      /\ \A i \in 1..(l + 1) : i \in 1..l \/ i = l + 1
      /\ l + 1 \notin 1..l
  BY <1>3
<1>8. n > 0 /\ h = s[n] /\ Owner(h) \notin d.closed /\ n \in 1..Len(s) /\ Len(s) \in Nat
  BY <1>1 DEF Taking, Sequential
<1>9. Over(d, n) = n - 1 /\ Over(e, n) = n
  BY DEF Over
<1> HIDE DEF h, l
<1>10. \A i \in 1..l : e.ran[i].handler = d.ran[i].handler /\ Said(e, i) = Said(d, i)
  BY <1>6 DEF Said
<1>11. e.ran[l + 1].handler = h /\ Said(e, l + 1) = outcome
  BY <1>5, <1>6 DEF Said
<1>12. \A i \in 1..l : i \in Answerers(e) <=> i \in Answerers(d)
  BY <1>6, <1>7, <1>10 DEF Answerers, l
<1>13. l + 1 \in Answerers(e) <=> outcome = "returned"
  BY <1>6, <1>7, <1>11 DEF Answerers
<1>14. Answerers(e) \subseteq 1..(l + 1) /\ Answerers(d) \subseteq 1..l
  BY <1>6 DEF Answerers, l
<1>15. {e.ran[i].handler : i \in Answerers(e)}
           = {d.ran[i].handler : i \in Answerers(d)} \cup (IF outcome = "returned" THEN {h} ELSE {})
  BY <1>7, <1>10, <1>11, <1>12, <1>13, <1>14
<1>16. {Owner(e.ran[i].handler) : i \in Answerers(e)}
           = {Owner(d.ran[i].handler) : i \in Answerers(d)}
             \cup (IF outcome = "returned" THEN {Owner(h)} ELSE {})
  BY <1>7, <1>10, <1>11, <1>12, <1>13, <1>14
<1>17. e.closed = {Owner(e.ran[i].handler) : i \in Answerers(e)}
  BY <1>2, <1>16 DEF h
<1>18. /\ Sequential(e.results)
       /\ {e.results[i].handler : i \in 1..Len(e.results)} = {e.ran[i].handler : i \in Answerers(e)}
  <2>1. {d.results[i].handler : i \in 1..Len(d.results)} = {d.ran[i].handler : i \in Answerers(d)}
    BY <1>2 DEF InTurn
  <2>2. CASE outcome # "returned"
    BY <1>3, <1>15, <2>1, <2>2
  <2>3. CASE outcome = "returned"
    <3>1. PICK result : result = [handler |-> h, value |-> value]
      OBVIOUS
    <3>2. result.handler = h /\ e.results = Append(d.results, result)
      BY <2>3, <3>1 DEF h
    <3>3. PICK m \in Nat : m = Len(d.results)
      BY <1>3
    <3>4. /\ Sequential(e.results) /\ Len(e.results) = m + 1 /\ e.results[m + 1] = result
          /\ \A i \in 1..m : e.results[i] = d.results[i]
      BY <1>3, <3>2, <3>3, SequentialAppend
    <3>5. m + 1 \in 1..(m + 1) /\ 1..m \subseteq 1..(m + 1)
          /\ \A i \in 1..(m + 1) : i \in 1..m \/ i = m + 1
      OBVIOUS
    <3>6. {e.results[i].handler : i \in 1..(m + 1)} = {d.results[i].handler : i \in 1..m} \cup {h}
      BY <3>2, <3>4, <3>5
    <3>7. QED
      BY <1>15, <2>1, <2>3, <3>3, <3>4, <3>6
  <2>4. QED
    BY <2>2, <2>3
<1>19. ASSUME NEW i \in 1..l
       PROVE  /\ Ahead(s, e.ran[i].handler, h)
              /\ \E p \in 1..(n - 1) : s[p] = e.ran[i].handler
              /\ Owner(e.ran[i].handler) = Owner(h) => Said(e, i) # "returned"
  <2>1. PICK p \in 1..(n - 1) : s[p] = e.ran[i].handler
    BY <1>1, <1>9, <1>10 DEF Taking, l
  <2>2. p \in 1..Len(s) /\ p < n
    BY <1>8
  <2>3. Ahead(s, e.ran[i].handler, h)
    BY <1>8, <2>1, <2>2 DEF Ahead
  <2>4. ASSUME Said(e, i) = "returned"
        PROVE  Owner(e.ran[i].handler) \in d.closed
    BY <1>2, <1>10, <2>4 DEF Answerers, l
  <2>5. QED
    BY <1>8, <2>1, <2>3, <2>4
<1>20. InTurn(e, s)
  <2>1. ASSUME NEW i \in 1..(l + 1), NEW j \in 1..(l + 1), i < j
        PROVE  /\ Ahead(s, e.ran[i].handler, e.ran[j].handler)
               /\ Owner(e.ran[i].handler) = Owner(e.ran[j].handler) => Said(e, i) # "returned"
    <3>1. i \in 1..l
      BY <1>3, <2>1 DEF l
    <3>2. CASE j \in 1..l
      BY <1>2, <1>10, <2>1, <3>1, <3>2 DEF InTurn, l
    <3>3. CASE j = l + 1
      BY <1>11, <1>19, <3>1, <3>3
    <3>4. QED
      BY <1>7, <3>2, <3>3
  <2>2. \A i \in 1..(l + 1) : Among(s, e.ran[i].handler)
    <3>1. \A i \in 1..l : Among(s, e.ran[i].handler)
      BY <1>2, <1>10 DEF InTurn, l
    <3>2. Among(s, e.ran[l + 1].handler)
      BY <1>8, <1>11 DEF Among
    <3>3. QED
      BY <1>7, <3>1, <3>2
  <2>3. QED
    BY <1>6, <1>18, <2>1, <2>2 DEF InTurn
<1>21. Taking(e, s, n)
  <2>1. e.todo = [i \in 1..(Len(s) - n) |-> s[n + i]]
    BY <1>1 DEF Taking
  <2>2. 1..(n - 1) \subseteq 1..n /\ n \in 1..n /\ \A p \in 1..n : p \in 1..(n - 1) \/ p = n
    BY <1>8
  <2>3. \A i \in 1..(l + 1) : \E p \in 1..n : s[p] = e.ran[i].handler
    BY <1>7, <1>8, <1>11, <1>19, <2>2
  <2>4. ASSUME NEW p \in 1..(n - 1)
        PROVE  (\E i \in 1..(l + 1) : e.ran[i].handler = s[p]) \/ Silenced(e, s, s[p])
    <3>1. CASE \E i \in 1..l : d.ran[i].handler = s[p]
      BY <1>7, <1>10, <3>1
    <3>2. CASE Silenced(d, s, s[p])
      <4>1. PICK i \in Answerers(d) : Owner(d.ran[i].handler) = Owner(s[p]) /\ Ahead(s, d.ran[i].handler, s[p])
        BY <3>2 DEF Silenced
      <4>2. i \in 1..l /\ i \in Answerers(e) /\ e.ran[i].handler = d.ran[i].handler
        BY <1>10, <1>12, <1>14, <4>1
      <4>3. QED
        BY <4>1, <4>2 DEF Silenced
    <3>3. QED
      BY <1>1, <1>9, <3>1, <3>2 DEF Taking, l
  <2>5. \A p \in 1..n : (\E i \in 1..(l + 1) : e.ran[i].handler = s[p]) \/ Silenced(e, s, s[p])
    BY <1>7, <1>8, <1>11, <2>2, <2>4
  <2>6. QED
    BY <1>6, <1>9, <2>1, <2>3, <2>5 DEF Taking
<1>22. QED
  BY <1>17, <1>20, <1>21 DEF DispatchOK

(* A dispatch e is d once its running handler has come to an outcome.      *)
Outcome(s, d, e, outcome, value, inner) ==
    /\ DispatchOK(e, s) /\ e.event = d.event
    /\ e.ran = Append(d.ran, [handler |-> d.running, outcome |-> outcome, inner |-> inner])
    /\ \/ outcome = "returned" /\ e.results = Append(d.results, [handler |-> d.running, value |-> value])
       \/ outcome # "returned" /\ e.results = d.results

LEMMA WithOutcomeInTurn ==
    ASSUME NEW s, Sequential(s), NEW d, DispatchOK(d, s), d.running # None,
           NEW outcome \in {"none", "raised", "returned"}, NEW value, NEW inner
    PROVE  Outcome(s, d, WithOutcome(d, outcome, value, inner), outcome, value, inner)
<1> DEFINE item == [handler |-> d.running, outcome |-> outcome, inner |-> inner]
           result == [handler |-> d.running, value |-> value]
<1>0. PICK e : e = WithOutcome(d, outcome, value, inner)
  OBVIOUS
<1>1. DOMAIN d = DispatchFields
  BY DEF DispatchOK
<1>2. PICK done : done = [d EXCEPT !.running = None, !.ran = Append(@, item)]
  OBVIOUS
<1>3. /\ DOMAIN done = DispatchFields /\ done.event = d.event /\ done.todo = d.todo
      /\ done.running = None /\ done.ran = Append(d.ran, item)
      /\ done.results = d.results /\ done.closed = d.closed /\ done.failures = d.failures
  BY <1>1, <1>2 DEF DispatchFields
<1>4. e.event = d.event /\ e.ran = Append(d.ran, item) /\ DispatchOK(e, s)
      /\ \/ outcome = "returned" /\ e.results = Append(d.results, result)
         \/ outcome # "returned" /\ e.results = d.results
  <2>1. CASE outcome = "none"
    <3>1. e = done
      BY <1>0, <1>2, <2>1 DEF WithOutcome
    <3>2. QED
      BY <1>3, <2>1, <3>1, OutcomeInTurn
  <2>2. CASE outcome = "raised"
    <3>1. e = [done EXCEPT !.failures = Append(@, d.running)]
      BY <1>0, <1>2, <2>2 DEF WithOutcome
    <3>2. /\ DOMAIN e = DispatchFields /\ e.event = d.event /\ e.todo = d.todo
          /\ e.running = None /\ e.ran = Append(d.ran, item)
          /\ e.results = d.results /\ e.closed = d.closed
      BY <1>3, <3>1 DEF DispatchFields
    <3>3. QED
      BY <2>2, <3>2, OutcomeInTurn
  <2>3. CASE outcome = "returned"
    <3>1. e = [done EXCEPT !.results = Append(@, result), !.closed = @ \cup {Owner(d.running)}]
      BY <1>0, <1>2, <2>3 DEF WithOutcome
    <3>2. /\ DOMAIN e = DispatchFields /\ e.event = d.event /\ e.todo = d.todo
          /\ e.running = None /\ e.ran = Append(d.ran, item)
          /\ e.results = Append(d.results, result)
          /\ e.closed = d.closed \cup {Owner(d.running)}
      BY <1>3, <3>1 DEF DispatchFields
    <3>3. QED
      BY <2>3, <3>2, OutcomeInTurn
  <2>4. QED
    BY <2>1, <2>2, <2>3
<1>5. QED
  BY <1>0, <1>4 DEF Outcome

-----------------------------------------------------------------------------
(* The dispatches under way and the report of the last one.                *)

(* A relay waits for each dispatch but the innermost. *)
StackOK(ds) ==
    /\ Sequential(ds)
    /\ \A i \in 1..Len(ds) : DispatchOK(ds[i], Matching(ds[i].event))
    /\ \A i \in 1..Len(ds) : i < Len(ds) => ds[i].running # None

ReportOK(r) ==
    r.answer = "done" =>
        /\ InTurn(r, Matching(r.event))
        /\ \A p \in 1..Len(Matching(r.event)) :
              \/ \E i \in 1..Len(r.ran) : r.ran[i].handler = Matching(r.event)[p]
              \/ Silenced(r, Matching(r.event), Matching(r.event)[p])

(* No event is dispatched while a process starts. *)
Listening == dispatches # <<>> \/ report # NoReport => state = "ready" /\ boot.pc = "idle"

EventInv == Listening /\ StackOK(dispatches) /\ ReportOK(report)

LEMMA SameStack ==
    ASSUME UNCHANGED registered, NEW ds, NEW r
    PROVE  (StackOK(ds)' <=> StackOK(ds)) /\ (ReportOK(r)' <=> ReportOK(r))
BY SameHandlers DEF StackOK, ReportOK

(* In a process that is ready no definition is registered twice. *)
LEMMA HandlersInOrder ==
    ASSUME LinkerInv, state = "ready"
    PROVE  /\ Sequential(registered) /\ Once(registered)
           /\ \A event : /\ Sequential(Matching(event)) /\ InOrder(Matching(event))
                         /\ \A h : h \in EventDefinitions /\ Heard(h, event) <=> Among(Matching(event), h)
                         /\ \A p \in 1..Len(Matching(event)) : Matching(event)[p] # None
<1> DEFINE cs == AllContributions(boot.modules)
<1>1. Modular(boot.modules) /\ WellFormed(boot.modules) /\ registered = [i \in DOMAIN cs |-> cs[i].def]
  BY DEF LinkerInv, AttemptShape, AttemptInv
<1>2. cs \in Seq(Contribution) /\ OwnSlots(cs)
  BY <1>1, AllTheirContributions, WellFormedParts
<1> HIDE DEF cs
<1>3. Sequential(cs) /\ DOMAIN cs = 1..Len(cs) /\ Len(cs) \in Nat
  BY <1>2, SeqIsSequential DEF Sequential
<1>4. Sequential(registered)
  BY <1>1, <1>3, MappedSequential
<1>5. DOMAIN registered = 1..Len(registered) /\ DOMAIN registered = DOMAIN cs
  BY <1>1, <1>4, SequentialIsSeq
<1>6. Once(registered)
  BY <1>1, <1>2, <1>5 DEF OwnSlots, Once
<1>7. \A h \in EventDefinitions : h # None
  <2>1. \A i \in DOMAIN registered : registered[i] \in Range(registered)
    BY DEF Range
  <2>2. Range(registered) \subseteq Definition
    BY OnePerPlace
  <2>3. QED
    BY <2>1, <2>2, DefinitionAssumption DEF EventDefinitions, EventPlaces
<1>8. ASSUME NEW event
      PROVE  /\ Sequential(Matching(event)) /\ InOrder(Matching(event))
             /\ \A h : h \in EventDefinitions /\ Heard(h, event) <=> Among(Matching(event), h)
             /\ \A p \in 1..Len(Matching(event)) : Matching(event)[p] # None
  <2>1. /\ Sequential(Matching(event)) /\ InOrder(Matching(event))
        /\ \A h : h \in EventDefinitions /\ Heard(h, event) <=> Among(Matching(event), h)
    BY <1>4, <1>6, MatchingInOrder DEF Among
  <2>2. \A p \in 1..Len(Matching(event)) : Among(Matching(event), Matching(event)[p])
    BY DEF Among
  <2>3. QED
    BY <1>7, <2>1, <2>2
<1>9. QED
  BY <1>4, <1>6, <1>8


LEMMA EndedInTurn ==
    ASSUME NEW s, Sequential(s), NEW d, DispatchOK(d, s), d.running = None, Finished(d), NEW p \in 1..Len(s)
    PROVE  (\E i \in 1..Len(d.ran) : d.ran[i].handler = s[p]) \/ Silenced(d, s, s[p])
<1>1. PICK n \in 0..Len(s) : Taking(d, s, n)
  BY DEF DispatchOK
<1>2. Len(s) \in Nat /\ n \in Nat /\ Over(d, n) = n
  BY DEF Sequential, Over
<1>3. CASE p \in 1..n
  BY <1>1, <1>2, <1>3 DEF Taking
<1>4. CASE p \notin 1..n
  <2>1. p - n \in 1..(Len(s) - n) /\ p = n + (p - n) /\ n < p
    BY <1>2, <1>4
  <2>2. p - n \in DOMAIN d.todo /\ d.todo[p - n] = s[p]
    BY <1>1, <2>1 DEF Taking
  <2>3. Owner(s[p]) \in d.closed
    BY <2>2 DEF Finished
  <2>4. PICK i \in Answerers(d) : Owner(d.ran[i].handler) = Owner(s[p])
    BY <2>3 DEF DispatchOK
  <2>5. PICK q \in 1..n : s[q] = d.ran[i].handler
    BY <1>1, <1>2 DEF Taking, Answerers
  <2>6. q < p /\ q \in 1..Len(s)
    BY <1>2, <2>1
  <2>7. QED
    BY <2>4, <2>5, <2>6 DEF Silenced, Ahead
<1>5. QED
  BY <1>3, <1>4

LEMMA Pushed ==
    ASSUME NEW ds, StackOK(ds), \A i \in 1..Len(ds) : ds[i].running # None,
           NEW d, DispatchOK(d, Matching(d.event))
    PROVE  StackOK(Append(ds, d))
<1>1. Sequential(ds) /\ Len(ds) \in Nat
  BY DEF StackOK, Sequential
<1>2. PICK es : es = Append(ds, d)
  OBVIOUS
<1>3. /\ Sequential(es) /\ Len(es) = Len(ds) + 1 /\ es[Len(ds) + 1] = d
      /\ \A i \in 1..Len(ds) : es[i] = ds[i]
  BY <1>1, <1>2, SequentialAppend
<1>4. \A i \in 1..Len(es) : i \in 1..Len(ds) \/ i = Len(ds) + 1
  BY <1>1, <1>3
<1>5. \A i \in 1..Len(es) : i < Len(es) => i \in 1..Len(ds)
  BY <1>1, <1>3
<1>6. \A i \in 1..Len(es) : DispatchOK(es[i], Matching(es[i].event))
  BY <1>3, <1>4 DEF StackOK
<1>7. QED
  BY <1>2, <1>3, <1>5, <1>6 DEF StackOK

LEMMA WithoutInnermost ==
    ASSUME NEW ds, StackOK(ds), ds # <<>>
    PROVE  /\ DispatchOK(Last(ds), Matching(Last(ds).event))
           /\ StackOK(Front(ds))
           /\ \A i \in 1..Len(Front(ds)) : Front(ds)[i].running # None
           /\ Last(ds).running # None => \A i \in 1..Len(ds) : ds[i].running # None
<1>1. Sequential(ds) /\ Len(ds) \in Nat
  BY DEF StackOK, Sequential
<1>2. /\ Sequential(Front(ds)) /\ Len(Front(ds)) = Len(ds) - 1
      /\ \A i \in 1..(Len(ds) - 1) : Front(ds)[i] = ds[i]
      /\ Len(ds) \in 1..Len(ds) /\ Last(ds) = ds[Len(ds)]
  BY <1>1, SequentialFront
<1>3. \A i \in 1..(Len(ds) - 1) : i \in 1..Len(ds) /\ i < Len(ds)
  BY <1>1
<1>4. \A i \in 1..Len(ds) : i < Len(ds) \/ i = Len(ds)
  BY <1>1
<1>5. StackOK(Front(ds))
  <2>1. \A i \in 1..Len(Front(ds)) : DispatchOK(Front(ds)[i], Matching(Front(ds)[i].event))
    BY <1>2, <1>3 DEF StackOK
  <2>2. \A i \in 1..Len(Front(ds)) : Front(ds)[i].running # None
    BY <1>2, <1>3 DEF StackOK
  <2>3. QED
    BY <1>2, <2>1, <2>2 DEF StackOK
<1>6. QED
  BY <1>2, <1>3, <1>4, <1>5 DEF StackOK

LEMMA SomeReports ==
    ASSUME NEW r, r.answer # "done"
    PROVE  ReportOK(r)
BY DEF ReportOK

LEMMA NothingDispatched ==
    /\ StackOK(<<>>) /\ ReportOK(NoReport)
    /\ (StackOK(<<>>) /\ ReportOK(NoReport))'
<1>1. Sequential(<<>>) /\ Len(<<>>) = 0 /\ 1..0 = {}
  BY EmptyModules
<1>2. StackOK(<<>>) /\ StackOK(<<>>)'
  BY <1>1 DEF StackOK
<1>3. NoReport.answer # "done"
  BY DEF NoReport
<1>4. ReportOK(NoReport) /\ ReportOK(NoReport)'
  BY <1>3 DEF ReportOK
<1>5. QED
  BY <1>2, <1>4

(* The steps of a dispatch. *)
LEMMA PublishKeeps ==
    ASSUME LinkerInv, state = "ready", NEW event, Publish(event), NEW ds, NEW r,
           ds = dispatches', r = report', StackOK(dispatches), ReportOK(report)
    PROVE  StackOK(ds) /\ ReportOK(r)
<1>1. CASE Matchable
  <2>1. ds = <<Dispatch(event)>> /\ r = report
    BY <1>1 DEF Publish
  <2>2. PICK d : d = Dispatch(event)
    OBVIOUS
  <2>3. DispatchOK(d, Matching(d.event))
    BY <2>2, HandlersInOrder, StartsInTurn
  <2>4. ds = Append(<<>>, d)
    BY <2>1, <2>2
  <2>5. \A i \in 1..Len(<<>>) : <<>>[i].running # None
    BY EmptyModules
  <2>6. StackOK(ds)
    BY <2>3, <2>4, <2>5, NothingDispatched, Pushed
  <2>7. QED
    BY <2>1, <2>6
<1>2. CASE ~Matchable
  <2>1. ds = dispatches /\ r = [NoReport EXCEPT !.answer = "regex", !.event = event]
    BY <1>2 DEF Publish
  <2>2. r.answer # "done"
    BY <2>1 DEF NoReport
  <2>3. QED
    BY <2>1, <2>2, SomeReports
<1>3. QED
  BY <1>1, <1>2

LEMMA CallHandlerKeeps ==
    ASSUME LinkerInv, state = "ready", CallHandler, NEW ds, ds = dispatches', StackOK(dispatches)
    PROVE  StackOK(ds)
<1>1. PICK d : d = Current
  OBVIOUS
<1>2. PICK s : s = Matching(d.event)
  OBVIOUS
<1>3. PICK open : open = {i \in DOMAIN d.todo : Owner(d.todo[i]) \notin d.closed}
  OBVIOUS
<1>4. PICK e : e = [d EXCEPT !.running = d.todo[Min(open)],
                             !.todo = SubSeq(d.todo, Min(open) + 1, Len(d.todo))]
  OBVIOUS
<1>5. dispatches # <<>> /\ d.running = None /\ open # {} /\ ds = Append(Front(dispatches), e)
  BY <1>1, <1>3, <1>4 DEF CallHandler, Dispatching
<1>6. /\ DispatchOK(d, s) /\ StackOK(Front(dispatches))
      /\ \A i \in 1..Len(Front(dispatches)) : Front(dispatches)[i].running # None
  BY <1>1, <1>2, <1>5, WithoutInnermost DEF Current
<1>7. Sequential(s) /\ \A p \in 1..Len(s) : s[p] # None
  BY <1>2, HandlersInOrder
<1>8. DOMAIN d.todo = 1..Len(d.todo) /\ Len(d.todo) \in Nat
  <2>1. PICK n \in 0..Len(s) : d.todo = [i \in 1..(Len(s) - n) |-> s[n + i]]
    BY <1>6 DEF DispatchOK, Taking
  <2>2. Len(s) - n \in Nat
    BY <1>7 DEF Sequential
  <2>3. QED
    BY <2>1, <2>2
<1>9. open \in SUBSET (1..Len(d.todo))
  BY <1>3, <1>8
<1>10. PICK m : m = Min(open)
  OBVIOUS
<1>11. m \in open /\ \A x \in open : m <= x
  BY <1>5, <1>8, <1>9, <1>10, MinOfPlaces
<1>12. m \in 1..Len(d.todo) /\ Owner(d.todo[m]) \notin d.closed
  BY <1>3, <1>8, <1>11
<1>13. ASSUME NEW k \in 1..(m - 1)
       PROVE  Owner(d.todo[k]) \in d.closed
  <2>1. k \in 1..Len(d.todo) /\ ~(m <= k)
    BY <1>8, <1>12
  <2>2. QED
    BY <1>3, <1>8, <1>11, <2>1
<1>14. DispatchOK(e, s) /\ e.event = d.event
  BY <1>4, <1>5, <1>6, <1>7, <1>10, <1>12, <1>13, CalledInTurn, ZenonT(60)
<1>15. QED
  BY <1>2, <1>5, <1>6, <1>14, Pushed

LEMMA HandleKeeps ==
    ASSUME LinkerInv, state = "ready", NEW outcome, Handle(outcome), NEW ds, ds = dispatches',
           StackOK(dispatches)
    PROVE  StackOK(ds)
<1>1. PICK d : d = Current
  OBVIOUS
<1>2. PICK e : e = WithOutcome(d, outcome, TRUE, NoReport)
  OBVIOUS
<1>3. /\ dispatches # <<>> /\ d.running # None /\ outcome \in {"none", "raised", "returned"}
      /\ ds = Append(Front(dispatches), e)
  BY <1>1, <1>2 DEF Handle, Dispatching, Outcomes
<1>4. /\ DispatchOK(d, Matching(d.event)) /\ StackOK(Front(dispatches))
      /\ \A i \in 1..Len(Front(dispatches)) : Front(dispatches)[i].running # None
  BY <1>1, <1>3, WithoutInnermost DEF Current
<1>5. Sequential(Matching(d.event))
  BY HandlersInOrder
<1>6. Outcome(Matching(d.event), d, e, outcome, TRUE, NoReport)
  BY <1>2, <1>3, <1>4, <1>5, WithOutcomeInTurn, ZenonT(60)
<1>7. QED
  BY <1>3, <1>4, <1>6, Pushed DEF Outcome

LEMMA RelayEventKeeps ==
    ASSUME LinkerInv, state = "ready", RelayEvent, NEW ds, ds = dispatches', StackOK(dispatches)
    PROVE  StackOK(ds)
<1>1. PICK event : event = RelayedEvent(Current.running)
  OBVIOUS
<1>2. PICK d : d = Dispatch(event)
  OBVIOUS
<1>3. dispatches # <<>> /\ Current.running # None /\ ds = Append(dispatches, d)
  BY <1>1, <1>2 DEF RelayEvent, Dispatching
<1>4. \A i \in 1..Len(dispatches) : dispatches[i].running # None
  BY <1>3, WithoutInnermost DEF Current
<1>5. DispatchOK(d, Matching(d.event))
  BY <1>2, HandlersInOrder, StartsInTurn
<1>6. QED
  BY <1>3, <1>4, <1>5, Pushed

LEMMA EndsWithKeeps ==
    ASSUME LinkerInv, state = "ready", Dispatching, NEW answer, NEW value, EndsWith(answer, value),
           answer = "done" => Current.running = None /\ Finished(Current),
           NEW ds, NEW r, ds = dispatches', r = report', StackOK(dispatches)
    PROVE  StackOK(ds) /\ ReportOK(r)
<1>1. PICK d : d = Current
  OBVIOUS
<1>2. PICK s : s = Matching(d.event)
  OBVIOUS
<1>3. PICK inner : inner = Front(dispatches)
  OBVIOUS
<1>4. dispatches # <<>> /\ r = Report(d, answer)
  BY <1>1 DEF EndsWith, Dispatching
<1>5. /\ DispatchOK(d, s) /\ StackOK(inner)
      /\ \A i \in 1..Len(inner) : inner[i].running # None
  BY <1>1, <1>2, <1>3, <1>4, WithoutInnermost DEF Current
<1>6. Sequential(s)
  BY <1>2, HandlersInOrder
<1>7. ReportOK(r)
  <2> SUFFICES ASSUME r.answer = "done"
               PROVE  ReportOK(r)
    BY DEF ReportOK
  <2>0. d.running = None /\ Finished(d)
    BY <1>1, <1>4 DEF Report
  <2>1. r.event = d.event /\ r.ran = d.ran /\ r.results = d.results
    BY <1>4 DEF Report
  <2>2. InTurn(r, s) /\ Answerers(r) = Answerers(d)
    BY <1>5, <2>1, SameRan DEF DispatchOK
  <2>3. \A h : Silenced(r, s, h) <=> Silenced(d, s, h)
    BY <2>1, <2>2 DEF Silenced
  <2>4. \A p \in 1..Len(s) : (\E i \in 1..Len(r.ran) : r.ran[i].handler = s[p]) \/ Silenced(r, s, s[p])
    BY <1>5, <1>6, <2>0, <2>1, <2>3, EndedInTurn
  <2>5. QED
    BY <1>2, <2>1, <2>2, <2>4 DEF ReportOK
<1>8. StackOK(ds)
  <2>1. CASE Len(dispatches) = 1
    BY <2>1, NothingDispatched DEF EndsWith
  <2>2. CASE Len(dispatches) # 1
    <3>1. PICK outer : outer = Last(inner)
      OBVIOUS
    <3>2. PICK outcome : outcome = RelayOutcome(outer.running, answer)
      OBVIOUS
    <3>4. PICK e : e = WithOutcome(outer, outcome, value, r)
      OBVIOUS
    <3>5. ds = Append(Front(inner), e)
      BY <1>1, <1>3, <1>4, <2>2, <3>1, <3>2, <3>4 DEF EndsWith
    <3>6. Sequential(dispatches) /\ Len(dispatches) \in Nat
      BY DEF EventInv, StackOK, Sequential
    <3>7. Len(inner) = Len(dispatches) - 1 /\ Len(dispatches) \in 1..Len(dispatches) /\ Sequential(inner)
      BY <1>3, <1>4, <3>6, SequentialFront
    <3>8. inner # <<>>
      BY <2>2, <3>6, <3>7, EmptyModules
    <3>9. Len(inner) \in 1..Len(inner) /\ outer = inner[Len(inner)]
      BY <3>1, <3>7, <3>8, SequentialFront
    <3>10. outer.running # None
      BY <1>5, <3>9
    <3>11. /\ DispatchOK(outer, Matching(outer.event)) /\ StackOK(Front(inner))
           /\ \A i \in 1..Len(Front(inner)) : Front(inner)[i].running # None
      BY <1>5, <3>1, <3>8, WithoutInnermost
    <3>12. Sequential(Matching(outer.event)) /\ outcome \in {"none", "raised", "returned"}
      BY <3>2, HandlersInOrder DEF RelayOutcome
    <3>13. Outcome(Matching(outer.event), outer, e, outcome, value, r)
      BY <3>4, <3>10, <3>11, <3>12, WithOutcomeInTurn, ZenonT(60)
    <3>14. QED
      BY <3>5, <3>11, <3>13, Pushed DEF Outcome
  <2>3. QED
    BY <2>1, <2>2
<1>9. QED
  BY <1>7, <1>8

(* The steps of a process, by what they do to events. *)
LEMMA EventSteps ==
    ASSUME LinkerInv, EventInv, Next, NEW ds, NEW r, ds = dispatches', r = report'
    PROVE  \/ ds = <<>> /\ r = NoReport
           \/ /\ StackOK(ds) /\ ReportOK(r) /\ UNCHANGED <<registered, state, boot>>
              /\ ds # <<>> \/ r # NoReport => state = "ready" /\ boot.pc = "idle"
<1>1. Listening /\ StackOK(dispatches) /\ ReportOK(report)
  BY DEF EventInv
<1>2. ASSUME UNCHANGED <<eventVars, registered, state, boot>>
      PROVE  /\ StackOK(ds) /\ ReportOK(r) /\ UNCHANGED <<registered, state, boot>>
             /\ ds # <<>> \/ r # NoReport => state = "ready" /\ boot.pc = "idle"
  BY <1>1, <1>2 DEF eventVars, Listening
<1>3. CASE \E t \in Token : ReadFile(t)
  BY <1>2, <1>3 DEF ReadFile, linkerVars
<1>4. CASE \E disk \in Disk : Build(disk)
  BY <1>2, <1>4 DEF Build, linkerVars
<1>5. CASE \E from \in Source : Create(from)
  BY <1>2, <1>5 DEF Create, CreateContainer
<1>6. CASE Enter
  BY <1>6 DEF Enter, Idle, eventVars
<1>7. CASE Boots
  <2>1. UNCHANGED eventVars
    BY <1>7 DEF Boots
  <2>2. boot.pc # "idle"
    BY <1>7 DEF Boots, ReadPlugins, BuildModules, Link, Register, Finish
  <2>3. QED
    BY <1>1, <2>1, <2>2 DEF Listening, eventVars
<1>8. CASE Restart
  BY <1>8 DEF Restart
<1>9. CASE Events
  <2>1. state = "ready" /\ boot.pc = "idle"
    BY <1>9 DEF Events, Serving
  <2>2. UNCHANGED linkerVars
    BY <1>9 DEF Events, Publish, EventStep, CallHandler, Handle, HandleUnsupported, RelayEvent,
                EndDispatch, EndsWith, TakeReport, CancelDispatch
  <2>3. ASSUME NEW event \in EventKey, Publish(event)
        PROVE  StackOK(ds) /\ ReportOK(r)
    BY <1>1, <2>1, <2>3, PublishKeeps
  <2>4. ASSUME CallHandler
        PROVE  StackOK(ds) /\ ReportOK(r)
    BY <1>1, <2>1, <2>4, CallHandlerKeeps DEF CallHandler
  <2>5. ASSUME NEW outcome, Handle(outcome)
        PROVE  StackOK(ds) /\ ReportOK(r)
    BY <1>1, <2>1, <2>5, HandleKeeps DEF Handle
  <2>6. ASSUME RelayEvent
        PROVE  StackOK(ds) /\ ReportOK(r)
    BY <1>1, <2>1, <2>6, RelayEventKeeps DEF RelayEvent
  <2>7. ASSUME EndDispatch \/ HandleUnsupported
        PROVE  StackOK(ds) /\ ReportOK(r)
    <3>1. CASE EndDispatch
      BY <1>1, <2>1, <3>1, EndsWithKeeps DEF EndDispatch
    <3>2. CASE HandleUnsupported
      BY <1>1, <2>1, <3>2, EndsWithKeeps DEF HandleUnsupported
    <3>3. QED
      BY <2>7, <3>1, <3>2
  <2>8. ASSUME TakeReport
        PROVE  StackOK(ds) /\ ReportOK(r)
    BY <1>1, <2>8, NothingDispatched DEF TakeReport
  <2>9. ASSUME CancelDispatch
        PROVE  StackOK(ds) /\ ReportOK(r)
    <3>1. ds = <<>> /\ r = Report(dispatches[1], "cancelled")
      BY <2>9 DEF CancelDispatch
    <3>2. r.answer # "done"
      BY <3>1 DEF Report
    <3>3. QED
      BY <3>1, <3>2, SomeReports, NothingDispatched
  <2>10. StackOK(ds) /\ ReportOK(r)
    BY <1>9, <2>3, <2>4, <2>5, <2>6, <2>7, <2>8, <2>9 DEF Events, EventStep
  <2>11. QED
    BY <2>1, <2>2, <2>10 DEF linkerVars
<1>10. CASE Route \/ AnswerRouted
  BY <1>2, <1>10 DEF Route, AnswerRouted, RouteRequest, AnswerRequest, linkerVars
<1>11. CASE Receive
  BY <1>2, <1>11 DEF Receive, ReceiveCall, linkerVars
<1>12. CASE Call
  <2>1. UNCHANGED linkerVars
    BY <1>12, ApiStepReads DEF Call
  <2>2. QED
    BY <1>2, <1>12, <2>1 DEF Call, linkerVars
<1>13. CASE Disturb
  BY <1>2, <1>13 DEF Disturb, Interfere, linkerVars
<1>14. QED
  BY <1>3, <1>4, <1>5, <1>6, <1>7, <1>8, <1>9, <1>10, <1>11, <1>12, <1>13 DEF Next

LEMMA EventInvInit == Init => EventInv
BY NothingDispatched DEF Init, EventInit, EventInv, Listening

LEMMA EventInvNext == LinkerInv /\ EventInv /\ [Next]_vars => EventInv'
<1> SUFFICES ASSUME LinkerInv, EventInv, [Next]_vars
             PROVE  EventInv'
  OBVIOUS
<1>1. PICK ds : ds = dispatches'
  OBVIOUS
<1>2. PICK r : r = report'
  OBVIOUS
<1>3. CASE ds = <<>> /\ r = NoReport
  BY <1>1, <1>2, <1>3, NothingDispatched DEF EventInv, Listening
<1>4. ASSUME StackOK(ds), ReportOK(r), UNCHANGED <<registered, state, boot>>,
             ds # <<>> \/ r # NoReport => state = "ready" /\ boot.pc = "idle"
      PROVE  EventInv'
  <2>1. StackOK(ds)' /\ ReportOK(r)'
    BY <1>4, SameStack
  <2>2. Listening'
    BY <1>1, <1>2, <1>4 DEF Listening
  <2>3. QED
    BY <1>1, <1>2, <2>1, <2>2 DEF EventInv
<1>5. CASE UNCHANGED vars
  BY <1>1, <1>2, <1>4, <1>5 DEF vars, eventVars, linkerVars, EventInv, Listening
<1>6. QED
  BY <1>1, <1>2, <1>3, <1>4, <1>5, EventSteps

(* What is known of dispatches holds in every state of a process. *)
THEOREM EventInvariant == Spec => []EventInv
<1>1. Init => LinkerInv /\ EventInv
  BY LinkerInvInit, EventInvInit
<1>2. LinkerInv /\ EventInv /\ [Next]_vars => (LinkerInv /\ EventInv)'
  BY LinkerInvNext, EventInvNext
<1>3. QED
  BY <1>1, <1>2, PTL DEF Spec

LEMMA AheadIsBefore ==
    ASSUME NEW s, InOrder(s), NEW x, NEW y, Ahead(s, x, y)
    PROVE  Before(x, y)
BY DEF InOrder, Ahead

LEMMA TurnIsPrecedence ==
    ASSUME NEW d, InTurn(d, Matching(d.event)), InOrder(Matching(d.event)),
           \A h : Among(Matching(d.event), h) => Heard(h, d.event)
    PROVE  InPrecedence(d)
<1>1. DOMAIN d.ran = 1..Len(d.ran) /\ DOMAIN d.results = 1..Len(d.results)
  BY SequentialIsSeq DEF InTurn
<1>2. \A i, j \in DOMAIN d.ran : i < j => Before(d.ran[i].handler, d.ran[j].handler)
  BY <1>1, AheadIsBefore DEF InTurn
<1>3. \A i, j \in DOMAIN d.ran :
          i < j /\ Owner(d.ran[i].handler) = Owner(d.ran[j].handler) => Said(d, i) # "returned"
  BY <1>1 DEF InTurn
<1>4. \A i \in DOMAIN d.ran : Heard(d.ran[i].handler, d.event)
  BY <1>1 DEF InTurn
<1>5. {d.results[i].handler : i \in DOMAIN d.results} =
          {d.ran[i].handler : i \in {k \in DOMAIN d.ran : Said(d, k) = "returned"}}
  BY <1>1 DEF InTurn, Answerers
<1>6. QED
  BY <1>2, <1>3, <1>4, <1>5 DEF InPrecedence

(* A dispatch that is over has left nobody out. *)
LEMMA DoneIsComplete ==
    ASSUME LinkerInv, state = "ready", NEW r, InTurn(r, Matching(r.event)), ReportOK(r)
    PROVE  InPrecedence(r) /\ (r.answer = "done" => NobodyLeftOut(r))
<1>1. PICK s : s = Matching(r.event)
  OBVIOUS
<1>2. InOrder(s) /\ \A h : h \in EventDefinitions /\ Heard(h, r.event) <=> Among(s, h)
  BY <1>1, HandlersInOrder
<1>3. InPrecedence(r)
  BY <1>1, <1>2, TurnIsPrecedence
<1>4. DOMAIN r.ran = 1..Len(r.ran)
  BY SequentialIsSeq DEF InTurn
<1>5. ASSUME r.answer = "done", NEW h \in EventDefinitions, Heard(h, r.event), h \notin Ran(r)
      PROVE  \E i \in DOMAIN r.ran :
                /\ Said(r, i) = "returned"
                /\ Owner(r.ran[i].handler) = Owner(h)
                /\ Before(r.ran[i].handler, h)
  <2>1. PICK p \in 1..Len(s) : s[p] = h
    BY <1>2, <1>5 DEF Among
  <2>2. ~\E i \in 1..Len(r.ran) : r.ran[i].handler = s[p]
    BY <1>4, <1>5, <2>1 DEF Ran
  <2>3. Silenced(r, s, h)
    BY <1>1, <1>5, <2>1, <2>2 DEF ReportOK
  <2>4. QED
    BY <1>2, <1>4, <2>3, AheadIsBefore DEF Silenced, Answerers
<1>6. QED
  BY <1>3, <1>5 DEF NobodyLeftOut

-----------------------------------------------------------------------------
(* What the relays come to.                                                *)

(* A relay that ran has the report of its own event, and came to what that *)
(* says.                                                                   *)
Relayed(entry) ==
    Relays(entry.handler) =>
        LET inner == entry.inner
        IN  /\ inner.event = RelayedEvent(entry.handler)
            /\ InTurn(inner, Matching(inner.event)) /\ ReportOK(inner)
            /\ inner.answer \in {"done", "unsupported"}
            /\ entry.outcome = RelayOutcome(entry.handler, inner.answer)

RelaysRan(d) ==
    /\ \A i \in 1..Len(d.ran) : Relayed(d.ran[i])
    /\ \A k \in 1..Len(d.results) :
          Relays(d.results[k].handler) =>
              \E i \in 1..Len(d.ran) :
                  /\ d.ran[i].handler = d.results[k].handler
                  /\ d.results[k].value <=> Answerers(d.ran[i].inner) # {}

(* Each dispatch but the outermost is that of a relay. *)
RelaysWait(ds) ==
    /\ \A i \in 1..Len(ds) : RelaysRan(ds[i])
    /\ \A i \in 1..Len(ds) :
          i < Len(ds) => Relays(ds[i].running) /\ ds[i + 1].event = RelayedEvent(ds[i].running)

RelayInv == RelaysWait(dispatches) /\ (report.answer = "done" => RelaysRan(report))

LEMMA SameRelays ==
    ASSUME UNCHANGED registered, NEW ds, NEW r
    PROVE  (RelaysWait(ds)' <=> RelaysWait(ds)) /\ (RelaysRan(r)' <=> RelaysRan(r))
<1>1. \A x : ReportOK(x)' <=> ReportOK(x)
  BY SameStack
<1>2. ASSUME NEW entry
      PROVE  Relayed(entry)' <=> Relayed(entry)
  BY <1>1, SameHandlers DEF Relayed
<1>3. \A d : RelaysRan(d)' <=> RelaysRan(d)
  BY <1>2 DEF RelaysRan
<1>4. QED
  BY <1>3 DEF RelaysWait

LEMMA SameRelaysRan ==
    ASSUME NEW d, RelaysRan(d), NEW e, e.ran = d.ran, e.results = d.results
    PROVE  RelaysRan(e)
<1>1. PICK ran, results : ran = d.ran /\ results = d.results
  OBVIOUS
<1>2. /\ \A i \in 1..Len(ran) : Relayed(ran[i])
      /\ \A k \in 1..Len(results) :
            Relays(results[k].handler) =>
                \E i \in 1..Len(ran) :
                    /\ ran[i].handler = results[k].handler
                    /\ results[k].value <=> Answerers(ran[i].inner) # {}
  BY <1>1 DEF RelaysRan
<1>3. e.ran = ran /\ e.results = results
  BY <1>1
<1>4. QED
  BY <1>2, <1>3, ZenonT(60) DEF RelaysRan

LEMMA NoRelays ==
    /\ RelaysWait(<<>>) /\ NoReport.answer # "done"
    /\ RelaysWait(<<>>)'
BY EmptyModules DEF RelaysWait, NoReport

LEMMA RelayPushed ==
    ASSUME NEW ds, Sequential(ds), RelaysWait(ds), NEW d, RelaysRan(d),
           ds # <<>> => Relays(Last(ds).running) /\ d.event = RelayedEvent(Last(ds).running)
    PROVE  RelaysWait(Append(ds, d))
<1>1. PICK es, n : es = Append(ds, d) /\ n = Len(ds)
  OBVIOUS
<1>2. /\ n \in Nat /\ Len(es) = n + 1 /\ es[n + 1] = d
      /\ \A i \in 1..n : es[i] = ds[i]
  BY <1>1, SequentialAppend DEF Sequential
<1>3. \A i \in 1..(n + 1) : i \in 1..n \/ i = n + 1
  BY <1>2
<1>4. \A i \in 1..(n + 1) : RelaysRan(es[i])
  BY <1>1, <1>2, <1>3 DEF RelaysWait
<1>5. ASSUME NEW i \in 1..(n + 1), i < n + 1
      PROVE  Relays(es[i].running) /\ es[i + 1].event = RelayedEvent(es[i].running)
  <2>1. i \in 1..n /\ es[i] = ds[i] /\ n \in 1..n
    BY <1>2, <1>5
  <2>2. CASE i < n
    <3>1. i + 1 \in 1..n /\ es[i + 1] = ds[i + 1]
      BY <1>2, <2>1, <2>2
    <3>2. QED
      BY <1>1, <2>1, <2>2, <3>1 DEF RelaysWait
  <2>3. CASE i = n
    <3>1. ds # <<>> /\ Last(ds) = ds[n]
      BY <1>1, <2>1, EmptyModules, SequentialFront
    <3>2. QED
      BY <1>2, <2>1, <2>3, <3>1
  <2>4. QED
    BY <1>2, <2>1, <2>2, <2>3
<1>6. QED
  BY <1>1, <1>2, <1>4, <1>5 DEF RelaysWait

LEMMA RelaysInnermost ==
    ASSUME NEW ds, Sequential(ds), ds # <<>>, RelaysWait(ds)
    PROVE  /\ RelaysWait(Front(ds)) /\ Sequential(Front(ds)) /\ RelaysRan(Last(ds))
           /\ Front(ds) # <<>> =>
                 /\ Relays(Last(Front(ds)).running)
                 /\ Last(ds).event = RelayedEvent(Last(Front(ds)).running)
<1>1. PICK es, n : es = Front(ds) /\ n = Len(ds)
  OBVIOUS
<1>2. /\ n \in Nat /\ Sequential(es) /\ Len(es) = n - 1 /\ n \in 1..n /\ Last(ds) = ds[n]
      /\ \A i \in 1..(n - 1) : es[i] = ds[i]
  BY <1>1, SequentialFront DEF Sequential
<1>3. \A i \in 1..(n - 1) : i \in 1..n /\ i < n
  BY <1>2
<1>4. \A i \in 1..(n - 1) : i < n - 1 => i + 1 \in 1..(n - 1)
  BY <1>2
<1>5. RelaysWait(es)
  BY <1>1, <1>2, <1>3, <1>4 DEF RelaysWait
<1>6. RelaysRan(Last(ds))
  BY <1>1, <1>2 DEF RelaysWait
<1>7. ASSUME es # <<>>
      PROVE  Relays(Last(es).running) /\ Last(ds).event = RelayedEvent(Last(es).running)
  <2>1. n - 1 \in 1..(n - 1) /\ Last(es) = es[n - 1] /\ (n - 1) + 1 = n
    BY <1>2, <1>7, SequentialFront
  <2>2. QED
    BY <1>1, <1>2, <1>3, <2>1 DEF RelaysWait
<1>8. QED
  BY <1>1, <1>2, <1>5, <1>6, <1>7

(* A handler is done. *)
LEMMA RelayDone ==
    ASSUME NEW d, Sequential(d.ran), Sequential(d.results), RelaysRan(d),
           NEW entry, Relayed(entry), NEW result, result.handler = entry.handler,
           NEW e, e.ran = Append(d.ran, entry),
           \/ /\ e.results = Append(d.results, result)
              /\ Relays(entry.handler) => (result.value <=> Answerers(entry.inner) # {})
           \/ e.results = d.results
    PROVE  RelaysRan(e)
<1>1. PICK n, m : n = Len(d.ran) /\ m = Len(d.results)
  OBVIOUS
<1>2. n \in Nat /\ m \in Nat
  BY <1>1 DEF Sequential
<1>3. /\ Len(e.ran) = n + 1 /\ e.ran[n + 1] = entry
      /\ \A i \in 1..n : e.ran[i] = d.ran[i]
  BY <1>1, SequentialAppend
<1>4. n + 1 \in 1..(n + 1) /\ \A i \in 1..(n + 1) : i \in 1..n \/ i = n + 1
  BY <1>2
<1>5. 1..n \subseteq 1..(n + 1)
  BY <1>2
<1>6. \A i \in 1..(n + 1) : Relayed(e.ran[i])
  BY <1>1, <1>3, <1>4 DEF RelaysRan
<1>7. ASSUME NEW k \in 1..m, Relays(d.results[k].handler)
      PROVE  \E i \in 1..(n + 1) :
                /\ e.ran[i].handler = d.results[k].handler
                /\ d.results[k].value <=> Answerers(e.ran[i].inner) # {}
  <2>1. PICK i \in 1..n : /\ d.ran[i].handler = d.results[k].handler
                          /\ d.results[k].value <=> Answerers(d.ran[i].inner) # {}
    BY <1>1, <1>7 DEF RelaysRan
  <2>2. i \in 1..(n + 1) /\ e.ran[i] = d.ran[i]
    BY <1>3, <1>5, <2>1
  <2>3. QED
    BY <2>1, <2>2
<1>8. CASE e.results = d.results
  <2>1. Len(e.results) = m
    BY <1>1, <1>8
  <2>2. ASSUME NEW k \in 1..m, Relays(e.results[k].handler)
        PROVE  \E i \in 1..(n + 1) :
                  /\ e.ran[i].handler = e.results[k].handler
                  /\ e.results[k].value <=> Answerers(e.ran[i].inner) # {}
    <3>1. PICK entryOf : entryOf = d.results[k]
      OBVIOUS
    <3>2. e.results[k] = entryOf
      BY <1>8, <3>1
    <3>3. \E i \in 1..(n + 1) :
              /\ e.ran[i].handler = entryOf.handler
              /\ entryOf.value <=> Answerers(e.ran[i].inner) # {}
      BY <1>7, <2>2, <3>1, <3>2
    <3>4. QED
      BY <3>2, <3>3
  <2>3. QED
    BY <1>3, <1>6, <2>1, <2>2 DEF RelaysRan
<1>9. CASE /\ e.results = Append(d.results, result)
           /\ Relays(entry.handler) => (result.value <=> Answerers(entry.inner) # {})
  <2>1. /\ Len(e.results) = m + 1 /\ e.results[m + 1] = result
        /\ \A k \in 1..m : e.results[k] = d.results[k]
    BY <1>1, <1>9, SequentialAppend
  <2>2. \A k \in 1..(m + 1) : k \in 1..m \/ k = m + 1
    BY <1>2
  <2>3. ASSUME NEW k \in 1..(m + 1), Relays(e.results[k].handler)
        PROVE  \E i \in 1..(n + 1) :
                  /\ e.ran[i].handler = e.results[k].handler
                  /\ e.results[k].value <=> Answerers(e.ran[i].inner) # {}
    <3>1. CASE k \in 1..m
      BY <1>7, <2>1, <2>3, <3>1
    <3>2. CASE k = m + 1
      BY <1>3, <1>4, <1>9, <2>1, <2>3, <3>2
    <3>3. QED
      BY <2>2, <3>1, <3>2
  <2>4. QED
    BY <1>3, <1>6, <2>1, <2>3 DEF RelaysRan
<1>10. QED
  BY <1>8, <1>9

LEMMA RelaysCalled ==
    ASSUME StackOK(dispatches), RelaysWait(dispatches), CallHandler, NEW ds, ds = dispatches'
    PROVE  RelaysWait(ds)
<1>1. PICK d : d = Current
  OBVIOUS
<1>2. PICK open : open = {i \in DOMAIN d.todo : Owner(d.todo[i]) \notin d.closed}
  OBVIOUS
<1>3. PICK e : e = [d EXCEPT !.running = d.todo[Min(open)],
                             !.todo = SubSeq(d.todo, Min(open) + 1, Len(d.todo))]
  OBVIOUS
<1>4. dispatches # <<>> /\ ds = Append(Front(dispatches), e) /\ Sequential(dispatches)
  BY <1>1, <1>2, <1>3 DEF CallHandler, Dispatching, StackOK
<1>5. DOMAIN d = DispatchFields
  BY <1>1, <1>4, WithoutInnermost DEF DispatchOK, Current
<1>6. e.ran = d.ran /\ e.results = d.results /\ e.event = d.event
  BY <1>3, <1>5 DEF DispatchFields
<1>7. RelaysRan(e)
  BY <1>1, <1>4, <1>6, RelaysInnermost, SameRelaysRan DEF Current
<1>8. QED
  BY <1>1, <1>4, <1>6, <1>7, RelaysInnermost, RelayPushed DEF Current

LEMMA RelaysHandled ==
    ASSUME LinkerInv, state = "ready", StackOK(dispatches), RelaysWait(dispatches),
           NEW outcome, Handle(outcome), NEW ds, ds = dispatches'
    PROVE  RelaysWait(ds)
<1>1. PICK d, e : d = Current /\ e = WithOutcome(d, outcome, TRUE, NoReport)
  OBVIOUS
<1>2. /\ dispatches # <<>> /\ d.running # None /\ ~Relays(d.running)
      /\ outcome \in {"none", "raised", "returned"} /\ ds = Append(Front(dispatches), e)
  BY <1>1 DEF Handle, Dispatching, Outcomes
<1>3. DispatchOK(d, Matching(d.event)) /\ Sequential(dispatches)
  BY <1>1, <1>2, WithoutInnermost DEF Current, StackOK
<1>4. Sequential(Matching(d.event))
  BY HandlersInOrder
<1>5. PICK entry, result : /\ entry = [handler |-> d.running, outcome |-> outcome, inner |-> NoReport]
                           /\ result = [handler |-> d.running, value |-> TRUE]
  OBVIOUS
<1>6. /\ e.event = d.event /\ e.ran = Append(d.ran, entry)
      /\ e.results = Append(d.results, result) \/ e.results = d.results
  <2>1. Outcome(Matching(d.event), d, e, outcome, TRUE, NoReport)
    BY <1>1, <1>2, <1>3, <1>4, WithOutcomeInTurn, ZenonT(60)
  <2>2. QED
    BY <1>5, <2>1 DEF Outcome
<1>7. entry.handler = d.running /\ result.handler = d.running
  BY <1>5
<1>8. Relayed(entry)
  BY <1>2, <1>7 DEF Relayed
<1>9. Sequential(d.ran) /\ Sequential(d.results)
  BY <1>3 DEF DispatchOK, InTurn
<1>10. RelaysRan(d)
  BY <1>1, <1>2, <1>3, RelaysInnermost DEF Current
<1>11. RelaysRan(e)
  BY <1>2, <1>6, <1>7, <1>8, <1>9, <1>10, RelayDone
<1>12. QED
  BY <1>1, <1>2, <1>3, <1>6, <1>11, RelaysInnermost, RelayPushed DEF Current

LEMMA NothingRan ==
    ASSUME NEW event
    PROVE  RelaysRan(Dispatch(event)) /\ Dispatch(event).event = event
BY EmptyModules DEF RelaysRan, Dispatch

LEMMA RelaysPublished ==
    ASSUME StackOK(dispatches), RelaysWait(dispatches), RelayEvent, NEW ds, ds = dispatches'
    PROVE  RelaysWait(ds)
<1>1. PICK event : event = RelayedEvent(Current.running)
  OBVIOUS
<1>2. PICK d : d = Dispatch(event)
  OBVIOUS
<1>3. dispatches # <<>> /\ Relays(Current.running) /\ ds = Append(dispatches, d) /\ Sequential(dispatches)
  BY <1>1, <1>2 DEF RelayEvent, Dispatching, StackOK
<1>4. RelaysRan(d) /\ d.event = event
  BY <1>2, NothingRan
<1>5. QED
  BY <1>1, <1>3, <1>4, RelayPushed DEF Current

(* There are results if and only if a handler has answered. *)
LEMMA ResultsOfAnswers ==
    ASSUME NEW d, NEW s, InTurn(d, s)
    PROVE  d.results # <<>> <=> Answerers(d) # {}
<1>1. Sequential(d.results) /\ Len(d.results) \in Nat
  BY DEF InTurn, Sequential
<1>2. {d.results[i].handler : i \in 1..Len(d.results)} = {d.ran[i].handler : i \in Answerers(d)}
  BY DEF InTurn
<1>3. CASE d.results = <<>>
  <2>1. 1..Len(d.results) = {}
    BY <1>3, EmptyModules
  <2>2. QED
    BY <1>2, <1>3, <2>1
<1>4. CASE d.results # <<>>
  <2>1. Len(d.results) \in 1..Len(d.results)
    BY <1>1, <1>4, SequentialFront
  <2>2. QED
    BY <1>2, <1>4, <2>1
<1>5. QED
  BY <1>3, <1>4

LEMMA RelaysEnd ==
    ASSUME LinkerInv, state = "ready", Dispatching, StackOK(dispatches), RelaysWait(dispatches),
           NEW answer \in {"done", "unsupported"}, NEW value, EndsWith(answer, value),
           answer = "done" => /\ Current.running = None /\ Finished(Current)
                              /\ value = (Current.results # <<>>),
           NEW ds, NEW r, ds = dispatches', r = report'
    PROVE  RelaysWait(ds) /\ RelaysRan(r)
<1>1. PICK d, s : d = Current /\ s = Matching(d.event)
  OBVIOUS
<1>2. PICK front : front = Front(dispatches)
  OBVIOUS
<1>3. dispatches # <<>> /\ Sequential(dispatches) /\ Len(dispatches) \in Nat
  BY DEF Dispatching, StackOK, Sequential
<1>4. r = Report(d, answer)
  BY <1>1 DEF EndsWith
<1>5. r.event = d.event /\ r.ran = d.ran /\ r.results = d.results /\ r.answer = answer
  BY <1>4 DEF Report
<1>6. DispatchOK(d, s) /\ StackOK(front)
  BY <1>1, <1>2, <1>3, WithoutInnermost DEF Current
<1>7. InTurn(d, s) /\ InTurn(r, s) /\ Answerers(r) = Answerers(d)
  BY <1>5, <1>6, SameRan DEF DispatchOK
<1>8. ReportOK(r)
  BY EndsWithKeeps
<1>9. /\ RelaysWait(front) /\ Sequential(front) /\ RelaysRan(d)
      /\ front # <<>> => Relays(Last(front).running) /\ d.event = RelayedEvent(Last(front).running)
  BY <1>1, <1>2, <1>3, RelaysInnermost DEF Current
<1>10. RelaysRan(r)
  BY <1>5, <1>9, SameRelaysRan
<1>11. CASE Len(dispatches) = 1
  <2>1. ds = <<>>
    BY <1>11 DEF EndsWith
  <2>2. QED
    BY <1>10, <2>1, NoRelays
<1>12. CASE Len(dispatches) # 1
  <2>1. PICK outer : outer = Last(front)
    OBVIOUS
  <2>2. PICK outcome : outcome = RelayOutcome(outer.running, answer)
    OBVIOUS
  <2>3. PICK e : e = WithOutcome(outer, outcome, value, r)
    OBVIOUS
  <2>4. ds = Append(Front(front), e)
    BY <1>1, <1>2, <1>4, <1>12, <2>1, <2>2, <2>3 DEF EndsWith
  <2>5. front # <<>>
    <3>1. Len(front) = Len(dispatches) - 1 /\ Len(dispatches) # 0
      BY <1>2, <1>3, SequentialFront
    <3>2. QED
      BY <1>3, <1>12, <3>1, EmptyModules
  <2>6. DispatchOK(outer, Matching(outer.event)) /\ StackOK(Front(front))
    BY <1>6, <2>1, <2>5, WithoutInnermost
  <2>7. outer.running # None
    <3>1. \A i \in 1..Len(front) : front[i].running # None
      BY <1>2, <1>3, WithoutInnermost
    <3>2. Len(front) \in 1..Len(front) /\ outer = front[Len(front)]
      BY <1>9, <2>1, <2>5, SequentialFront
    <3>3. QED
      BY <3>1, <3>2
  <2>8. Sequential(Matching(outer.event)) /\ outcome \in {"none", "raised", "returned"}
    BY <2>2, HandlersInOrder DEF RelayOutcome
  <2>9. PICK entry, result : /\ entry = [handler |-> outer.running, outcome |-> outcome, inner |-> r]
                             /\ result = [handler |-> outer.running, value |-> value]
    OBVIOUS
  <2>10. /\ e.event = outer.event /\ e.ran = Append(outer.ran, entry)
         /\ \/ outcome = "returned" /\ e.results = Append(outer.results, result)
            \/ e.results = outer.results
    <3>1. Outcome(Matching(outer.event), outer, e, outcome, value, r)
      BY <2>3, <2>6, <2>7, <2>8, WithOutcomeInTurn, ZenonT(60)
    <3>2. QED
      BY <2>9, <3>1 DEF Outcome
  <2>11. /\ entry.handler = outer.running /\ entry.outcome = outcome /\ entry.inner = r
         /\ result.handler = outer.running /\ result.value = value
    BY <2>9
  <2>12. Relayed(entry)
    BY <1>1, <1>5, <1>7, <1>8, <1>9, <2>1, <2>2, <2>5, <2>11 DEF Relayed
  <2>13. outcome = "returned" => (value <=> Answerers(r) # {})
    BY <1>1, <1>7, <2>2, ResultsOfAnswers DEF RelayOutcome
  <2>14. Sequential(outer.ran) /\ Sequential(outer.results)
    BY <2>6 DEF DispatchOK, InTurn
  <2>15. /\ RelaysWait(Front(front)) /\ Sequential(Front(front)) /\ RelaysRan(outer)
         /\ Front(front) # <<>> =>
               /\ Relays(Last(Front(front)).running)
               /\ outer.event = RelayedEvent(Last(Front(front)).running)
    BY <1>9, <2>1, <2>5, RelaysInnermost
  <2>16. RelaysRan(e)
    BY <2>10, <2>11, <2>12, <2>13, <2>14, <2>15, RelayDone
  <2>17. QED
    BY <1>10, <2>4, <2>10, <2>15, <2>16, RelayPushed
<1>13. QED
  BY <1>11, <1>12

LEMMA RelayEvents ==
    ASSUME LinkerInv, EventInv, RelayInv, Events, NEW ds, NEW r, ds = dispatches', r = report'
    PROVE  RelaysWait(ds) /\ (r.answer = "done" => RelaysRan(r))
<1>1. StackOK(dispatches) /\ RelaysWait(dispatches) /\ (report.answer = "done" => RelaysRan(report))
  BY DEF EventInv, RelayInv
<1>2. state = "ready"
  BY DEF Events, Serving
<1>3. ASSUME NEW event \in EventKey, Publish(event)
      PROVE  RelaysWait(ds) /\ (r.answer = "done" => RelaysRan(r))
  <2>1. CASE Matchable
    <3>1. PICK d : d = Dispatch(event)
      OBVIOUS
    <3>2. ds = Append(<<>>, d) /\ r = report
      BY <1>3, <2>1, <3>1 DEF Publish
    <3>3. RelaysRan(d) /\ Sequential(<<>>)
      BY <3>1, NothingRan, EmptyModules
    <3>4. QED
      BY <1>1, <3>2, <3>3, NoRelays, RelayPushed
  <2>2. CASE ~Matchable
    <3>1. ds = dispatches /\ r.answer # "done"
      BY <1>3, <2>2 DEF Publish, NoReport
    <3>2. QED
      BY <1>1, <3>1
  <2>3. QED
    BY <2>1, <2>2
<1>4. CASE CallHandler
  BY <1>1, <1>4, RelaysCalled DEF CallHandler
<1>5. ASSUME NEW outcome, Handle(outcome)
      PROVE  RelaysWait(ds) /\ (r.answer = "done" => RelaysRan(r))
  BY <1>1, <1>2, <1>5, RelaysHandled DEF Handle
<1>6. CASE RelayEvent
  BY <1>1, <1>6, RelaysPublished DEF RelayEvent
<1>7. CASE HandleUnsupported
  <2>1. Dispatching /\ EndsWith("unsupported", FALSE)
    BY <1>7 DEF HandleUnsupported
  <2>2. QED
    BY <1>1, <1>2, <2>1, RelaysEnd
<1>8. CASE EndDispatch
  <2>1. PICK value : value = (Current.results # <<>>)
    OBVIOUS
  <2>2. Dispatching /\ Current.running = None /\ Finished(Current) /\ EndsWith("done", value)
    BY <1>8, <2>1 DEF EndDispatch
  <2>3. QED
    BY <1>1, <1>2, <2>1, <2>2, RelaysEnd
<1>9. CASE TakeReport
  BY <1>1, <1>9, NoRelays DEF TakeReport
<1>10. CASE CancelDispatch
  <2>1. ds = <<>> /\ r.answer = "cancelled"
    BY <1>10 DEF CancelDispatch, Report
  <2>2. QED
    BY <2>1, NoRelays
<1>11. QED
  BY <1>3, <1>4, <1>5, <1>6, <1>7, <1>8, <1>9, <1>10 DEF Events, EventStep

LEMMA RelayInvInit == Init => RelayInv
BY NoRelays DEF Init, EventInit, RelayInv

LEMMA RelayInvNext == LinkerInv /\ EventInv /\ RelayInv /\ [Next]_vars => RelayInv'
<1> SUFFICES ASSUME LinkerInv, EventInv, RelayInv, [Next]_vars
             PROVE  RelayInv'
  OBVIOUS
<1>1. PICK ds : ds = dispatches'
  OBVIOUS
<1>2. PICK r : r = report'
  OBVIOUS
<1>3. CASE ds = <<>> /\ r = NoReport
  BY <1>1, <1>2, <1>3, NoRelays DEF RelayInv
<1>4. ASSUME RelaysWait(ds), r.answer = "done" => RelaysRan(r), UNCHANGED registered
      PROVE  RelayInv'
  <2>1. RelaysWait(ds)' /\ (r.answer = "done" => RelaysRan(r)')
    BY <1>4, SameRelays
  <2>2. QED
    BY <1>1, <1>2, <2>1 DEF RelayInv
<1>5. CASE UNCHANGED vars
  BY <1>1, <1>2, <1>4, <1>5 DEF RelayInv, vars, eventVars, linkerVars
<1>6. CASE Next
  <2>1. (ds = <<>> /\ r = NoReport) \/ UNCHANGED registered
    BY <1>1, <1>2, <1>6, EventSteps
  <2>2. CASE Events
    BY <1>1, <1>2, <1>3, <1>4, <2>1, <2>2, RelayEvents
  <2>3. CASE Restart
    BY <1>1, <1>2, <1>3, <2>3 DEF Restart
  <2>4. CASE UNCHANGED eventVars
    BY <1>1, <1>2, <1>3, <1>4, <2>1, <2>4 DEF RelayInv, eventVars
  <2>5. QED
    BY <1>6, <2>2, <2>3, <2>4
    DEF Next, ReadFile, Build, Create, Enter, Boots, Route, AnswerRouted, Receive, Call, Disturb
<1>7. QED
  BY <1>5, <1>6

(* What is known of relays holds in every state of a process. *)
THEOREM RelayInvariant == Spec => []RelayInv
<1>1. Init => LinkerInv /\ EventInv /\ RelayInv
  BY LinkerInvInit, EventInvInit, RelayInvInit
<1>2. LinkerInv /\ EventInv /\ RelayInv /\ [Next]_vars => (LinkerInv /\ EventInv /\ RelayInv)'
  BY LinkerInvNext, EventInvNext, RelayInvNext
<1>3. QED
  BY <1>1, <1>2, PTL DEF Spec

LEMMA RanIsAnswered ==
    ASSUME LinkerInv, state = "ready", NEW d, Sequential(d.ran), Sequential(d.results), RelaysRan(d)
    PROVE  RelaysAnswer(d)
<1>1. DOMAIN d.ran = 1..Len(d.ran) /\ DOMAIN d.results = 1..Len(d.results)
  BY SequentialIsSeq
<1>2. ASSUME NEW i \in 1..Len(d.ran), NEW relay, relay = d.ran[i].handler, Relays(relay),
             NEW inner, inner = d.ran[i].inner
      PROVE  /\ inner.event = RelayedEvent(relay)
             /\ InPrecedence(inner)
             /\ CASE inner.answer = "done" ->
                        /\ NobodyLeftOut(inner)
                        /\ Said(d, i) = (IF relay.handler = "relay_collection" THEN "returned" ELSE "none")
                  [] inner.answer = "unsupported" -> Said(d, i) = "raised"
             /\ Sequential(inner.ran)
  <2>1. /\ inner.event = RelayedEvent(relay)
        /\ InTurn(inner, Matching(inner.event)) /\ ReportOK(inner)
        /\ inner.answer \in {"done", "unsupported"}
        /\ Said(d, i) = RelayOutcome(relay, inner.answer)
    BY <1>2 DEF RelaysRan, Relayed, Said
  <2>2. InPrecedence(inner) /\ (inner.answer = "done" => NobodyLeftOut(inner))
    BY <2>1, DoneIsComplete
  <2>3. relay.handler \in {"relay_delete", "relay_collection"}
    BY <1>2 DEF Relays
  <2>4. Sequential(inner.ran)
    BY <2>1 DEF InTurn
  <2>5. CASE inner.answer = "done"
    BY <2>1, <2>2, <2>3, <2>4, <2>5 DEF RelayOutcome
  <2>6. CASE inner.answer = "unsupported"
    BY <2>1, <2>2, <2>4, <2>6 DEF RelayOutcome
  <2>7. QED
    BY <2>1, <2>5, <2>6
<1>3. ASSUME NEW k \in 1..Len(d.results), Relays(d.results[k].handler)
      PROVE  \E i \in 1..Len(d.ran) :
                 LET inner == d.ran[i].inner
                 IN  /\ d.ran[i].handler = d.results[k].handler
                     /\ d.results[k].value <=> \E j \in DOMAIN inner.ran : Said(inner, j) = "returned"
  <2>1. PICK i \in 1..Len(d.ran) :
                /\ d.ran[i].handler = d.results[k].handler
                /\ d.results[k].value <=> Answerers(d.ran[i].inner) # {}
    BY <1>3 DEF RelaysRan
  <2>2. PICK inner : inner = d.ran[i].inner
    OBVIOUS
  <2>3. Sequential(inner.ran)
    BY <1>2, <1>3, <2>1, <2>2
  <2>4. DOMAIN inner.ran = 1..Len(inner.ran)
    BY <2>3, SequentialIsSeq
  <2>5. Answerers(inner) # {} <=> \E j \in DOMAIN inner.ran : Said(inner, j) = "returned"
    BY <2>4 DEF Answerers
  <2>6. QED
    BY <2>1, <2>2, <2>5
<1>4. QED
  BY <1>1, <1>2, <1>3 DEF RelaysAnswer

(* Each owner answers an event at most once, by the first of its handlers  *)
(* that answers, nobody else is left out, and a relay's answer is whether  *)
(* its own event was answered: AnsweredOncePerOwner, whatever handlers are *)
(* registered, whatever they return or raise, and however the relays nest  *)
(* their events.                                                           *)
THEOREM OwnersAnswerOnce == Spec => []AnsweredOncePerOwner
<1>1. LinkerInv /\ EventInv /\ RelayInv => AnsweredOncePerOwner
  <2> SUFFICES ASSUME LinkerInv, EventInv, RelayInv
               PROVE  AnsweredOncePerOwner
    OBVIOUS
  <2>1. /\ Listening /\ StackOK(dispatches) /\ ReportOK(report)
        /\ RelaysWait(dispatches) /\ (report.answer = "done" => RelaysRan(report))
    BY DEF EventInv, RelayInv
  <2>2. ASSUME NEW i \in DOMAIN dispatches
        PROVE  InPrecedence(dispatches[i]) /\ RelaysAnswer(dispatches[i])
    <3>1. DOMAIN dispatches = 1..Len(dispatches) /\ dispatches # <<>>
      BY <2>1, <2>2, SequentialIsSeq, EmptySeq DEF StackOK
    <3>2. PICK d : d = dispatches[i]
      OBVIOUS
    <3>3. InTurn(d, Matching(d.event)) /\ state = "ready" /\ RelaysRan(d)
      BY <2>1, <2>2, <3>1, <3>2 DEF StackOK, DispatchOK, Listening, RelaysWait
    <3>4. InPrecedence(d)
      BY <3>3, HandlersInOrder, TurnIsPrecedence
    <3>5. RelaysAnswer(d)
      BY <3>3, RanIsAnswered DEF InTurn
    <3>6. QED
      BY <3>2, <3>4, <3>5
  <2>3. ASSUME report.answer = "done"
        PROVE  InPrecedence(report) /\ NobodyLeftOut(report) /\ RelaysAnswer(report)
    <3>1. report # NoReport
      BY <2>3 DEF NoReport
    <3>2. state = "ready" /\ InTurn(report, Matching(report.event)) /\ RelaysRan(report)
      BY <2>1, <2>3, <3>1 DEF Listening, ReportOK
    <3>3. RelaysAnswer(report)
      BY <3>2, RanIsAnswered DEF InTurn
    <3>4. QED
      BY <2>1, <2>3, <3>2, <3>3, DoneIsComplete
  <2>4. QED
    BY <2>2, <2>3 DEF AnsweredOncePerOwner
<1>2. QED
  BY <1>1, LinkerInvariant, EventInvariant, RelayInvariant, PTL

-----------------------------------------------------------------------------
(* The tables a router is built from.                                      *)

(* Numbered rules, whose controls have values. *)
Ruled(rules) ==
    /\ \E n \in Nat : DOMAIN rules = 1..n
    /\ \A i \in DOMAIN rules :
          "module" \in DOMAIN rules[i].seed => rules[i].seed["module"] # None

Given(entries) ==
    /\ \E n \in Nat : DOMAIN entries = 1..n
    /\ \A i \in DOMAIN entries : \A name \in DOMAIN entries[i].fields : entries[i].fields[name] # None

(* Numbered rules that are each on or off. *)
Switched(rules) ==
    /\ \E n \in Nat : DOMAIN rules = 1..n
    /\ \A i \in DOMAIN rules : "off" \in DOMAIN rules[i]

LEMMA NoRules == Ruled(<<>>) /\ Switched(<<>>)
<1>1. DOMAIN <<>> = 1..0 /\ 1..0 = {}
  OBVIOUS
<1>2. QED
  BY <1>1 DEF Ruled, Switched

LEMMA FieldsGiven ==
    ASSUME NEW entry, \A name \in DOMAIN entry.fields : entry.fields[name] # None,
           NEW fields, fields = AsFields(entry, "app", "module"), "module" \in DOMAIN fields
    PROVE  fields["module"] # None
<1> DEFINE url == Only("url", entry.id)
           short == entry.shorthand
           rest == IF Len(short) > 1 /\ short[2] # None THEN Only("module", short[2]) ELSE NoControls
<1>1. DOMAIN url = {"url"} /\ DOMAIN Only("app", short[1]) = {"app"}
  BY DEF Only
<1>2. "module" \in DOMAIN rest => rest["module"] # None
  <2>1. DOMAIN NoControls = {}
    BY DEF NoControls
  <2>2. "module" \in DOMAIN rest => short[2] # None /\ rest["module"] = short[2]
    BY <2>1 DEF Only
  <2>3. QED
    BY <2>2
<1>3. CASE short = None
  <2>1. fields = Overlaid(entry.fields, url)
    BY <1>3 DEF AsFields
  <2>2. "module" \in DOMAIN entry.fields /\ fields["module"] = entry.fields["module"]
    BY <1>1, <2>1 DEF Overlaid
  <2>3. QED
    BY <2>2
<1>4. CASE short # None
  <2>1. fields = Overlaid(url, Overlaid(Only("app", short[1]), rest))
    BY <1>4 DEF AsFields
  <2> HIDE DEF rest, url
  <2>2. "module" \in DOMAIN rest /\ fields["module"] = rest["module"]
    BY <1>1, <2>1 DEF Overlaid
  <2>3. QED
    BY <1>2, <2>2
<1>5. QED
  BY <1>3, <1>4

LEMMA SystemRulesRuled ==
    ASSUME NEW entries, Given(entries)
    PROVE  Ruled(SystemRules(entries))
<1>1. DOMAIN SystemRules(entries) = DOMAIN entries
  BY DEF SystemRules
<1>2. ASSUME NEW i \in DOMAIN entries, "module" \in DOMAIN SystemRules(entries)[i].seed
      PROVE  SystemRules(entries)[i].seed["module"] # None
  <2>1. PICK fields : fields = AsFields(entries[i], "app", "module")
    OBVIOUS
  <2>2. SystemRules(entries)[i].seed = Restricted(fields, Controls)
    BY <2>1 DEF SystemRules, SystemRule
  <2>3. "module" \in DOMAIN fields /\ SystemRules(entries)[i].seed["module"] = fields["module"]
    BY <1>2, <2>2 DEF Restricted
  <2>4. QED
    BY <2>1, <2>3, FieldsGiven DEF Given
<1>3. QED
  BY <1>1, <1>2 DEF Ruled, Given

(* Every host of a table has rules that are written in the file. *)
LEMMA TableRuled ==
    ASSUME NEW S, NEW raw \in Seq(S), \A i \in DOMAIN raw : Given(raw[i].entries)
    PROVE  \A name \in DOMAIN SystemTable(raw) : Ruled(SystemTable(raw)[name])
<1> DEFINE n == Len(raw)
           own == {i \in DOMAIN raw : raw[i].alias = None}
           names == {raw[i].domain : i \in DOMAIN raw}
           books == {SystemRules(raw[i].entries) : i \in DOMAIN raw} \cup {<<>>}
           X == UNION {[N -> books] : N \in SUBSET names}
           routes == [name \in {raw[i].domain : i \in own} |->
                         SystemRules(raw[CHOOSE i \in own : raw[i].domain = name].entries)]
           AliasOf(d, table) == IF d.alias \in DOMAIN table THEN table[d.alias] ELSE <<>>
           WithAlias(i, f) == Overlaid(Only(raw[i].domain, AliasOf(raw[i], f)), f)
           t == [i \in 1..n |-> [f \in X |-> IF i \in own THEN f ELSE WithAlias(i, f)]]
           Body(f, i) == IF i = 0 THEN routes
                         ELSE IF i \in own THEN f[i - 1]
                         ELSE WithAlias(i, f[i - 1])
           table == CHOOSE f : f = [i \in 0..n |-> Body(f, i)]
<1>1. n \in Nat /\ DOMAIN raw = 1..n
  BY LenProperties
<1>2. \A f : f \in X <=> /\ f = [x \in DOMAIN f |-> f[x]] /\ DOMAIN f \subseteq names
                         /\ \A x \in DOMAIN f : f[x] \in books
  <2> HIDE DEF names, books
  <2>1. QED
    OBVIOUS
<1>3. routes \in X
  <2>1. ASSUME NEW name \in {raw[i].domain : i \in own}
        PROVE  routes[name] \in books
    <3>1. \E i \in own : raw[i].domain = name
      BY <2>1
    <3>2. PICK j : j = CHOOSE i \in own : raw[i].domain = name
      OBVIOUS
    <3>3. j \in own
      BY <3>1, <3>2
    <3>4. routes[name] = SystemRules(raw[j].entries)
      BY <3>2
    <3>5. QED
      BY <3>3, <3>4
  <2>2. DOMAIN routes = {raw[i].domain : i \in own} /\ {raw[i].domain : i \in own} \subseteq names
    OBVIOUS
  <2>3. routes = [x \in DOMAIN routes |-> routes[x]]
    OBVIOUS
  <2> HIDE DEF routes, X, books, own, names
  <2>4. QED
    BY <1>2, <2>1, <2>2, <2>3
<1>4. ASSUME NEW i \in 1..n, NEW f \in X
      PROVE  WithAlias(i, f) \in X
  <2>1. PICK new : new = WithAlias(i, f)
    OBVIOUS
  <2>2. PICK alias : alias = AliasOf(raw[i], f)
    OBVIOUS
  <2> HIDE DEF X, books, own, names
  <2>3. /\ f = [x \in DOMAIN f |-> f[x]] /\ DOMAIN f \subseteq names
        /\ \A x \in DOMAIN f : f[x] \in books
    BY <1>2
  <2>4. alias \in books
    BY <2>2, <2>3 DEF books
  <2>5. /\ DOMAIN new = {raw[i].domain} \cup DOMAIN f
        /\ new = [x \in DOMAIN new |-> new[x]]
        /\ \A x \in DOMAIN new : new[x] = IF x = raw[i].domain THEN alias ELSE f[x]
    BY <2>1, <2>2 DEF Overlaid, Only
  <2>6. raw[i].domain \in names
    BY <1>1 DEF names
  <2>7. \A x \in DOMAIN new : new[x] \in books
    BY <2>3, <2>4, <2>5
  <2>8. DOMAIN new \subseteq names
    BY <2>3, <2>5, <2>6
  <2>9. new \in X
    BY <1>2, <2>5, <2>7, <2>8
  <2>10. QED
    BY <2>1, <2>9
<1>5. t \in Steps(X, n)
  <2> HIDE DEF X
  <2>1. \A i \in 1..n : \A f \in X : (IF i \in own THEN f ELSE WithAlias(i, f)) \in X
    BY <1>4
  <2> HIDE DEF own, WithAlias
  <2>2. QED
    BY <2>1 DEF Steps
<1>6. PICK f : Runs(f, X, n, routes, t)
  <2> HIDE DEF t, X, n, routes
  <2>1. QED
    BY <1>1, <1>3, <1>5, Recursion
<1> HIDE DEF t, n, own, names, books, X, routes, WithAlias
<1>7. f \in [0..n -> X] /\ f[0] = routes
      /\ \A i \in 1..n : f[i] = IF i \in own THEN f[i - 1] ELSE WithAlias(i, f[i - 1])
  <2>1. f \in [0..n -> X] /\ f[0] = routes
    BY <1>6 DEF Runs
  <2>2. ASSUME NEW i \in 1..n
        PROVE  f[i] = IF i \in own THEN f[i - 1] ELSE WithAlias(i, f[i - 1])
    <3>1. i - 1 \in 0..n
      BY <1>1
    <3>2. f[i - 1] \in X /\ f[i] = t[i][f[i - 1]]
      BY <1>6, <2>1, <3>1 DEF Runs
    <3>3. t[i] = [g \in X |-> IF i \in own THEN g ELSE WithAlias(i, g)]
      BY DEF t
    <3>4. QED
      BY <3>2, <3>3
  <2>3. QED
    BY <2>1, <2>2
<1> HIDE DEF Body, table
<1>8. f = [i \in 0..n |-> Body(f, i)]
  <2>1. \A i \in 0..n : i = 0 \/ i \in 1..n
    BY <1>1
  <2>2. \A i \in 0..n : f[i] = Body(f, i)
    BY <1>1, <1>7, <2>1 DEF Body
  <2>3. QED
    BY <1>7, <2>2
<1>9. table = [i \in 0..n |-> Body(table, i)]
  BY <1>8 DEF table
<1>10. SystemTable(raw) = table[n]
  BY DEF SystemTable, table, Body, n, own, routes, WithAlias
<1>11. n \in {i \in 0..n : table[i] = f[i]}
  <2> DEFINE T == {i \in 0..n : table[i] = f[i]}
  <2>1. 0 \in T
    BY <1>1, <1>7, <1>9 DEF Body
  <2>2. ASSUME NEW i \in 1..n, i - 1 \in T
        PROVE  i \in T
    <3>1. i \in 0..n /\ i # 0 /\ table[i - 1] = f[i - 1]
      BY <1>1, <2>2
    <3>2. table[i] = IF i \in own THEN table[i - 1] ELSE WithAlias(i, table[i - 1])
      BY <1>9, <3>1 DEF Body
    <3>3. QED
      BY <1>7, <3>1, <3>2
  <2>3. 0..n \subseteq T
    <3> HIDE DEF T
    <3>1. QED
      BY <1>1, <2>1, <2>2, Upwards
  <2>4. n \in 0..n
    BY <1>1
  <2>5. QED
    BY <2>3, <2>4
<1>12. SystemTable(raw) \in X
  BY <1>1, <1>7, <1>10, <1>11
<1>13. \A book \in books : Ruled(book)
  <2>1. \A i \in DOMAIN raw : Ruled(SystemRules(raw[i].entries))
    BY SystemRulesRuled
  <2>2. QED
    BY <2>1, NoRules DEF books
<1>14. QED
  BY <1>2, <1>12, <1>13
LEMMA RulebookRuled ==
    ASSUME NEW table, \A name \in DOMAIN table : Ruled(table[name]), NEW domain
    PROVE  Ruled(Rulebook(table, domain))
BY NoRules DEF Rulebook

LEMMA AppRulesSwitched ==
    ASSUME NEW S, NEW entries \in Seq(S)
    PROVE  Switched(AppRules(entries))
<1>1. Len(entries) \in Nat /\ DOMAIN AppRules(entries) = 1..Len(entries)
  BY LenProperties DEF AppRules
<1>2. \A i \in DOMAIN AppRules(entries) : "off" \in DOMAIN AppRules(entries)[i]
  BY DEF AppRules, AppRule
<1>3. QED
  BY <1>1, <1>2 DEF Switched

-----------------------------------------------------------------------------
(* The rule that settles an address, and the redirect to its slash.        *)

(* The number of a rule is that of a rule that is on. *)
LEMMA FirstRuleIsOne ==
    ASSUME NEW n \in Nat, NEW rules, DOMAIN rules = 1..n, NEW path, FirstRule(rules, path) # 0
    PROVE  FirstRule(rules, path) \in DOMAIN rules /\ ~rules[FirstRule(rules, path)].off
<1> DEFINE fitting == {i \in DOMAIN rules : ~rules[i].off /\ Fit(rules[i].pattern, path) # None}
<1>1. fitting \in SUBSET (1..n) /\ FirstRule(rules, path) = IF fitting = {} THEN 0 ELSE Min(fitting)
  BY DEF FirstRule
<1>2. \A i \in fitting : i \in DOMAIN rules /\ ~rules[i].off
  OBVIOUS
<1> HIDE DEF fitting
<1>3. fitting # {} /\ FirstRule(rules, path) = Min(fitting)
  BY <1>1
<1>4. Min(fitting) \in fitting
  BY <1>1, <1>3, MinOfPlaces
<1>5. QED
  BY <1>2, <1>3, <1>4

LEMMA SettleKinds ==
    ASSUME NEW rules, NEW path
    PROVE  LET settled == Settle(rules, path)
               first == FirstRule(rules, path)
               second == FirstRule(rules, Append(path, Slash))
           IN  \/ settled = NotFound
               \/ settled.kind = "redirect" /\ settled.slash = FALSE
               \/ /\ settled = SlashAdded(path)
                  /\ second # 0
                  /\ ~(rules[second].kind = "redirect")
               \/ settled = Settlement(rules[first], path) /\ first # 0
<1>1. PICK first : first = FirstRule(rules, path)
  OBVIOUS
<1>2. PICK second : second = FirstRule(rules, Append(path, Slash))
  OBVIOUS
<1>3. PICK settled : settled = Settle(rules, path)
  OBVIOUS
<1>4. \A rule, p : Redirected(rule, p).kind = "redirect" /\ Redirected(rule, p).slash = FALSE
  BY DEF Redirected
<1>5. \/ settled = NotFound
      \/ settled.kind = "redirect" /\ settled.slash = FALSE
      \/ settled = SlashAdded(path) /\ second # 0 /\ ~(rules[second].kind = "redirect")
      \/ settled = Settlement(rules[first], path) /\ first # 0
  BY <1>1, <1>2, <1>3, <1>4, ZenonT(60) DEF Settle
<1>6. QED
  BY <1>1, <1>2, <1>3, <1>5

(* An address with its slash is not sent on to another one. *)
LEMMA SlashSettles ==
    ASSUME NEW S, NEW path \in Seq(S), NEW rules, Settle(rules, path) = SlashAdded(path),
           FirstRule(rules, Append(path, Slash)) # 0,
           ~(rules[FirstRule(rules, Append(path, Slash))].kind = "redirect")
    PROVE  Settle(rules, SlashAdded(path).location).kind = "app"
<1>1. PICK there : there = Append(path, Slash)
  OBVIOUS
<1>2. PICK n : n = FirstRule(rules, there)
  OBVIOUS
<1>3. SlashAdded(path).location = there
  BY <1>1 DEF SlashAdded
<1>4. EndsInSlash(there)
  <2>1. path \in Seq(S \cup {Slash}) /\ Slash \in S \cup {Slash}
    <3>1. Len(path) \in Nat /\ path \in [1..Len(path) -> S \cup {Slash}]
      BY LenProperties
    <3>2. QED
      BY <3>1, IsASeq
  <2>2. there \in Seq(S \cup {Slash}) /\ Len(there) = Len(path) + 1 /\ there[Len(path) + 1] = Slash
    BY <1>1, <2>1, AppendProperties
  <2>3. Len(path) \in Nat
    BY LenProperties
  <2>4. there # <<>>
    BY <2>2, <2>3
  <2>5. Last(there) = Slash
    BY <2>2 DEF Last
  <2>6. QED
    BY <2>4, <2>5 DEF EndsInSlash
<1>5. ~RetriesWithSlash(rules, n, there)
  BY <1>4 DEF RetriesWithSlash
<1>6. n # 0 /\ ~(rules[n].kind = "redirect")
  BY <1>1, <1>2
<1>7. Settle(rules, there) = Settlement(rules[n], there)
  BY <1>2, <1>5, <1>6 DEF Settle
<1>8. QED
  BY <1>3, <1>7 DEF Settlement

(* A settlement by a rule that names a module is handed over to that module. *)
LEMMA ModuleIsKept ==
    ASSUME NEW rule, NEW path, NEW settled, settled = Settlement(rule, path),
           NEW rules, Switched(rules),
           "module" \in DOMAIN rule.seed, rule.seed["module"] # None
    PROVE  FrontendDispatch(settled, rules).module = rule.seed["module"]
<1>1. settled.constraint = rule.seed["module"] /\ settled.constraint # None
  BY DEF Settlement
<1>2. \A base, captures, explicit : "module" \in DOMAIN explicit =>
          /\ "module" \in DOMAIN MergedSeed(base, captures, explicit)
          /\ MergedSeed(base, captures, explicit)["module"] = explicit["module"]
  BY DEF MergedSeed, Overlaid
<1>3. "module" \in DOMAIN settled.seed /\ settled.seed["module"] = rule.seed["module"]
  <2>1. PICK captures : settled.seed = MergedSeed(NoControls, captures, rule.seed)
    BY DEF Settlement
  <2>2. QED
    BY <1>2, <2>1
<1>4. PICK admitted : admitted = [i \in DOMAIN rules |->
                                     [rules[i] EXCEPT !.off = @ \/ ~Admits(settled, rules[i])]]
  OBVIOUS
<1>5. PICK k : k = FirstRule(admitted, settled.remaining)
  OBVIOUS
<1>6. PICK captures : captures = Captures(rules[k].pattern, Fit(rules[k].pattern, settled.remaining))
  OBVIOUS
<1>7. FrontendDispatch(settled, rules) =
          IF k = 0 THEN ResolvedDispatch(settled.app, settled.seed, settled.data, <<"frontend">>)
          ELSE ResolvedDispatch(settled.app, MergedSeed(settled.seed, captures, rules[k].seed),
                   Overlaid(rules[k].data, Overlaid(settled.data, Without(captures, Controls))),
                   <<"frontend">>)
  BY <1>4, <1>5, <1>6 DEF FrontendDispatch
<1>8. \A app, seed, data, default : "module" \in DOMAIN seed =>
          ResolvedDispatch(app, seed, data, default).module = seed["module"]
  BY DEF ResolvedDispatch
<1>9. CASE k = 0
  BY <1>3, <1>7, <1>8, <1>9
<1>10. CASE k # 0
  <2>1. k \in DOMAIN admitted /\ ~admitted[k].off
    <3>1. DOMAIN admitted = DOMAIN rules
      BY <1>4
    <3>2. QED
      BY <1>5, <1>10, <3>1, FirstRuleIsOne DEF Switched
  <2>2. k \in DOMAIN rules /\ "off" \in DOMAIN rules[k]
    BY <1>4, <2>1 DEF Switched
  <2>3. admitted[k].off = (rules[k].off \/ ~Admits(settled, rules[k]))
    BY <1>4, <2>2
  <2>4. "module" \in DOMAIN rules[k].seed /\ rules[k].seed["module"] = settled.constraint
    BY <1>1, <2>1, <2>3 DEF Admits
  <2>5. QED
    BY <1>1, <1>2, <1>7, <1>8, <1>10, <2>4
<1>11. QED
  BY <1>9, <1>10
-----------------------------------------------------------------------------
(* The handler of a dispatch.                                              *)

LEMMA HeldIsInstalled ==
    ASSUME LinkerInv, state = "ready", NEW e \in Range(registered), e.kind \in DispatchKinds
    PROVE  /\ e.app \in Range(apps)
           /\ e.plugin # None => <<e.app, e.plugin>> \in plugins
           /\ e.kind = "plugin" => e.plugin # None
<1> DEFINE cs == AllContributions(boot.modules)
<1>1. Modular(boot.modules) /\ WellFormed(boot.modules) /\ registered = [i \in DOMAIN cs |-> cs[i].def]
  BY DEF LinkerInv, AttemptShape, AttemptInv
<1>2. cs \in Seq(InstalledContribution) /\ OwnContributions(cs)
  BY <1>1, InstalledContributions, WellFormedParts
<1> HIDE DEF cs
<1>3. PICK i \in DOMAIN cs : e = cs[i].def
  BY <1>1 DEF Range
<1>4. cs[i] \in InstalledContribution /\ OwnedBy(cs[i])
  BY <1>2, SeqIsSequential DEF OwnContributions
<1>5. e.app = cs[i].app /\ e.plugin = cs[i].plugin /\ (e.kind = "plugin" => cs[i].plugin # None)
  BY <1>3, <1>4 DEF OwnedBy, DispatchKinds
<1>6. QED
  BY <1>4, <1>5 DEF InstalledContribution

LEMMA HoldingIs ==
    ASSUME NEW kind \in DispatchKinds, NEW d, NEW key, NEW e \in Holding(kind, d, key)
    PROVE  e \in Range(registered) /\ e.kind = kind /\ e.app = d.app /\ e.plugin = PluginName(d)
<1>1. e \in Range(registered) /\ Slot(e) = <<kind, d.app, PluginName(d), key>>
  BY DEF Holding
<1>2. kind # "api" /\ kind # "event"
  BY DEF DispatchKinds
<1>3. e.kind # "api"
  <2>1. ASSUME e.kind = "api"
        PROVE  FALSE
    <3>1. Slot(e) = <<"api", e.app, None, e.name>>
      BY <2>1 DEF Slot
    <3>2. QED
      BY <1>1, <1>2, <3>1
  <2>2. QED
    BY <2>1
<1>4. e.kind # "event"
  <2>1. ASSUME e.kind = "event"
        PROVE  FALSE
    <3>1. Slot(e) = <<"event", None, None, e.name>>
      BY <2>1 DEF Slot
    <3>2. QED
      BY <1>1, <1>2, <3>1
  <2>2. QED
    BY <2>1
<1>5. Slot(e) = <<e.kind, e.app, e.plugin, e.name>>
  BY <1>3, <1>4 DEF Slot
<1>6. QED
  BY <1>1, <1>5

LEMMA TargetIsInstalled ==
    ASSUME LinkerInv, state = "ready", NEW d, NEW target, target = TargetOf(d), target # None
    PROVE  /\ target.app \in Range(apps)
           /\ target.app = d.app
           /\ target.plugin = PluginName(d)
           /\ d.plugin # None => <<target.app, target.plugin>> \in plugins
<1> DEFINE moduleKey == <<d.module>>
           key == IF d.action = None THEN moduleKey ELSE <<d.module, d.action>>
           wanted == <<<<"controller", key>>, <<"action", key>>, <<"multi_action", moduleKey>>>>
           found == {i \in 1..3 : Holding(wanted[i][1], d, wanted[i][2]) # {}}
<1>1. /\ ~(d.plugin # None /\ ~PluginAvailable(d))
      /\ found # {}
      /\ target = CHOOSE e \in Holding(wanted[Min(found)][1], d, wanted[Min(found)][2]) : TRUE
  BY Zenon DEF TargetOf
<1>2. \A i \in 1..3 : wanted[i][1] \in DispatchKinds
  BY DEF DispatchKinds
<1>3. found \in SUBSET (1..3) /\ \A i \in found : Holding(wanted[i][1], d, wanted[i][2]) # {}
  OBVIOUS
<1> HIDE DEF found, wanted
<1>4. Min(found) \in found
  BY <1>1, <1>3, MinOfPlaces
<1>5. PICK w : w = wanted[Min(found)]
  OBVIOUS
<1>6. w[1] \in DispatchKinds /\ target \in Holding(w[1], d, w[2])
  BY <1>1, <1>2, <1>3, <1>4, <1>5
<1>7. /\ target \in Range(registered) /\ target.kind = w[1]
      /\ target.app = d.app /\ target.plugin = PluginName(d)
  BY <1>6, HoldingIs
<1>8. target.app \in Range(apps)
  BY <1>6, <1>7, HeldIsInstalled
<1>9. ASSUME d.plugin # None
      PROVE  <<target.app, target.plugin>> \in plugins
  <2>1. PICK e : e \in Holding("plugin", d, None)
    BY <1>1, <1>9 DEF PluginAvailable
  <2>2. e \in Range(registered) /\ e.kind = "plugin" /\ e.app = d.app /\ e.plugin = PluginName(d)
    BY <2>1, HoldingIs DEF DispatchKinds
  <2>3. <<e.app, e.plugin>> \in plugins
    BY <2>2, HeldIsInstalled DEF DispatchKinds
  <2>4. QED
    BY <1>7, <2>2, <2>3
<1>10. QED
  BY <1>7, <1>8, <1>9
-----------------------------------------------------------------------------
(* One request and its answer.                                             *)

(* What RoutedAsConfigured says of the answer r. *)
AnsweredAsConfigured(r, as, ps) ==
    /\ r.answer = "handler" =>
        /\ r.target.app \in Range(as)
        /\ r.target.app = r.dispatch.app
        /\ r.target.plugin = PluginName(r.dispatch)
        /\ r.dispatch.plugin # None => <<r.target.app, r.target.plugin>> \in ps
        /\ ~r.request.backend =>
              LET rules == Rulebook(SystemTable(r.raw.system), r.request.domain)
                  rule == rules[FirstRule(rules, r.request.path)]
              IN  /\ rule.app = r.target.app
                  /\ "module" \in DOMAIN rule.seed => r.dispatch.module = rule.seed["module"]
    /\ r.answer = "redirect" /\ r.settled.slash =>
        LET rules == Rulebook(SystemTable(r.raw.system), r.request.domain)
        IN  Settle(rules, r.settled.location).kind = "app"

LEMMA OtherAnswers ==
    ASSUME NEW r, r.answer \notin {"handler", "redirect"}, NEW as, NEW ps
    PROVE  AnsweredAsConfigured(r, as, ps)
BY DEF AnsweredAsConfigured

LEMMA DispatchedIs ==
    ASSUME NEW raw, NEW request, NEW d, NEW settled, NEW r, r = Dispatched(raw, request, d, settled)
    PROVE  /\ r.raw = raw /\ r.request = request /\ r.dispatch = d /\ r.target = TargetOf(d)
           /\ r.answer # "redirect"
           /\ r.answer = "handler" => r.target # None
BY DEF Dispatched, Routed

LEMMA BackendAnswered ==
    ASSUME LinkerInv, state = "ready", NEW raw, NEW request, request.backend,
           NEW r, r = BackendOutcome(raw, request)
    PROVE  AnsweredAsConfigured(r, apps, plugins)
<1>1. \/ r = Routed(raw, request, "500", None, None, NotFound)
      \/ r = Routed(raw, request, "400", None, None, NotFound)
      \/ \E d : r = Dispatched(raw, request, d, NotFound)
  BY Zenon DEF BackendOutcome
<1>2. CASE r.answer \notin {"handler", "redirect"}
  BY <1>2, OtherAnswers
<1>3. CASE \E d : r = Dispatched(raw, request, d, NotFound)
  <2>1. PICK d : r = Dispatched(raw, request, d, NotFound)
    BY <1>3
  <2>2. /\ r.request = request /\ r.dispatch = d /\ r.target = TargetOf(d)
        /\ r.answer # "redirect" /\ (r.answer = "handler" => r.target # None)
    BY <2>1, DispatchedIs
  <2>3. CASE r.answer # "handler"
    BY <2>2, <2>3, OtherAnswers
  <2>4. CASE r.answer = "handler"
    BY <2>2, <2>4, TargetIsInstalled DEF AnsweredAsConfigured
  <2>5. QED
    BY <2>3, <2>4
<1>4. QED
  BY <1>1, <1>2, <1>3 DEF Routed

LEMMA FrontendAnswered ==
    ASSUME LinkerInv, state = "ready", NEW raw \in RouteFiles, NEW request \in RouteRequest_,
           NEW r, r = FrontendOutcome(raw, request)
    PROVE  AnsweredAsConfigured(r, apps, plugins)
<1>1. PICK system : system = Rulebook(SystemTable(raw.system), request.domain)
  OBVIOUS
<1>2. PICK path : path = request.path
  OBVIOUS
<1>3. PICK settled : settled = Settle(system, path)
  OBVIOUS
<1>4. PICK rules : rules = IF settled.app \in DOMAIN raw.apps THEN AppRules(raw.apps[settled.app]) ELSE <<>>
  OBVIOUS
<1>5. r = CASE settled.kind = "none" -> Routed(raw, request, "404", None, None, settled)
            [] settled.kind = "redirect" -> Routed(raw, request, "redirect", None, None, settled)
            [] settled.kind = "app" ->
                   Dispatched(raw, request, FrontendDispatch(settled, rules), settled)
  BY <1>1, <1>2, <1>3, <1>4, Zenon DEF FrontendOutcome
<1>6. path \in Seq(Range(path))
  BY <1>2, RoutingAssumption
<1>7. Ruled(system)
  <2>1. raw.system \in Seq(Range(raw.system))
    BY RoutingAssumption
  <2>2. ASSUME NEW i \in DOMAIN raw.system
        PROVE  Given(raw.system[i].entries)
    <3>1. PICK entries : entries = raw.system[i].entries
      OBVIOUS
    <3>2. /\ entries \in Seq(Range(entries))
          /\ \A e \in Range(entries) : \A name \in DOMAIN e.fields : e.fields[name] # None
      BY <3>1, RoutingAssumption
    <3>3. Len(entries) \in Nat /\ DOMAIN entries = 1..Len(entries)
      BY <3>2, LenProperties
    <3>4. \A j \in DOMAIN entries : entries[j] \in Range(entries)
      BY DEF Range
    <3>5. QED
      BY <3>1, <3>2, <3>3, <3>4 DEF Given
  <2>3. QED
    BY <1>1, <2>1, <2>2, TableRuled, RulebookRuled
<1>8. Switched(rules)
  <2>1. CASE settled.app \in DOMAIN raw.apps
    <3>1. PICK entries : entries = raw.apps[settled.app]
      OBVIOUS
    <3>2. entries \in Seq(Range(entries))
      BY <2>1, <3>1, RoutingAssumption
    <3>3. QED
      BY <1>4, <2>1, <3>1, <3>2, AppRulesSwitched
  <2>2. CASE settled.app \notin DOMAIN raw.apps
    <3>1. rules = <<>>
      BY <1>4, <2>2
    <3>2. QED
      BY <3>1, NoRules
  <2>3. QED
    BY <2>1, <2>2
<1>9. PICK first : first = FirstRule(system, path)
  OBVIOUS
<1>10. CASE settled = NotFound
  <2>1. r.answer = "404"
    BY <1>5, <1>10 DEF NotFound, Routed
  <2>2. QED
    BY <2>1, OtherAnswers
<1>11. CASE settled.kind = "redirect" /\ settled.slash = FALSE
  <2>1. r.answer = "redirect" /\ r.settled = settled
    BY <1>5, <1>11 DEF Routed
  <2>2. QED
    BY <1>11, <2>1 DEF AnsweredAsConfigured
<1>12. CASE /\ settled = SlashAdded(path)
            /\ FirstRule(system, Append(path, Slash)) # 0
            /\ ~(system[FirstRule(system, Append(path, Slash))].kind = "redirect")
  <2>1. settled.kind = "redirect"
    BY <1>12 DEF SlashAdded
  <2>2. r.answer = "redirect" /\ r.settled = settled /\ r.raw = raw /\ r.request = request
    BY <1>5, <2>1 DEF Routed
  <2>3. Settle(system, settled.location).kind = "app"
    BY <1>3, <1>6, <1>12, SlashSettles
  <2>4. QED
    BY <1>1, <2>2, <2>3 DEF AnsweredAsConfigured
<1>13. CASE settled = Settlement(system[first], path) /\ first # 0
  <2>1. PICK rule : rule = system[first]
    OBVIOUS
  <2>2. settled.kind = "app" /\ settled.app = rule.app
    BY <1>13, <2>1 DEF Settlement
  <2>3. PICK d : d = FrontendDispatch(settled, rules)
    OBVIOUS
  <2>4. d.app = rule.app
    BY <2>2, <2>3 DEF FrontendDispatch, ResolvedDispatch
  <2>5. ASSUME "module" \in DOMAIN rule.seed
        PROVE  d.module = rule.seed["module"]
    <3>1. first \in DOMAIN system
      BY <1>7, <1>9, <1>13, FirstRuleIsOne DEF Ruled
    <3>2. rule.seed["module"] # None
      BY <1>7, <2>1, <2>5, <3>1 DEF Ruled
    <3>3. QED
      BY <1>8, <1>13, <2>1, <2>3, <2>5, <3>2, ModuleIsKept
  <2>6. r = Dispatched(raw, request, d, settled)
    BY <1>5, <2>2, <2>3
  <2>7. /\ r.raw = raw /\ r.request = request /\ r.dispatch = d /\ r.target = TargetOf(d)
        /\ r.answer # "redirect" /\ (r.answer = "handler" => r.target # None)
    BY <2>6, DispatchedIs
  <2>8. CASE r.answer # "handler"
    BY <2>7, <2>8, OtherAnswers
  <2>9. CASE r.answer = "handler"
    <3>1. /\ r.target.app \in Range(apps)
          /\ r.target.app = d.app
          /\ r.target.plugin = PluginName(d)
          /\ d.plugin # None => <<r.target.app, r.target.plugin>> \in plugins
      BY <2>7, <2>9, TargetIsInstalled
    <3>2. QED
      BY <1>1, <1>2, <1>9, <2>1, <2>4, <2>5, <2>7, <2>9, <3>1 DEF AnsweredAsConfigured
  <2>10. QED
    BY <2>8, <2>9
<1>14. QED
  BY <1>3, <1>9, <1>10, <1>11, <1>12, <1>13, SettleKinds

-----------------------------------------------------------------------------
(* The router in a process.                                                *)

(* Nothing is routed while a process starts. *)
RoutingInv ==
    /\ routed # NothingRouted => state = "ready" /\ boot.pc = "idle"
    /\ AnsweredAsConfigured(routed, apps, plugins)

LEMMA NothingRoutedOK ==
    ASSUME NEW as, NEW ps
    PROVE  AnsweredAsConfigured(NothingRouted, as, ps)
BY OtherAnswers DEF NothingRouted, Routed

LEMMA RouteKeeps ==
    ASSUME LinkerInv, Route
    PROVE  RoutingInv'
<1>1. state = "ready" /\ boot.pc = "idle"
  BY DEF Route, Serving
<1>2. PICK raw \in RouteFiles, request \in RouteRequest_ : RouteRequest(raw, request)
  BY DEF Route
<1>3. PICK r : r = routed'
  OBVIOUS
<1>4. /\ r = IF request.backend THEN BackendOutcome(raw, request) ELSE FrontendOutcome(raw, request)
      /\ UNCHANGED linkerVars
  BY <1>2, <1>3 DEF RouteRequest
<1>5. AnsweredAsConfigured(r, apps, plugins)
  BY <1>1, <1>4, BackendAnswered, FrontendAnswered
<1>6. QED
  BY <1>1, <1>3, <1>4, <1>5 DEF RoutingInv, linkerVars, AnsweredAsConfigured
LEMMA RoutingSteps ==
    ASSUME LinkerInv, RoutingInv, Next
    PROVE  \/ Route
           \/ routed' = NothingRouted
           \/ UNCHANGED <<apps, plugins, state, boot, routed>>
<1>1. ASSUME NEW t \in Token, ReadFile(t)
      PROVE  UNCHANGED <<apps, plugins, state, boot, routed>>
  BY <1>1 DEF ReadFile, linkerVars
<1>2. ASSUME NEW disk \in Disk, Build(disk)
      PROVE  UNCHANGED <<apps, plugins, state, boot, routed>>
  BY <1>2 DEF Build, linkerVars
<1>3. ASSUME NEW from \in Source, Create(from)
      PROVE  routed' = NothingRouted
  <2>1. source = None /\ routed' = routed
    BY <1>3 DEF Create, CreateContainer
  <2>2. state = "pending"
    BY <2>1 DEF LinkerInv, AttemptShape
  <2>3. QED
    BY <2>1, <2>2 DEF RoutingInv
<1>4. CASE Enter
  BY <1>4 DEF Enter, Idle
<1>5. CASE Boots
  <2>1. boot.pc # "idle" /\ routed' = routed
    BY <1>5 DEF Boots, ReadPlugins, BuildModules, Link, Register, Finish
  <2>2. QED
    BY <2>1 DEF RoutingInv
<1>6. CASE Restart
  BY <1>6 DEF Restart
<1>7. CASE Events
  <2>1. UNCHANGED linkerVars
    BY <1>7 DEF Events, Publish, EventStep, CallHandler, Handle, HandleUnsupported, RelayEvent,
                EndDispatch, EndsWith, TakeReport, CancelDispatch
  <2>2. QED
    BY <1>7, <2>1 DEF Events, linkerVars
<1>8. CASE Route
  BY <1>8
<1>9. CASE AnswerRouted
  BY <1>9 DEF AnswerRouted, AnswerRequest
<1>10. CASE Receive
  BY <1>10 DEF Receive, ReceiveCall, linkerVars
<1>11. CASE Call
  BY <1>11, ApiStepReads DEF Call, linkerVars
<1>12. CASE Disturb
  BY <1>12 DEF Disturb, Interfere, linkerVars
<1>13. QED
  BY <1>1, <1>2, <1>3, <1>4, <1>5, <1>6, <1>7, <1>8, <1>9, <1>10, <1>11, <1>12 DEF Next

LEMMA RoutingInvInit == Init => RoutingInv
BY NothingRoutedOK DEF Init, RoutingInit, RoutingInv

LEMMA RoutingInvNext == LinkerInv /\ RoutingInv /\ [Next]_vars => RoutingInv'
<1> SUFFICES ASSUME LinkerInv, RoutingInv, [Next]_vars
             PROVE  RoutingInv'
  OBVIOUS
<1>1. CASE Route
  BY <1>1, RouteKeeps
<1>2. CASE routed' = NothingRouted
  BY <1>2, NothingRoutedOK DEF RoutingInv, AnsweredAsConfigured
<1>3. CASE UNCHANGED <<apps, plugins, state, boot, routed>>
  BY <1>3 DEF RoutingInv, AnsweredAsConfigured
<1>4. CASE UNCHANGED vars
  BY <1>3, <1>4 DEF vars, linkerVars
<1>5. QED
  BY <1>1, <1>2, <1>3, <1>4, RoutingSteps

(* A request that reaches a handler reaches one of an installed application *)
(* and plugin, those its address was settled in, and of the module its rule *)
(* names, and an address that is sent on to its slash is settled there:     *)
(* RoutedAsConfigured, for all tables, routes, addresses and modules.       *)
THEOREM RoutesReachTheConfigured == Spec => []RoutedAsConfigured
<1>1. Init => LinkerInv /\ RoutingInv
  BY LinkerInvInit, RoutingInvInit
<1>2. LinkerInv /\ RoutingInv /\ [Next]_vars => (LinkerInv /\ RoutingInv)'
  BY LinkerInvNext, RoutingInvNext
<1>3. RoutingInv => RoutedAsConfigured
  BY DEF RoutingInv, AnsweredAsConfigured, RoutedAsConfigured
<1>4. QED
  BY <1>1, <1>2, <1>3, PTL DEF Spec
=============================================================================
