-------------------------- MODULE ContactLifecycle --------------------------
(***************************************************************************)
(* Contacts of gomazon_webasyst from their invitation to their deletion:   *)
(* InviteTeamUser (team.users.invite) and DeleteContacts run concurrently  *)
(* over one database.                                                      *)
(*                                                                         *)
(* An invitation is a chain of transactions, each committed on its own:    *)
(* find or create the contact, announce it, insert a token, trim the older *)
(* ones, and hand the token over.  A deletion is announced first, and the  *)
(* Contacts application then drops its private rights in a transaction of  *)
(* its own; the contact and its rows go in one later transaction.          *)
(*                                                                         *)
(* Reads see the snapshot of their transaction, deletes and updates the    *)
(* latest commit (InnoDB, REPEATABLE READ); a row a transaction has        *)
(* deleted or updated is locked until that transaction ends.  Locks on the *)
(* gaps of an index only delay inserts and are left out.                   *)
(***************************************************************************)
EXTENDS Naturals, FiniteSets

CONSTANTS
    Request,      \* requests the process may be serving at one time
    Address,      \* e-mail addresses and telephone numbers
    Group,        \* groups an invitation may put a user in
    Category,     \* contact categories
    Token,        \* token values; one nobody holds any more is used again
    TokenLimit,   \* _TOKEN_LIMIT: tokens kept per contact and type
    None,
    MaxContact,   \* bound: contacts there have ever been
    MaxTime,      \* bound: ticks of the clock, in seconds
    MaxStarted,   \* bound: requests started
    MaxChanges    \* bound: changes made by other programs

ASSUME LimitAssumption == TokenLimit \in Nat \ {0}
ASSUME BoundsAssumption == {MaxContact, MaxTime, MaxStarted, MaxChanges} \subseteq Nat

Contact == 1..MaxContact      \* AUTO_INCREMENT: no id is used twice
AddUsers == "add_users"
Types == {"user_invite", "waid_invite"}
Statuses == {"invited", "user", "banned"}
Kinds == {"link", "send", "code"}
ContactRows == [status : Statuses, addresses : SUBSET Address]
TokenRows == [contact : Contact, type : Types, created : 0..MaxTime, groups : SUBSET Group]
Deleting == {"announce", "begin", "sweep", "recount", "commit"}

ASSUME NoneAssumption ==
    None \notin ContactRows \cup TokenRows \cup Token \cup Address \cup Contact \cup Nat

VARIABLES
    contact,   \* wa_contact with the e-mails and numbers of each contact
    token,     \* wa_app_tokens
    private,   \* contacts with rows of their own in contacts_rights
    member,    \* wa_contact_categories
    cnt,       \* wa_contact_category.cnt
    rights,    \* what the inviting user may do in the team application
    born,      \* the ids up to this one have been given out
    now,       \* the clock
    req,       \* the requests being served: where they are, their locals
    started,   \* requests started
    changes,   \* changes made by other programs
    history    \* what the properties compare the state with

vars == <<contact, token, private, member, cnt, rights, born, now, req, started,
          changes, history>>
tables == <<contact, token, private, member, cnt>>
outside == <<rights, now, started, changes>>

Idle == [pc |-> "idle", kind |-> None, address |-> None, groups |-> {}, contact |-> None,
         stamp |-> None, token |-> None, keep |-> {}, snapshot |-> {}, doomed |-> {},
         leaving |-> {}, counted |-> [g \in Category |-> None]]

(* moments: the rights of the inviting user at the moments of a request;   *)
(* met: who had its address when it began; touched: the categories others  *)
(* changed since its transaction began; cut: tokens that were not its own  *)
(* to keep; untrimmed: tokens whose own trim has not been done; strays:    *)
(* rows added to a contact when its deletion had passed them, or left by a *)
(* failed handler; off: categories whose number need not be right.         *)
Calm == [moments |-> {}, met |-> {}, touched |-> {}]
NoHistory == [of |-> [r \in Request |-> Calm], cut |-> {}, untrimmed |-> {},
              strays |-> {}, off |-> {}]

Of(r) == req[r].contact
InFlight(r) == req[r].pc # "idle"
Existing == {c \in Contact : contact[c] # None}
Holders(a) == {c \in Existing : a \in contact[c].addresses}
TypeOf(kind) == IF kind = "code" THEN "waid_invite" ELSE "user_invite"
Stored == {k \in Token : token[k] # None}
TokensOf(c, type) == {k \in Stored : token[k].contact = c /\ token[k].type = type}
MembersOf(g, pairs) == {p \in pairs : p[2] = g}

(* The rows some deletion has deleted and not yet committed. *)
Locked == UNION {req[r].doomed : r \in Request}
CategoryLocked(g) == \E r \in Request : req[r].counted[g] # None
Swept(c) == \E r \in Request : req[r].pc \in {"recount", "commit"} /\ Of(r) = c

FreeTokens == {k \in Token : token[k] = None /\ \A r \in Request : req[r].token # k
                                                  /\ k \notin req[r].keep}
NewToken == CHOOSE k \in FreeTokens : TRUE

(* One contact is there, or none; it may have been invited before.         *)
Init ==
    /\ born \in {0, 1} \cap 0..MaxContact
    /\ \E row \in {[status |-> s, addresses |-> {a}] : s \in Statuses, a \in Address} :
          contact = [c \in Contact |-> IF c <= born THEN row ELSE None]
    /\ \E old \in SUBSET {CHOOSE k \in Token : TRUE} :
          token = [k \in Token |->
                     IF k \in old /\ born = 1
                     THEN [contact |-> 1, type |-> "user_invite", created |-> 0,
                           groups |-> {}]
                     ELSE None]
    /\ private = 1..born
    /\ member = (1..born) \X Category
    /\ cnt = [g \in Category |-> born]
    /\ rights = {AddUsers} \cup Group
    /\ now = 0
    /\ req = [r \in Request |-> Idle]
    /\ started = 0
    /\ changes = 0
    /\ history = NoHistory

Goto(r, p) == req' = [req EXCEPT ![r].pc = p]

(* The request is over: answered, or given up. *)
Finish(r) == req' = [req EXCEPT ![r] = Idle]
Over(r, h) == [h EXCEPT !.of[r] = Calm, !.cut = @ \ {req[r].token}]

(* Categories whose members or number a step changed, for who is counting. *)
Touch(h, categories) ==
    LET counting == {r \in Request : req[r].pc \in {"sweep", "recount", "commit"}}
        Touched(r) == h.of[r].touched \cup IF r \in counting THEN categories ELSE {}
    IN  [h EXCEPT !.of = [r \in Request |-> [h.of[r] EXCEPT !.touched = Touched(r)]]]

-----------------------------------------------------------------------------
(* team.users.invite *)

Invite(r) ==
    /\ ~InFlight(r)
    /\ started < MaxStarted
    /\ \E kind \in Kinds, a \in Address, asked \in SUBSET Group :
          /\ req' = [req EXCEPT ![r] = [Idle EXCEPT !.pc = "authorize", !.kind = kind,
                                                    !.address = a, !.groups = asked]]
          /\ history' = [history EXCEPT !.of[r] =
                           [moments |-> {rights}, touched |-> {},
                            met |-> IF kind = "code" THEN {} ELSE Holders(a)]]
    /\ started' = started + 1
    /\ UNCHANGED <<tables, rights, born, now, changes>>

(* Fault: the groups asked for are not checked. *)
AuthorizeAll(r) ==
    /\ req[r].pc = "authorize"
    /\ IF AddUsers \in rights
       THEN /\ Goto(r, IF req[r].kind = "code" THEN "create" ELSE "hook")
            /\ UNCHANGED history
       ELSE Finish(r) /\ history' = Over(r, history)
    /\ UNCHANGED <<tables, outside, born>>

(* _actor_snapshot: one transaction tells whether the user may invite, and *)
(* which of the groups asked for he may hand out.                          *)
Authorize(r) ==
    /\ req[r].pc = "authorize"
    /\ IF AddUsers \in rights
       THEN /\ req' = [req EXCEPT ![r].pc = IF req[r].kind = "code" THEN "create" ELSE "hook",
                                  ![r].groups = @ \cap rights]
            /\ UNCHANGED history
       ELSE Finish(r) /\ history' = Over(r, history)
    /\ UNCHANGED <<tables, outside, born>>

(* The handlers of team.invite_user and the validator may object.          *)
Hook(r) ==
    /\ req[r].pc = "hook"
    /\ \/ Goto(r, "find") /\ UNCHANGED history
       \/ Finish(r) /\ history' = Over(r, history)
    /\ UNCHANGED <<tables, outside, born>>

(* Fault: only contacts that are still invited are looked for. *)
FindInvited(r) ==
    /\ req[r].pc = "find"
    /\ IF \E c \in Holders(req[r].address) : contact[c].status = "invited"
       THEN /\ \E c \in Holders(req[r].address) :
                  /\ contact[c].status = "invited"
                  /\ req' = [req EXCEPT ![r].pc = "insert", ![r].contact = c,
                                        ![r].stamp = now, ![r].address = None]
            /\ history' = [history EXCEPT !.of[r].met = {}]
       ELSE Goto(r, "create") /\ UNCHANGED history
    /\ UNCHANGED <<tables, outside, born>>

(* _find_by_email, _find_by_phone: some contact with the address, if any;  *)
(* a user or a banned contact is a conflict.  The token is stamped before  *)
(* the transaction that inserts it begins.                                 *)
Find(r) ==
    /\ req[r].pc = "find"
    /\ \/ /\ Holders(req[r].address) = {}
          /\ Goto(r, "create")
          /\ UNCHANGED history
       \/ \E c \in Holders(req[r].address) :
             /\ contact[c].status = "invited"
             /\ req' = [req EXCEPT ![r].pc = "insert", ![r].contact = c, ![r].stamp = now,
                                   ![r].address = None]
             /\ history' = [history EXCEPT !.of[r].met = {}]
       \/ /\ \E c \in Holders(req[r].address) : contact[c].status # "invited"
          /\ Finish(r)
          /\ history' = Over(r, history)
    /\ UNCHANGED <<tables, outside, born>>

(* _create_contact_committed; a code may be for nobody in particular.  An  *)
(* e-mail address and a number of one code are taken as one address.       *)
Create(r) ==
    /\ req[r].pc = "create"
    /\ born < MaxContact
    /\ \E addresses \in {{}, {req[r].address}} :
          /\ req[r].kind # "code" => addresses # {}
          /\ contact' = [contact EXCEPT ![born + 1] =
                           [status |-> "invited", addresses |-> addresses]]
    /\ born' = born + 1
    /\ req' = [req EXCEPT ![r].pc = "save", ![r].contact = born', ![r].address = None]
    /\ history' = [history EXCEPT !.of[r].met = {}]
    /\ UNCHANGED <<token, private, member, cnt, outside>>

(* contacts.save is published; its handlers are other programs' own.       *)
Save(r) ==
    /\ req[r].pc = "save"
    /\ req' = [req EXCEPT ![r].pc = "insert", ![r].stamp = now]
    /\ UNCHANGED <<tables, outside, born, history>>

(* _create_token_committed: nothing asks whether the contact is still there. *)
Insert(r) ==
    /\ req[r].pc = "insert"
    /\ FreeTokens # {}
    /\ token' = [token EXCEPT ![NewToken] =
                   [contact |-> Of(r), type |-> TypeOf(req[r].kind),
                    created |-> req[r].stamp, groups |-> req[r].groups]]
    /\ req' = [req EXCEPT ![r].pc = "select", ![r].token = NewToken,
                          ![r].groups = {}]
    /\ history' = [history EXCEPT
                     !.cut = @ \ {NewToken},
                     !.untrimmed = @ \cup {NewToken},
                     !.strays = @ \cup IF contact[Of(r)] = None \/ Swept(Of(r))
                                       THEN {<<Of(r), "token">>} ELSE {}]
    /\ UNCHANGED <<contact, private, member, cnt, outside, born>>

(* Fault: the oldest are kept. *)
Oldest(tokens) ==
    {keep \in SUBSET tokens :
        /\ Cardinality(keep) = IF Cardinality(tokens) < TokenLimit THEN Cardinality(tokens)
                               ELSE TokenLimit
        /\ \A k \in keep, old \in tokens \ keep : token[k].created <= token[old].created}

(* Fault: one too many is kept. *)
NewestAndOne(tokens) ==
    {keep \in SUBSET tokens :
        /\ Cardinality(keep) = IF Cardinality(tokens) <= TokenLimit THEN Cardinality(tokens)
                               ELSE TokenLimit + 1
        /\ \A k \in keep, old \in tokens \ keep : token[k].created >= token[old].created}

(* ORDER BY create_datetime DESC LIMIT _TOKEN_LIMIT: any of those created  *)
(* in the same second may come first.                                      *)
Newest(tokens) ==
    {keep \in SUBSET tokens :
        /\ Cardinality(keep) = IF Cardinality(tokens) < TokenLimit THEN Cardinality(tokens)
                               ELSE TokenLimit
        /\ \A k \in keep, old \in tokens \ keep : token[k].created >= token[old].created}

(* _trim_tokens_committed reads what to keep in its snapshot...            *)
Select(r) ==
    /\ req[r].pc = "select"
    /\ LET mine == TokensOf(Of(r), TypeOf(req[r].kind))
           rivals == {k \in mine \ {req[r].token} : token[k].created >= req[r].stamp}
       IN  /\ \E keep \in Newest(mine) :
                 req' = [req EXCEPT ![r].pc = "trim", ![r].keep = keep,
                                       ![r].stamp = None]
           /\ history' = [history EXCEPT !.cut =
                             @ \cup IF Cardinality(rivals) < TokenLimit THEN {}
                                    ELSE {req[r].token}]
    /\ UNCHANGED <<tables, outside, born>>

(* ... and deletes all the others there are by then.                       *)
Trim(r) ==
    /\ req[r].pc = "trim"
    /\ LET mine == TokensOf(Of(r), TypeOf(req[r].kind))
           dropped == IF req[r].keep = {} THEN {} ELSE mine \ req[r].keep
       IN  /\ mine \cap Locked = {}
           /\ token' = [k \in Token |-> IF k \in dropped THEN None ELSE token[k]]
           /\ history' = [history EXCEPT !.cut = @ \cup (dropped \ {req[r].token}),
                                         !.untrimmed = @ \ (dropped \cup {req[r].token})]
    /\ req' = [req EXCEPT ![r].pc = "deliver", ![r].keep = {}]
    /\ UNCHANGED <<contact, private, member, cnt, outside, born>>

(* A link is the answer itself; a code is Webasyst ID's, if the server is  *)
(* connected to it.                                                        *)
Deliver(r) ==
    /\ req[r].pc = "deliver"
    /\ \/ /\ req[r].kind = "send"
          /\ Goto(r, "send")
          /\ UNCHANGED history
       \/ /\ req[r].kind = "code"
          /\ Goto(r, "code")
          /\ UNCHANGED history
       \/ /\ req[r].kind # "send"
          /\ Finish(r)
          /\ history' = Over(r, history)
    /\ UNCHANGED <<tables, outside, born>>

(* The mail is accepted or rejected, the code issued: contact and token    *)
(* stay either way.                                                        *)
Accept(r) ==
    /\ req[r].pc \in {"send", "code"}
    /\ Finish(r)
    /\ history' = Over(r, history)
    /\ UNCHANGED <<tables, outside, born>>

(* Webasyst ID rejected the token. *)
Refuse(r) ==
    /\ req[r].pc = "code"
    /\ Goto(r, "discard")
    /\ UNCHANGED <<tables, outside, born, history>>

(* delete_token *)
Discard(r) ==
    /\ req[r].pc = "discard"
    /\ req[r].token \notin Locked
    /\ token' = [token EXCEPT ![req[r].token] = None]
    /\ Finish(r)
    /\ history' = [Over(r, history) EXCEPT !.untrimmed = @ \ {req[r].token}]
    /\ UNCHANGED <<contact, private, member, cnt, outside, born>>

-----------------------------------------------------------------------------
(* DeleteContacts, for one contact: the HTTP method passes no more. *)

Delete(r) ==
    /\ ~InFlight(r)
    /\ started < MaxStarted
    /\ \E c \in Contact :
          req' = [req EXCEPT ![r] = [Idle EXCEPT !.pc = "announce", !.contact = c]]
    /\ started' = started + 1
    /\ UNCHANGED <<tables, rights, born, now, changes, history>>

(* contacts.delete: the Contacts application drops the private rights in a *)
(* transaction of its own; if that fails the deletion goes on.  The relay  *)
(* of the team application, which comes next, changes nothing.             *)
Announce(r) ==
    /\ req[r].pc = "announce"
    /\ Goto(r, "begin")
    /\ \/ /\ private' = private \ {Of(r)}
          /\ history' = [history EXCEPT !.strays = @ \ {<<Of(r), "private">>}]
       \/ /\ Of(r) \in private
          /\ history' = [history EXCEPT !.strays = @ \cup {<<Of(r), "private">>}]
          /\ UNCHANGED private
    /\ UNCHANGED <<contact, token, member, cnt, outside, born>>

(* delete_batch begins; its first SELECT fixes the snapshot. *)
Begin(r) ==
    /\ req[r].pc = "begin"
    /\ req' = [req EXCEPT ![r].pc = "sweep", ![r].snapshot = member]
    /\ history' = [history EXCEPT !.of[r].touched = {}]
    /\ UNCHANGED <<tables, outside, born>>

(* Fault: the tokens of the contact are left behind. *)
SweepButTokens(r) ==
    /\ req[r].pc = "sweep"
    /\ ~Swept(Of(r))
    /\ req' = [req EXCEPT ![r].pc = "recount",
                          ![r].leaving = {p \in member : p[1] = Of(r)}]
    /\ UNCHANGED <<tables, outside, born, history>>

(* The rows of the contact are deleted, and locked until the commit; a     *)
(* second deletion of the contact waits for the first.                     *)
Sweep(r) ==
    /\ req[r].pc = "sweep"
    /\ ~Swept(Of(r))
    /\ req' = [req EXCEPT ![r].pc = "recount",
                          ![r].doomed = {k \in Stored : token[k].contact = Of(r)},
                          ![r].leaving = {p \in member : p[1] = Of(r)}]
    /\ UNCHANGED <<tables, outside, born, history>>

(* Fault: the members are counted before the contact's are deleted. *)
CountOfAll(r, g) == Cardinality(MembersOf(g, req[r].snapshot))

(* The count sees the snapshot without the rows that the same transaction *)
(* has deleted since.                                                      *)
Count(r, g) == Cardinality(MembersOf(g, req[r].snapshot \ req[r].leaving))

(* _recalculate_nonempty_category_counters: the categories the contact was *)
(* in, unless nobody is left there.                                        *)
Recount(r) ==
    /\ req[r].pc = "recount"
    /\ LET mine == {g \in Category : <<Of(r), g>> \in req[r].snapshot /\ Count(r, g) > 0}
       IN  /\ \A g \in mine : ~CategoryLocked(g)
           /\ req' = [req EXCEPT ![r].pc = "commit",
                                 ![r].counted = [g \in Category |-> IF g \in mine
                                                                    THEN Count(r, g) ELSE None]]
    /\ UNCHANGED <<tables, outside, born, history>>

Commit(r) ==
    /\ req[r].pc = "commit"
    /\ contact' = [contact EXCEPT ![Of(r)] = None]
    /\ token' = [k \in Token |-> IF k \in req[r].doomed THEN None ELSE token[k]]
    /\ member' = member \ req[r].leaving
    /\ cnt' = [g \in Category |-> IF req[r].counted[g] = None THEN cnt[g]
                                  ELSE req[r].counted[g]]
    /\ LET left == {g \in Category : MembersOf(g, req[r].leaving) # {}}
           counted == {g \in Category : req[r].counted[g] # None}
           right == counted \ history.of[r].touched
           clean == (IF \E k \in Token : token'[k] # None /\ token'[k].contact = Of(r)
                     THEN {} ELSE {<<Of(r), "token">>})
                    \cup (IF \E g \in Category : <<Of(r), g>> \in member'
                          THEN {} ELSE {<<Of(r), "member">>})
           h == [history EXCEPT !.off = (@ \cup left \cup counted) \ right,
                                !.strays = @ \ clean,
                                !.cut = @ \cup req[r].doomed,
                                !.untrimmed = @ \ req[r].doomed]
       IN  history' = Over(r, Touch(h, left \cup counted))
    /\ Finish(r)
    /\ UNCHANGED <<private, outside, born>>

(* A store raises, or the request is cancelled: its transaction is rolled  *)
(* back, and what it committed before stays.                               *)
Fail(r) ==
    /\ InFlight(r)
    /\ Finish(r)
    /\ history' = Over(r, history)
    /\ UNCHANGED <<tables, outside, born>>

-----------------------------------------------------------------------------
(* What other programs do meanwhile. *)

Change == changes < MaxChanges /\ changes' = changes + 1

ChangeRights ==
    /\ Change
    /\ \E new \in SUBSET ({AddUsers} \cup Group) \ {rights} :
          /\ rights' = new
          /\ LET Moments(r) == history.of[r].moments \cup IF InFlight(r) THEN {new} ELSE {}
             IN  history' = [history EXCEPT !.of =
                    [r \in Request |-> [history.of[r] EXCEPT !.moments = Moments(r)]]]
    /\ UNCHANGED <<tables, born, now, req, started>>

(* Somebody follows the link of an invitation and becomes a user. *)
Redeem(k) ==
    /\ Change
    /\ token[k] # None
    /\ k \notin Locked
    /\ token[k].contact \in Existing
    /\ ~Swept(token[k].contact)
    /\ contact' = [contact EXCEPT ![token[k].contact].status = "user"]
    /\ token' = [token EXCEPT ![k] = None]
    /\ history' = [history EXCEPT !.cut = @ \cup {k}, !.untrimmed = @ \ {k}]
    /\ UNCHANGED <<private, member, cnt, rights, born, now, req, started>>

(* The Contacts application gives a contact a private right. *)
GrantPrivate(c) ==
    /\ Change
    /\ c \in Existing \ private
    /\ private' = private \cup {c}
    /\ history' = [history EXCEPT !.strays =
                     @ \cup IF \E r \in Request : Of(r) = c /\ req[r].pc \in Deleting
                            THEN {<<c, "private">>} ELSE {}]
    /\ UNCHANGED <<contact, token, member, cnt, rights, born, now, req, started>>

(* It puts a contact into a category, whose number it then gets right.     *)
Join(c, g) ==
    /\ Change
    /\ c \in Existing
    /\ <<c, g>> \notin member
    /\ ~CategoryLocked(g)
    /\ member' = member \cup {<<c, g>>}
    /\ cnt' = [cnt EXCEPT ![g] = Cardinality(MembersOf(g, member'))]
    /\ history' = [Touch(history, {g}) EXCEPT
                     !.off = @ \ {g},
                     !.strays = @ \cup IF Swept(c) THEN {<<c, "member">>} ELSE {}]
    /\ UNCHANGED <<contact, token, private, rights, born, now, req, started>>

Tick ==
    /\ now < MaxTime
    /\ now' = now + 1
    /\ UNCHANGED <<tables, rights, born, req, started, changes, history>>

Next ==
    \/ \E r \in Request :
          \/ Invite(r) \/ Authorize(r) \/ Hook(r) \/ Find(r) \/ Create(r) \/ Save(r)
          \/ Insert(r) \/ Select(r) \/ Trim(r) \/ Deliver(r) \/ Accept(r) \/ Refuse(r)
          \/ Discard(r)
          \/ Delete(r) \/ Announce(r) \/ Begin(r) \/ Sweep(r) \/ Recount(r) \/ Commit(r)
          \/ Fail(r)
    \/ ChangeRights
    \/ \E k \in Token : Redeem(k)
    \/ \E c \in Contact : GrantPrivate(c) \/ \E g \in Category : Join(c, g)
    \/ Tick

Spec == Init /\ [][Next]_vars

-----------------------------------------------------------------------------
(* Properties. *)

(* An invitation gives away only groups that its inviter could manage at a *)
(* moment of the request at which he could also invite.                    *)
GroupsWithinRights ==
    \A r \in Request : req[r].token \in Stored =>
        \E m \in history.of[r].moments :
            AddUsers \in m /\ token[req[r].token].groups \subseteq m

(* No contact keeps more tokens of a type than the limit, but for those    *)
(* whose invitation has not come to its trim, or never will.               *)
TokensBounded ==
    \A c \in Contact, type \in Types :
        Cardinality(TokensOf(c, type) \ history.untrimmed) <= TokenLimit

(* The token that an invitation is about to hand over is in the table,     *)
(* unless another request or program removed it, or TokenLimit others are  *)
(* not older: its own trim never takes it.                                 *)
HandedOverLives ==
    \A r \in Request : req[r].pc \in {"deliver", "send", "code", "discard"} =>
        req[r].token \in Stored \cup history.cut

(* A link invitation creates no contact for an address that one has had    *)
(* since before the invitation began.                                      *)
NoSecondContact ==
    [][\A r \in Request : Create(r) /\ req[r].kind # "code" =>
          history.of[r].met \cap Holders(req[r].address) = {}]_vars

(* When a contact is gone its tokens, memberships and private rights are   *)
(* gone too, except those that came when its deletion had passed their     *)
(* table, and private rights whose handler failed.                         *)
NothingOutlivesItsContact ==
    \A c \in (1..born) \ Existing :
        /\ (\E k \in Stored : token[k].contact = c) => <<c, "token">> \in history.strays
        /\ (\E g \in Category : <<c, g>> \in member) => <<c, "member">> \in history.strays
        /\ c \in private => <<c, "private">> \in history.strays

(* The number of a category is that of its members, unless its last        *)
(* deletion emptied it or overlapped with another change of it.            *)
CountsHonest ==
    \A g \in Category \ history.off : cnt[g] = Cardinality(MembersOf(g, member))

(* A token goes by a trim only when the newest TokenLimit of its contact   *)
(* and type stay.                                                          *)
NewestAreRetained ==
    [][\A r \in Request, k \in Stored :
          Trim(r) /\ token'[k] = None =>
              Cardinality({kept \in TokensOf(token[k].contact, token[k].type) :
                              /\ token'[kept] # None
                              /\ token[kept].created >= token[k].created}) >= TokenLimit]_vars
=============================================================================
