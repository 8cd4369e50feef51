------------------------------ MODULE ApiExecution ------------------------------
(***************************************************************************)
(* A call of the API, from the request to the answer: the checks of the    *)
(* transport, the pipeline of token, activity, authorization and method,   *)
(* and the two lists of the Team application.                              *)
(*                                                                         *)
(* Each part of the pipeline has a database transaction of its own, and    *)
(* the database changes between them: an administrator, a logout, another  *)
(* call.  A transaction reads one snapshot.                                *)
(***************************************************************************)
EXTENDS RuntimeLinker, TeamDirectory

CONSTANTS
    Reserved,    \* endpoints under api.php that are no methods
    MaxSeen      \* the states of the database one call may meet

ASSUME MaxSeenAssumption == MaxSeen \in Nat \ {0}

(* The methods of Team, or one of another package. *)
ASSUME HandlerAssumption ==
    \A d \in Definition : d.kind = "api" => d.handler \in {"own", "users", "groups"}

VARIABLES
    directory,   \* the database while a call is under way, or None
    call         \* the call: what was asked, how far it is, what it has read

apiVars == <<directory, call>>

(* `ahead` is what the clock of the process that activity is recorded by   *)
(* shows beyond that of the configured time zone, which the list of users  *)
(* reads: seconds, a setting of the machine.  `seen` is a history: every   *)
(* state of the database since the call began.                             *)
NoCall ==
    [pc |-> "none", ahead |-> 0, request |-> None, token |-> None, contact |-> None, scope |-> {},
     method |-> None, read |-> {}, answer |-> "none", listed |-> {}, seen |-> <<>>]

ApiInit == directory = None /\ call = NoCall

-----------------------------------------------------------------------------
(* The transport.  A name is a sequence of words, which dots separate; the *)
(* path after api.php is a sequence of such names.                         *)

Nameless == <<"">>
Malformed == [kind |-> "malformed"]

Target(app, method) ==
    IF Nameless \in {app, method} THEN Malformed
    ELSE [kind |-> "method", app |-> app, method |-> method]

(* LegacyApiTargetParser.parse; app and method of the query are None if    *)
(* they are missing or given more than once.                               *)
TargetOfCall(request) ==
    LET path == request.path
    IN  CASE path # <<>> /\ (path \in Reserved \/ (Len(path) > 1 /\ path[1] = <<"cron">>)) ->
                 [kind |-> "reserved"]
          [] path = <<>> /\ None \notin {request.app, request.method} ->
                 Target(request.app, request.method)
          [] Len(path) = 2 -> Target(path[1], path[2])
          [] Len(path) = 1 /\ path \notin Reserved /\ Len(path[1]) > 1 ->
                 Target(<<path[1][1]>>, Tail(path[1]))
          [] OTHER -> Malformed

(* LegacyApiCredentialExtractionService.extract: None is a value that is   *)
(* not given, "" one that PHP takes for false, after "Bearer" is removed.  *)
CredentialOf(request) ==
    LET asked == IF request.form # None THEN request.form ELSE request.query
        usable == SelectSeq(<<asked, request.header, request.server>>,
                            LAMBDA value : value \notin {None, ""})
    IN  IF usable = <<>> THEN None ELSE Head(usable)

(* The answer of the transport, or "none" if the pipeline is asked. *)
TransportAnswer(request, settings) ==
    CASE ~settings.enabled -> "disabled"
      [] settings.enabled /\ settings.forceHttps /\ ~request.https -> "https_required"
      [] settings.enabled /\ (settings.forceHttps => request.https) ->
             IF request.format \notin {None, "json", "xml"} THEN "invalid_format"
             ELSE IF TargetOfCall(request).kind = "malformed" THEN "malformed"
             ELSE IF TargetOfCall(request).kind = "reserved" THEN "reserved"
             ELSE IF CredentialOf(request) = None THEN "token_required"
             ELSE "none"

(* A call arrives; d is what the database then holds. *)
ReceiveCall(request, settings, d) ==
    /\ call = NoCall
    /\ LET answer == TransportAnswer(request, settings)
       IN  IF answer # "none"
           THEN /\ call' = [NoCall EXCEPT !.pc = "answered", !.request = request, !.answer = answer]
                /\ UNCHANGED directory
           ELSE /\ call' = [NoCall EXCEPT !.pc = "resolve", !.request = request,
                                          !.ahead = settings.ahead,
                                          !.token = CredentialOf(request), !.seen = <<d>>]
                /\ directory' = d
    /\ UNCHANGED linkerVars

EndCall ==
    /\ call.pc = "answered"
    /\ call' = NoCall
    /\ directory' = None
    /\ UNCHANGED linkerVars

-----------------------------------------------------------------------------
(* Steps of the pipeline. *)

CallAt(pc) == call.pc = pc
Step(pc) == [call EXCEPT !.pc = pc]
Answer(answer) == [call EXCEPT !.pc = "answered", !.answer = answer]
Reads == UNCHANGED <<directory, linkerVars>>

Authentic(d, token) == token \in DOMAIN d.tokens /\ ~d.tokens[token].expired

(* ResolveApiAccessToken: the token is read ... *)
ResolveCallToken ==
    /\ CallAt("resolve")
    /\ call' = IF Authentic(directory, call.token)
               THEN [Step("touch_token") EXCEPT !.contact = directory.tokens[call.token].contact,
                                                !.scope = directory.tokens[call.token].scope]
               ELSE Answer("invalid_token")
    /\ Reads

(* ... and its use is recorded; the write must meet its row. *)
TouchCallToken ==
    /\ CallAt("touch_token")
    /\ call' = IF call.token \in DOMAIN directory.tokens THEN Step("activity") ELSE Answer("error")
    /\ Reads

IsThere(d, c) == c \in DOMAIN d.user

(* ApiUserActivityService.touch_if_due: those never active stay that, and  *)
(* within 30 seconds nothing is written.  What was written is compared     *)
(* with datetime.now(), as if it were by the same clock.                   *)
Due(user, ahead) == user.active /\ ahead + user.last > 30

(* Fault: the list's 300 seconds are taken for the activity's 30. *)
ReadActivityLate ==
    /\ CallAt("activity")
    /\ call' = Step(IF /\ IsThere(directory, call.contact)
                       /\ directory.user[call.contact].active
                       /\ call.ahead + directory.user[call.contact].last > 300
                    THEN "touch_contact" ELSE "authorize")
    /\ Reads

ReadActivity ==
    /\ CallAt("activity")
    /\ call' = Step(IF IsThere(directory, call.contact) /\ Due(directory.user[call.contact], call.ahead)
                    THEN "touch_contact" ELSE "authorize")
    /\ Reads

(* touch: the contact is read again ... *)
TouchContact ==
    /\ CallAt("touch_contact")
    /\ call' = Step(IF IsThere(directory, call.contact) THEN "flush_contact" ELSE "authorize")
    /\ Reads

(* ... and written, the time by the clock of the process; the write must   *)
(* meet its row.                                                           *)
FlushContact ==
    /\ CallAt("flush_contact")
    /\ IF IsThere(directory, call.contact)
       THEN LET active == [directory EXCEPT !.user[call.contact].active = TRUE,
                                            !.user[call.contact].last = -call.ahead]
            IN  /\ directory' = active
                /\ call' = [Step("authorize") EXCEPT !.seen = Append(@, active)]
       ELSE call' = Answer("error") /\ UNCHANGED directory
    /\ UNCHANGED linkerVars

(* Fault: whoever has the rights has access, a user or not. *)
GrantedAnyone(d, c, app) ==
    app = ControlApp \/ AccessOf(d, ActorTargets(d, c), app) # "none"

(* LegacyApiAppAccessService.authorize *)
Granted(d, c, app) ==
    /\ IsThere(d, c)
    /\ d.user[c].isUser > 0
    /\ app = ControlApp \/ AccessOf(d, ActorTargets(d, c), app) # "none"

(* The method the registry holds for an application, if any. *)
MethodsFor(app, name) ==
    {d \in Range(registered) : d.kind = "api" /\ d.app = app /\ d.name = name}

(* ApiRequestAuthorizer, the registry and ApiMethodExecutor: the answer, or *)
(* "none" if the method is executed.                                       *)
Authorization ==
    LET target == TargetOfCall(call.request)
        app == target.app[1]
        methods == MethodsFor(app, target.method)
    IN  IF Len(target.app) > 1 \/ app \notin Range(apps) THEN "app_not_installed"
        ELSE IF ~Granted(directory, call.contact, app) \/ app \notin call.scope THEN "access_denied"
        ELSE IF methods = {} THEN "invalid_method"
        ELSE IF \A m \in methods : call.request.verb \notin m.verbs THEN "not_allowed"
        ELSE "none"

Authorize ==
    /\ CallAt("authorize")
    /\ LET target == TargetOfCall(call.request)
       IN  call' = IF Authorization # "none" THEN Answer(Authorization)
                   ELSE LET method == CHOOSE m \in MethodsFor(target.app[1], target.method) : TRUE
                        IN  [Step(method.handler) EXCEPT !.method = method]
    /\ Reads

-----------------------------------------------------------------------------
(* The methods.  Those of other packages, and the invitation of a user     *)
(* (module ContactLifecycle), may come to anything.                        *)

Lists(users) == [Answer("ok") EXCEPT !.listed = users]

ExecuteOwn(answer) ==
    /\ CallAt("own")
    /\ answer \in {"ok", "rejected", "error"}
    /\ call' = Answer(answer)
    /\ Reads

(* users.getList: the candidates ... *)
ReadUsers ==
    /\ CallAt("users")
    /\ LET candidates == Candidates(directory, call.request.groups)
           required == {r.app : r \in call.request.access}
       IN  call' = IF candidates = {} \/ ~(required \subseteq Range(apps)) THEN Lists({})
                   ELSE [Step("users_rights") EXCEPT !.read = candidates]
    /\ Reads

(* ... and the rights over them. *)
SelectUsers ==
    /\ CallAt("users_rights")
    /\ call' = Lists(ListedUsers(directory, call.contact, call.read, call.request.access))
    /\ Reads

(* groups.getList: the same in two steps. *)
ReadGroups ==
    /\ CallAt("groups")
    /\ call' = [Step("groups_rights") EXCEPT !.read = directory.groups]
    /\ Reads

SelectGroups ==
    /\ CallAt("groups_rights")
    /\ call' = Lists(ListedGroups(directory, call.contact, call.read, call.request.types))
    /\ Reads

ApiStep ==
    \/ ResolveCallToken \/ TouchCallToken
    \/ ReadActivity \/ TouchContact \/ FlushContact
    \/ Authorize
    \/ (\E answer \in {"ok", "rejected", "error"} : ExecuteOwn(answer))
    \/ ReadUsers \/ SelectUsers \/ ReadGroups \/ SelectGroups
    \/ EndCall

-----------------------------------------------------------------------------
(* What others do to the database in the meantime, one commit at a time.   *)

WithoutRows(f, gone) == [x \in DOMAIN f \ gone |-> f[x]]
WithRow(f, row, value) == [x \in DOMAIN f \cup {row} |-> IF x = row THEN value ELSE f[x]]

(* A token is revoked, a right is set, a member leaves or joins a group, a *)
(* user is barred, a contact is deleted with its memberships and rights.   *)
Changed(d, change) ==
    CASE change.op = "revoke" -> [d EXCEPT !.tokens = WithoutRows(@, {change.token})]
      [] change.op = "right" ->
             [d EXCEPT !.rights = IF change.value = 0 THEN WithoutRows(@, {change.right})
                                  ELSE WithRow(@, change.right, change.value)]
      [] change.op = "leave" -> [d EXCEPT !.members = @ \ {change.member}]
      [] change.op = "join" -> [d EXCEPT !.members = @ \cup {change.member}]
      [] change.op = "bar" -> [d EXCEPT !.user[change.contact].isUser = -1]
      [] change.op = "delete" ->
             [d EXCEPT !.user = WithoutRows(@, {change.contact}),
                       !.members = {m \in @ : m[1] # change.contact},
                       !.tokens = WithoutRows(@, {t \in DOMAIN @ : @[t].contact = change.contact}),
                       !.rights = WithoutRows(@, {r \in DOMAIN @ : r[1] = change.contact})]

Applies(d, change) ==
    /\ change.op \in {"bar", "delete"} => IsThere(d, change.contact)
    /\ change.op = "join" => IsThere(d, change.member[1])

Interfere(change) ==
    /\ call.pc \notin {"none", "answered"}
    /\ Len(call.seen) < MaxSeen
    /\ Applies(directory, change)
    /\ Changed(directory, change) # directory
    /\ directory' = Changed(directory, change)
    /\ call' = [call EXCEPT !.seen = Append(@, directory')]
    /\ UNCHANGED linkerVars

-----------------------------------------------------------------------------
(* Properties. *)

Executing == call.method # None
AskedApp == TargetOfCall(call.request).app[1]

InScope(d) == AskedApp \in d.tokens[call.token].scope

(* A method is executed only for a token and an access that both held in   *)
(* the course of the call, the token first: the token was there, unexpired *)
(* and issued for the application, its contact was a user with access to   *)
(* the application then or later, the application is installed and has the *)
(* method for the verb.  A revocation, a lost right or a deletion that     *)
(* comes before the call is never outrun, one that comes during the call   *)
(* may be; and a call is refused for its token or its access only if one   *)
(* of them did not hold at some time of the call.                          *)
ExecutedOnAuthority ==
    LET seen == call.seen
        Bears(d) == Authentic(d, call.token)
        MayUse(d, c) == /\ IsThere(d, c) /\ d.user[c].isUser > 0
                        /\ AskedApp = ControlApp
                           \/ AccessOf(d, ActorTargets(d, c), AskedApp) # "none"
    IN  /\ Executing =>
              /\ \E i, j \in DOMAIN seen :
                    /\ i <= j
                    /\ Bears(seen[i]) /\ InScope(seen[i])
                    /\ seen[i].tokens[call.token].contact = call.contact
                    /\ MayUse(seen[j], call.contact)
              /\ AskedApp \in Range(apps)
              /\ call.method \in Range(registered)
              /\ call.request.verb \in call.method.verbs
        /\ call.answer = "invalid_token" => \E i \in DOMAIN seen : ~Bears(seen[i])
        /\ call.answer = "access_denied" =>
              \/ AskedApp \notin call.scope
              \/ \E i \in DOMAIN seen : ~MayUse(seen[i], call.contact)

(* Negative, on its own: the actor's highest right over a group is below   *)
(* zero, as groups.getList would take it were there no right for all.      *)
KeptFrom(d, actor, g) ==
    LET own == [d EXCEPT !.rights = WithoutRows(@, {r \in DOMAIN @ : r[3] = ManageUsers(AllGroups)})]
    IN  ~MayManage(own, ActorTargets(d, actor), g)

WithoutGuests(d) == [d EXCEPT !.rights = WithoutRows(@, {r \in DOMAIN @ : r[1] = Guests})]

(* A list of users is what its actor may see, of one state of the database *)
(* by the rights of that state or a later one, and complete: an actor with *)
(* limited access is shown nobody all of whose groups groups.getList would *)
(* keep from it (but for the right over all groups, which only the groups  *)
(* obey), nobody else is withheld, and a filter leaves those whose own     *)
(* rights, without the guests', satisfy it.  Rights lost between the two   *)
(* transactions count, and access lost after the authorization shows all.  *)
ListedWithinRights ==
    call.answer = "ok" /\ call.method.handler = "users" =>
        \E i, j \in DOMAIN call.seen :
            LET d == call.seen[i]
                e == call.seen[j]
                access == AccessOf(e, ActorTargets(e, call.contact), TeamApp)
                May(c) == \/ access # "limited" \/ c = call.contact
                          \/ GroupsIn(d, c) = {}
                          \/ \E g \in GroupsIn(d, c) : ~KeptFrom(e, call.contact, g)
                Satisfies(c) == \A r \in call.request.access :
                    /\ r.app \in Range(apps)
                    /\ AccessOf(WithoutGuests(e), ActorTargets(d, c), r.app) \in
                          {"full", "global"} \cup {l \in {"limited"} : r.level = l}
            IN  /\ i <= j
                /\ {u.id : u \in call.listed} =
                       {c \in DOMAIN d.user : IsCandidate(d, call.request.groups, c)
                                              /\ May(c) /\ Satisfies(c)}

(* A caller who was ever active, and is on the list it gets, is not shown  *)
(* as offline: the call itself has made it active, or it was so within the *)
(* 30 seconds in which nothing is written, and the list observes what the  *)
(* pipeline has written.  That holds as long as the clock of the process   *)
(* is less than 270 seconds behind the configured time zone, which is what *)
(* the 30 leave of the 300 seconds after which the list takes a user for   *)
(* gone.  Nothing in the code sees to that; from 270 seconds on a caller   *)
(* whose activity is not refreshed, or was by such a clock, is offline.    *)
Foreseen(u) == u.id = call.contact /\ call.seen[1].user[call.contact].active

CallerSeenOnline ==
    call.answer = "ok" /\ call.method.handler = "users" =>
        \A u \in call.listed : Foreseen(u) /\ call.ahead > -270 => u.status # "offline"
=============================================================================
