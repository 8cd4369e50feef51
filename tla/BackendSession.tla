--------------------------- MODULE BackendSession ---------------------------
(***************************************************************************)
(* Backend sessions of gomazon_webasyst: what AuthenticateBackendPassword, *)
(* RestoreBackendSessionFromPersistentCredential, ResolveBackendSession    *)
(* and LogoutBackendSession do to the two stores a session lives in, the   *)
(* in-memory session state (InMemorySessionStateStore) and the registry    *)
(* table wa_contact_auths (SQLAlchemyAuthSessionRegistry).                 *)
(*                                                                         *)
(* Requests run concurrently on one event loop: every awaited call on a    *)
(* store is one step, and between two steps of a request any other request *)
(* may run.  The contact row is read but never written here: password      *)
(* changes, bans and deletions come from elsewhere.                        *)
(***************************************************************************)
EXTENDS Naturals

CONSTANTS
    Request,      \* requests the process may be serving at one time
    Contact,      \* contact ids
    SessionId,    \* values of the session id factory
    Version,      \* versions of the login and password of a contact
    TTL,          \* lifetime of an unused session state, in clock ticks
    IdsRepeat,    \* TRUE: the session id factory may return an id again
    None          \* no entry in a store

Token == Contact \X Version
Age == 0..(TTL + 1)
StoredSession == [contact : Contact, token : Token, age : Age]

ASSUME TTLAssumption == TTL \in Nat
ASSUME FlagAssumption == IdsRepeat \in BOOLEAN
ASSUME NoneAssumption == /\ None \notin StoredSession
                         /\ None \notin SessionId
                         /\ None \notin Contact
                         /\ None \notin Token

VARIABLES
    contacts,   \* the wa_contact rows the subject store reads
    states,     \* InMemorySessionStateStore._states
    registry,   \* rows of wa_contact_auths by session id: the contact of each
    held,       \* the row the transaction of each request has selected
    req,        \* the requests being served: where they are, their locals
    issued,     \* history: session ids the factory has returned
    delivered,  \* history: session ids some client has been given
    abandoned,  \* history: session ids nobody was given, their establishment cut off
    overwritten, \* history: session ids whose row has changed its contact
    evidence    \* history: what was true at some moment of a resolution

vars == <<contacts, states, registry, held, req, issued, delivered, abandoned,
          overwritten, evidence>>

Rejections == {"NOT_FOUND", "EXPIRED", "SUBJECT_DISABLED", "SUBJECT_UNAVAILABLE",
               "CREDENTIALS_CHANGED", "REVOKED"}
Answers == Rejections \cup
           {"NONE", "ERROR", "INVALID_CREDENTIALS", "SESSION_UNAVAILABLE",
            "ESTABLISHED", "RESOLVED", "LOGGED_OUT", "ALREADY_MISSING"}
Points == {"idle", "create", "register", "register_write", "compensate", "load", "check",
           "touch", "touch_write", "revoke_state", "revoke_registry", "revoke_delete"}

(* The points at which ResolveBackendSession may still accept. *)
Resolving == {"load", "check", "touch", "touch_write"}

Registering == {"register", "register_write"}

(* The points between the select of a transaction and its flush and commit. *)
Writing == {"register_write", "touch_write", "revoke_delete"}

TypeOK ==
    /\ contacts \in [Contact -> [status : {"user", "disabled", "missing"},
                                 version : Version]]
    /\ states \in [SessionId -> StoredSession \cup {None}]
    /\ registry \in [SessionId -> Contact \cup {None}]
    /\ held \in [Request -> {"none", "own", "other", "gone"}]
    /\ req \in [Request -> [pc : Points, answer : Answers,
                            sid : SessionId \cup {None},
                            contact : Contact \cup {None},
                            token : Token \cup {None}]]
    /\ issued \in SUBSET SessionId
    /\ delivered \in SUBSET SessionId
    /\ abandoned \in SUBSET SessionId
    /\ overwritten \in SUBSET SessionId
    /\ evidence \in [Request -> SUBSET {"session", "subject"}]

(* A request that answered: of its locals only the session id matters yet. *)
Done(answer, s) ==
    [pc |-> "idle", answer |-> answer, sid |-> s, contact |-> None, token |-> None]

Idle == Done("NONE", None)

Init ==
    /\ contacts \in [Contact -> [status : {"user"}, version : Version]]
    /\ states = [s \in SessionId |-> None]
    /\ registry = [s \in SessionId |-> None]
    /\ held = [r \in Request |-> "none"]
    /\ req = [r \in Request |-> Idle]
    /\ issued = {}
    /\ delivered = {}
    /\ abandoned = {}
    /\ overwritten = {}
    /\ evidence = [r \in Request |-> {}]

-----------------------------------------------------------------------------
(* Operators on the two stores and on the contact row. *)

(* LegacyCredentialVersionTokenFactory.create: the token embeds the id and *)
(* is a digest of the login and the password hash.                         *)
CredentialToken(c) == <<c, contacts[c].version>>

IsUser(c) == contacts[c].status = "user"

Expired(s) == states[s].age > TTL

(* Fault: the copy of a state loses the token it was created with. *)
AgedWithoutToken(state, n) == [contact |-> state.contact, token |-> None, age |-> n]

Aged(state, n) == [contact |-> state.contact, token |-> state.token, age |-> n]

(* InMemorySessionStateStore.revoke removes the state of exactly this key. *)
StateRevoked(c, s) ==
    IF states[s] # None /\ states[s].contact = c
    THEN [states EXCEPT ![s] = None]
    ELSE states

(* SQLAlchemyAuthSessionRegistry._by_key. *)
RowActive(c, s) == registry[s] = c

(* A registration writes if it found no row and there still is none (the   *)
(* index on session ids is unique), or if the row it found is still there. *)
Writable(r) ==
    \/ held[r] = "none" /\ registry[req[r].sid] = None
    \/ held[r] \in {"own", "other"}

(* The row inserted, or the selected one updated by its primary key.  Only *)
(* columns that change are written: a row that was the contact's own when  *)
(* it was selected keeps the contact it has by now.                        *)
RowWritten(r) ==
    [registry EXCEPT ![req[r].sid] = IF held[r] = "own" THEN @ ELSE req[r].contact]

(* The selected row deleted by its primary key, whoever's it is by now; a  *)
(* delete that matches no row is only warned about.                        *)
RowDeleted(r) ==
    IF held[r] = "own" THEN [registry EXCEPT ![req[r].sid] = None] ELSE registry

(* What a request that fails at an await leaves in the table: nothing      *)
(* new, or what its commit wrote, when only the answer to that was lost.   *)
Leaves(r) ==
    {registry} \cup (IF req[r].pc = "register_write" /\ Writable(r) THEN {RowWritten(r)} ELSE {})
               \cup (IF req[r].pc = "revoke_delete" THEN {RowDeleted(r)} ELSE {})

(* A session both stores know, that the next resolution would accept if    *)
(* the subject allows it.                                                  *)
Live(s) ==
    /\ states[s] # None
    /\ ~Expired(s)
    /\ RowActive(states[s].contact, s)

(* Session ids a client may present: given to it, or simply unknown. *)
Presentable == delivered \cup (SessionId \ issued)

Goto(r, p) == req' = [req EXCEPT ![r].pc = p]
Answer(r, a) == req' = [req EXCEPT ![r] = Done(a, req[r].sid)]
RevokeWith(r, a) ==
    req' = [req EXCEPT ![r] = [pc |-> "revoke_state", answer |-> a, sid |-> req[r].sid,
                               contact |-> req[r].contact, token |-> req[r].token]]

-----------------------------------------------------------------------------
(* Logging in: by password, or from a persistent credential. *)

(* AuthenticateBackendPassword up to the session: the identity directory   *)
(* reads the contact row, which must be an enabled user, and the password  *)
(* the client presents is verified against the hash that was read.         *)
Login(r, c, v) ==
    /\ req[r].pc = "idle"
    /\ IF IsUser(c) /\ contacts[c].version = v
       THEN req' = [req EXCEPT ![r] = [pc |-> "create", answer |-> "NONE", sid |-> None,
                                       contact |-> c, token |-> CredentialToken(c)]]
       ELSE req' = [req EXCEPT ![r] = Done("INVALID_CREDENTIALS", None)]
    /\ UNCHANGED <<contacts, states, registry, issued, delivered, abandoned>>

(* The persistent credential is the credential token of a contact: it is   *)
(* parsed, the subject it embeds is loaded and its current token compared. *)
Restore(r, t) ==
    /\ req[r].pc = "idle"
    /\ IF IsUser(t[1]) /\ t = CredentialToken(t[1])
       THEN req' = [req EXCEPT ![r] = [pc |-> "create", answer |-> "NONE", sid |-> None,
                                       contact |-> t[1], token |-> t]]
       ELSE req' = [req EXCEPT ![r] = Done("INVALID_CREDENTIALS", None)]
    /\ UNCHANGED <<contacts, states, registry, issued, delivered, abandoned>>

(* BackendSessionEstablisher.establish, first step: a session state under  *)
(* a generated id, unless the id is taken.                                 *)
Create(r, s) ==
    /\ req[r].pc = "create"
    /\ IdsRepeat \/ s \notin issued
    /\ IF states[s] # None
       THEN /\ Answer(r, "SESSION_UNAVAILABLE")
            /\ UNCHANGED states
       ELSE /\ states' = [states EXCEPT ![s] = [contact |-> req[r].contact,
                                                token |-> req[r].token, age |-> 0]]
            /\ req' = [req EXCEPT ![r].pc = "register", ![r].sid = s]
    /\ issued' = issued \cup {s}
    /\ UNCHANGED <<contacts, registry, delivered, abandoned>>

(* establish, second step: registering, which selects the row of that id. *)
RegisterSelect(r) ==
    /\ req[r].pc = "register"
    /\ Goto(r, "register_write")
    /\ UNCHANGED <<contacts, states, registry, issued, delivered, abandoned>>

(* The row is inserted or updated; the client gets its id. *)
RegisterWrite(r) ==
    /\ req[r].pc = "register_write"
    /\ Writable(r)
    /\ registry' = RowWritten(r)
    /\ Answer(r, "ESTABLISHED")
    /\ delivered' = delivered \cup {req[r].sid}
    /\ abandoned' = abandoned \ {req[r].sid}
    /\ UNCHANGED <<contacts, states, issued>>

(* Registration raises: before its commit took effect, or after. *)
RegisterRaises(r) ==
    /\ req[r].pc \in Registering
    /\ registry' \in Leaves(r)
    /\ Goto(r, "compensate")
    /\ UNCHANGED <<contacts, states, issued, delivered, abandoned>>

(* Fault: the error is re-raised before the fresh state is revoked. *)
CompensateForgotten(r) ==
    /\ req[r].pc = "compensate"
    /\ Answer(r, "ERROR")
    /\ UNCHANGED <<contacts, states, registry, issued, delivered, abandoned>>

(* `except Exception`: the fresh state is revoked, the error re-raised. *)
Compensate(r) ==
    /\ req[r].pc = "compensate"
    /\ states' = StateRevoked(req[r].contact, req[r].sid)
    /\ Answer(r, "ERROR")
    /\ UNCHANGED <<contacts, registry, issued, delivered, abandoned>>

-----------------------------------------------------------------------------
(* Resolving a session and logging out. *)

(* Fault: a state past its lifetime is refreshed like any other. *)
OpenStateExpired(r, s, point, ok, missing, expired) ==
    \/ /\ states[s] = None
       /\ req' = [req EXCEPT ![r] = Done(missing, s)]
       /\ UNCHANGED states
    \/ /\ states[s] # None
       /\ req' = [req EXCEPT ![r] = [pc |-> point, answer |-> ok, sid |-> s,
                                     contact |-> states[s].contact,
                                     token |-> states[s].token]]
       /\ states' = [states EXCEPT ![s] = Aged(states[s], 0)]

(* SessionStateStore.resolve, the first step of a resolution and of a      *)
(* logout: an expired state is deleted, any other has its last use         *)
(* refreshed, and the request goes on with its key and token.              *)
OpenState(r, s, point, ok, missing, expired) ==
    \/ /\ states[s] = None
       /\ req' = [req EXCEPT ![r] = Done(missing, s)]
       /\ UNCHANGED states
    \/ /\ states[s] # None
       /\ Expired(s)
       /\ req' = [req EXCEPT ![r] = Done(expired, s)]
       /\ states' = [states EXCEPT ![s] = None]
    \/ /\ states[s] # None
       /\ ~Expired(s)
       /\ req' = [req EXCEPT ![r] = [pc |-> point, answer |-> ok, sid |-> s,
                                     contact |-> states[s].contact,
                                     token |-> states[s].token]]
       /\ states' = [states EXCEPT ![s] = Aged(states[s], 0)]

(* ResolveBackendSession, first step.  The validation policy is the strict *)
(* one every composition defaults to: it goes on to validate the session.  *)
Resolve(r, s) ==
    /\ req[r].pc = "idle"
    /\ s \in Presentable
    /\ OpenState(r, s, "load", "NONE", "NOT_FOUND", "EXPIRED")
    /\ UNCHANGED <<contacts, registry, issued, delivered, abandoned>>

(* Fault: an enabled subject is enough, whatever its credentials are now. *)
LoadSubjectUnversioned(r) ==
    /\ req[r].pc = "load"
    /\ IF IsUser(req[r].contact)
       THEN Goto(r, "check")
       ELSE RevokeWith(r, "SUBJECT_DISABLED")
    /\ UNCHANGED <<contacts, states, registry, issued, delivered, abandoned>>

(* The subject is loaded and its current token compared with the one the   *)
(* session was created with; on a mismatch both stores are to be revoked.  *)
LoadSubject(r) ==
    /\ req[r].pc = "load"
    /\ \/ /\ contacts[req[r].contact].status = "missing"
          /\ RevokeWith(r, "SUBJECT_UNAVAILABLE")
       \/ /\ contacts[req[r].contact].status = "disabled"
          /\ RevokeWith(r, "SUBJECT_DISABLED")
       \/ /\ IsUser(req[r].contact)
          /\ CredentialToken(req[r].contact) # req[r].token
          /\ RevokeWith(r, "CREDENTIALS_CHANGED")
       \/ /\ IsUser(req[r].contact)
          /\ CredentialToken(req[r].contact) = req[r].token
          /\ Goto(r, "check")
    /\ UNCHANGED <<contacts, states, registry, issued, delivered, abandoned>>

(* Registry check, and the select of the registry touch: a missing row     *)
(* means the session was revoked, and its state is to go too.              *)
CheckRow(r, from, to) ==
    /\ req[r].pc = from
    /\ IF RowActive(req[r].contact, req[r].sid)
       THEN Goto(r, to)
       ELSE RevokeWith(r, "REVOKED")
    /\ UNCHANGED <<contacts, states, registry, issued, delivered, abandoned>>

Check(r) == CheckRow(r, "check", "touch")
TouchSelect(r) == CheckRow(r, "touch", "touch_write")

(* Fault: the touch writes the row again when it is gone. *)
TouchWriteUpserts(r) ==
    /\ req[r].pc = "touch_write"
    /\ registry' = [registry EXCEPT ![req[r].sid] = req[r].contact]
    /\ Answer(r, "RESOLVED")
    /\ UNCHANGED <<contacts, states, issued, delivered, abandoned>>

(* The update of the touch, by primary key: the ORM raises when the        *)
(* selected row is gone.                                                   *)
TouchWrite(r) ==
    /\ req[r].pc = "touch_write"
    /\ Answer(r, IF held[r] = "gone" THEN "ERROR" ELSE "RESOLVED")
    /\ UNCHANGED <<contacts, states, registry, issued, delivered, abandoned>>

(* LogoutBackendSession, first step. *)
Logout(r, s) ==
    /\ req[r].pc = "idle"
    /\ s \in Presentable
    /\ OpenState(r, s, "revoke_state", "LOGGED_OUT", "ALREADY_MISSING", "ALREADY_MISSING")
    /\ UNCHANGED <<contacts, registry, issued, delivered, abandoned>>

(* Fault: the revocation waits until nobody is resolving the session. *)
RevokeStateUnused(r) ==
    /\ req[r].pc = "revoke_state"
    /\ \A q \in Request : req[q].sid = req[r].sid => req[q].pc \notin Resolving
    /\ states' = StateRevoked(req[r].contact, req[r].sid)
    /\ Goto(r, "revoke_registry")
    /\ UNCHANGED <<contacts, registry, issued, delivered, abandoned>>

(* _revoke_both and the logout revoke the state, then the row; a session   *)
(* whose row was found missing only has its state revoked.                 *)
RevokeState(r) ==
    /\ req[r].pc = "revoke_state"
    /\ states' = StateRevoked(req[r].contact, req[r].sid)
    /\ IF req[r].answer = "REVOKED" THEN Answer(r, "REVOKED") ELSE Goto(r, "revoke_registry")
    /\ UNCHANGED <<contacts, registry, issued, delivered, abandoned>>

(* The select of the registry revocation, by key. *)
RevokeRegistry(r) ==
    /\ req[r].pc = "revoke_registry"
    /\ IF RowActive(req[r].contact, req[r].sid)
       THEN Goto(r, "revoke_delete")
       ELSE Answer(r, req[r].answer)
    /\ UNCHANGED <<contacts, states, registry, issued, delivered, abandoned>>

(* Fault: whatever row has the session id by now is deleted. *)
RevokeDeleteById(r) ==
    /\ req[r].pc = "revoke_delete"
    /\ registry' = [registry EXCEPT ![req[r].sid] = None]
    /\ Answer(r, req[r].answer)
    /\ UNCHANGED <<contacts, states, issued, delivered, abandoned>>

(* Its delete. *)
RevokeDelete(r) ==
    /\ req[r].pc = "revoke_delete"
    /\ registry' = RowDeleted(r)
    /\ Answer(r, req[r].answer)
    /\ UNCHANGED <<contacts, states, issued, delivered, abandoned>>

-----------------------------------------------------------------------------
(* What the use cases have to live with. *)

(* A request dies at an await: its task is cancelled, or a store raises.   *)
(* No handler but the establisher's catches anything, and that one does    *)
(* not catch a cancellation: the registration under way then leaves the    *)
(* state behind, and the row too if its commit took effect.  A revocation  *)
(* may have deleted its row.                                               *)
Abort(r) ==
    /\ req[r].pc # "idle"
    /\ Answer(r, "ERROR")
    /\ registry' \in Leaves(r)
    /\ abandoned' = abandoned \cup
          (IF req[r].pc \in Registering \cup {"compensate"} THEN {req[r].sid} \ delivered ELSE {})
    /\ UNCHANGED <<contacts, states, issued, delivered>>

(* Time passes for every stored state; ages stop just past the lifetime. *)
Tick ==
    /\ \E s \in SessionId : states[s] # None /\ ~Expired(s)
    /\ states' = [s \in SessionId |->
                    IF states[s] # None /\ ~Expired(s)
                    THEN Aged(states[s], states[s].age + 1)
                    ELSE states[s]]
    /\ UNCHANGED <<contacts, registry, req, issued, delivered, abandoned>>

(* Login or password changes, also back to what they were before. *)
ChangeCredentials(c, v) ==
    /\ contacts[c].status # "missing"
    /\ v # contacts[c].version
    /\ contacts' = [contacts EXCEPT ![c].version = v]
    /\ UNCHANGED <<states, registry, req, issued, delivered, abandoned>>

(* A contact is banned, readmitted or deleted; ids are never used again. *)
ChangeStatus(c, status) ==
    /\ contacts[c].status # "missing"
    /\ status # contacts[c].status
    /\ contacts' = [contacts EXCEPT ![c].status = status]
    /\ UNCHANGED <<states, registry, req, issued, delivered, abandoned>>

(* Another program that shares the database deletes a registry row. *)
ForeignRevoke(s) ==
    /\ registry[s] # None
    /\ registry' = [registry EXCEPT ![s] = None]
    /\ UNCHANGED <<contacts, states, req, issued, delivered, abandoned>>

(* The process restarts: its memory and its requests are gone. *)
Restart ==
    /\ states' = [s \in SessionId |-> None]
    /\ req' = [r \in Request |-> Idle]
    /\ UNCHANGED <<contacts, registry, issued, delivered, abandoned>>

-----------------------------------------------------------------------------
(* What an observer of request r's session and subject would note now. *)
Facts(r) ==
    {f \in {"session", "subject"} :
        \/ f = "session" /\ Live(req[r].sid) /\ states[req[r].sid].contact = req[r].contact
        \/ f = "subject" /\ IsUser(req[r].contact)
                         /\ CredentialToken(req[r].contact) = req[r].token}

Observe ==
    evidence' = [r \in Request |->
                   IF req'[r].pc \in Resolving
                   THEN (IF req[r].pc \in Resolving THEN evidence[r] ELSE {}) \cup Facts(r)'
                   ELSE IF req'[r].pc = "idle" /\ req'[r].answer = "RESOLVED"
                        THEN evidence[r]
                        ELSE {}]

(* The row a request that has just selected holds, and has from then on:   *)
(* nothing, the row of its own key, the row of another contact under its   *)
(* id, or a row that was deleted since.  A row inserted later under the    *)
(* same id is another row.                                                 *)
Selected(r) ==
    IF registry[req[r].sid] = None THEN "none"
    ELSE IF RowActive(req[r].contact, req[r].sid) THEN "own" ELSE "other"

Track ==
    /\ held' = [r \in Request |->
                  IF req'[r].pc \notin Writing THEN "none"
                  ELSE IF req[r].pc \notin Writing THEN Selected(r)
                  ELSE IF held[r] # "none" /\ registry'[req[r].sid] = None THEN "gone"
                  ELSE held[r]]
    /\ overwritten' = {s \in SessionId :
                         /\ registry'[s] # None
                         /\ s \in overwritten \/ registry[s] \notin {None, registry'[s]}}

Continue(r) ==
    \/ \E s \in SessionId : Create(r, s)
    \/ RegisterSelect(r) \/ RegisterWrite(r) \/ RegisterRaises(r) \/ Compensate(r)
    \/ LoadSubject(r) \/ Check(r) \/ TouchSelect(r) \/ TouchWrite(r)
    \/ RevokeState(r) \/ RevokeRegistry(r) \/ RevokeDelete(r)

Arrive(r) ==
    \/ \E c \in Contact, v \in Version : Login(r, c, v)
    \/ \E t \in Token : Restore(r, t)
    \/ \E s \in SessionId : Resolve(r, s)
    \/ \E s \in SessionId : Logout(r, s)

Environment ==
    \/ Tick
    \/ \E c \in Contact, v \in Version : ChangeCredentials(c, v)
    \/ \E c \in Contact, st \in {"user", "disabled", "missing"} : ChangeStatus(c, st)
    \/ \E s \in SessionId : ForeignRevoke(s)
    \/ Restart

Next ==
    /\ \/ \E r \in Request : Arrive(r) \/ Continue(r) \/ Abort(r)
       \/ Environment
    /\ Observe
    /\ Track

Spec == Init /\ [][Next]_vars

(* The event loop runs every ready task: a request that is being served    *)
(* and can go on does.                                                     *)
FairSpec == Spec /\ \A r \in Request : WF_vars(Continue(r) /\ Observe /\ Track)

-----------------------------------------------------------------------------
(* Properties. *)

(* ResolveBackendSession accepts a session only if, at some moment between *)
(* the start of the request and its answer, both stores held the session   *)
(* for that contact, and, at some moment, the contact was an enabled user  *)
(* whose credentials were those the session was created with: whatever     *)
(* logout, ban, deletion, password change or foreign revocation ran        *)
(* between its awaits, it never accepts what was over when it began.       *)
AcceptedOnEvidence ==
    \A r \in Request :
        req[r].pc = "idle" /\ req[r].answer = "RESOLVED"
            => evidence[r] = {"session", "subject"}

(* Once a logout, or a resolution that rejects the subject, the            *)
(* credentials or the registry row, has answered, neither store holds the  *)
(* session, and none of the requests that were in the middle of resolving  *)
(* or touching it brings it back.                                          *)
RevokedForGood ==
    \A r \in Request :
        /\ req[r].pc = "idle"
        /\ req[r].answer \in {"LOGGED_OUT", "SUBJECT_DISABLED", "SUBJECT_UNAVAILABLE",
                              "CREDENTIALS_CHANGED", "REVOKED"}
        => states[req[r].sid] = None /\ registry[req[r].sid] = None

(* A session nobody was told of does not stay behind: when registration    *)
(* fails with an error, the state that was created for it is revoked.      *)
(* Only a cancelled establishment (abandoned) may leave its state.         *)
NoSecretSession ==
    \A s \in issued \ (delivered \cup abandoned) :
        states[s] # None =>
            \E r \in Request : /\ req[r].sid = s
                                /\ req[r].pc \in Registering \cup {"compensate"}

(* No step of a request that is served for one contact (or for nobody yet) *)
(* ends a live session of another, whatever session id was given out again *)
(* while it waited at an await and whatever it commits there, with one     *)
(* exception: a registration that finds a row under its id takes it over,  *)
(* and from then on that row is two contacts' (overwritten): the taking    *)
(* over itself, and the delete of a revocation that selected the row when  *)
(* it was the former contact's, end the session the row then stands for.   *)
UntouchedByOthers ==
    [][\A r \in Request, s \in SessionId :
          /\ req'[r] \notin {req[r], Idle}
          /\ Live(s)
          /\ states[s].contact # req[r].contact
          => Live(s)' \/ s \in overwritten \cup overwritten']_vars

(* A logout that found its session and is not cut off gets it out of use,  *)
(* however many other requests resolve and refresh the session meanwhile.  *)
LogoutTakesEffect ==
    \A r \in Request, s \in SessionId :
        (/\ req[r].pc = "revoke_state"
         /\ req[r].answer = "LOGGED_OUT"
         /\ req[r].sid = s
         /\ Live(s)
         /\ states[s].contact = req[r].contact)
            ~> (~Live(s) \/ req[r].answer = "ERROR")

(* The stores, the requests and their history carry out SessionAuthority.  *)
Status(s) ==
    IF s \notin issued THEN "unborn"
    ELSE IF Live(s) THEN "live"
    ELSE IF /\ states[s] # None
            /\ ~Expired(s)
            /\ \E r \in Request : req[r].sid = s /\ req[r].pc \in Registering
         THEN "opening"
    ELSE "ended"

Authority == INSTANCE SessionAuthority WITH
    status <- [s \in SessionId |-> Status(s)],
    asked <- [r \in Request |-> IF req[r].pc \in Resolving THEN req[r].sid ELSE None],
    seen <- [r \in Request |-> "session" \in evidence[r]],
    granted <- [r \in Request |-> req[r].pc = "idle" /\ req[r].answer = "RESOLVED"]

(* Two stores, a dozen awaits and a restart between any two of them look   *)
(* to the clients like one session with one life, which ends once.         *)
ImplementsAuthority == Authority!Spec
=============================================================================
