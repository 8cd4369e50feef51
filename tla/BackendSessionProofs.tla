------------------------ MODULE BackendSessionProofs ------------------------
(***************************************************************************)
(* Proofs about BackendSession, for every number of requests, contacts,    *)
(* session ids and credential versions, and every lifetime.                *)
(***************************************************************************)
EXTENDS BackendSession, TLAPS

(* A request that is being served knows its subject and the token it read; *)
(* past the creation of a session it knows the session id too.  It has not *)
(* accepted anything yet.                                                  *)
LocalsOK ==
    \A r \in Request :
        /\ req[r].pc # "idle" => req[r].contact \in Contact /\ req[r].token \in Token
        /\ req[r].pc \notin {"idle", "create"} => req[r].sid \in SessionId
        /\ req[r].pc # "idle" => req[r].answer # "RESOLVED"

TInv == TypeOK /\ LocalsOK

USE TTLAssumption, NoneAssumption

LEMMA TypeInit == Init => TInv
  BY DEF Init, TInv, TypeOK, LocalsOK, Idle, Done, Points, Answers

(* What was observed is drawn from the two facts, whatever the step. *)
LEMMA TypeObserve ==
    ASSUME TypeOK, Observe
    PROVE  evidence' \in [Request -> SUBSET {"session", "subject"}]
<1>1. \A r \in Request : Facts(r)' \subseteq {"session", "subject"}
  BY DEF Facts
<1>2. \A r \in Request : evidence[r] \subseteq {"session", "subject"}
  BY DEF TypeOK
<1>3. QED
  BY <1>1, <1>2 DEF Observe

(* So is what a transaction holds drawn from the four cases. *)
LEMMA TypeTrack ==
    ASSUME TypeOK, Track
    PROVE  /\ held' \in [Request -> {"none", "own", "other", "gone"}]
           /\ overwritten' \in SUBSET SessionId
  BY DEF TypeOK, Track, Selected

Requests ==
    /\ req \in [Request -> [pc : Points, answer : Answers,
                            sid : SessionId \cup {None},
                            contact : Contact \cup {None},
                            token : Token \cup {None}]]
    /\ LocalsOK

(* The part of TInv that Observe and Track have no say in. *)
Core ==
    /\ contacts \in [Contact -> [status : {"user", "disabled", "missing"},
                                 version : Version]]
    /\ states \in [SessionId -> StoredSession \cup {None}]
    /\ registry \in [SessionId -> Contact \cup {None}]
    /\ issued \in SUBSET SessionId
    /\ delivered \in SUBSET SessionId
    /\ abandoned \in SUBSET SessionId
    /\ Requests

(* Answering, going on and turning to revocation keep a request well       *)
(* formed.                                                                 *)
LEMMA CoreAnswer ==
    ASSUME Core, NEW r \in Request, NEW a \in Answers, Answer(r, a)
    PROVE  Requests'
  BY DEF Core, Requests, LocalsOK, Answer, Done, Points

LEMMA CoreGoto ==
    ASSUME Core, NEW r \in Request, req[r].pc \notin {"idle", "create"},
           NEW p \in Points, p # "idle", Goto(r, p)
    PROVE  Requests'
  BY DEF Core, Requests, LocalsOK, Goto

LEMMA CoreRevokeWith ==
    ASSUME Core, NEW r \in Request, req[r].pc \notin {"idle", "create"},
           NEW a \in Answers, a # "RESOLVED", RevokeWith(r, a)
    PROVE  Requests'
<1>1. "revoke_state" \in Points
  BY DEF Points
<1>2. QED
  BY <1>1 DEF RevokeWith, Core, Requests, LocalsOK

(* Resolutions and logouts start alike. *)
LEMMA CoreOpenState ==
    ASSUME Core, NEW r \in Request, NEW s \in SessionId,
           NEW point \in Points, NEW ok \in Answers, NEW missing \in Answers,
           NEW expired \in Answers, ok # "RESOLVED",
           OpenState(r, s, point, ok, missing, expired),
           UNCHANGED <<contacts, registry, issued, delivered, abandoned>>
    PROVE  Core'
<1>1. CASE states[s] = None
  <2>1. states' = states /\ req' = [req EXCEPT ![r] = Done(missing, s)]
    BY <1>1 DEF OpenState
  <2>2. QED
    BY <2>1 DEF Core, Requests, LocalsOK, Done, Points
<1>2. CASE states[s] # None /\ Expired(s)
  <2>1. states' = [states EXCEPT ![s] = None] /\ req' = [req EXCEPT ![r] = Done(expired, s)]
    BY <1>2 DEF OpenState
  <2>2. QED
    BY <2>1 DEF Core, Requests, LocalsOK, Done, Points
<1>3. CASE states[s] # None /\ ~Expired(s)
  <2>1. states[s] \in StoredSession
    BY <1>3 DEF Core
  <2>2. states[s].contact \in Contact /\ states[s].token \in Token
    BY <2>1 DEF StoredSession
  <2>3. Aged(states[s], 0) \in StoredSession
    BY <2>2 DEF Aged, StoredSession, Age
  <2>4. /\ states' = [states EXCEPT ![s] = Aged(states[s], 0)]
        /\ req' = [req EXCEPT ![r] = [pc |-> point, answer |-> ok, sid |-> s,
                                      contact |-> states[s].contact,
                                      token |-> states[s].token]]
    BY <1>3 DEF OpenState
  <2>5. QED
    BY <2>2, <2>3, <2>4 DEF Core, Requests, LocalsOK
<1>4. QED
  BY <1>1, <1>2, <1>3

LEMMA CoreArrive ==
    ASSUME Core, NEW r \in Request, Arrive(r)
    PROVE  Core'
<1>1. ASSUME NEW c \in Contact, NEW v \in Version, Login(r, c, v)
      PROVE  Core'
  <2>1. CredentialToken(c) \in Token
    BY DEF CredentialToken, Token, Core
  <2>2. Requests'
    BY <1>1, <2>1, SMTT(30) DEF Core, Login, Requests, LocalsOK, Done, Points, Answers
  <2>3. QED
    BY <1>1, <2>2 DEF Core, Login
<1>2. ASSUME NEW t \in Token, Restore(r, t)
      PROVE  Core'
  <2>1. t[1] \in Contact
    BY DEF Token
  <2>2. QED
    BY <1>2, <2>1 DEF Core, Restore, Requests, LocalsOK, Done, Points, Answers
<1>3. ASSUME NEW s \in SessionId, Resolve(r, s)
      PROVE  Core'
  BY <1>3, CoreOpenState DEF Resolve, Points, Answers, Rejections
<1>4. ASSUME NEW s \in SessionId, Logout(r, s)
      PROVE  Core'
  BY <1>4, CoreOpenState DEF Logout, Points, Answers, Rejections
<1>5. QED
  BY <1>1, <1>2, <1>3, <1>4 DEF Arrive

LEMMA LeavesTyped ==
    ASSUME Core, NEW r \in Request, NEW rows \in Leaves(r)
    PROVE  rows \in [SessionId -> Contact \cup {None}]
<1>1. CASE rows = registry
  BY <1>1 DEF Core
<1>2. CASE req[r].pc = "register_write" /\ rows = RowWritten(r)
  <2>1. req[r].sid \in SessionId /\ req[r].contact \in Contact
    BY <1>2 DEF Core, Requests, LocalsOK
  <2>2. QED
    BY <1>2, <2>1 DEF Core, RowWritten
<1>3. CASE rows = RowDeleted(r)
  BY <1>3 DEF Core, RowDeleted
<1>4. QED
  BY <1>1, <1>2, <1>3 DEF Leaves

LEMMA CoreEstablish ==
    ASSUME Core, NEW r \in Request,
           \/ \E s \in SessionId : Create(r, s)
           \/ RegisterSelect(r) \/ RegisterWrite(r) \/ RegisterRaises(r) \/ Compensate(r)
    PROVE  Core'
<1>1. ASSUME NEW s \in SessionId, Create(r, s)
      PROVE  Core'
  <2>1. issued' \in SUBSET SessionId
    BY <1>1 DEF Create, Core
  <2>2. CASE states[s] # None
    BY <1>1, <2>1, <2>2, CoreAnswer DEF Core, Create, Answers
  <2>3. CASE states[s] = None
    <3>1. [contact |-> req[r].contact, token |-> req[r].token, age |-> 0] \in StoredSession
      BY <1>1 DEF Core, Requests, LocalsOK, Create, StoredSession, Age
    <3>2. Requests'
      <4>1. req' = [req EXCEPT ![r] = [pc |-> "register", answer |-> req[r].answer, sid |-> s,
                                      contact |-> req[r].contact, token |-> req[r].token]]
        BY <1>1, <2>3 DEF Create, Core, Requests
      <4>2. "register" \in Points
        BY DEF Points
      <4>3. QED
        BY <1>1, <4>1, <4>2 DEF Core, Create, Requests, LocalsOK
    <3>3. QED
      BY <1>1, <2>1, <2>3, <3>1, <3>2 DEF Core, Create
  <2>4. QED
    BY <2>2, <2>3
<1>2. CASE RegisterSelect(r)
  BY <1>2, CoreGoto DEF Core, RegisterSelect, Points
<1>3. CASE RegisterWrite(r)
  <2>1. req[r].sid \in SessionId /\ req[r].contact \in Contact
    BY <1>3 DEF Core, Requests, LocalsOK, RegisterWrite
  <2>2. RowWritten(r) \in [SessionId -> Contact \cup {None}]
    BY <2>1 DEF Core, RowWritten
  <2>3. QED
    BY <1>3, <2>1, <2>2, CoreAnswer DEF Core, RegisterWrite, Answers
<1>4. CASE RegisterRaises(r)
  <2>1. registry' \in [SessionId -> Contact \cup {None}]
    BY <1>4, LeavesTyped DEF RegisterRaises
  <2>2. Requests'
    BY <1>4, CoreGoto DEF RegisterRaises, Registering, Points
  <2>3. QED
    BY <1>4, <2>1, <2>2 DEF Core, RegisterRaises
<1>5. CASE Compensate(r)
  BY <1>5, CoreAnswer DEF Core, Compensate, StateRevoked, Answers
<1>6. QED
  BY <1>1, <1>2, <1>3, <1>4, <1>5

LEMMA CoreResolve ==
    ASSUME Core, NEW r \in Request,
           LoadSubject(r) \/ Check(r) \/ TouchSelect(r) \/ TouchWrite(r)
    PROVE  Core'
<1>1. CASE LoadSubject(r)
  BY <1>1, CoreGoto, CoreRevokeWith DEF Core, LoadSubject, Points, Answers, Rejections
<1>2. CASE Check(r) \/ TouchSelect(r)
  BY <1>2, CoreGoto, CoreRevokeWith
     DEF Core, Check, TouchSelect, CheckRow, Points, Answers, Rejections
<1>3. CASE TouchWrite(r)
  BY <1>3, CoreAnswer DEF Core, TouchWrite, Answers
<1>4. QED
  BY <1>1, <1>2, <1>3

LEMMA CoreRevoke ==
    ASSUME Core, NEW r \in Request,
           RevokeState(r) \/ RevokeRegistry(r) \/ RevokeDelete(r) \/ Abort(r)
    PROVE  Core'
<1>1. CASE RevokeState(r)
  BY <1>1, CoreAnswer, CoreGoto
     DEF Core, RevokeState, StateRevoked, Points, Answers, Rejections
<1>2. CASE RevokeRegistry(r) \/ RevokeDelete(r)
  <2>1. req[r].answer \in Answers
    BY DEF Core, Requests
  <2>2. QED
    BY <1>2, <2>1, CoreAnswer, CoreGoto
       DEF Core, RevokeRegistry, RevokeDelete, RowDeleted, Points
<1>3. CASE Abort(r)
  <2>1. registry' \in [SessionId -> Contact \cup {None}]
    BY <1>3, LeavesTyped DEF Abort
  <2>2. abandoned' \in SUBSET SessionId
    BY <1>3 DEF Core, Requests, LocalsOK, Abort, Registering
  <2>3. QED
    BY <1>3, <2>1, <2>2, CoreAnswer DEF Core, Abort, Answers
<1>4. QED
  BY <1>1, <1>2, <1>3

LEMMA CoreEnvironment ==
    ASSUME Core, Environment
    PROVE  Core'
<1>1. CASE Tick
  BY <1>1 DEF Core, Tick, Requests, LocalsOK, StoredSession, Age, Expired, Aged
<1>2. ASSUME NEW c \in Contact, NEW v \in Version, ChangeCredentials(c, v)
      PROVE  Core'
  BY <1>2 DEF Core, ChangeCredentials, Requests, LocalsOK
<1>3. ASSUME NEW c \in Contact, NEW st \in {"user", "disabled", "missing"},
             ChangeStatus(c, st)
      PROVE  Core'
  BY <1>3 DEF Core, ChangeStatus, Requests, LocalsOK
<1>4. ASSUME NEW s \in SessionId, ForeignRevoke(s)
      PROVE  Core'
  BY <1>4 DEF Core, ForeignRevoke, Requests, LocalsOK
<1>5. CASE Restart
  BY <1>5 DEF Core, Restart, Requests, LocalsOK, Idle, Done, Points, Answers
<1>6. QED
  BY <1>1, <1>2, <1>3, <1>4, <1>5 DEF Environment

LEMMA TypeNext ==
    ASSUME TInv, [Next]_vars
    PROVE  TInv'
<1>1. Core
  BY DEF TInv, TypeOK, Core, Requests
<1>2. CASE Next
  <2>1. Core'
    BY <1>1, <1>2, CoreArrive, CoreEstablish, CoreResolve, CoreRevoke, CoreEnvironment
       DEF Next, Continue
  <2>2. evidence' \in [Request -> SUBSET {"session", "subject"}]
    BY <1>2, TypeObserve DEF Next, TInv
  <2>3. /\ held' \in [Request -> {"none", "own", "other", "gone"}]
        /\ overwritten' \in SUBSET SessionId
    BY <1>2, TypeTrack DEF Next, TInv
  <2>4. QED
    BY <2>1, <2>2, <2>3 DEF Core, Requests, TInv, TypeOK
<1>3. CASE UNCHANGED vars
  BY <1>3 DEF vars, TInv, TypeOK, LocalsOK
<1>4. QED
  BY <1>2, <1>3

(* The typing of the stores, the requests and the history is an invariant: *)
(* every session state and registry row carries a contact and a token, and *)
(* no request uses a local its code has not set.                           *)
THEOREM TypeCorrect == Spec => []TypeOK
<1>1. Spec => []TInv
  BY TypeInit, TypeNext, PTL DEF Spec
<1>2. TInv => TypeOK
  BY DEF TInv
<1>3. QED
  BY <1>1, <1>2, PTL

-----------------------------------------------------------------------------
(* AcceptedOnEvidence, when session ids are fresh.                         *)

(* The life of a session id: returned by the factory, held by at most one  *)
(* registration, given to a client only when that is over.                 *)
IdsOK ==
    /\ delivered \subseteq issued
    /\ \A s \in SessionId : states[s] # None => s \in issued
    /\ \A r \in Request : req[r].pc \in Registering => req[r].sid \in issued \ delivered
    /\ \A r, q \in Request :
          req[r].pc \in Registering /\ req[q].pc \in Registering /\ req[r].sid = req[q].sid
             => r = q

(* A resolution is about a session some client holds.  Unless the session  *)
(* has been seen in both stores, the registry has no row for its key, so   *)
(* the check that lies ahead fails; past the subject check the subject has *)
(* been seen, and past the select of the touch the session has been.       *)
Witnessed ==
    \A r \in Request :
        /\ req[r].pc \in Resolving =>
              /\ req[r].sid \in delivered
              /\ "session" \in evidence[r] \/ ~RowActive(req[r].contact, req[r].sid)
        /\ req[r].pc \in {"check", "touch", "touch_write"} => "subject" \in evidence[r]
        /\ req[r].pc = "touch_write" => "session" \in evidence[r]

IInv == TInv /\ IdsOK /\ Witnessed /\ AcceptedOnEvidence

(* A step is one request's, or leaves every request alone or resets it. *)
LEMMA RequestStep ==
    ASSUME TInv, Next, NEW r \in Request
    PROVE  \/ req'[r] = req[r]
           \/ Arrive(r) \/ Continue(r) \/ Abort(r)
           \/ req'[r] = Idle
<1> USE DEF TInv, TypeOK
<1>1. CASE Environment
  BY <1>1 DEF Environment, Tick, ChangeCredentials, ChangeStatus, ForeignRevoke, Restart
<1>2. ASSUME NEW q \in Request, Arrive(q) \/ Continue(q) \/ Abort(q), q # r
      PROVE  req'[r] = req[r]
  <2>1. CASE Arrive(q)
    BY <1>2, <2>1 DEF Arrive, Login, Restore, Resolve, Logout, OpenState
  <2>2. CASE Continue(q)
    BY <1>2, <2>2 DEF Continue, Create, RegisterSelect, RegisterWrite, RegisterRaises, Compensate, LoadSubject,
                      Check, TouchSelect, CheckRow, TouchWrite, RevokeState, RevokeRegistry, RevokeDelete,
                      Answer, Goto, RevokeWith
  <2>3. CASE Abort(q)
    BY <1>2, <2>3 DEF Abort, Answer
  <2>4. QED
    BY <1>2, <2>1, <2>2, <2>3
<1>3. QED
  BY <1>1, <1>2 DEF Next

(* How a request comes to be resolving, and how it moves on. *)
LEMMA ResolvingStep ==
    ASSUME TInv, Next, NEW r \in Request, req'[r].pc \in Resolving
    PROVE  \/ req'[r] = req[r]
           \/ \E s \in SessionId : /\ Resolve(r, s)
                                   /\ states[s] # None
                                  /\ ~Expired(s)
           \/ /\ req[r].pc = "load"
              /\ req' = [req EXCEPT ![r].pc = "check"]
              /\ IsUser(req[r].contact)
              /\ CredentialToken(req[r].contact) = req[r].token
              /\ UNCHANGED contacts
           \/ /\ req[r].pc = "check"
              /\ req' = [req EXCEPT ![r].pc = "touch"]
           \/ /\ req[r].pc = "touch"
              /\ req' = [req EXCEPT ![r].pc = "touch_write"]
              /\ RowActive(req[r].contact, req[r].sid)
<1> USE DEF TInv, TypeOK, Resolving
<1>1. CASE Arrive(r)
  BY <1>1 DEF Arrive, Login, Restore, Resolve, Logout, OpenState, Done
<1>2. CASE Continue(r)
  BY <1>2 DEF Continue, Create, RegisterSelect, RegisterWrite, RegisterRaises, Compensate, LoadSubject,
              Check, TouchSelect, CheckRow, TouchWrite, RevokeState, RevokeRegistry, RevokeDelete,
              Answer, Goto, RevokeWith, Done
<1>3. CASE Abort(r)
  BY <1>3 DEF Abort, Answer, Done
<1>4. QED
  BY <1>1, <1>2, <1>3, RequestStep DEF Idle, Done

(* Only the update of the touch answers with the session resolved. *)
LEMMA AcceptingStep ==
    ASSUME TInv, Next, NEW r \in Request,
           req'[r].pc = "idle", req'[r].answer = "RESOLVED"
    PROVE  req'[r] = req[r] \/ req[r].pc = "touch_write"
<1> USE DEF TInv, TypeOK, LocalsOK
<1>1. CASE Arrive(r)
  BY <1>1 DEF Arrive, Login, Restore, Resolve, Logout, OpenState, Done
<1>2. CASE Continue(r)
  BY <1>2 DEF Continue, Create, RegisterSelect, RegisterWrite, RegisterRaises, Compensate, LoadSubject,
              Check, TouchSelect, CheckRow, TouchWrite, RevokeState, RevokeRegistry, RevokeDelete,
              Answer, Goto, RevokeWith, Done
<1>3. CASE Abort(r)
  BY <1>3 DEF Abort, Answer, Done
<1>4. QED
  BY <1>1, <1>2, <1>3, RequestStep DEF Idle, Done

(* The row of a session that was given to a client can only go away. *)
LEMMA LeavesFade ==
    ASSUME TInv, IdsOK, NEW s \in delivered, NEW r \in Request, NEW rows \in Leaves(r)
    PROVE  rows[s] \in {registry[s], None}
<1> USE DEF TInv, TypeOK
<1>1. req[r].pc = "register_write" => s # req[r].sid
  BY DEF IdsOK, Registering
<1>2. QED
  BY <1>1 DEF Leaves, RowWritten, RowDeleted

LEMMA RowsFade ==
    ASSUME TInv, IdsOK, Next, NEW s \in delivered
    PROVE  registry'[s] \in {registry[s], None}
<1> USE DEF TInv, TypeOK
<1>1. CASE Environment
  BY <1>1 DEF Environment, Tick, ChangeCredentials, ChangeStatus, ForeignRevoke, Restart
<1>2. ASSUME NEW r \in Request, Arrive(r)
      PROVE  registry' = registry
  BY <1>2 DEF Arrive, Login, Restore, Resolve, Logout
<1>3. ASSUME NEW r \in Request, Continue(r) \/ Abort(r)
      PROVE  registry'[s] \in {registry[s], None}
  <2>1. registry' \in Leaves(r)
    BY <1>3 DEF Continue, Create, RegisterSelect, RegisterWrite, RegisterRaises, Compensate,
                LoadSubject, Check, TouchSelect, CheckRow, TouchWrite, RevokeState,
                RevokeRegistry, RevokeDelete, Abort, Leaves
  <2>2. QED
    BY <2>1, LeavesFade
<1>4. QED
  BY <1>1, <1>2, <1>3 DEF Next

LEMMA WitnessedStep ==
    ASSUME TInv, IdsOK, Witnessed, Next, delivered \subseteq delivered'
    PROVE  Witnessed'
<1> SUFFICES ASSUME NEW r \in Request, req'[r].pc \in Resolving
             PROVE  /\ req'[r].sid \in delivered'
                    /\ "session" \in evidence'[r]
                          \/ ~RowActive(req[r].contact, req[r].sid)'
                    /\ req'[r].pc # "load" => "subject" \in evidence'[r]
                    /\ req'[r].pc = "touch_write" => "session" \in evidence'[r]
  BY DEF Witnessed, Resolving
<1>1. /\ Facts(r)' \subseteq evidence'[r]
      /\ req[r].pc \in Resolving => evidence[r] \subseteq evidence'[r]
  BY DEF Next, Observe
<1>2. ASSUME req[r].pc \in Resolving,
             req'[r].sid = req[r].sid, req'[r].contact = req[r].contact
      PROVE  /\ req'[r].sid \in delivered'
             /\ "session" \in evidence'[r] \/ ~RowActive(req[r].contact, req[r].sid)'
  <2>1. registry'[req[r].sid] \in {registry[req[r].sid], None}
    BY <1>2, RowsFade DEF Witnessed
  <2>2. req[r].contact # None
    BY <1>2 DEF TInv, LocalsOK, Resolving
  <2>3. QED
    BY <1>1, <1>2, <2>1, <2>2 DEF Witnessed, RowActive
<1>3. CASE req'[r] = req[r]
  BY <1>1, <1>2, <1>3 DEF Witnessed, Resolving
<1>4. ASSUME NEW s \in SessionId, Resolve(r, s), states[s] # None, ~Expired(s)
      PROVE  /\ req'[r].sid \in delivered'
             /\ "session" \in evidence'[r] \/ ~RowActive(req[r].contact, req[r].sid)'
             /\ req'[r].pc = "load"
  <2>1. /\ s \in delivered
        /\ states' = [states EXCEPT ![s] = Aged(states[s], 0)]
        /\ req' = [req EXCEPT ![r] = [pc |-> "load", answer |-> "NONE", sid |-> s,
                                      contact |-> states[s].contact,
                                      token |-> states[s].token]]
    BY <1>4 DEF Resolve, OpenState, Presentable, IdsOK
  <2>2. /\ req'[r].sid = s /\ req'[r].pc = "load"
        /\ req'[r].contact = states[s].contact
        /\ states'[s] = Aged(states[s], 0)
    BY <2>1 DEF TInv, TypeOK
  <2>3. states'[s] # None /\ states'[s].contact = states[s].contact /\ states'[s].age = 0
    <3>1. states[s] \in StoredSession
      BY <1>4 DEF TInv, TypeOK
    <3>2. Aged(states[s], 0) \in StoredSession
      BY <3>1 DEF Aged, StoredSession, Age
    <3>3. QED
      BY <2>2, <3>2 DEF Aged
  <2>4. RowActive(req[r].contact, req[r].sid)' => "session" \in Facts(r)'
    BY <2>2, <2>3 DEF Facts, Live, RowActive, Expired
  <2>5. QED
    BY <1>1, <2>1, <2>2, <2>4
<1>5. CASE /\ req[r].pc = "load"
           /\ req' = [req EXCEPT ![r].pc = "check"]
           /\ IsUser(req[r].contact)
           /\ CredentialToken(req[r].contact) = req[r].token
           /\ UNCHANGED contacts
  <2>1. /\ req'[r].sid = req[r].sid /\ req'[r].contact = req[r].contact
        /\ req'[r].token = req[r].token /\ req'[r].pc = "check"
    BY <1>5 DEF TInv, TypeOK
  <2>2. "subject" \in Facts(r)'
    BY <1>5, <2>1 DEF Facts, IsUser, CredentialToken
  <2>3. QED
    BY <1>1, <1>2, <1>5, <2>1, <2>2 DEF Resolving
<1>6. CASE req[r].pc = "check" /\ req' = [req EXCEPT ![r].pc = "touch"]
  <2>1. /\ req'[r].sid = req[r].sid /\ req'[r].contact = req[r].contact
        /\ req'[r].pc = "touch"
    BY <1>6 DEF TInv, TypeOK
  <2>2. QED
    BY <1>1, <1>2, <1>6, <2>1 DEF Resolving, Witnessed
<1>7. CASE /\ req[r].pc = "touch"
           /\ req' = [req EXCEPT ![r].pc = "touch_write"]
           /\ RowActive(req[r].contact, req[r].sid)
  <2>1. /\ req'[r].sid = req[r].sid /\ req'[r].contact = req[r].contact
        /\ req'[r].pc = "touch_write"
    BY <1>7 DEF TInv, TypeOK
  <2>2. QED
    BY <1>1, <1>2, <1>7, <2>1 DEF Resolving, Witnessed
<1>8. QED
  BY <1>3, <1>4, <1>5, <1>6, <1>7, ResolvingStep

LEMMA AcceptedStep ==
    ASSUME TInv, Witnessed, AcceptedOnEvidence, Next
    PROVE  AcceptedOnEvidence'
<1> SUFFICES ASSUME NEW r \in Request, req'[r].pc = "idle", req'[r].answer = "RESOLVED"
             PROVE  evidence'[r] = {"session", "subject"}
  BY DEF AcceptedOnEvidence
<1>1. evidence'[r] = evidence[r]
  BY DEF Next, Observe, Resolving
<1>2. CASE req'[r] = req[r]
  BY <1>1, <1>2 DEF AcceptedOnEvidence
<1>3. CASE req[r].pc = "touch_write"
  BY <1>1, <1>3 DEF Witnessed, TInv, TypeOK
<1>4. QED
  BY <1>2, <1>3, AcceptingStep

LEMMA IdsArrive ==
    ASSUME TInv, IdsOK, NEW q \in Request, Arrive(q)
    PROVE  IdsOK'
<1>1. /\ issued' = issued /\ delivered' = delivered
      /\ \A s \in SessionId : states'[s] # None => states[s] # None
  BY DEF Arrive, Login, Restore, Resolve, Logout, OpenState, TInv, TypeOK
<1>2. \A r \in Request : req'[r].pc \in Registering => req'[r] = req[r]
  BY DEF Arrive, Login, Restore, Resolve, Logout, OpenState, Done, TInv, TypeOK, Registering
<1>3. QED
  BY <1>1, <1>2 DEF IdsOK, TInv, TypeOK

LEMMA IdsContinue ==
    ASSUME ~IdsRepeat, TInv, IdsOK, NEW q \in Request, Continue(q)
    PROVE  IdsOK'
<1> USE DEF TInv, TypeOK
<1>1. ASSUME NEW s \in SessionId, Create(q, s)
      PROVE  IdsOK'
  <2>1. s \notin issued /\ states[s] = None /\ issued' = issued \cup {s}
        /\ delivered' = delivered
        /\ states' = [states EXCEPT ![s] = [contact |-> req[q].contact,
                                            token |-> req[q].token, age |-> 0]]
        /\ req' = [req EXCEPT ![q].pc = "register", ![q].sid = s]
    BY <1>1 DEF Create, IdsOK
  <2>2. \A r \in Request : r # q => req'[r] = req[r]
    BY <2>1
  <2>3. req'[q].sid = s
    BY <2>1
  <2>4. \A r \in Request : req[r].pc \in Registering => req[r].sid # s
    BY <2>1 DEF IdsOK
  <2>5. QED
    BY <2>1, <2>2, <2>3, <2>4 DEF IdsOK
<1>2. CASE RegisterWrite(q)
  <2>1. /\ issued' = issued /\ delivered' = delivered \cup {req[q].sid}
        /\ states' = states /\ req[q].pc \in Registering
    BY <1>2 DEF RegisterWrite, Registering
  <2>2. \A r \in Request : req'[r].pc \in Registering => r # q /\ req'[r] = req[r]
    BY <1>2 DEF RegisterWrite, Answer, Done, Registering
  <2>3. \A r \in Request : req'[r].pc \in Registering => req[r].sid # req[q].sid
    BY <2>1, <2>2 DEF IdsOK
  <2>4. QED
    BY <2>1, <2>2, <2>3 DEF IdsOK
<1>3. CASE \/ RegisterRaises(q) \/ Compensate(q) \/ LoadSubject(q) \/ Check(q)
           \/ TouchSelect(q) \/ TouchWrite(q) \/ RevokeState(q) \/ RevokeRegistry(q)
           \/ RevokeDelete(q)
  <2>1. /\ issued' = issued /\ delivered' = delivered
        /\ \A s \in SessionId : states'[s] # None => states[s] # None
    BY <1>3 DEF RegisterRaises, Compensate, LoadSubject, Check, TouchSelect, CheckRow,
                TouchWrite, RevokeState, RevokeRegistry, RevokeDelete, StateRevoked
  <2>2. \A r \in Request : req'[r].pc \in Registering => req'[r] = req[r]
    BY <1>3 DEF RegisterRaises, Compensate, LoadSubject, Check, TouchSelect, CheckRow,
                TouchWrite, RevokeState, RevokeRegistry, RevokeDelete, Answer, Goto,
                RevokeWith, Done, Registering
  <2>3. QED
    BY <2>1, <2>2 DEF IdsOK
<1>4. CASE RegisterSelect(q)
  <2>1. issued' = issued /\ delivered' = delivered /\ states' = states
    BY <1>4 DEF RegisterSelect
  <2>2. \A r \in Request : req'[r].pc \in Registering =>
            req[r].pc \in Registering /\ req'[r].sid = req[r].sid
    BY <1>4 DEF RegisterSelect, Goto, Registering
  <2>3. QED
    BY <2>1, <2>2 DEF IdsOK
<1>5. QED
  BY <1>1, <1>2, <1>3, <1>4 DEF Continue

LEMMA IdsOther ==
    ASSUME TInv, IdsOK, Environment \/ \E q \in Request : Abort(q)
    PROVE  IdsOK'
<1> USE DEF TInv, TypeOK
<1>1. /\ issued' = issued /\ delivered' = delivered
      /\ \A s \in SessionId : states'[s] # None => states[s] # None
  BY DEF Environment, Tick, ChangeCredentials, ChangeStatus, ForeignRevoke, Restart, Abort
<1>2. \A r \in Request : req'[r].pc \in Registering => req'[r] = req[r]
  BY DEF Environment, Tick, ChangeCredentials, ChangeStatus, ForeignRevoke, Restart, Abort,
         Answer, Idle, Done, Registering
<1>3. QED
  BY <1>1, <1>2 DEF IdsOK

LEMMA IInvInit == Init => IInv
<1>1. Init => TInv
  BY TypeInit
<1>2. Init => IdsOK /\ Witnessed /\ AcceptedOnEvidence
  BY DEF Init, IdsOK, Witnessed, AcceptedOnEvidence, Idle, Done, Resolving, Registering
<1>3. QED
  BY <1>1, <1>2 DEF IInv

LEMMA IInvNext ==
    ASSUME ~IdsRepeat, IInv, [Next]_vars
    PROVE  IInv'
<1>1. TInv'
  BY TypeNext DEF IInv
<1>2. CASE Next
  <2>1. IdsOK'
    BY <1>2, IdsArrive, IdsContinue, IdsOther, SMTT(30) DEF IInv, Next
  <2>2. delivered \subseteq delivered'
    BY <1>2 DEF Next, Environment, Tick, ChangeCredentials, ChangeStatus, ForeignRevoke,
                Restart, Abort, Arrive, Login, Restore, Resolve, Logout, Continue, Create,
                RegisterSelect, RegisterWrite, RegisterRaises, Compensate, LoadSubject, Check, TouchSelect,
                CheckRow, TouchWrite, RevokeState, RevokeRegistry, RevokeDelete
  <2>3. Witnessed' /\ AcceptedOnEvidence'
    BY <1>2, <2>2, WitnessedStep, AcceptedStep DEF IInv
  <2>4. QED
    BY <1>1, <2>1, <2>3 DEF IInv
<1>3. CASE UNCHANGED vars
  BY <1>1, <1>3 DEF vars, IInv, IdsOK, Witnessed, AcceptedOnEvidence, RowActive
<1>4. QED
  BY <1>2, <1>3

(* With fresh session ids, a session is accepted only on evidence: for any *)
(* number of concurrent requests and any lifetime, nothing that was over   *)
(* in either store, or for the subject, before the request began is ever   *)
(* accepted by it.                                                         *)
THEOREM OnlyOnEvidence ==
    ASSUME ~IdsRepeat
    PROVE  Spec => []AcceptedOnEvidence
<1>1. IInv /\ [Next]_vars => IInv'
  BY IInvNext
<1>2. IInv => AcceptedOnEvidence
  BY DEF IInv
<1>3. QED
  BY <1>1, <1>2, IInvInit, PTL DEF Spec

-----------------------------------------------------------------------------
(* UntouchedByOthers, whether session ids are fresh or not.                *)

(* The row a request holds as its own is there, and still is its own or    *)
(* has been written over since.                                            *)
HeldOK ==
    \A r \in Request :
        req[r].pc \in Writing /\ held[r] = "own" =>
            /\ registry[req[r].sid] # None
            /\ registry[req[r].sid] = req[r].contact \/ req[r].sid \in overwritten

(* A request comes to write by a select, and then waits for its turn.      *)
LEMMA WritingStep ==
    ASSUME TInv, Next, NEW r \in Request, req'[r].pc \in Writing
    PROVE  /\ req[r].pc \in Writing => req'[r] = req[r]
           /\ req[r].pc \notin Writing =>
                 /\ req'[r].sid = req[r].sid /\ req'[r].contact = req[r].contact
                 /\ req[r].sid \in SessionId /\ req[r].contact \in Contact
                 /\ registry' = registry
<1> USE DEF TInv, TypeOK, Writing
<1>1. CASE req'[r] = req[r]
  BY <1>1
<1>2. CASE Arrive(r)
  BY <1>2 DEF Arrive, Login, Restore, Resolve, Logout, OpenState, Done
<1>3. CASE Continue(r)
  <2>1. CASE RegisterSelect(r) \/ TouchSelect(r) \/ RevokeRegistry(r)
    BY <2>1 DEF RegisterSelect, TouchSelect, CheckRow, RevokeRegistry, Goto, Answer, Done,
                RevokeWith, LocalsOK
  <2>2. CASE ~(RegisterSelect(r) \/ TouchSelect(r) \/ RevokeRegistry(r))
    BY <1>3, <2>2 DEF Continue, Create, RegisterWrite, RegisterRaises, Compensate,
                      LoadSubject, Check, CheckRow, TouchWrite, RevokeState, RevokeDelete,
                      Answer, Goto, RevokeWith, Done
  <2>3. QED
    BY <2>1, <2>2
<1>4. CASE Abort(r)
  BY <1>4 DEF Abort, Answer, Done
<1>5. CASE req'[r] = Idle
  BY <1>5 DEF Idle, Done
<1>6. QED
  BY <1>1, <1>2, <1>3, <1>4, <1>5, RequestStep

LEMMA HeldStep ==
    ASSUME TInv, HeldOK, Next
    PROVE  HeldOK'
<1> USE DEF TInv, TypeOK
<1> SUFFICES ASSUME NEW r \in Request, req'[r].pc \in Writing, held'[r] = "own"
             PROVE  /\ registry'[req'[r].sid] # None
                    /\ \/ registry'[req'[r].sid] = req'[r].contact
                       \/ req'[r].sid \in overwritten'
  BY DEF HeldOK
<1>1. CASE req[r].pc \notin Writing
  <2>1. Selected(r) = "own"
    BY <1>1 DEF Next, Track
  <2>2. registry[req[r].sid] # None /\ registry[req[r].sid] = req[r].contact
    BY <2>1 DEF Selected, RowActive
  <2>3. QED
    BY <1>1, <2>2, WritingStep
<1>2. CASE req[r].pc \in Writing
  <2>1. req'[r] = req[r] /\ req[r].sid \in SessionId /\ req[r].contact \in Contact
    BY <1>2, WritingStep DEF LocalsOK, Writing
  <2>2. held[r] = "own" /\ registry'[req[r].sid] # None
    BY <1>2 DEF Next, Track
  <2>3. /\ registry[req[r].sid] # None
        /\ registry[req[r].sid] = req[r].contact \/ req[r].sid \in overwritten
    BY <1>2, <2>2 DEF HeldOK
  <2>4. registry'[req[r].sid] # registry[req[r].sid] => req[r].sid \in overwritten'
    BY <2>1, <2>2, <2>3 DEF Next, Track
  <2>5. req[r].sid \in overwritten => req[r].sid \in overwritten'
    BY <2>1, <2>2 DEF Next, Track
  <2>6. QED
    BY <2>1, <2>2, <2>3, <2>4, <2>5
<1>3. QED
  BY <1>1, <1>2

(* A state is opened by whoever has its id, and revoked by its key.        *)
LEMMA StatesSpared ==
    ASSUME TInv, NEW r \in Request, Arrive(r) \/ Continue(r) \/ Abort(r),
           NEW s \in SessionId, states[s] # None, ~Expired(s),
           states[s].contact # req[r].contact
    PROVE  /\ states'[s] # None /\ ~Expired(s)'
           /\ states'[s].contact = states[s].contact
<1> USE DEF TInv, TypeOK
<1>1. states[s] \in StoredSession
  OBVIOUS
<1>2. CASE Arrive(r)
  <2>1. Aged(states[s], 0) \in StoredSession
    BY <1>1 DEF Aged, StoredSession, Age
  <2>2. states'[s] = states[s] \/ states'[s] = Aged(states[s], 0)
    BY <1>2 DEF Arrive, Login, Restore, Resolve, Logout, OpenState
  <2>3. QED
    BY <2>1, <2>2 DEF Expired, Aged
<1>3. CASE Continue(r) \/ Abort(r)
  <2>1. states'[s] = states[s]
    BY <1>3 DEF Continue, Create, RegisterSelect, RegisterWrite, RegisterRaises, Compensate,
                LoadSubject, Check, TouchSelect, CheckRow, TouchWrite, RevokeState,
                RevokeRegistry, RevokeDelete, Abort, StateRevoked
  <2>2. QED
    BY <2>1 DEF Expired
<1>4. QED
  BY <1>2, <1>3

(* What a registration or a revocation may leave in the table: the rows of *)
(* others are as they were, unless they are rows written over.             *)
LEMMA RowsSpared ==
    ASSUME TInv, HeldOK, Next, NEW r \in Request, registry' \in Leaves(r),
           NEW s \in SessionId, registry[s] # None, registry[s] # req[r].contact
    PROVE  registry'[s] = registry[s] \/ s \in overwritten \cup overwritten'
<1> USE DEF TInv, TypeOK
<1>1. CASE req[r].pc = "register_write" /\ Writable(r) /\ registry' = RowWritten(r)
  <2>1. req[r].sid \in SessionId /\ req[r].contact \in Contact
    BY <1>1 DEF LocalsOK
  <2>2. CASE s # req[r].sid \/ held[r] = "own"
    BY <1>1, <2>2 DEF RowWritten
  <2>3. CASE s = req[r].sid /\ held[r] # "own"
    <3>1. registry'[s] = req[r].contact
      BY <1>1, <2>1, <2>3 DEF RowWritten
    <3>2. s \in overwritten'
      BY <2>1, <3>1 DEF Next, Track
    <3>3. QED
      BY <3>2
  <2>4. QED
    BY <2>2, <2>3
<1>2. CASE req[r].pc = "revoke_delete" /\ registry' = RowDeleted(r)
  <2>1. CASE s = req[r].sid /\ held[r] = "own"
    BY <1>2, <2>1 DEF HeldOK, Writing
  <2>2. CASE s # req[r].sid \/ held[r] # "own"
    BY <1>2, <2>2 DEF RowDeleted
  <2>3. QED
    BY <2>1, <2>2
<1>3. QED
  BY <1>1, <1>2 DEF Leaves

LEMMA UntouchedStep ==
    ASSUME TInv, HeldOK, Next, NEW r \in Request, NEW s \in SessionId,
           req'[r] \notin {req[r], Idle}, Live(s), states[s].contact # req[r].contact
    PROVE  Live(s)' \/ s \in overwritten \cup overwritten'
<1>1. Arrive(r) \/ Continue(r) \/ Abort(r)
  BY RequestStep
<1>2. /\ states[s] # None /\ ~Expired(s) /\ registry[s] = states[s].contact
      /\ registry[s] # None
  BY DEF Live, RowActive, TInv, TypeOK, StoredSession
<1>3. /\ states'[s] # None /\ ~Expired(s)'
      /\ states'[s].contact = states[s].contact
  BY <1>1, <1>2, StatesSpared
<1>4. registry' \in Leaves(r)
  BY <1>1 DEF Arrive, Login, Restore, Resolve, Logout, Continue, Create, RegisterSelect,
              RegisterWrite, RegisterRaises, Compensate, LoadSubject, Check, TouchSelect,
              CheckRow, TouchWrite, RevokeState, RevokeRegistry, RevokeDelete, Abort, Leaves
<1>5. registry'[s] = registry[s] \/ s \in overwritten \cup overwritten'
  BY <1>2, <1>4, RowsSpared
<1>6. QED
  BY <1>2, <1>3, <1>5 DEF Live, RowActive

(* Whatever ids the factory gives out, again or not: a compensation, a     *)
(* logout and a rejected resolution, each with a select and a delete or a  *)
(* write that others may come between, end a session of another contact    *)
(* only under an id whose row a registration has taken over.               *)
THEOREM OthersUntouched == Spec => UntouchedByOthers
<1>1. TInv /\ HeldOK /\ [Next]_vars =>
        [\A r \in Request, s \in SessionId :
            /\ req'[r] \notin {req[r], Idle}
            /\ Live(s)
            /\ states[s].contact # req[r].contact
            => Live(s)' \/ s \in overwritten \cup overwritten']_vars
  BY UntouchedStep
<1>2. Init => TInv /\ HeldOK
  BY TypeInit DEF Init, HeldOK, Idle, Done, Writing
<1>3. TInv /\ HeldOK /\ [Next]_vars => (TInv /\ HeldOK)'
  <2>1. ASSUME TInv, HeldOK, Next
        PROVE  HeldOK'
    BY <2>1, HeldStep
  <2>2. ASSUME HeldOK, UNCHANGED vars
        PROVE  HeldOK'
    BY <2>2 DEF vars, HeldOK
  <2>3. QED
    BY <2>1, <2>2, TypeNext
<1>4. QED
  BY <1>1, <1>2, <1>3, PTL DEF Spec, UntouchedByOthers

-----------------------------------------------------------------------------
(* NoSecretSession, whether session ids are fresh or not.                  *)

(* A state no client knows of is in the hands of a request that registers  *)
(* it or takes it back, and that request will find it by its key.          *)
Tends(r, s) ==
    /\ req[r].pc \in Registering \cup {"compensate"}
    /\ req[r].sid = s
    /\ req[r].contact = states[s].contact

Tended ==
    \A s \in SessionId \ (delivered \cup abandoned) :
        states[s] # None => \E r \in Request : Tends(r, s)

(* A request that goes on tending, while the state stays that contact's.   *)
LEMMA TendedOn ==
    ASSUME Tended, NEW s \in SessionId \ (delivered \cup abandoned), states[s] # None,
           states'[s].contact = states[s].contact,
           \A r \in Request : Tends(r, s) => req'[r] = req[r]
    PROVE  \E r \in Request : Tends(r, s)'
<1>1. PICK r \in Request : Tends(r, s)
  BY DEF Tended
<1>2. QED
  BY <1>1 DEF Tends

LEMMA TendedArrive ==
    ASSUME TInv, Tended, NEW q \in Request, Arrive(q)
    PROVE  Tended'
<1> USE DEF TInv, TypeOK
<1> SUFFICES ASSUME NEW s \in SessionId \ (delivered \cup abandoned), states'[s] # None
             PROVE  \E r \in Request : Tends(r, s)'
  BY DEF Tended, Arrive, Login, Restore, Resolve, Logout
<1>1. states[s] # None /\ states'[s].contact = states[s].contact
  BY DEF Arrive, Login, Restore, Resolve, Logout, OpenState, Aged
<1>2. \A r \in Request : Tends(r, s) => req'[r] = req[r]
  BY DEF Arrive, Login, Restore, Resolve, Logout, OpenState, Tends, Registering
<1>3. QED
  BY <1>1, <1>2, TendedOn

LEMMA TendedContinue ==
    ASSUME TInv, Tended, NEW q \in Request, Continue(q)
    PROVE  Tended'
<1> USE DEF TInv, TypeOK
<1> SUFFICES ASSUME NEW s \in SessionId \ (delivered' \cup abandoned'), states'[s] # None
             PROVE  \E r \in Request : Tends(r, s)'
  BY DEF Tended
<1>1. s \notin delivered \cup abandoned
  BY DEF Continue, Create, RegisterSelect, RegisterWrite, RegisterRaises, Compensate, LoadSubject,
         Check, TouchSelect, CheckRow, TouchWrite, RevokeState, RevokeRegistry, RevokeDelete
<1>2. ASSUME NEW x \in SessionId, Create(q, x)
      PROVE  \E r \in Request : Tends(r, s)'
  <2>1. CASE states[x] # None \/ x # s
    <3>1. states'[s] = states[s] /\ \A r \in Request : Tends(r, s) => req'[r] = req[r]
      BY <1>2, <2>1 DEF Create, Tends, Answer, Registering
    <3>2. QED
      BY <1>1, <3>1, TendedOn
  <2>2. CASE states[x] = None /\ x = s
    BY <1>2, <2>2 DEF Create, Tends, Registering
  <2>3. QED
    BY <2>1, <2>2
<1>3. CASE RegisterWrite(q)
  <2>1. req[q].sid # s /\ states' = states
    BY <1>3 DEF RegisterWrite
  <2>2. \A r \in Request : Tends(r, s) => req'[r] = req[r]
    BY <1>3, <2>1 DEF RegisterWrite, Answer, Tends
  <2>3. QED
    BY <1>1, <2>1, <2>2, TendedOn
<1>4. CASE RegisterSelect(q) \/ RegisterRaises(q)
  <2>1. PICK r \in Request : Tends(r, s)
    BY <1>1, <1>4 DEF RegisterSelect, RegisterRaises, Tended
  <2>2. \E p \in Points : req' = [req EXCEPT ![q].pc = p]
                         /\ p \in Registering \cup {"compensate"}
    BY <1>4 DEF RegisterSelect, RegisterRaises, Goto, Registering, Points
  <2>3. states' = states
    BY <1>4 DEF RegisterSelect, RegisterRaises
  <2>4. Tends(r, s)'
    BY <2>1, <2>2, <2>3 DEF Tends
  <2>5. QED
    BY <2>4
<1>5. CASE Compensate(q)
  <2>1. states' = StateRevoked(req[q].contact, req[q].sid)
    BY <1>5 DEF Compensate
  <2>2. states[s] # None /\ states'[s] = states[s] /\ ~Tends(q, s)
    BY <2>1 DEF StateRevoked, Tends
  <2>3. \A r \in Request : Tends(r, s) => req'[r] = req[r]
    BY <1>5, <2>2 DEF Compensate, Answer
  <2>4. QED
    BY <1>1, <2>2, <2>3, TendedOn
<1>6. CASE LoadSubject(q) \/ Check(q) \/ TouchSelect(q) \/ TouchWrite(q)
           \/ RevokeState(q) \/ RevokeRegistry(q) \/ RevokeDelete(q)
  <2>1. states[s] # None /\ states'[s] = states[s]
    BY <1>6 DEF LoadSubject, Check, TouchSelect, CheckRow, TouchWrite, RevokeState,
                RevokeRegistry, RevokeDelete, StateRevoked
  <2>2. \A r \in Request : Tends(r, s) => req'[r] = req[r]
    BY <1>6 DEF LoadSubject, Check, TouchSelect, CheckRow, TouchWrite, RevokeState,
                RevokeRegistry, RevokeDelete, Answer, Goto, RevokeWith, Tends, Registering
  <2>3. QED
    BY <1>1, <2>1, <2>2, TendedOn
<1>7. QED
  BY <1>2, <1>3, <1>4, <1>5, <1>6 DEF Continue

LEMMA TendedOther ==
    ASSUME TInv, Tended, Environment \/ \E q \in Request : Abort(q)
    PROVE  Tended'
<1> USE DEF TInv, TypeOK
<1> SUFFICES ASSUME NEW s \in SessionId \ (delivered' \cup abandoned'), states'[s] # None
             PROVE  \E r \in Request : Tends(r, s)'
  BY DEF Tended
<1>1. /\ s \notin delivered \cup abandoned
      /\ states[s] # None /\ states'[s].contact = states[s].contact
  BY DEF Environment, Tick, ChangeCredentials, ChangeStatus, ForeignRevoke, Restart, Abort,
         Aged
<1>2. \A r \in Request : Tends(r, s) => req'[r] = req[r]
  BY DEF Environment, Tick, ChangeCredentials, ChangeStatus, ForeignRevoke, Restart, Abort,
         Answer, Tends, Registering
<1>3. QED
  BY <1>1, <1>2, TendedOn

(* A session whose registration failed is taken back: unless the           *)
(* establishment was cancelled, no state stays behind that no client knows *)
(* of, for any number of requests and even if the factory repeats ids.     *)
THEOREM NothingSecret == Spec => []NoSecretSession
<1>1. Init => TInv /\ Tended
  BY TypeInit DEF Init, Tended
<1>2. TInv /\ Tended /\ [Next]_vars => (TInv /\ Tended)'
  <2> SUFFICES ASSUME TInv, Tended, [Next]_vars
               PROVE  Tended'
    BY TypeNext
  <2>1. CASE Next
    BY <2>1, TendedArrive, TendedContinue, TendedOther DEF Next
  <2>2. CASE UNCHANGED vars
    BY <2>2 DEF vars, Tended, Tends
  <2>3. QED
    BY <2>1, <2>2
<1>3. TInv /\ Tended => NoSecretSession
  BY DEF TInv, TypeOK, Tended, Tends, NoSecretSession
<1>4. QED
  BY <1>1, <1>2, <1>3, PTL DEF Spec

-----------------------------------------------------------------------------
(* RevokedForGood, when session ids are fresh.                             *)

(* A session id belongs to one contact: the state, the row and all the     *)
(* requests that have it agree on whose session it is.                     *)
Keyed(s, c) ==
    /\ states[s] # None => states[s].contact = c
    /\ registry[s] # None => registry[s] = c
    /\ \A r \in Request :
          req[r].pc \notin {"idle", "create"} /\ req[r].sid = s => req[r].contact = c

OneOwner ==
    \A s \in SessionId :
        /\ s \notin issued =>
              /\ states[s] = None /\ registry[s] = None
              /\ \A r \in Request : req[r].pc \notin {"idle", "create"} => req[r].sid # s
        /\ s \in issued => \E c \in Contact : Keyed(s, c)

Revocations == {"LOGGED_OUT", "SUBJECT_DISABLED", "SUBJECT_UNAVAILABLE",
                "CREDENTIALS_CHANGED", "REVOKED"}

(* Where a revocation has got to: the state first, then the row; a session *)
(* whose row was missing is done with its state.  What is revoked was in a *)
(* client's hands, so that no registration is under way for its id.        *)
RevocationOK(r) ==
    /\ req[r].pc \in Resolving \cup {"revoke_state", "revoke_registry", "revoke_delete"} =>
          req[r].sid \in delivered
    /\ req[r].pc = "revoke_state" /\ req[r].answer = "REVOKED" =>
          registry[req[r].sid] = None
    /\ req[r].pc \in {"revoke_registry", "revoke_delete"} => states[req[r].sid] = None
    /\ req[r].pc = "revoke_delete" =>
          held[r] = "own" \/ (held[r] = "gone" /\ registry[req[r].sid] = None)
    /\ req[r].pc = "idle" /\ req[r].answer \in Revocations =>
          /\ req[r].sid \in delivered
          /\ states[req[r].sid] = None
          /\ registry[req[r].sid] = None

Revoking == \A r \in Request : RevocationOK(r)

RInv == TInv /\ IdsOK /\ OneOwner /\ Revoking

(* A request that has a session id, and one that comes to have it. *)
HasId(r, s) == req[r].pc \notin {"idle", "create"} /\ req[r].sid = s

(* Unless it creates a session under that id, a step brings no new owner.  *)
LEMMA OwnersFade ==
    ASSUME TInv, Next, NEW s \in SessionId,
           \A q \in Request : ~Create(q, s)
    PROVE  /\ states'[s] # None =>
                 states[s] # None /\ states'[s].contact = states[s].contact
           /\ registry'[s] # None =>
                 \/ registry'[s] = registry[s]
                 \/ \E q \in Request : HasId(q, s) /\ registry'[s] = req[q].contact
           /\ \A r \in Request : HasId(r, s)' =>
                 \/ HasId(r, s) /\ req'[r].contact = req[r].contact
                 \/ states[s] # None /\ req'[r].contact = states[s].contact
<1> USE DEF TInv, TypeOK
<1>1. states'[s] # None => states[s] # None /\ states'[s].contact = states[s].contact
  <2>1. CASE Environment
    BY <2>1 DEF Environment, Tick, ChangeCredentials, ChangeStatus, ForeignRevoke, Restart, Aged
  <2>2. ASSUME NEW q \in Request, Arrive(q)
        PROVE  <1>1
    BY <2>2 DEF Arrive, Login, Restore, Resolve, Logout, OpenState, Aged
  <2>3. ASSUME NEW q \in Request, Continue(q)
        PROVE  <1>1
    BY <2>3, ZenonT(60) DEF Continue, Create, RegisterSelect, RegisterWrite, RegisterRaises, Compensate, LoadSubject, Check,
                TouchSelect, CheckRow, TouchWrite, RevokeState, RevokeRegistry, RevokeDelete, StateRevoked
  <2>4. ASSUME NEW q \in Request, Abort(q)
        PROVE  <1>1
    BY <2>4 DEF Abort
  <2>5. QED
    BY <2>1, <2>2, <2>3, <2>4 DEF Next
<1>2. registry'[s] # None =>
        \/ registry'[s] = registry[s]
        \/ \E q \in Request : HasId(q, s) /\ registry'[s] = req[q].contact
  <2>1. CASE Environment
    BY <2>1 DEF Environment, Tick, ChangeCredentials, ChangeStatus, ForeignRevoke, Restart
  <2>2. ASSUME NEW q \in Request, Arrive(q)
        PROVE  <1>2
    BY <2>2 DEF Arrive, Login, Restore, Resolve, Logout
  <2>3. ASSUME NEW q \in Request, Continue(q)
        PROVE  <1>2
    BY <2>3 DEF Continue, Create, RegisterSelect, RegisterWrite, RegisterRaises, Compensate, LoadSubject, Check,
                TouchSelect, CheckRow, TouchWrite, RevokeState, RevokeRegistry, RevokeDelete,
                Leaves, RowWritten, RowDeleted, HasId
  <2>4. ASSUME NEW q \in Request, Abort(q)
        PROVE  <1>2
    BY <2>4 DEF Abort, Leaves, RowWritten, RowDeleted, HasId
  <2>5. QED
    BY <2>1, <2>2, <2>3, <2>4 DEF Next
<1>3. ASSUME NEW r \in Request, HasId(r, s)'
      PROVE  \/ HasId(r, s) /\ req'[r].contact = req[r].contact
             \/ states[s] # None /\ req'[r].contact = states[s].contact
  <2>1. CASE req'[r] = req[r]
    BY <1>3, <2>1 DEF HasId
  <2>2. CASE Arrive(r)
    BY <1>3, <2>2 DEF Arrive, Login, Restore, Resolve, Logout, OpenState, HasId, Done
  <2>3. CASE Continue(r)
    <3>1. CASE \E x \in SessionId : Create(r, x)
      BY <1>3, <3>1 DEF Create, Answer, Done, HasId
    <3>2. CASE RegisterSelect(r) \/ RegisterWrite(r) \/ RegisterRaises(r) \/ Compensate(r)
      BY <1>3, <3>2 DEF RegisterSelect, RegisterWrite, RegisterRaises, Compensate, Registering,
                        Answer, Goto, Done, HasId
    <3>3. CASE LoadSubject(r) \/ Check(r) \/ TouchSelect(r) \/ TouchWrite(r)
      BY <1>3, <3>3 DEF LoadSubject, Check, TouchSelect, CheckRow, TouchWrite, Answer, Goto,
                        RevokeWith, Done, HasId
    <3>4. CASE RevokeState(r) \/ RevokeRegistry(r) \/ RevokeDelete(r)
      BY <1>3, <3>4 DEF RevokeState, RevokeRegistry, RevokeDelete, Answer, Goto, Done, HasId
    <3>5. QED
      BY <2>3, <3>1, <3>2, <3>3, <3>4 DEF Continue
  <2>4. CASE Abort(r)
    BY <1>3, <2>4 DEF Abort, Answer, Done, HasId
  <2>5. QED
    BY <1>3, <2>1, <2>2, <2>3, <2>4, RequestStep DEF Idle, Done, HasId
<1>4. QED
  BY <1>1, <1>2, <1>3

LEMMA OwnerStep ==
    ASSUME ~IdsRepeat, TInv, OneOwner, Next
    PROVE  OneOwner'
<1> SUFFICES ASSUME NEW s \in SessionId
             PROVE  /\ s \notin issued' =>
                          /\ states'[s] = None /\ registry'[s] = None
                          /\ \A r \in Request : ~HasId(r, s)'
                    /\ s \in issued' => \E c \in Contact : Keyed(s, c)'
  BY DEF OneOwner, HasId
<1>1. issued \subseteq issued'
  BY DEF Next, Environment, Tick, ChangeCredentials, ChangeStatus, ForeignRevoke,
         Restart, Abort, Arrive, Login, Restore, Resolve, Logout, Continue, Create,
         RegisterSelect, RegisterWrite, RegisterRaises, Compensate, LoadSubject, Check, TouchSelect,
         CheckRow, TouchWrite, RevokeState, RevokeRegistry, RevokeDelete
<1>2. ASSUME NEW q \in Request, Create(q, s)
      PROVE  s \in issued' /\ \E c \in Contact : Keyed(s, c)'
  <2>1. /\ s \notin issued /\ req[q].pc = "create"
        /\ states[s] = None /\ registry[s] = None /\ \A r \in Request : ~HasId(r, s)
    BY <1>2 DEF Create, OneOwner, HasId
  <2>2. /\ states' = [states EXCEPT ![s] = [contact |-> req[q].contact,
                                            token |-> req[q].token, age |-> 0]]
        /\ req' = [req EXCEPT ![q].pc = "register", ![q].sid = s]
        /\ registry' = registry
        /\ issued' = issued \cup {s}
    BY <1>2, <2>1 DEF Create
  <2>3. /\ states'[s].contact = req[q].contact
        /\ \A r \in Request : HasId(r, s)' => r = q
        /\ req'[q].contact = req[q].contact
    BY <2>1, <2>2 DEF HasId, TInv, TypeOK
  <2>4. PICK c \in Contact : req[q].contact = c
    BY <2>1 DEF TInv, LocalsOK
  <2>5. Keyed(s, c)'
    BY <2>1, <2>2, <2>3, <2>4 DEF Keyed, HasId
  <2>6. QED
    BY <2>2, <2>5
<1>3. CASE \A q \in Request : ~Create(q, s)
  <2>1. s \in issued' => s \in issued
    BY <1>3, ZenonT(40) DEF Next, Environment, Tick, ChangeCredentials, ChangeStatus, ForeignRevoke,
                Restart, Abort, Arrive, Login, Restore, Resolve, Logout, Continue, Create,
                RegisterSelect, RegisterWrite, RegisterRaises, Compensate, LoadSubject, Check, TouchSelect,
                CheckRow, TouchWrite, RevokeState, RevokeRegistry, RevokeDelete
  <2>2. ASSUME s \in issued
        PROVE  \E c \in Contact : Keyed(s, c)'
    <3>1. PICK c \in Contact : Keyed(s, c)
      BY <2>2 DEF OneOwner
    <3>2. Keyed(s, c)'
      BY <1>3, <3>1, OwnersFade DEF Keyed, HasId
    <3>3. QED
      BY <3>2
  <2>3. s \notin issued => /\ states'[s] = None /\ registry'[s] = None
                           /\ \A r \in Request : ~HasId(r, s)'
    BY <1>3, OwnersFade DEF OneOwner, HasId
  <2>4. QED
    BY <1>1, <2>1, <2>2, <2>3
<1>4. CASE \E q \in Request : Create(q, s)
  BY <1>2, <1>4
<1>5. QED
  BY <1>3, <1>4

(* A state that is gone is gone, once a client knew its id. *)
LEMMA StatesFade ==
    ASSUME ~IdsRepeat, TInv, IdsOK, Next, NEW s \in delivered, states[s] = None
    PROVE  states'[s] = None
<1>1. s \in SessionId /\ \A q \in Request : ~Create(q, s)
  BY DEF Create, IdsOK, TInv, TypeOK
<1>2. QED
  BY <1>1, OwnersFade

LEMMA RevocationStep ==
    ASSUME ~IdsRepeat, RInv, Next, delivered \subseteq delivered', NEW r \in Request
    PROVE  RevocationOK(r)'
<1> USE DEF RInv, TInv, TypeOK
<1>1. CASE req'[r] = req[r]
  <2>1. CASE req[r].pc = "revoke_delete"
    <3>1. /\ req[r].sid \in delivered /\ states[req[r].sid] = None
          /\ held[r] = "own" \/ (held[r] = "gone" /\ registry[req[r].sid] = None)
      BY <2>1 DEF Revoking, RevocationOK
    <3>2. states'[req[r].sid] = None /\ registry'[req[r].sid] \in {registry[req[r].sid], None}
      BY <3>1, RowsFade, StatesFade
    <3>3. held'[r] = IF held[r] # "none" /\ registry'[req[r].sid] = None THEN "gone" ELSE held[r]
      BY <1>1, <2>1 DEF Next, Track, Writing
    <3>4. QED
      BY <1>1, <2>1, <3>1, <3>2, <3>3 DEF RevocationOK
  <2>2. CASE req[r].pc # "revoke_delete"
    BY <1>1, <2>2, RowsFade, StatesFade DEF Revoking, RevocationOK
  <2>3. QED
    BY <2>1, <2>2
<1>2. CASE Arrive(r)
  <2>1. ASSUME NEW s \in SessionId, Resolve(r, s) \/ Logout(r, s)
        PROVE  RevocationOK(r)'
    <3>1. states[s] # None => s \in delivered
      BY <2>1 DEF Resolve, Logout, Presentable, IdsOK
    <3>2. QED
      BY <2>1, <3>1 DEF Resolve, Logout, OpenState, Done, RevocationOK, Resolving, Revocations
  <2>2. CASE \/ \E c \in Contact, v \in Version : Login(r, c, v)
             \/ \E t \in Token : Restore(r, t)
    BY <2>2 DEF Login, Restore, Done, RevocationOK, Resolving, Revocations
  <2>3. QED
    BY <1>2, <2>1, <2>2 DEF Arrive
<1>3. CASE Continue(r)
  <2>1. CASE \/ \E s \in SessionId : Create(r, s)
             \/ RegisterSelect(r) \/ RegisterWrite(r) \/ RegisterRaises(r) \/ Compensate(r)
    BY <2>1 DEF Create, RegisterSelect, RegisterWrite, RegisterRaises, Compensate, Answer, Goto, Done,
                RevocationOK, Resolving, Revocations
  <2>2. CASE LoadSubject(r)
    BY <2>2 DEF LoadSubject, RevokeWith, Goto, Revoking, RevocationOK, Resolving
  <2>3. CASE Check(r) \/ TouchSelect(r)
    <3>1. req[r].sid \in delivered /\ registry' = registry
      BY <2>3 DEF Check, TouchSelect, CheckRow, Revoking, RevocationOK, Resolving
    <3>2. RowActive(req[r].contact, req[r].sid) \/ registry[req[r].sid] = None
      BY <2>3, <3>1 DEF Check, TouchSelect, CheckRow, OneOwner, Keyed, RowActive
    <3>3. QED
      BY <2>3, <3>1, <3>2 DEF Check, TouchSelect, CheckRow, RevokeWith, Goto, RevocationOK,
                              Resolving
  <2>4. CASE TouchWrite(r)
    BY <2>4 DEF TouchWrite, Answer, Done, RevocationOK, Resolving, Revocations
  <2>5. CASE RevokeState(r)
    <3>1. req[r].sid \in delivered
      BY <2>5 DEF RevokeState, Revoking, RevocationOK
    <3>2. states'[req[r].sid] = None
      BY <2>5, <3>1 DEF RevokeState, StateRevoked, OneOwner, Keyed
    <3>3. QED
      BY <2>5, <3>1, <3>2 DEF RevokeState, Answer, Goto, Done, Revoking, RevocationOK,
                              Resolving, Revocations
  <2>6. CASE RevokeRegistry(r)
    <3>1. /\ req[r].sid \in delivered /\ states[req[r].sid] = None
          /\ registry' = registry /\ states' = states /\ req[r].pc = "revoke_registry"
      BY <2>6 DEF RevokeRegistry, Revoking, RevocationOK
    <3>2. CASE RowActive(req[r].contact, req[r].sid)
      <4>1. req' = [req EXCEPT ![r].pc = "revoke_delete"]
        BY <2>6, <3>2 DEF RevokeRegistry, Goto
      <4>2. held'[r] = "own"
        <5>1. registry[req[r].sid] # None
          BY <3>1, <3>2 DEF RowActive, LocalsOK
        <5>2. req'[r].pc \in Writing /\ req[r].pc \notin Writing
          BY <3>1, <4>1 DEF Writing
        <5>3. QED
          BY <3>2, <5>1, <5>2 DEF Next, Track, Selected
      <4>3. QED
        BY <3>1, <4>1, <4>2 DEF RevocationOK, Resolving
    <3>3. CASE ~RowActive(req[r].contact, req[r].sid)
      <4>1. registry[req[r].sid] = None
        BY <3>1, <3>3 DEF RowActive, OneOwner, Keyed
      <4>2. QED
        BY <2>6, <3>1, <3>3, <4>1 DEF RevokeRegistry, Answer, Done, RevocationOK, Resolving
    <3>4. QED
      BY <3>2, <3>3
  <2>7. CASE RevokeDelete(r)
    <3>1. /\ req[r].sid \in delivered /\ states[req[r].sid] = None
          /\ held[r] = "own" \/ registry[req[r].sid] = None
      BY <2>7 DEF RevokeDelete, Revoking, RevocationOK
    <3>2. registry'[req[r].sid] = None /\ states' = states
      BY <2>7, <3>1 DEF RevokeDelete, RowDeleted
    <3>3. QED
      BY <2>7, <3>1, <3>2 DEF RevokeDelete, Answer, Done, RevocationOK, Resolving
  <2>8. QED
    BY <1>3, <2>1, <2>2, <2>3, <2>4, <2>5, <2>6, <2>7 DEF Continue
<1>4. CASE Abort(r)
  BY <1>4 DEF Abort, Answer, Done, RevocationOK, Resolving, Revocations
<1>5. CASE req'[r] = Idle
  BY <1>5 DEF Idle, Done, RevocationOK, Resolving, Revocations
<1>6. QED
  BY <1>1, <1>2, <1>3, <1>4, <1>5, RequestStep

LEMMA IdsNext ==
    ASSUME ~IdsRepeat, TInv, IdsOK, Next
    PROVE  IdsOK' /\ delivered \subseteq delivered'
<1>1. IdsOK'
  BY IdsArrive, IdsContinue, IdsOther DEF Next
<1>2. delivered \subseteq delivered'
  BY DEF Next, Environment, Tick, ChangeCredentials, ChangeStatus, ForeignRevoke,
         Restart, Abort, Arrive, Login, Restore, Resolve, Logout, Continue, Create,
         RegisterSelect, RegisterWrite, RegisterRaises, Compensate, LoadSubject, Check, TouchSelect,
         CheckRow, TouchWrite, RevokeState, RevokeRegistry, RevokeDelete
<1>3. QED
  BY <1>1, <1>2

LEMMA RInvInit == Init => RInv
<1>1. Init => TInv /\ IdsOK
  BY IInvInit DEF IInv
<1>2. Init => Revoking
  <2> SUFFICES ASSUME Init, NEW r \in Request
               PROVE  RevocationOK(r)
    BY DEF Revoking
  <2>1. req[r].pc = "idle" /\ req[r].answer = "NONE"
    BY DEF Init, Idle, Done
  <2>2. QED
    BY <2>1 DEF RevocationOK, Resolving, Revocations
<1>3. Init => OneOwner
  BY DEF Init, OneOwner, Idle, Done
<1>4. QED
  BY <1>1, <1>2, <1>3 DEF RInv

LEMMA RInvNext ==
    ASSUME ~IdsRepeat, RInv, [Next]_vars
    PROVE  RInv'
<1>1. TInv'
  BY TypeNext DEF RInv
<1>2. CASE Next
  BY <1>1, <1>2, IdsNext, OwnerStep, RevocationStep DEF RInv, Revoking
<1>3. CASE UNCHANGED vars
  BY <1>1, <1>3 DEF vars, RInv, IdsOK, OneOwner, Keyed, Revoking, RevocationOK
<1>4. QED
  BY <1>2, <1>3

(* With fresh session ids, a session whose logout or rejection has been    *)
(* answered is in neither store, now and ever after, whatever the requests *)
(* do that were in the middle of creating, resolving or touching sessions. *)
THEOREM RevokedStaysRevoked ==
    ASSUME ~IdsRepeat
    PROVE  Spec => []RevokedForGood
<1>1. RInv /\ [Next]_vars => RInv'
  BY RInvNext
<1>2. RInv => RevokedForGood
  BY DEF RInv, Revoking, RevocationOK, Revocations, RevokedForGood
<1>3. QED
  BY <1>1, <1>2, RInvInit, PTL DEF Spec
=============================================================================
