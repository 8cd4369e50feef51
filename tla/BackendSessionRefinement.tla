------------------------ MODULE BackendSessionRefinement ------------------------
(***************************************************************************)
(* BackendSession implements SessionAuthority when session ids are fresh:  *)
(* two stores, their awaits, failures and restarts carry out sessions that *)
(* open, live and end once, and access that is granted only to those who   *)
(* asked while their session was live.                                     *)
(***************************************************************************)
EXTENDS BackendSessionProofs

USE TTLAssumption, NoneAssumption

(* The abstract variables, one request at a time. *)
Asked(r) == IF req[r].pc \in Resolving THEN req[r].sid ELSE None
Seen(r) == "session" \in evidence[r]
Granted(r) == req[r].pc = "idle" /\ req[r].answer = "RESOLVED"

Fresh(s) == states[s] # None /\ ~Expired(s)
Enrolling(s) == \E r \in Request : req[r].sid = s /\ req[r].pc \in Registering

(* A row is written when its registration ends, not before. *)
Rowless == \A s \in SessionId : Enrolling(s) => registry[s] = None

(* Nothing is noted of requests that neither ask nor have been granted.    *)
Blind == \A r \in Request : req[r].pc \notin Resolving /\ ~Granted(r) => evidence[r] = {}

FInv == IInv /\ OneOwner /\ Rowless /\ Blind

-----------------------------------------------------------------------------
(* Steps, as far as they matter to the life of a session.                  *)

Same(s) ==
    /\ s \in issued' <=> s \in issued
    /\ Fresh(s)' <=> Fresh(s)
    /\ Fresh(s) => states'[s].contact = states[s].contact
    /\ registry'[s] = registry[s]
    /\ Enrolling(s)' <=> Enrolling(s)

(* A session may lose its state or its row, and gains nothing.             *)
Fades(s) ==
    /\ s \in issued' <=> s \in issued
    /\ Fresh(s)' => Fresh(s) /\ states'[s].contact = states[s].contact
    /\ registry'[s] \in {registry[s], None}
    /\ Enrolling(s)' => Enrolling(s)

LEMMA StatusSame ==
    ASSUME NEW s \in SessionId, Same(s)
    PROVE  Status(s)' = Status(s)
<1>1. Live(s)' <=> Live(s)
  BY DEF Same, Live, Fresh, RowActive
<1>2. QED
  BY <1>1 DEF Same, Status, Fresh, Enrolling

LEMMA StatusFades ==
    ASSUME TInv, Rowless, NEW s \in SessionId, Fades(s)
    PROVE  Status(s)' = Status(s) \/ (Status(s)' = "ended" /\ Status(s) # "unborn")
<1>1. Live(s) => states[s].contact # None
  BY DEF Live, TInv, TypeOK, StoredSession
<1>2. Live(s)' => Live(s)
  <2>1. Fresh(s) => states[s].contact # None
    BY DEF Fresh, TInv, TypeOK, StoredSession
  <2>2. QED
    BY <2>1 DEF Fades, Live, Fresh, RowActive
<1>3. Enrolling(s) => ~Live(s)
  BY <1>1 DEF Rowless, Live, RowActive
<1>4. QED
  BY <1>2, <1>3 DEF Fades, Status, Fresh, Enrolling

(* Only a creation and the end of a registration do more than that. *)
LEMMA EnvironmentFades ==
    ASSUME TInv, Environment, NEW s \in SessionId
    PROVE  Fades(s)
<1> USE DEF TInv, TypeOK
<1>1. CASE Tick
  <2>1. Fresh(s)' => Fresh(s) /\ states'[s].contact = states[s].contact
    <3>1. states'[s] = IF Fresh(s) THEN Aged(states[s], states[s].age + 1) ELSE states[s]
      BY <1>1 DEF Tick, Fresh
    <3>2. QED
      BY <3>1 DEF Fresh, Expired, Aged
  <2>2. QED
    BY <1>1, <2>1 DEF Tick, Fades, Enrolling
<1>2. ASSUME \/ \E c \in Contact, v \in Version : ChangeCredentials(c, v)
             \/ \E c \in Contact, st \in {"user", "disabled", "missing"} : ChangeStatus(c, st)
             \/ \E x \in SessionId : ForeignRevoke(x)
      PROVE  Fades(s)
  BY <1>2 DEF ChangeCredentials, ChangeStatus, ForeignRevoke, Fades, Fresh, Expired, Enrolling
<1>3. CASE Restart
  BY <1>3 DEF Restart, Fades, Fresh, Enrolling, Idle, Done
<1>4. QED
  BY <1>1, <1>2, <1>3 DEF Environment

LEMMA ArriveSame ==
    ASSUME TInv, NEW q \in Request, Arrive(q), NEW s \in SessionId
    PROVE  Same(s)
<1> USE DEF TInv, TypeOK
<1>1. issued' = issued /\ registry' = registry
  BY DEF Arrive, Login, Restore, Resolve, Logout
<1>2. Enrolling(s)' <=> Enrolling(s)
  <2>1. req[q].pc = "idle" /\ req'[q].pc \notin Registering
    BY DEF Arrive, Login, Restore, Resolve, Logout, OpenState, Done, Registering
  <2>2. \A r \in Request : r # q => req'[r] = req[r]
    BY DEF Arrive, Login, Restore, Resolve, Logout, OpenState
  <2>3. QED
    BY <2>1, <2>2 DEF Enrolling, Registering
<1>3. \/ states'[s] = states[s]
      \/ ~Fresh(s) /\ states'[s] = None
      \/ Fresh(s) /\ states'[s] = Aged(states[s], 0)
  BY DEF Arrive, Login, Restore, Resolve, Logout, OpenState, Fresh
<1>4. Fresh(s) /\ states'[s] = Aged(states[s], 0) => Fresh(s)'
  <2> SUFFICES ASSUME Fresh(s), states'[s] = Aged(states[s], 0)
               PROVE  Fresh(s)'
    OBVIOUS
  <2>1. states[s] \in StoredSession
    BY DEF Fresh
  <2>2. Aged(states[s], 0) \in StoredSession /\ Aged(states[s], 0).age = 0
    BY <2>1 DEF Aged, StoredSession, Age
  <2>3. QED
    BY <2>2 DEF Fresh, Expired
<1>5. QED
  BY <1>1, <1>2, <1>3, <1>4 DEF Same, Fresh, Expired, Aged

(* A request that creates no session and is not registering one.           *)
LEMMA ServeFades ==
    ASSUME TInv, NEW q \in Request, Continue(q) \/ Abort(q),
           req[q].pc \notin Registering, \A x \in SessionId : ~Create(q, x), NEW s \in SessionId
    PROVE  Fades(s)
<1> USE DEF TInv, TypeOK
<1>1. issued' = issued /\ registry'[s] \in {registry[s], None}
  BY DEF Continue, Create, RegisterSelect, RegisterWrite, RegisterRaises, Compensate, LoadSubject, Check,
         TouchSelect, CheckRow, TouchWrite, RevokeState, RevokeRegistry, RevokeDelete, RowDeleted, Leaves, Abort, Registering
<1>2. states'[s] \in {states[s], None}
  BY DEF Continue, Create, RegisterSelect, RegisterWrite, RegisterRaises, Compensate, LoadSubject, Check,
         TouchSelect, CheckRow, TouchWrite, RevokeState, RevokeRegistry, RevokeDelete, StateRevoked, Abort
<1>3. \A r \in Request : req'[r].pc \in Registering => req'[r] = req[r]
  BY DEF Continue, Create, RegisterSelect, RegisterWrite, RegisterRaises, Compensate, LoadSubject, Check,
         TouchSelect, CheckRow, TouchWrite, RevokeState, RevokeRegistry, RevokeDelete, Abort,
         Answer, Goto, RevokeWith, Done, Registering
<1>4. QED
  BY <1>1, <1>2, <1>3 DEF Fades, Fresh, Expired, Enrolling

(* A resolution changes neither store. *)
LEMMA ResolvingSame ==
    ASSUME TInv, NEW q \in Request, Continue(q) \/ Abort(q),
           req[q].pc \in Resolving, NEW s \in SessionId
    PROVE  Same(s)
<1> USE DEF TInv, TypeOK, Resolving
<1>1. issued' = issued /\ registry' = registry /\ states' = states
  BY DEF Continue, Create, RegisterSelect, RegisterWrite, RegisterRaises, Compensate, LoadSubject, Check,
         TouchSelect, CheckRow, TouchWrite, RevokeState, RevokeRegistry, RevokeDelete, Leaves,
         Abort, Registering
<1>2. req'[q].pc \notin Registering /\ \A r \in Request : r # q => req'[r] = req[r]
  BY DEF Continue, Create, RegisterSelect, RegisterWrite, RegisterRaises, Compensate, LoadSubject, Check,
         TouchSelect, CheckRow, TouchWrite, RevokeState, RevokeRegistry, RevokeDelete, Abort,
         Answer, Goto, RevokeWith, Done, Registering
<1>3. QED
  BY <1>1, <1>2 DEF Same, Fresh, Expired, Enrolling, Registering

LEMMA CreateOpens ==
    ASSUME ~IdsRepeat, TInv, OneOwner, NEW q \in Request, NEW x \in SessionId, Create(q, x)
    PROVE  /\ Status(x) = "unborn" /\ Status(x)' = "opening"
           /\ \A s \in SessionId \ {x} : Same(s)
           /\ Rowless => Rowless'
<1> USE DEF TInv, TypeOK
<1>1. /\ x \notin issued /\ states[x] = None /\ registry[x] = None
      /\ \A r \in Request : ~HasId(r, x)
  BY DEF Create, OneOwner, HasId
<1>2. /\ states' = [states EXCEPT ![x] = [contact |-> req[q].contact,
                                          token |-> req[q].token, age |-> 0]]
      /\ req' = [req EXCEPT ![q].pc = "register", ![q].sid = x]
      /\ registry' = registry /\ issued' = issued \cup {x} /\ req[q].pc = "create"
  BY <1>1 DEF Create
<1>3. [contact |-> req[q].contact, token |-> req[q].token, age |-> 0] \in StoredSession
  BY <1>2 DEF LocalsOK, StoredSession, Age
<1>4. Status(x) = "unborn" /\ Status(x)' = "opening"
  <2>1. Fresh(x)'
    BY <1>2, <1>3 DEF Fresh, Expired
  <2>2. Enrolling(x)' /\ ~Live(x)'
    <3>1. states'[x].contact # None /\ registry'[x] = None
      BY <1>1, <1>2, <1>3 DEF StoredSession
    <3>2. req'[q].sid = x /\ req'[q].pc = "register"
      BY <1>2
    <3>3. QED
      BY <3>1, <3>2 DEF Enrolling, Registering, Live, RowActive
  <2>3. QED
    BY <1>1, <1>2, <2>1, <2>2 DEF Status, Fresh, Enrolling
<1>5. ASSUME NEW s \in SessionId \ {x}
      PROVE  Same(s)
  <2>1. states'[s] = states[s] /\ (s \in issued' <=> s \in issued)
    BY <1>2
  <2>2. Enrolling(s)' <=> Enrolling(s)
    <3>1. /\ req'[q].sid = x /\ req[q].pc = "create"
          /\ \A r \in Request : r # q => req'[r] = req[r]
      BY <1>2
    <3>2. QED
      BY <3>1 DEF Enrolling, Registering
  <2>3. QED
    BY <1>2, <2>1, <2>2 DEF Same, Fresh, Expired
<1>6. Rowless => Rowless'
  BY <1>1, <1>2, <1>5 DEF Rowless, Same
<1>7. QED
  BY <1>4, <1>5, <1>6

(* The select of a registration: only its own request gets on. *)
LEMMA RegisterSelects ==
    ASSUME TInv, NEW q \in Request, RegisterSelect(q), NEW s \in SessionId
    PROVE  Same(s)
<1> USE DEF TInv, TypeOK
<1>1. issued' = issued /\ registry' = registry /\ states' = states
  BY DEF RegisterSelect
<1>2. ASSUME NEW r \in Request
      PROVE  req'[r].sid = req[r].sid /\ (req'[r].pc \in Registering <=> req[r].pc \in Registering)
  BY DEF RegisterSelect, Goto, Registering
<1>3. Enrolling(s)' => Enrolling(s)
  BY <1>2 DEF Enrolling, Registering
<1>4. Enrolling(s) => Enrolling(s)'
  BY <1>2 DEF Enrolling, Registering
<1>5. QED
  BY <1>1, <1>3, <1>4 DEF Same, Fresh, Expired

(* A registration ends: with its row, or without.                          *)
LEMMA RegisterAdmits ==
    ASSUME TInv, IdsOK, Rowless, NEW q \in Request, NEW x \in SessionId,
           req[q].pc \in Registering, req[q].sid = x,
           Continue(q) \/ Abort(q), ~RegisterSelect(q)
    PROVE  /\ \/ Status(x)' \in {Status(x), "ended"}
              \/ Status(x) = "opening" /\ Status(x)' = "live"
           /\ Status(x) # "unborn"
           /\ \A s \in SessionId \ {x} : Same(s)
           /\ Rowless'
<1> USE DEF TInv, TypeOK
<1>1. x \in issued
  BY DEF IdsOK
<1>2. /\ registry' \in {registry, RowWritten(q)}
      /\ states' = states /\ issued' = issued
      /\ req'[q].pc \notin Registering
      /\ \A r \in Request : r # q => req'[r] = req[r]
  <2>1. CASE RegisterWrite(q)
    BY <2>1 DEF RegisterWrite, Answer, Done, Registering
  <2>2. CASE RegisterRaises(q)
    BY <2>2 DEF RegisterRaises, Leaves, Goto, Registering
  <2>3. CASE Abort(q)
    BY <2>3 DEF Abort, Leaves, Answer, Done, Registering
  <2>4. QED
    BY <2>1, <2>2, <2>3 DEF Continue, Create, RegisterSelect, Compensate, LoadSubject, Check,
       TouchSelect, CheckRow, TouchWrite, RevokeState, RevokeRegistry, RevokeDelete, Registering
<1>3. /\ \A s \in SessionId \ {x} : registry'[s] = registry[s]
      /\ ~Enrolling(x)'
      /\ \A s \in SessionId \ {x} : Enrolling(s)' <=> Enrolling(s)
  <2>1. \A s \in SessionId \ {x} : registry'[s] = registry[s]
    BY <1>2 DEF RowWritten
  <2>2. \A r \in Request : req'[r].pc \in Registering => r # q /\ req'[r] = req[r]
    BY <1>2
  <2>3. \A r \in Request : req'[r].pc \in Registering => req'[r].sid # x
    BY <2>2 DEF IdsOK
  <2>4. QED
    BY <1>2, <2>1, <2>2, <2>3 DEF Enrolling
<1>4. \A s \in SessionId \ {x} : Same(s)
  BY <1>2, <1>3 DEF Same, Fresh, Expired
<1>5. Rowless'
  BY <1>3, <1>4 DEF Rowless, Same
<1>6. Enrolling(x) /\ ~Live(x)
  BY <1>1 DEF Enrolling, Rowless, Live, RowActive, StoredSession
<1>7. CASE Fresh(x)
  <2>1. Status(x) = "opening"
    BY <1>1, <1>6, <1>7 DEF Status, Fresh, Enrolling
  <2>2. Status(x)' \in {"live", "ended", "opening"}
    BY <1>1, <1>2 DEF Status
  <2>3. QED
    BY <1>4, <1>5, <2>1, <2>2
<1>8. CASE ~Fresh(x)
  <2>1. ~Fresh(x)' /\ ~Live(x)'
    BY <1>2, <1>8 DEF Fresh, Live, Expired
  <2>2. Status(x) = "ended" /\ Status(x)' = "ended"
    BY <1>1, <1>2, <1>6, <1>8, <2>1 DEF Status, Fresh
  <2>3. QED
    BY <1>4, <1>5, <2>2
<1>9. QED
  BY <1>7, <1>8

-----------------------------------------------------------------------------
(* Steps, as far as they matter to those who ask.                          *)

Kept(r) ==
    /\ Asked(r)' = Asked(r)
    /\ Seen(r)' <=> Seen(r)
    /\ Granted(r)' <=> Granted(r)

(* While a request resolves, the session it had not seen stays unseen.     *)
LEMMA SeenKept ==
    ASSUME FInv, Next, NEW r \in Request,
           req[r].pc \in Resolving, req'[r].pc \in Resolving,
           req'[r].sid = req[r].sid, req'[r].contact = req[r].contact
    PROVE  Seen(r)' <=> Seen(r)
<1>1. evidence'[r] = evidence[r] \cup Facts(r)'
  BY DEF Next, Observe
<1>2. req[r].sid \in delivered
  BY DEF FInv, IInv, Witnessed
<1>3. registry'[req[r].sid] \in {registry[req[r].sid], None}
  BY <1>2, RowsFade DEF FInv, IInv
<1>4. /\ "session" \in Facts(r)' => registry'[req[r].sid] = req[r].contact
      /\ req[r].contact # None
  BY DEF Facts, Live, RowActive, FInv, IInv, TInv, LocalsOK, Resolving
<1>5. Seen(r) \/ ~RowActive(req[r].contact, req[r].sid)
  BY DEF FInv, IInv, Witnessed, Seen
<1>6. QED
  BY <1>1, <1>3, <1>4, <1>5 DEF Seen, RowActive

LEMMA BlindStep ==
    ASSUME FInv, Next
    PROVE  Blind'
BY DEF Next, Observe, Blind, Granted

(* Whoever takes no step is not concerned. *)
LEMMA OthersKept ==
    ASSUME FInv, Next, NEW r \in Request, req'[r] = req[r]
    PROVE  Kept(r)
<1>1. Asked(r)' = Asked(r) /\ (Granted(r)' <=> Granted(r))
  BY DEF Asked, Granted
<1>2. CASE req[r].pc \in Resolving
  BY <1>1, <1>2, SeenKept DEF Kept
<1>3. CASE Granted(r)
  BY <1>1, <1>3 DEF Next, Observe, Granted, Resolving, Seen, Kept
<1>4. CASE req[r].pc \notin Resolving /\ ~Granted(r)
  BY <1>1, <1>4, BlindStep DEF FInv, Blind, Seen, Kept, Granted
<1>5. QED
  BY <1>2, <1>3, <1>4

(* A request that neither asks, nor was granted, before or after. *)
LEMMA OutsideKept ==
    ASSUME FInv, Next, NEW r \in Request,
           req[r].pc \notin Resolving, ~Granted(r), req'[r].pc \notin Resolving, ~Granted(r)'
    PROVE  Kept(r)
BY BlindStep DEF FInv, Blind, Asked, Seen, Kept

-----------------------------------------------------------------------------
(* Steps of SessionAuthority, told one session and one request at a time.  *)

AllKept == \A r \in Request : Kept(r)
OthersKeptBut(q) == \A r \in Request \ {q} : Kept(r)
NothingEnds == \A s \in SessionId : Status(s)' = Status(s)

LEMMA RequestsKept ==
    ASSUME AllKept
    PROVE  UNCHANGED <<[r \in Request |-> Asked(r)], [r \in Request |-> Seen(r)],
                       [r \in Request |-> Granted(r)]>>
<1>1. UNCHANGED [r \in Request |-> Asked(r)]
  BY DEF AllKept, Kept
<1>2. UNCHANGED [r \in Request |-> Seen(r)]
  BY DEF AllKept, Kept, Seen
<1>3. UNCHANGED [r \in Request |-> Granted(r)]
  BY DEF AllKept, Kept, Granted
<1>4. QED
  BY <1>1, <1>2, <1>3

LEMMA EndMapped ==
    ASSUME AllKept,
           \A s \in SessionId : \/ Status(s)' = Status(s)
                                \/ Status(s)' = "ended" /\ Status(s) # "unborn"
    PROVE  Authority!Next
<1> DEFINE S == {s \in SessionId : Status(s) # "unborn" /\ Status(s)' = "ended"}
<1>1. S \in SUBSET Authority!Begun
  BY DEF Authority!Begun
<1>2. Authority!Ended(S)
  BY DEF Authority!Ended
<1>3. Authority!End
  BY <1>1, <1>2, RequestsKept DEF Authority!End, Asked, Seen, Granted
<1>4. QED
  BY <1>3 DEF Authority!Next

LEMMA OpenMapped ==
    ASSUME AllKept, NEW x \in SessionId, Status(x) = "unborn", Status(x)' = "opening",
           \A s \in SessionId \ {x} : Status(s)' = Status(s)
    PROVE  Authority!Next
<1>1. [s \in SessionId |-> Status(s)]' = [[s \in SessionId |-> Status(s)] EXCEPT ![x] = "opening"]
  OBVIOUS
<1>2. Authority!Open(x)
  BY <1>1, RequestsKept DEF Authority!Open, Asked, Seen, Granted
<1>3. QED
  BY <1>2 DEF Authority!Next

LEMMA AdmitMapped ==
    ASSUME AllKept, NEW x \in SessionId, Status(x) = "opening", Status(x)' = "live",
           \A s \in SessionId \ {x} : Status(s)' = Status(s)
    PROVE  Authority!Next
<1>1. [s \in SessionId |-> Status(s)]' = [[s \in SessionId |-> Status(s)] EXCEPT ![x] = "live"]
  OBVIOUS
<1>2. Authority!Admit(x)
  BY <1>1, RequestsKept DEF Authority!Admit, Asked, Seen, Granted
<1>3. QED
  BY <1>2 DEF Authority!Next

(* Whoever asks, is answered or leaves changes nothing but what is noted   *)
(* of it.                                                                  *)
LEMMA OneFlag ==
    ASSUME NEW f \in [Request -> BOOLEAN], NEW g \in [Request -> BOOLEAN],
           NEW q \in Request, NEW b \in BOOLEAN, g[q] = b,
           \A r \in Request \ {q} : g[r] = f[r]
    PROVE  g = [f EXCEPT ![q] = b]
OBVIOUS

LEMMA OnlyItsOwn ==
    ASSUME NEW q \in Request, OthersKeptBut(q), NothingEnds,
           NEW a, NEW b \in BOOLEAN, NEW c \in BOOLEAN,
           Asked(q)' = a, Seen(q)' = b, Granted(q)' = c
    PROVE  /\ UNCHANGED [s \in SessionId |-> Status(s)]
           /\ [r \in Request |-> Asked(r)]' = [[r \in Request |-> Asked(r)] EXCEPT ![q] = a]
           /\ [r \in Request |-> Seen(r)]' = [[r \in Request |-> Seen(r)] EXCEPT ![q] = b]
           /\ [r \in Request |-> Granted(r)]' = [[r \in Request |-> Granted(r)] EXCEPT ![q] = c]
<1>1. UNCHANGED [s \in SessionId |-> Status(s)]
  BY DEF NothingEnds
<1>2. [r \in Request |-> Asked(r)]' = [[r \in Request |-> Asked(r)] EXCEPT ![q] = a]
  BY DEF OthersKeptBut, Kept
<1> DEFINE S == [r \in Request |-> Seen(r)]
           G == [r \in Request |-> Granted(r)]
<1>3. S \in [Request -> BOOLEAN] /\ S' \in [Request -> BOOLEAN]
  BY DEF Seen
<1>4. G \in [Request -> BOOLEAN] /\ G' \in [Request -> BOOLEAN]
  BY DEF Granted
<1>5. S'[q] = b /\ G'[q] = c
  OBVIOUS
<1>6. \A r \in Request \ {q} : S'[r] = S[r] /\ G'[r] = G[r]
  BY DEF OthersKeptBut, Kept, Seen, Granted
<1>7. S' = [S EXCEPT ![q] = b]
  <2> HIDE DEF S
  <2> QED BY <1>3, <1>5, <1>6, OneFlag
<1>8. G' = [G EXCEPT ![q] = c]
  <2> HIDE DEF G
  <2> QED BY <1>4, <1>5, <1>6, OneFlag
<1>9. QED
  BY <1>1, <1>2, <1>7, <1>8

LEMMA AskMapped ==
    ASSUME NEW q \in Request, OthersKeptBut(q), NothingEnds, NEW x \in SessionId,
           Asked(q) = None, Asked(q)' = x, Seen(q)' = (Status(x) = "live"), Granted(q)' = FALSE
    PROVE  Authority!Next
<1>1. Authority!Ask(q, x)
  BY OnlyItsOwn DEF Authority!Ask, Asked, Seen, Granted
<1>2. QED
  BY <1>1 DEF Authority!Next

LEMMA GrantMapped ==
    ASSUME NEW q \in Request, OthersKeptBut(q), NothingEnds,
           Asked(q) # None, Seen(q), Asked(q)' = None, Seen(q)' = TRUE, Granted(q)' = TRUE
    PROVE  Authority!Next
<1>1. Authority!Grant(q)
  BY OnlyItsOwn DEF Authority!Grant, Asked, Seen, Granted
<1>2. QED
  BY <1>1 DEF Authority!Next

LEMMA DenyMapped ==
    ASSUME NEW q \in Request, OthersKeptBut(q), NothingEnds,
           Asked(q) # None, Asked(q)' = None, Seen(q)' = FALSE, Granted(q)' = Granted(q)
    PROVE  Authority!Next
<1> DEFINE G == [r \in Request |-> Granted(r)]
<1>1. Granted(q) \in BOOLEAN
  BY DEF Granted
<1>2. [G EXCEPT ![q] = Granted(q)] = G
  OBVIOUS
<1>3. Authority!Deny(q)
  BY <1>1, <1>2, OnlyItsOwn DEF Authority!Deny, Asked, Seen, Granted
<1>4. QED
  BY <1>3 DEF Authority!Next

LEMMA LeaveMapped ==
    ASSUME NEW q \in Request, OthersKeptBut(q), NothingEnds,
           Granted(q), Granted(q)' = FALSE, Seen(q)' = FALSE, Asked(q)' = Asked(q)
    PROVE  Authority!Next
<1> DEFINE A == [r \in Request |-> Asked(r)]
<1>1. [A EXCEPT ![q] = Asked(q)] = A
  OBVIOUS
<1>2. Authority!Leave(q)
  BY <1>1, OnlyItsOwn DEF Authority!Leave, Asked, Seen, Granted
<1>3. QED
  BY <1>2 DEF Authority!Next

LEMMA CrashMapped ==
    ASSUME \A s \in SessionId : Status(s)' = IF Status(s) = "unborn" THEN "unborn" ELSE "ended",
           \A r \in Request : Asked(r)' = None /\ Seen(r)' = FALSE /\ Granted(r)' = FALSE
    PROVE  Authority!Next
<1>1. Authority!Ended(Authority!Begun)
  BY DEF Authority!Ended, Authority!Begun
<1>2. [r \in Request |-> Asked(r)]' = [r \in Request |-> None]
  OBVIOUS
<1>3. [r \in Request |-> Granted(r)]' = [r \in Request |-> FALSE]
  BY Zenon
<1>4. [r \in Request |-> Seen(r)]' = [r \in Request |-> FALSE]
  BY Zenon
<1>5. Authority!Crash
  BY <1>1, <1>2, <1>3, <1>4 DEF Authority!Crash, Asked, Seen, Granted
<1>6. QED
  BY <1>5 DEF Authority!Next

LEMMA StutterMapped ==
    ASSUME AllKept, NothingEnds
    PROVE  UNCHANGED Authority!vars
BY RequestsKept DEF Authority!vars, NothingEnds, Asked, Seen, Granted

-----------------------------------------------------------------------------
(* Every step of the two stores is a step of SessionAuthority, or none.    *)

Mapped == Authority!Next \/ UNCHANGED Authority!vars

LEMMA OthersRest ==
    ASSUME TInv, NEW q \in Request, Arrive(q) \/ Continue(q) \/ Abort(q), NEW r \in Request \ {q}
    PROVE  req'[r] = req[r]
<1> USE DEF TInv, TypeOK
<1>1. CASE Arrive(q)
  BY <1>1 DEF Arrive, Login, Restore, Resolve, Logout, OpenState
<1>2. CASE Continue(q)
  BY <1>2 DEF Continue, Create, RegisterSelect, RegisterWrite, RegisterRaises, Compensate, LoadSubject,
              Check, TouchSelect, CheckRow, TouchWrite, RevokeState, RevokeRegistry, RevokeDelete,
              Answer, Goto, RevokeWith
<1>3. CASE Abort(q)
  BY <1>3 DEF Abort, Answer
<1>4. QED
  BY <1>1, <1>2, <1>3

LEMMA ArriveMapped ==
    ASSUME FInv, NEW q \in Request, Arrive(q), Observe, Track
    PROVE  Mapped
<1>1. TInv /\ Next
  BY DEF Next, FInv, IInv
<1>2. NothingEnds
  BY <1>1, ArriveSame, StatusSame DEF NothingEnds
<1>3. OthersKeptBut(q)
  BY <1>1, OthersRest, OthersKept DEF OthersKeptBut
<1>4. req[q].pc = "idle" /\ Asked(q) = None
  BY DEF Arrive, Login, Restore, Resolve, Logout, Asked, Resolving
<1>5. CASE req'[q].pc = "load"
  <2>1. PICK s \in SessionId :
            /\ states[s] # None /\ ~Expired(s)
            /\ req'[q].sid = s /\ req'[q].contact = states[s].contact
            /\ states' = [states EXCEPT ![s] = Aged(states[s], 0)]
    BY <1>1, <1>5 DEF Arrive, Login, Restore, Resolve, Logout, OpenState, Done, TInv, TypeOK
  <2>2. s \in issued /\ Same(s)
    BY <1>1, <2>1, ArriveSame DEF FInv, IInv, IdsOK
  <2>3. Live(s)' <=> Live(s)
    BY <2>2 DEF Same, Live, Fresh, RowActive
  <2>4. states'[s].contact = states[s].contact
    BY <1>1, <2>1 DEF TInv, TypeOK, Aged
  <2>5. evidence'[q] = Facts(q)'
    BY <1>4, <1>5 DEF Observe, Resolving
  <2>6. Live(req[q].sid)' <=> Live(s)
    BY <2>1, <2>3
  <2>7. "session" \in Facts(q)' <=> Live(s)
    BY <2>1, <2>4, <2>6 DEF Facts
  <2>8. Seen(q)' = (Status(s) = "live")
    <3>1. Status(s) = "live" <=> Live(s)
      BY <2>2 DEF Status
    <3>2. QED
      BY <2>5, <2>7, <3>1 DEF Seen
  <2>9. Granted(q)' = FALSE /\ Asked(q)' = s
    BY <1>5, <2>1 DEF Granted, Asked, Resolving
  <2>10. QED
    BY <1>2, <1>3, <1>4, <2>8, <2>9, AskMapped DEF Mapped
<1>6. CASE req'[q].pc # "load"
  <2>1. req'[q].pc \notin Resolving /\ ~Granted(q)'
    BY <1>1, <1>6 DEF Arrive, Login, Restore, Resolve, Logout, OpenState, Done, TInv, TypeOK,
                      Resolving, Granted
  <2>2. CASE Granted(q)
    <3>1. Granted(q)' = FALSE /\ Asked(q)' = Asked(q)
      BY <1>4, <2>1 DEF Asked, Granted
    <3>2. Seen(q)' = FALSE
      BY <1>1, <2>1, BlindStep DEF Blind, Seen
    <3>3. QED
      BY <1>2, <1>3, <2>2, <3>1, <3>2, LeaveMapped DEF Mapped
  <2>3. CASE ~Granted(q)
    <3>1. Kept(q)
      BY <1>1, <1>4, <2>1, <2>3, OutsideKept DEF Resolving
    <3>2. AllKept
      BY <1>3, <3>1 DEF AllKept, OthersKeptBut
    <3>3. QED
      BY <1>2, <3>2, StutterMapped DEF Mapped
  <2>4. QED
    BY <2>2, <2>3
<1>7. QED
  BY <1>5, <1>6

LEMMA ResolvingMapped ==
    ASSUME FInv, NEW q \in Request, Continue(q) \/ Abort(q), Observe, Track, req[q].pc \in Resolving
    PROVE  Mapped
<1>1. TInv /\ Next
  BY DEF Next, FInv, IInv
<1>2. NothingEnds
  BY <1>1, ResolvingSame, StatusSame DEF NothingEnds
<1>3. OthersKeptBut(q)
  BY <1>1, OthersRest, OthersKept DEF OthersKeptBut
<1>4. Asked(q) # None /\ Granted(q) = FALSE
  BY <1>1 DEF Asked, Granted, Resolving, TInv, LocalsOK
<1>5. CASE req'[q].pc \in Resolving
  <2>1. req'[q].sid = req[q].sid /\ req'[q].contact = req[q].contact
    BY <1>1, <1>5 DEF Continue, Create, RegisterSelect, RegisterWrite, RegisterRaises, Compensate, LoadSubject, Check,
         TouchSelect, CheckRow, TouchWrite, RevokeState, RevokeRegistry, RevokeDelete, Abort,
         Answer, Goto, RevokeWith, Done, Resolving, TInv, TypeOK
  <2>2. Kept(q)
    BY <1>1, <1>4, <1>5, <2>1, SeenKept DEF Kept, Asked, Granted, Resolving
  <2>3. AllKept
    BY <1>3, <2>2 DEF AllKept, OthersKeptBut
  <2>4. QED
    BY <1>2, <2>3, StutterMapped DEF Mapped
<1>6. CASE Granted(q)'
  <2>1. req[q].pc = "touch_write"
    <3>1. req'[q].pc = "idle" /\ req'[q].answer = "RESOLVED"
      BY <1>6 DEF Granted
    <3>2. req'[q] # req[q]
      BY <3>1 DEF Resolving
    <3>3. QED
      BY <1>1, <3>1, <3>2, AcceptingStep
  <2>2. Seen(q)
    BY <2>1 DEF FInv, IInv, Witnessed, Seen
  <2>3. evidence'[q] = evidence[q]
    BY <1>6 DEF Observe, Granted, Resolving
  <2>4. Asked(q)' = None /\ Seen(q)' = TRUE /\ Granted(q)' = TRUE
    BY <1>6, <2>2, <2>3 DEF Asked, Granted, Seen, Resolving
  <2>5. QED
    BY <1>2, <1>3, <1>4, <2>2, <2>4, GrantMapped DEF Mapped
<1>7. CASE req'[q].pc \notin Resolving /\ ~Granted(q)'
  <2>1. Asked(q)' = None /\ Granted(q)' = Granted(q)
    BY <1>4, <1>7 DEF Asked, Granted
  <2>2. Seen(q)' = FALSE
    BY <1>1, <1>7, BlindStep DEF Blind, Seen
  <2>3. QED
    BY <1>2, <1>3, <1>4, <2>1, <2>2, DenyMapped DEF Mapped
<1>8. QED
  BY <1>5, <1>6, <1>7

(* A request that is being served and does not resolve asks for nothing.   *)
LEMMA ServingKept ==
    ASSUME FInv, NEW q \in Request, Continue(q) \/ Abort(q), Observe, Track, req[q].pc \notin Resolving
    PROVE  AllKept
<1>1. TInv /\ Next
  BY DEF Next, FInv, IInv
<1>2. req[q].pc # "idle"
  BY DEF Continue, Create, RegisterSelect, RegisterWrite, RegisterRaises, Compensate, LoadSubject, Check,
         TouchSelect, CheckRow, TouchWrite, RevokeState, RevokeRegistry, RevokeDelete, Abort,
         Registering
<1>3. req'[q].pc \notin Resolving
  BY <1>1, <1>2, ResolvingStep DEF Resolve, Resolving
<1>4. ~Granted(q) /\ ~Granted(q)'
  BY <1>1, <1>2, AcceptingStep DEF Granted, Resolving
<1>5. Kept(q)
  BY <1>1, <1>3, <1>4, OutsideKept
<1>6. QED
  BY <1>1, <1>5, OthersRest, OthersKept DEF AllKept

LEMMA CreateMapped ==
    ASSUME ~IdsRepeat, FInv, NEW q \in Request, NEW x \in SessionId, Create(q, x), Observe, Track
    PROVE  Mapped /\ Rowless'
<1>1. /\ Status(x) = "unborn" /\ Status(x)' = "opening"
      /\ \A s \in SessionId \ {x} : Same(s)
      /\ Rowless'
  BY CreateOpens DEF FInv, IInv
<1>2. \A s \in SessionId \ {x} : Status(s)' = Status(s)
  BY <1>1, StatusSame
<1>3. AllKept
  BY ServingKept DEF Create, Continue, Resolving
<1>4. QED
  BY <1>1, <1>2, <1>3, OpenMapped DEF Mapped

LEMMA RegisterMapped ==
    ASSUME FInv, NEW q \in Request, Continue(q) \/ Abort(q), Observe, Track,
           req[q].pc \in Registering, ~RegisterSelect(q)
    PROVE  Mapped /\ Rowless'
<1>1. PICK x \in SessionId : req[q].sid = x
  BY DEF FInv, IInv, TInv, LocalsOK, Registering
<1>2. /\ \/ Status(x)' \in {Status(x), "ended"}
         \/ Status(x) = "opening" /\ Status(x)' = "live"
      /\ Status(x) # "unborn"
      /\ \A s \in SessionId \ {x} : Same(s)
      /\ Rowless'
  BY <1>1, RegisterAdmits DEF FInv, IInv
<1>3. \A s \in SessionId \ {x} : Status(s)' = Status(s)
  BY <1>2, StatusSame
<1>4. AllKept
  BY ServingKept DEF Resolving, Registering
<1>5. CASE Status(x)' \in {Status(x), "ended"}
  BY <1>2, <1>3, <1>4, <1>5, EndMapped DEF Mapped
<1>6. CASE Status(x) = "opening" /\ Status(x)' = "live"
  BY <1>2, <1>3, <1>4, <1>6, AdmitMapped DEF Mapped
<1>7. QED
  BY <1>2, <1>5, <1>6

LEMMA FadesRowless ==
    ASSUME Rowless, \A s \in SessionId : Fades(s)
    PROVE  Rowless'
BY DEF Rowless, Fades

LEMMA ServeMapped ==
    ASSUME FInv, NEW q \in Request, Continue(q) \/ Abort(q), Observe, Track,
           req[q].pc \notin Resolving, req[q].pc \notin Registering,
           \A x \in SessionId : ~Create(q, x)
    PROVE  Mapped /\ Rowless'
<1>1. \A s \in SessionId : Fades(s)
  BY ServeFades DEF FInv, IInv
<1>2. Rowless'
  BY <1>1, FadesRowless DEF FInv
<1>3. AllKept
  BY ServingKept
<1>4. QED
  BY <1>1, <1>2, <1>3, StatusFades, EndMapped DEF FInv, IInv, Mapped

LEMMA EnvironmentMapped ==
    ASSUME FInv, Environment, Observe, Track
    PROVE  Mapped /\ Rowless'
<1>1. TInv /\ Next /\ Rowless
  BY DEF Next, FInv, IInv
<1>2. \A s \in SessionId : Fades(s)
  BY <1>1, EnvironmentFades
<1>3. Rowless'
  BY <1>1, <1>2, FadesRowless
<1>4. CASE Restart
  <2>1. \A s \in SessionId : Status(s)' = IF Status(s) = "unborn" THEN "unborn" ELSE "ended"
    BY <1>4 DEF Restart, Status, Live
  <2>2. \A r \in Request : req'[r].pc = "idle" /\ req'[r].answer = "NONE"
    BY <1>4 DEF Restart, Idle, Done
  <2>3. \A r \in Request : Asked(r)' = None /\ Granted(r)' = FALSE
    BY <2>2 DEF Asked, Granted, Resolving
  <2>4. \A r \in Request : Seen(r)' = FALSE
    BY <2>2 DEF Observe, Seen, Resolving
  <2>5. QED
    BY <1>3, <2>1, <2>3, <2>4, CrashMapped DEF Mapped
<1>5. CASE ~Restart
  <2>1. req' = req
    BY <1>5 DEF Environment, Tick, ChangeCredentials, ChangeStatus, ForeignRevoke
  <2>2. AllKept
    BY <1>1, <2>1, OthersKept DEF AllKept
  <2>3. QED
    BY <1>1, <1>2, <1>3, <2>2, StatusFades, EndMapped DEF Mapped
<1>6. QED
  BY <1>4, <1>5

LEMMA SameRowless ==
    ASSUME Rowless, \A s \in SessionId : Same(s)
    PROVE  Rowless'
BY DEF Rowless, Same

LEMMA SelectMapped ==
    ASSUME FInv, NEW q \in Request, RegisterSelect(q), Observe, Track
    PROVE  Mapped /\ Rowless'
<1>1. TInv /\ Rowless
  BY DEF FInv, IInv
<1>2. \A s \in SessionId : Same(s)
  BY <1>1, RegisterSelects
<1>3. NothingEnds
  BY <1>2, StatusSame DEF NothingEnds
<1>4. AllKept
  BY ServingKept DEF RegisterSelect, Continue, Resolving
<1>5. QED
  BY <1>1, <1>2, <1>3, <1>4, StutterMapped, SameRowless DEF Mapped

LEMMA NextMapped ==
    ASSUME ~IdsRepeat, FInv, Next
    PROVE  Mapped /\ Rowless'
<1>1. CASE Environment
  BY <1>1, EnvironmentMapped DEF Next
<1>2. ASSUME NEW q \in Request, Arrive(q)
      PROVE  Mapped /\ Rowless'
  BY <1>2, ArriveMapped, ArriveSame, SameRowless DEF Next, FInv, IInv
<1>3. ASSUME NEW q \in Request, Continue(q) \/ Abort(q)
      PROVE  Mapped /\ Rowless'
  <2>1. CASE req[q].pc \in Resolving
    BY <1>3, <2>1, ResolvingMapped, ResolvingSame, SameRowless DEF Next, FInv, IInv
  <2>2. CASE req[q].pc \in Registering /\ ~RegisterSelect(q)
    BY <1>3, <2>2, RegisterMapped DEF Next
  <2>3. CASE \E x \in SessionId : Create(q, x)
    BY <2>3, CreateMapped DEF Next
  <2>4. CASE RegisterSelect(q)
    BY <2>4, SelectMapped DEF Next
  <2>5. QED
    BY <1>3, <2>1, <2>2, <2>3, <2>4, ServeMapped DEF Next
<1>4. QED
  BY <1>1, <1>2, <1>3 DEF Next

LEMMA FInvInit == Init => FInv
<1>1. Init => Rowless /\ Blind
  BY DEF Init, Rowless, Blind
<1>2. Init => OneOwner
  BY RInvInit DEF RInv
<1>3. QED
  BY <1>1, <1>2, IInvInit DEF FInv

LEMMA FInvNext ==
    ASSUME ~IdsRepeat, FInv, [Next]_vars
    PROVE  FInv'
<1>1. IInv'
  BY IInvNext DEF FInv
<1>2. CASE Next
  BY <1>1, <1>2, OwnerStep, NextMapped, BlindStep DEF FInv, IInv
<1>3. CASE UNCHANGED vars
  BY <1>1, <1>3 DEF vars, FInv, OneOwner, Keyed, Rowless, Enrolling, Blind, Granted
<1>4. QED
  BY <1>2, <1>3

LEMMA InitMapped == Init => Authority!Init
<1> SUFFICES ASSUME Init
             PROVE  Authority!Init
  OBVIOUS
<1>1. \A r \in Request : req[r].pc = "idle" /\ req[r].answer = "NONE" /\ evidence[r] = {}
  BY DEF Init, Idle, Done
<1>2. ASSUME NEW r \in Request
      PROVE  Asked(r) = None /\ Seen(r) = FALSE /\ Granted(r) = FALSE
  <2>1. Asked(r) = None
    BY <1>1 DEF Asked, Resolving
  <2>2. Seen(r) = FALSE
    BY <1>1 DEF Seen
  <2>3. Granted(r) = FALSE
    BY <1>1 DEF Granted
  <2>4. QED
    BY <2>1, <2>2, <2>3
<1>3. \A s \in SessionId : Status(s) = "unborn"
  BY DEF Init, Status
<1>4. [r \in Request |-> Granted(r)] = [r \in Request |-> FALSE]
  BY <1>2, Zenon
<1>5. [r \in Request |-> Seen(r)] = [r \in Request |-> FALSE]
  BY <1>2, Zenon
<1>6. [r \in Request |-> Asked(r)] = [r \in Request |-> None]
  BY <1>2
<1>7. QED
  BY <1>3, <1>4, <1>5, <1>6 DEF Authority!Init, Asked, Seen, Granted

(* With fresh session ids, everything the two stores, the requests at      *)
(* their awaits, the failures and the restarts of BackendSession do is     *)
(* what SessionAuthority promises: a session is opened, goes live and ends *)
(* once, and only those who asked while it was live are granted access.    *)
THEOREM OneLifePerSession ==
    ASSUME ~IdsRepeat
    PROVE  Spec => ImplementsAuthority
<1>1. FInv /\ [Next]_vars => FInv'
  BY FInvNext
<1>2. FInv /\ [Next]_vars => [Authority!Next]_(Authority!vars)
  <2>1. ASSUME FInv, Next
        PROVE  [Authority!Next]_(Authority!vars)
    BY <2>1, NextMapped DEF Mapped
  <2>2. ASSUME UNCHANGED vars
        PROVE  UNCHANGED Authority!vars
    BY <2>2 DEF vars, Authority!vars, Status, Live, Expired, RowActive
  <2>3. QED
    BY <2>1, <2>2
<1>3. QED
  BY <1>1, <1>2, FInvInit, InitMapped, PTL DEF Spec, ImplementsAuthority, Authority!Spec
=============================================================================
