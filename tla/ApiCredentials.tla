--------------------------- MODULE ApiCredentials ---------------------------
(***************************************************************************)
(* API credentials of gomazon_webasyst: authorization codes and access     *)
(* tokens, as IssueAuthorizationCode, ExchangeAuthorizationCode,           *)
(* IssueImplicitApiAccessToken, ResolveApiAccessToken and                  *)
(* RevokeApiAccessToken keep them in wa_api_auth_codes and wa_api_tokens.  *)
(*                                                                         *)
(* Every use case is one transaction and every statement of it one step;   *)
(* between two steps other requests run theirs.  A transaction reads what  *)
(* is committed, or the snapshot of its first read (what MySQL does unless *)
(* told otherwise), and it writes to the rows as they are committed now:   *)
(* a row another transaction has written is locked until that one ends.    *)
(***************************************************************************)
EXTENDS Naturals, FiniteSets

CONSTANTS
    Request,       \* requests that may be served at one time
    Subject,       \* contact ids
    Client,        \* OAuth client ids
    Scope,         \* approved scopes
    Code,          \* values of the authorization code generator
    Token,         \* values of the access token generator
    Lifetime,      \* lifetime of a code, in clock ticks
    Horizon,       \* bound: the clock stops here
    MaxAttempts,   \* max_generation_attempts of IssueAuthorizationCode
    Isolations,    \* levels the database may run at
    Dispositions,  \* policies an exchange may have for its code
    Repeat,        \* TRUE: a generator may return a value again
    None           \* no row

Row == [subject : Subject, client : Client, scope : Scope]
CodeRow == [subject : Subject, client : Client, scope : Scope, expires : Nat]

ASSUME BoundsAssumption ==
    Lifetime \in Nat /\ Horizon \in Nat /\ MaxAttempts \in Nat \ {0}
ASSUME ModesAssumption ==
    /\ Isolations \subseteq {"committed", "snapshot"}
    /\ Dispositions \subseteq {"keep", "consume"}
    /\ Repeat \in BOOLEAN
ASSUME AbsenceAssumption ==
    /\ None \notin Row /\ None \notin CodeRow
    /\ None \notin Subject /\ None \notin Client /\ None \notin Scope
    /\ None \notin Code /\ None \notin Token

VARIABLES
    isolation,  \* the level the database runs at
    policy,     \* AuthorizationCodeExchangePolicy.disposition()
    now,        \* the clock
    codes,      \* committed rows of wa_api_auth_codes
    tokens,     \* committed rows of wa_api_tokens
    req,        \* the requests: where they are, their locals
    view,       \* the snapshot of each transaction, None if it has none
    written,    \* rows each transaction has written and not committed
    minted,     \* history: token and code values generated so far
    delivered,  \* history: tokens some client was given
    held        \* history: token and scope of its subject and client, per request

vars == <<isolation, policy, now, codes, tokens, req, view, written,
          minted, delivered, held>>

Blank == [pc |-> "idle", op |-> "none", answer |-> "NONE", subject |-> None, client |-> None,
          scope |-> None, code |-> None, token |-> None, tries |-> 0, expires |-> 0]
NothingWritten == [codes |-> {}, tokens |-> {}]

Init ==
    /\ isolation \in Isolations
    /\ policy \in Dispositions
    /\ now = 0
    /\ codes = [k \in Code |-> None]
    /\ tokens = [t \in Token |-> None]
    /\ req = [r \in Request |-> Blank]
    /\ view = [r \in Request |-> None]
    /\ written = [r \in Request |-> NothingWritten]
    /\ minted = {}
    /\ delivered = {}
    /\ held = [r \in Request |-> {}]

-----------------------------------------------------------------------------
(* The database: reads, locks and the unique index. *)

Committed == [codes |-> codes, tokens |-> tokens]

(* What a statement of r reads; the first read of a transaction decides.   *)
Seen(r) == IF view[r] = None THEN Committed ELSE view[r]
Look(r) == view' = IF isolation = "snapshot" THEN [view EXCEPT ![r] = Seen(r)] ELSE view

IsFor(row, s, c) == row # None /\ row.subject = s /\ row.client = c

(* find_for_subject_client: the unique index allows one row at most. *)
Found(r, t) == IsFor(Seen(r).tokens[t], req[r].subject, req[r].client)
NoneFound(r) == \A t \in Token : ~Found(r, t)

CodeLocked(r, k) == \E q \in Request \ {r} : \E w \in written[q].codes : w[1] = k
TokenLocked(r, t) == \E q \in Request \ {r} : \E w \in written[q].tokens : w[1] = t

(* Another transaction has inserted or deleted a row of this index entry.  *)
PairLocked(r, s, c) ==
    \E q \in Request \ {r} : \E w \in written[q].tokens :
        \/ IsFor(w[2], s, c)
        \/ w[2] = None /\ IsFor(tokens[w[1]], s, c)

WriteToken(r, t, row) ==
    written' = [written EXCEPT ![r].tokens = @ \cup {<<t, row>>}]
WriteCode(r, k, row) ==
    written' = [written EXCEPT ![r].codes = @ \cup {<<k, row>>}]

Goto(r, p) == req' = [req EXCEPT ![r].pc = p]

(* A request ends without a commit: the unit of work rolls back. *)
Reject(r, answer) ==
    /\ req' = [req EXCEPT ![r] = [Blank EXCEPT !.op = req[r].op, !.answer = answer,
                                               !.token = req[r].token]]
    /\ written' = [written EXCEPT ![r] = NothingWritten]
    /\ view' = [view EXCEPT ![r] = None]

Tables == <<codes, tokens>>
Mode == <<isolation, policy>>

-----------------------------------------------------------------------------
(* Issuing an authorization code. *)

IssueCode(r, s, c, sc) ==
    /\ req[r].pc = "idle"
    /\ req' = [req EXCEPT ![r] = [Blank EXCEPT !.pc = "make_code", !.op = "code",
                                  !.subject = s, !.client = c, !.scope = sc,
                                  !.expires = now + Lifetime]]
    /\ UNCHANGED <<Mode, now, Tables, view, written, minted, delivered>>

Fresh(v) == Repeat \/ v \notin minted

(* The row is inserted, or the value is taken and the attempt is lost.     *)
Inserted(r, k) ==
    /\ codes[k] = None
    /\ WriteCode(r, k, [subject |-> req[r].subject, client |-> req[r].client,
                        scope |-> req[r].scope, expires |-> req[r].expires])
    /\ req' = [req EXCEPT ![r].pc = "commit", ![r].code = k]
    /\ UNCHANGED view

(* Fault: the loop goes on for as long as it takes. *)
LostForever(r, k) ==
    /\ codes[k] # None
    /\ UNCHANGED <<req, view, written>>

Lost(r, k) ==
    /\ codes[k] # None
    /\ IF req[r].tries + 1 < MaxAttempts
       THEN /\ req' = [req EXCEPT ![r].tries = @ + 1]
            /\ UNCHANGED <<view, written>>
       ELSE Reject(r, "COLLISION")

(* One round of the generation loop.                                       *)
MakeCode(r, k) ==
    /\ req[r].pc = "make_code"
    /\ Fresh(k)
    /\ ~CodeLocked(r, k)
    /\ Inserted(r, k) \/ Lost(r, k)
    /\ minted' = minted \cup {k}
    /\ UNCHANGED <<Mode, now, Tables, delivered>>

-----------------------------------------------------------------------------
(* Issuing an access token: for a code, or implicitly. *)

(* ExchangeAuthorizationCode up to the issuer: the code is read, then the  *)
(* client and the clock are compared; a code at its very expiry is valid.  *)
(* The client presented may be any, None standing for those not in Client. *)
ExchangeCode(r, k, c) ==
    /\ req[r].pc = "idle"
    /\ k \in minted
    /\ LET row == Seen(r).codes[k]
           refused(answer) ==
               /\ req' = [req EXCEPT ![r] = [Blank EXCEPT !.op = "exchange", !.answer = answer]]
               /\ UNCHANGED view
       IN  \/ row = None /\ refused("NOT_FOUND")
           \/ row # None /\ row.client # c /\ refused("CLIENT_MISMATCH")
           \/ row # None /\ row.client = c /\ row.expires < now /\ refused("EXPIRED")
           \/ /\ row # None /\ row.client = c /\ ~(row.expires < now)
              /\ Look(r)
              /\ req' = [req EXCEPT ![r] = [Blank EXCEPT !.pc = "find", !.op = "exchange",
                                            !.subject = row.subject, !.client = c,
                                            !.scope = row.scope, !.code = k]]
    /\ UNCHANGED <<Mode, now, Tables, written, minted, delivered>>

IssueImplicit(r, s, c, sc) ==
    /\ req[r].pc = "idle"
    /\ req' = [req EXCEPT ![r] = [Blank EXCEPT !.pc = "find", !.op = "implicit",
                                  !.subject = s, !.client = c, !.scope = sc]]
    /\ UNCHANGED <<Mode, now, Tables, view, written, minted, delivered>>

(* What follows once the token is issued: the policy on the code, if any.  *)
Afterwards(r) == IF req[r].op = "exchange" /\ policy = "consume" THEN "consume" ELSE "commit"
Issued(r, t) == req' = [req EXCEPT ![r].pc = Afterwards(r), ![r].token = t]

(* _reuse: a token with that scope is issued as it is, else it gets it.    *)
Reuse(r, t) ==
    IF Seen(r).tokens[t].scope = req[r].scope
    THEN Issued(r, t)
    ELSE req' = [req EXCEPT ![r].pc = "update", ![r].token = t]

Find(r) ==
    /\ req[r].pc = "find"
    /\ Look(r)
    /\ \/ \E t \in Token : Found(r, t) /\ Reuse(r, t)
       \/ NoneFound(r) /\ Goto(r, "insert")
    /\ UNCHANGED <<Mode, now, Tables, written, minted, delivered>>

(* update_scope reads the row again: gone, it is created; with that scope  *)
(* already, there is nothing to write.                                     *)
Update(r) ==
    /\ req[r].pc = "update"
    /\ Look(r)
    /\ LET row == Seen(r).tokens[req[r].token]
       IN  \/ row = None /\ Goto(r, "insert")
           \/ row # None /\ row.scope = req[r].scope /\ Issued(r, req[r].token)
           \/ row # None /\ row.scope # req[r].scope /\ Goto(r, "update_write")
    /\ UNCHANGED <<Mode, now, Tables, written, minted, delivered>>

(* Fault: an update that found no row passes for done. *)
UpdateWriteUnmatched(r) ==
    /\ req[r].pc = "update_write"
    /\ ~TokenLocked(r, req[r].token)
    /\ IF tokens[req[r].token] = None
       THEN UNCHANGED written
       ELSE WriteToken(r, req[r].token, [tokens[req[r].token] EXCEPT !.scope = req[r].scope])
    /\ Issued(r, req[r].token)
    /\ UNCHANGED <<Mode, now, Tables, view, minted, delivered>>

(* The flush of the update: the ORM raises when it matches no row.         *)
UpdateWrite(r) ==
    /\ req[r].pc = "update_write"
    /\ ~TokenLocked(r, req[r].token)
    /\ IF tokens[req[r].token] = None
       THEN Reject(r, "STALE_DATA_ERROR")
       ELSE /\ WriteToken(r, req[r].token, [tokens[req[r].token] EXCEPT !.scope = req[r].scope])
            /\ Issued(r, req[r].token)
            /\ UNCHANGED view
    /\ UNCHANGED <<Mode, now, Tables, minted, delivered>>

(* Fault: no unique index on subject and client. *)
TakenByValue(r, t) == tokens[t] # None

(* The two constraints of wa_api_tokens an insert may violate.             *)
Taken(r, t) ==
    \/ tokens[t] # None
    \/ \E u \in Token : IsFor(tokens[u], req[r].subject, req[r].client)

(* The insert, in a savepoint: it waits for others that are inserting or   *)
(* deleting the same entry, then succeeds or violates a constraint.        *)
Insert(r, t) ==
    /\ req[r].pc = "insert"
    /\ Fresh(t)
    /\ ~TokenLocked(r, t)
    /\ ~PairLocked(r, req[r].subject, req[r].client)
    /\ IF Taken(r, t)
       THEN /\ req' = [req EXCEPT ![r].pc = "classify", ![r].token = t]
            /\ UNCHANGED written
       ELSE /\ WriteToken(r, t, [subject |-> req[r].subject, client |-> req[r].client,
                                 scope |-> req[r].scope])
            /\ Issued(r, t)
    /\ minted' = minted \cup {t}
    /\ UNCHANGED <<Mode, now, Tables, view, delivered>>

(* Which constraint it was is read back: first the subject and client...   *)
Classify(r) ==
    /\ req[r].pc = "classify"
    /\ Look(r)
    /\ Goto(r, IF NoneFound(r) THEN "classify_value" ELSE "winner")
    /\ UNCHANGED <<Mode, now, Tables, written, minted, delivered>>

(* ... then the value; if neither row is there the error is raised again.  *)
ClassifyValue(r) ==
    /\ req[r].pc = "classify_value"
    /\ Reject(r, IF Seen(r).tokens[req[r].token] # None THEN "TOKEN_COLLISION"
                                                       ELSE "INTEGRITY_ERROR")
    /\ UNCHANGED <<Mode, now, Tables, minted, delivered>>

(* The issuer looks for the token that was there first.                    *)
Winner(r) ==
    /\ req[r].pc = "winner"
    /\ \/ /\ \E t \in Token : Found(r, t) /\ Reuse(r, t)
          /\ Look(r)
          /\ UNCHANGED written
       \/ /\ NoneFound(r)
          /\ Reject(r, "CONCURRENT_STATE_CHANGED")
    /\ UNCHANGED <<Mode, now, Tables, minted, delivered>>

(* ConsumeAuthorizationCode: the code is read again, then deleted; a       *)
(* delete that finds its row gone is no error.                             *)
Consume(r) ==
    /\ req[r].pc = "consume"
    /\ \/ /\ Seen(r).codes[req[r].code] = None
          /\ Reject(r, "CODE_STATE_CHANGED")
       \/ /\ Seen(r).codes[req[r].code] # None
          /\ Goto(r, "consume_write")
          /\ Look(r)
          /\ UNCHANGED written
    /\ UNCHANGED <<Mode, now, Tables, minted, delivered>>

ConsumeWrite(r) ==
    /\ req[r].pc = "consume_write"
    /\ ~CodeLocked(r, req[r].code)
    /\ IF codes[req[r].code] = None THEN UNCHANGED written
                                    ELSE WriteCode(r, req[r].code, None)
    /\ Goto(r, "commit")
    /\ UNCHANGED <<Mode, now, Tables, view, minted, delivered>>

-----------------------------------------------------------------------------
(* Using and revoking an access token.  Tokens this program issues never   *)
(* expire (WebasystApiTokenIssuePolicy.for_missing).                       *)

Begin(r, op, t, point, missing) ==
    /\ req[r].pc = "idle"
    /\ t \in delivered
    /\ IF Seen(r).tokens[t] = None
       THEN /\ req' = [req EXCEPT ![r] = [Blank EXCEPT !.op = op, !.answer = missing,
                                                       !.token = t]]
            /\ UNCHANGED view
       ELSE /\ req' = [req EXCEPT ![r] = [Blank EXCEPT !.pc = point, !.op = op, !.token = t]]
            /\ Look(r)
    /\ UNCHANGED <<Mode, now, Tables, written, minted, delivered>>

ResolveToken(r, t) == Begin(r, "resolve", t, "touch", "MISSING")
RevokeToken(r, t) == Begin(r, "revoke", t, "revoke_write", "ALREADY_MISSING")

(* touch_last_use reads the row again before it writes.                    *)
Touch(r) ==
    /\ req[r].pc = "touch"
    /\ \/ /\ Seen(r).tokens[req[r].token] = None
          /\ Reject(r, "CONCURRENT_STATE_CHANGED")
       \/ /\ Seen(r).tokens[req[r].token] # None
          /\ Goto(r, "touch_write")
          /\ Look(r)
          /\ UNCHANGED written
    /\ UNCHANGED <<Mode, now, Tables, minted, delivered>>

(* Fault: a touch that found no row passes for done. *)
TouchWriteUnmatched(r) ==
    /\ req[r].pc = "touch_write"
    /\ ~TokenLocked(r, req[r].token)
    /\ Goto(r, "commit")
    /\ UNCHANGED <<Mode, now, Tables, view, written, minted, delivered>>

(* Fault: a touch writes the row it has read, there or not. *)
TouchWriteUpserts(r) ==
    /\ req[r].pc = "touch_write"
    /\ ~TokenLocked(r, req[r].token)
    /\ WriteToken(r, req[r].token, Seen(r).tokens[req[r].token])
    /\ Goto(r, "commit")
    /\ UNCHANGED <<Mode, now, Tables, view, minted, delivered>>

(* The flush of the touch: as for the scope, it must match its row.        *)
TouchWrite(r) ==
    /\ req[r].pc = "touch_write"
    /\ ~TokenLocked(r, req[r].token)
    /\ IF tokens[req[r].token] = None
       THEN Reject(r, "STALE_DATA_ERROR")
       ELSE /\ WriteToken(r, req[r].token, tokens[req[r].token])
            /\ Goto(r, "commit")
            /\ UNCHANGED view
    /\ UNCHANGED <<Mode, now, Tables, minted, delivered>>

RevokeWrite(r) ==
    /\ req[r].pc = "revoke_write"
    /\ ~TokenLocked(r, req[r].token)
    /\ IF tokens[req[r].token] = None THEN UNCHANGED written
                                      ELSE WriteToken(r, req[r].token, None)
    /\ Goto(r, "commit")
    /\ UNCHANGED <<Mode, now, Tables, view, minted, delivered>>

-----------------------------------------------------------------------------
(* Commits, failures and time. *)

Apply(r) ==
    /\ tokens' = [t \in Token |->
                    IF \E w \in written[r].tokens : w[1] = t
                    THEN (CHOOSE w \in written[r].tokens : w[1] = t)[2] ELSE tokens[t]]
    /\ codes' = [k \in Code |->
                   IF \E w \in written[r].codes : w[1] = k
                   THEN (CHOOSE w \in written[r].codes : w[1] = k)[2] ELSE codes[k]]

Leave(r, answer) ==
    /\ req' = [req EXCEPT ![r] = [Blank EXCEPT !.op = req[r].op, !.answer = answer,
                                  !.scope = req[r].scope, !.code = req[r].code,
                                  !.token = req[r].token]]
    /\ written' = [written EXCEPT ![r] = NothingWritten]
    /\ view' = [view EXCEPT ![r] = None]

Commit(r) ==
    /\ req[r].pc = "commit"
    /\ Apply(r)
    /\ Leave(r, "SERVED")
    /\ delivered' = delivered \cup
                     (IF req[r].op \in {"exchange", "implicit"} THEN {req[r].token} ELSE {})
    /\ UNCHANGED <<Mode, now, minted>>

(* A request fails or is cancelled: it is rolled back, unless the commit   *)
(* it was waiting for did take effect.                                     *)
Abort(r) ==
    /\ req[r].pc # "idle"
    /\ Reject(r, "ERROR")
    /\ \/ UNCHANGED Tables
       \/ req[r].pc = "commit" /\ Apply(r)
    /\ UNCHANGED <<Mode, now, minted, delivered>>

Tick ==
    /\ now < Horizon
    /\ now' = now + 1
    /\ UNCHANGED <<Mode, Tables, req, view, written, minted, delivered>>

-----------------------------------------------------------------------------
Issuing == {"exchange", "implicit"}

(* What the token of r's subject and client was while r was served.        *)
Now(r) ==
    {<<t, tokens[t].scope>> : t \in {u \in Token : IsFor(tokens[u], req[r].subject, req[r].client)}}

Observe ==
    held' = [r \in Request |->
               IF req'[r].pc # "idle" /\ req'[r].op \in Issuing
               THEN (IF req[r].pc = "idle" THEN {} ELSE held[r]) \cup Now(r)'
               ELSE IF req'[r].answer = "SERVED" /\ req'[r].op \in Issuing
                    THEN IF req[r].pc = "idle" THEN held[r]
                         ELSE {<<req[r].token, req[r].scope>>} \cap
                              (held[r] \cup
                               {<<t, tokens'[t].scope>> :
                                   t \in {u \in Token : IsFor(tokens'[u], req[r].subject,
                                                                req[r].client)}})
                    ELSE {}]

Arrive(r) ==
    \/ \E s \in Subject, c \in Client, sc \in Scope :
           IssueCode(r, s, c, sc) \/ IssueImplicit(r, s, c, sc)
    \/ \E k \in Code, c \in Client \cup {None} : ExchangeCode(r, k, c)
    \/ \E t \in Token : ResolveToken(r, t) \/ RevokeToken(r, t)

Continue(r) ==
    \/ \E k \in Code : MakeCode(r, k)
    \/ Find(r) \/ Update(r) \/ UpdateWrite(r)
    \/ \E t \in Token : Insert(r, t)
    \/ Classify(r) \/ ClassifyValue(r) \/ Winner(r)
    \/ Consume(r) \/ ConsumeWrite(r)
    \/ Touch(r) \/ TouchWrite(r) \/ RevokeWrite(r)
    \/ Commit(r)

Next ==
    /\ \/ \E r \in Request : Arrive(r) \/ Continue(r) \/ Abort(r)
       \/ Tick
    /\ Observe

Spec == Init /\ [][Next]_vars

(* The event loop runs every ready task, and the database grants a row     *)
(* lock to those who wait for it in turn: nobody waits for a lock forever  *)
(* that is free again and again.                                           *)
FairSpec == Spec /\ \A r \in Request : SF_vars(Continue(r) /\ Observe)

-----------------------------------------------------------------------------
(* Properties. *)

Answered(r, op, answers) ==
    req[r].pc = "idle" /\ req[r].op = op /\ req[r].answer \in answers

(* However first issues for a contact and a client interleave, across      *)
(* codes and implicit grants, two tokens are never committed for the pair. *)
OneTokenPerClient ==
    \A t, u \in Token :
        tokens[t] # None /\ IsFor(tokens[u], tokens[t].subject, tokens[t].client) => t = u

(* A token is issued with a scope only if, at some moment while the        *)
(* request was served, the database held that token for that contact and   *)
(* client with exactly that scope: whatever other issues, scope updates    *)
(* and revocations were committed between its statements.                  *)
IssuedAsRecorded ==
    \A r \in Request :
        req[r].pc = "idle" /\ req[r].op \in Issuing /\ req[r].answer = "SERVED"
            => <<req[r].token, req[r].scope>> \in held[r]

(* After a revocation has answered, no transaction that had read the token *)
(* before, to touch it or to change its scope, brings it back.             *)
GoneForGood ==
    \A r \in Request :
        Answered(r, "revoke", {"SERVED", "ALREADY_MISSING"})
            => tokens[req[r].token] = None

(* A resolution is committed only while its token is there: it accepts no  *)
(* token whose revocation was committed before its own commit.             *)
ResolvedWhileThere ==
    [][\A r \in Request :
          req[r].op = "resolve" /\ req[r].pc = "commit" /\ req'[r].answer = "SERVED"
              => tokens[req[r].token] # None]_vars

(* Every request is answered: the generation loop is bounded, collisions   *)
(* are resolved in a bounded number of reads, and row locks are released.  *)
EveryoneIsAnswered == \A r \in Request : req[r].pc # "idle" ~> req[r].pc = "idle"

(* With a policy that consumes codes, one code is exchanged once.          *)
ConsumedOnce ==
    policy = "consume" =>
        \A r, q \in Request :
            /\ Answered(r, "exchange", {"SERVED"})
            /\ Answered(q, "exchange", {"SERVED"})
            /\ req[r].code = req[q].code
            => r = q

(* An issue that lost the race for a contact and a client to a token that  *)
(* is there reloads that token: the constraint error is not raised.        *)
CollisionReloaded ==
    [][\A r \in Request :
          req[r].pc = "classify_value" /\ req'[r].answer = "INTEGRITY_ERROR"
              => \A t \in Token : ~IsFor(tokens[t], req[r].subject, req[r].client)]_vars
=============================================================================
