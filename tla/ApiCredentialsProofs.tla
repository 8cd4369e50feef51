------------------------ MODULE ApiCredentialsProofs ------------------------
(***************************************************************************)
(* Proofs about ApiCredentials, for every number of requests, contacts,    *)
(* clients, scopes, codes and tokens, at either isolation level and with   *)
(* either policy for exchanged codes.                                      *)
(***************************************************************************)
EXTENDS ApiCredentials, TLAPS

USE BoundsAssumption, AbsenceAssumption

Writers == {"update_write", "insert", "touch_write", "revoke_write"}
Issuers == {"find", "update", "update_write", "insert", "classify", "classify_value", "winner",
            "consume", "consume_write"}
Written == {"consume", "consume_write", "commit"}
Points == {"idle", "make_code", "touch", "touch_write", "revoke_write", "commit"} \cup Issuers
Operations == {"none", "code", "exchange", "implicit", "resolve", "revoke"}
Answers == {"NONE", "COLLISION", "NOT_FOUND", "CLIENT_MISMATCH", "EXPIRED", "STALE_DATA_ERROR",
            "TOKEN_COLLISION", "INTEGRITY_ERROR", "CONCURRENT_STATE_CHANGED",
            "CODE_STATE_CHANGED", "MISSING", "ALREADY_MISSING", "SERVED", "ERROR"}

TokenRow == Row \cup {None}
Local == [pc : Points, op : Operations, answer : Answers,
          subject : Subject \cup {None}, client : Client \cup {None},
          scope : Scope \cup {None}, code : Code \cup {None},
          token : Token \cup {None}, tries : Nat, expires : Nat]
Writes == [codes : SUBSET (Code \X (CodeRow \cup {None})), tokens : SUBSET (Token \X TokenRow)]
Snapshot == [codes : [Code -> CodeRow \cup {None}], tokens : [Token -> TokenRow]]

(* A request knows what its code has set: whom it issues for, or the token *)
(* it is about.                                                            *)
LocalsOK ==
    \A r \in Request :
        /\ req[r].pc = "make_code" => req[r].op = "code"
        /\ req[r].pc \in Issuers =>
              /\ req[r].op \in Issuing
              /\ req[r].op = "exchange" => req[r].code \in Code
        /\ req[r].pc \in {"consume", "consume_write"} => req[r].op = "exchange"
        /\ req[r].pc \in {"touch", "touch_write"} => req[r].op = "resolve"
        /\ req[r].pc = "revoke_write" => req[r].op = "revoke"
        /\ req[r].pc = "commit" => req[r].op # "none"
        /\ req[r].pc # "idle" /\ req[r].op \in Issuing \cup {"code"} =>
              /\ req[r].subject \in Subject
              /\ req[r].client \in Client
              /\ req[r].scope \in Scope
        /\ req[r].pc \notin {"idle", "make_code", "find", "insert"} /\ req[r].op # "code" =>
              req[r].token \in Token

TypeOK ==
    /\ codes \in [Code -> CodeRow \cup {None}]
    /\ tokens \in [Token -> TokenRow]
    /\ now \in Nat
    /\ req \in [Request -> Local]
    /\ view \in [Request -> Snapshot \cup {None}]
    /\ written \in [Request -> Writes]

TInv == TypeOK /\ LocalsOK

-----------------------------------------------------------------------------
(* Rows written and not yet committed. *)

(* A transaction that is not about to end has written no token; it never   *)
(* writes two, and no two transactions have written the same one.          *)
WrittenOnce ==
    \A r \in Request :
        /\ req[r].pc \notin Written => written[r].tokens = {}
        /\ \A w, v \in written[r].tokens : w = v
        /\ \A q \in Request \ {r} :
              \A w \in written[r].tokens, v \in written[q].tokens : w[1] # v[1]

(* A written row is for a contact and a client no other token has, now or  *)
(* in another transaction; a row that is there keeps its contact and       *)
(* client.                                                                 *)
WritesApart ==
    \A r \in Request : \A w \in written[r].tokens :
        w[2] # None =>
            /\ \A u \in Token : IsFor(tokens[u], w[2].subject, w[2].client) => u = w[1]
            /\ tokens[w[1]] # None => IsFor(tokens[w[1]], w[2].subject, w[2].client)
            /\ \A q \in Request \ {r} : \A v \in written[q].tokens :
                  ~IsFor(v[2], w[2].subject, w[2].client)

(* A resolution about to commit holds the lock on its token's row.         *)
ResolvingLocked ==
    \A r \in Request :
        req[r].op = "resolve" /\ req[r].pc = "commit" =>
            /\ tokens[req[r].token] # None
            /\ \E w \in written[r].tokens : w[1] = req[r].token

TableInv == TInv /\ WrittenOnce /\ WritesApart /\ OneTokenPerClient /\ ResolvingLocked

-----------------------------------------------------------------------------
(* When no generated value repeats. *)

(* Before it is minted nobody has heard of a token.                        *)
Unheard ==
    \A t \in Token : t \notin minted =>
        /\ tokens[t] = None /\ t \notin delivered
        /\ \A r \in Request : /\ req[r].token # t
                              /\ view[r] # None => view[r].tokens[t] = None
                              /\ \A w \in written[r].tokens : w[1] # t

(* Nor has anybody but its transaction while its row is only inserted.     *)
Inserting ==
    \A r \in Request : \A w \in written[r].tokens :
        w[2] # None /\ tokens[w[1]] = None =>
            /\ w[1] \notin delivered
            /\ \A q \in Request \ {r} : req[q].token # w[1]
            /\ \A q \in Request : view[q] # None => view[q].tokens[w[1]] = None

(* A request that is not served reads what is committed.                   *)
IdleUnread == \A r \in Request : req[r].pc = "idle" => view[r] = None

Revoking ==
    \A r \in Request : req[r].op = "revoke" =>
        /\ req[r].pc \in {"revoke_write", "commit"} => req[r].token \in delivered
        /\ req[r].pc = "commit" =>
              <<req[r].token, None>> \in written[r].tokens \/ tokens[req[r].token] = None
        /\ req[r].pc = "idle" /\ req[r].answer \in {"SERVED", "ALREADY_MISSING"} =>
              /\ req[r].token \in Token \cap delivered
              /\ tokens[req[r].token] = None

GoneInv == TableInv /\ Unheard /\ Inserting /\ IdleUnread /\ Revoking

(* A token that a snapshot knows has kept its contact and client.          *)
SamePair(row, old) == IsFor(row, old.subject, old.client)
SnapshotsAgree ==
    \A r \in Request : view[r] # None =>
        \A t \in Token :
            view[r].tokens[t] # None /\ tokens[t] # None => SamePair(tokens[t], view[r].tokens[t])

ForRequest(r, row) == IsFor(row, req[r].subject, req[r].client)

(* The token whose scope is to be updated is the request's, if it is there.*)
UpdatesItsOwn ==
    \A r \in Request : req[r].pc \in {"update", "update_write"} =>
        /\ tokens[req[r].token] # None => ForRequest(r, tokens[req[r].token])
        /\ view[r] # None /\ view[r].tokens[req[r].token] # None =>
              ForRequest(r, view[r].tokens[req[r].token])

(* What a snapshot shows was so while the request was served. *)
SnapshotsSeen ==
    \A r \in Request : req[r].pc # "idle" /\ req[r].op \in Issuing /\ view[r] # None =>
        \A t \in Token : ForRequest(r, view[r].tokens[t]) =>
            <<t, view[r].tokens[t].scope>> \in held[r]

(* What is issued was so too, or is about to be. *)
IssuedOrWritten ==
    \A r \in Request : req[r].pc \in Written /\ req[r].op \in Issuing =>
        \/ <<req[r].token, req[r].scope>> \in held[r]
        \/ \E w \in written[r].tokens : /\ w[1] = req[r].token
                                        /\ ForRequest(r, w[2])
                                        /\ w[2].scope = req[r].scope

RecordInv == GoneInv /\ SnapshotsAgree /\ UpdatesItsOwn /\ SnapshotsSeen /\ IssuedOrWritten
                     /\ IssuedAsRecorded

-----------------------------------------------------------------------------
(* Typing.                                                                 *)

LEMMA BlankTyped == Blank \in Local
BY DEF Blank, Local, Points, Operations, Answers

LEMMA TypeInit == Init => TInv
<1> SUFFICES ASSUME Init
             PROVE  TInv
  OBVIOUS
<1>1. NothingWritten \in Writes
  BY DEF NothingWritten, Writes
<1>2. TypeOK
  BY BlankTyped, <1>1 DEF Init, TypeOK, TokenRow
<1>3. LocalsOK
  BY DEF Init, LocalsOK, Blank, Issuers, Issuing
<1>4. QED
  BY <1>2, <1>3 DEF TInv

(* The requests and their locals. *)
Requests ==
    /\ req \in [Request -> Local]
    /\ LocalsOK

(* The transactions under way. *)
Transactions ==
    /\ view \in [Request -> Snapshot \cup {None}]
    /\ written \in [Request -> Writes]

LEMMA TypeReject ==
    ASSUME TInv, NEW r \in Request, NEW a \in Answers, Reject(r, a)
    PROVE  Requests' /\ Transactions'
<1> DEFINE rejected == [Blank EXCEPT !.op = req[r].op, !.answer = a, !.token = req[r].token]
<1>1. /\ req' = [req EXCEPT ![r] = rejected]
      /\ written' = [written EXCEPT ![r] = NothingWritten]
      /\ view' = [view EXCEPT ![r] = None]
  BY DEF Reject
<1>2. req[r] \in Local
  BY DEF TInv, TypeOK
<1>3. rejected \in Local
  BY <1>2, BlankTyped DEF Local
<1>4. NothingWritten \in Writes
  BY DEF NothingWritten, Writes
<1>5. rejected.pc = "idle"
  BY DEF Blank
<1> HIDE DEF rejected
<1>6. LocalsOK'
  <2>1. \A q \in Request \ {r} : req'[q] = req[q]
    BY <1>1 DEF TInv, TypeOK
  <2>2. req'[r].pc = "idle"
    BY <1>1, <1>5 DEF TInv, TypeOK
  <2>3. QED
    BY <2>1, <2>2 DEF TInv, LocalsOK, Issuers
<1>7. QED
  BY <1>1, <1>3, <1>4, <1>6 DEF Requests, Transactions, TInv, TypeOK

LEMMA TypeSeen ==
    ASSUME TInv, NEW r \in Request
    PROVE  Seen(r) \in Snapshot
BY DEF TInv, TypeOK, Seen, Committed, Snapshot

LEMMA TypeLook ==
    ASSUME TInv, NEW r \in Request, Look(r), UNCHANGED written
    PROVE  Transactions'
<1>1. Seen(r) \in Snapshot
  BY TypeSeen
<1>2. QED
  BY <1>1 DEF TInv, TypeOK, Look, Transactions

LEMMA TypeWriteToken ==
    ASSUME TInv, NEW r \in Request, NEW t \in Token, NEW row \in TokenRow,
           WriteToken(r, t, row), UNCHANGED view
    PROVE  Transactions'
<1>1. [written[r] EXCEPT !.tokens = @ \cup {<<t, row>>}] \in Writes
  BY DEF TInv, TypeOK, Writes
<1>2. QED
  BY <1>1 DEF TInv, TypeOK, WriteToken, Transactions

LEMMA TypeWriteCode ==
    ASSUME TInv, NEW r \in Request, NEW k \in Code, NEW row \in CodeRow \cup {None},
           WriteCode(r, k, row), UNCHANGED view
    PROVE  Transactions'
<1>1. [written[r] EXCEPT !.codes = @ \cup {<<k, row>>}] \in Writes
  <2>1. written[r] \in Writes
    BY DEF TInv, TypeOK
  <2>2. <<k, row>> \in Code \X (CodeRow \cup {None})
    OBVIOUS
  <2>3. QED
    BY <2>1, <2>2 DEF Writes
<1>2. QED
  BY <1>1 DEF TInv, TypeOK, WriteCode, Transactions

(* A request moves on, and may have a token from now on. *)
LEMMA TypeMove ==
    ASSUME TInv, NEW r \in Request, req[r].op \in Issuing, req[r].pc # "idle",
           NEW p \in Issuers \cup {"commit"}, NEW t \in Token \cup {None},
           p \notin {"find", "insert"} => t \in Token,
           req[r].op = "exchange" => req[r].code \in Code,
           p \in {"consume", "consume_write"} => req[r].op = "exchange",
           req' = [req EXCEPT ![r].pc = p, ![r].token = t]
    PROVE  Requests'
<1>1. req[r] \in Local /\ req \in [Request -> Local]
  BY DEF TInv, TypeOK
<1>2. /\ req'[r] = [req[r] EXCEPT !.pc = p, !.token = t]
      /\ req' = [req EXCEPT ![r] = req'[r]]
  BY <1>1
<1>3. p \in Points /\ p \notin {"idle", "make_code", "touch", "touch_write", "revoke_write"}
  BY DEF Points, Issuers
<1>4. req'[r] \in Local
  BY <1>1, <1>2, <1>3 DEF Local
<1>5. /\ req'[r].pc = p /\ req'[r].token = t /\ req'[r].op = req[r].op
      /\ req'[r].subject = req[r].subject /\ req'[r].client = req[r].client
      /\ req'[r].scope = req[r].scope /\ req'[r].code = req[r].code
  BY <1>1, <1>2 DEF Local
<1>6. req' \in [Request -> Local]
  BY <1>1, <1>2, <1>4
<1>7. \A q \in Request \ {r} : req'[q] = req[q]
  BY <1>1, <1>2
<1>8. LocalsOK'
  <2>1. req'[r].pc \notin {"idle", "make_code", "touch", "touch_write", "revoke_write"}
    BY <1>3, <1>5
  <2>2. /\ req'[r].op \in Issuing /\ req'[r].op # "none"
        /\ req'[r].subject \in Subject /\ req'[r].client \in Client
        /\ req'[r].scope \in Scope
    BY <1>5 DEF TInv, LocalsOK, Issuing
  <2>3. req'[r].pc \notin {"find", "insert"} => req'[r].token \in Token
    BY <1>5
  <2>4. /\ req'[r].op = "exchange" => req'[r].code \in Code
        /\ req'[r].pc \in {"consume", "consume_write"} => req'[r].op = "exchange"
    BY <1>5
  <2>5. QED
    BY <1>7, <2>1, <2>2, <2>3, <2>4, ZenonT(40) DEF TInv, LocalsOK
<1>9. QED
  BY <1>6, <1>8 DEF Requests

LEMMA TypeKept ==
    ASSUME TInv, UNCHANGED <<codes, tokens, now>>, Requests', Transactions'
    PROVE  TInv'
BY DEF TInv, TypeOK, Requests, Transactions

(* A request that begins, or is over before its first write. *)
LEMMA TypeSet ==
    ASSUME TInv, NEW r \in Request, NEW x \in Local, req' = [req EXCEPT ![r] = x],
           x.pc \notin Issuers \ {"find"},
           x.pc = "make_code" => x.op = "code",
           x.pc = "find" => x.op \in Issuing /\ (x.op = "exchange" => x.code \in Code),
           x.pc \in {"touch", "touch_write"} => x.op = "resolve" /\ x.token \in Token,
           x.pc = "revoke_write" => x.op = "revoke" /\ x.token \in Token,
           x.pc = "commit" => x.op # "none" /\ (x.op # "code" => x.token \in Token),
           x.pc # "idle" /\ x.op \in Issuing \cup {"code"} =>
              x.subject \in Subject /\ x.client \in Client /\ x.scope \in Scope
    PROVE  Requests'
<1>1. req' \in [Request -> Local]
  BY DEF TInv, TypeOK
<1>2. req'[r] = x /\ \A q \in Request \ {r} : req'[q] = req[q]
  BY DEF TInv, TypeOK
<1>3. x.pc \in Points
  BY DEF Local
<1>4. LocalsOK'
  BY <1>2, <1>3 DEF TInv, LocalsOK, Points, Issuers
<1>5. QED
  BY <1>1, <1>4 DEF Requests

LEMMA TypeIssue ==
    ASSUME TInv, NEW r \in Request, NEW s \in Subject, NEW c \in Client, NEW sc \in Scope,
           IssueCode(r, s, c, sc) \/ IssueImplicit(r, s, c, sc)
    PROVE  TInv'
<1>1. CASE IssueCode(r, s, c, sc)
  <2> DEFINE x == [Blank EXCEPT !.pc = "make_code", !.op = "code", !.subject = s,
                                !.client = c, !.scope = sc, !.expires = now + Lifetime]
  <2>1. now + Lifetime \in Nat
    BY DEF TInv, TypeOK
  <2>2. x \in Local
    BY <2>1, BlankTyped DEF Local, Points, Operations
  <2>3. /\ x.pc = "make_code" /\ x.op = "code" /\ x.subject = s /\ x.client = c
        /\ x.scope = sc
    BY DEF Blank
  <2>4. req' = [req EXCEPT ![r] = x]
    BY <1>1 DEF IssueCode
  <2> HIDE DEF x
  <2>5. Requests'
    BY <2>2, <2>3, <2>4, TypeSet DEF Issuers
  <2>6. Transactions'
    BY <1>1 DEF IssueCode, TInv, TypeOK, Transactions
  <2>7. QED
    BY <1>1, <2>5, <2>6, TypeKept DEF IssueCode, Tables
<1>2. CASE IssueImplicit(r, s, c, sc)
  <2> DEFINE x == [Blank EXCEPT !.pc = "find", !.op = "implicit",
                                !.subject = s, !.client = c, !.scope = sc]
  <2>1. x \in Local
    BY BlankTyped DEF Local, Points, Operations, Issuers
  <2>2. /\ x.pc = "find" /\ x.op = "implicit" /\ x.subject = s /\ x.client = c /\ x.scope = sc
    BY DEF Blank
  <2>3. req' = [req EXCEPT ![r] = x]
    BY <1>2 DEF IssueImplicit
  <2> HIDE DEF x
  <2>4. Requests'
    BY <2>1, <2>2, <2>3, TypeSet DEF Issuers, Issuing
  <2>5. Transactions'
    BY <1>2 DEF IssueImplicit, TInv, TypeOK, Transactions
  <2>6. QED
    BY <1>2, <2>4, <2>5, TypeKept DEF IssueImplicit, Tables
<1>3. QED
  BY <1>1, <1>2

LEMMA TypeExchange ==
    ASSUME TInv, NEW r \in Request, NEW k \in Code, NEW c \in Client \cup {None},
           ExchangeCode(r, k, c)
    PROVE  TInv'
<1> DEFINE row == Seen(r).codes[k]
<1>1. row \in CodeRow \cup {None}
  BY TypeSeen DEF Snapshot
<1>2. ASSUME NEW a \in Answers, req' = [req EXCEPT ![r] = [Blank EXCEPT !.op = "exchange", !.answer = a]]
      PROVE  Requests'
  <2> DEFINE x == [Blank EXCEPT !.op = "exchange", !.answer = a]
  <2>1. x \in Local
    BY BlankTyped DEF Local, Operations
  <2>2. x.pc = "idle"
    BY DEF Blank
  <2>3. req' = [req EXCEPT ![r] = x]
    BY <1>2
  <2> HIDE DEF x
  <2>4. QED
    BY <2>1, <2>2, <2>3, TypeSet DEF Issuers
<1>3. CASE row # None /\ row.client = c /\ ~(row.expires < now) /\ Look(r)
           /\ req' = [req EXCEPT ![r] = [Blank EXCEPT !.pc = "find", !.op = "exchange",
                                            !.subject = row.subject, !.client = c,
                                            !.scope = row.scope, !.code = k]]
  <2> DEFINE x == [Blank EXCEPT !.pc = "find", !.op = "exchange", !.subject = row.subject,
                                !.client = c, !.scope = row.scope, !.code = k]
  <2>1. row.subject \in Subject /\ c \in Client /\ row.scope \in Scope
    BY <1>1, <1>3 DEF CodeRow
  <2>2. x \in Local
    BY <2>1, BlankTyped DEF Local, Points, Operations, Issuers
  <2>3. /\ x.pc = "find" /\ x.op = "exchange" /\ x.subject = row.subject /\ x.client = c
        /\ x.scope = row.scope /\ x.code = k
    BY DEF Blank
  <2>4. req' = [req EXCEPT ![r] = x]
    BY <1>3
  <2> HIDE DEF x
  <2>5. Requests'
    BY <2>1, <2>2, <2>3, <2>4, TypeSet DEF Issuers, Issuing
  <2>6. Transactions'
    BY <1>3, TypeLook DEF ExchangeCode
  <2>7. QED
    BY <2>5, <2>6, TypeKept DEF ExchangeCode, Tables
<1>4. CASE /\ \E a \in Answers : req' = [req EXCEPT ![r] = [Blank EXCEPT !.op = "exchange", !.answer = a]]
           /\ UNCHANGED view
  <2>1. Requests'
    BY <1>2, <1>4
  <2>2. Transactions'
    BY <1>4 DEF ExchangeCode, TInv, TypeOK, Transactions
  <2>3. QED
    BY <2>1, <2>2, TypeKept DEF ExchangeCode, Tables
<1>5. {"NOT_FOUND", "CLIENT_MISMATCH", "EXPIRED"} \subseteq Answers
  BY DEF Answers
<1>6. QED
  <2> HIDE DEF row
  <2> QED BY <1>3, <1>4, <1>5 DEF ExchangeCode, row

LEMMA TypeBegin ==
    ASSUME TInv, NEW r \in Request, NEW t \in Token, ResolveToken(r, t) \/ RevokeToken(r, t)
    PROVE  TInv'
<1>1. ASSUME NEW op \in {"resolve", "revoke"}, NEW p \in {"touch", "revoke_write"},
             NEW m \in {"MISSING", "ALREADY_MISSING"}, Begin(r, op, t, p, m),
             p = "touch" <=> op = "resolve"
      PROVE  TInv'
  <2>1. CASE Seen(r).tokens[t] = None
    <3> DEFINE x == [Blank EXCEPT !.op = op, !.answer = m, !.token = t]
    <3>1. x \in Local
      BY BlankTyped DEF Local, Operations, Answers
    <3>2. x.pc = "idle"
      BY DEF Blank
    <3>3. req' = [req EXCEPT ![r] = x] /\ UNCHANGED view
      BY <1>1, <2>1 DEF Begin
    <3> HIDE DEF x
    <3>4. Requests'
      BY <3>1, <3>2, <3>3, TypeSet DEF Issuers
    <3>5. Transactions'
      BY <1>1, <3>3 DEF Begin, TInv, TypeOK, Transactions
    <3>6. QED
      BY <1>1, <3>4, <3>5, TypeKept DEF Begin, Tables
  <2>2. CASE Seen(r).tokens[t] # None
    <3> DEFINE x == [Blank EXCEPT !.pc = p, !.op = op, !.token = t]
    <3>1. x \in Local
      BY BlankTyped DEF Local, Operations, Points
    <3>2. x.pc = p /\ x.op = op /\ x.token = t
      BY DEF Blank
    <3>3. req' = [req EXCEPT ![r] = x] /\ Look(r)
      BY <1>1, <2>2 DEF Begin
    <3> HIDE DEF x
    <3>4. Requests'
      BY <1>1, <3>1, <3>2, <3>3, TypeSet DEF Issuers, Issuing
    <3>5. Transactions'
      BY <1>1, <3>3, TypeLook DEF Begin
    <3>6. QED
      BY <1>1, <3>4, <3>5, TypeKept DEF Begin, Tables
  <2>3. QED
    BY <2>1, <2>2
<1>2. QED
  BY <1>1 DEF ResolveToken, RevokeToken

LEMMA TypeMakeCode ==
    ASSUME TInv, NEW r \in Request, NEW k \in Code, MakeCode(r, k)
    PROVE  TInv'
<1>1. req[r].op = "code" /\ req[r].pc = "make_code" /\ req[r] \in Local
  BY DEF MakeCode, TInv, LocalsOK, TypeOK
<1>2. /\ req[r].subject \in Subject /\ req[r].client \in Client /\ req[r].scope \in Scope
      /\ req[r].expires \in Nat
  BY <1>1 DEF TInv, LocalsOK, Local
<1>3. CASE Inserted(r, k)
  <2> DEFINE x == [req[r] EXCEPT !.pc = "commit", !.code = k]
  <2>1. x \in Local
    BY <1>1 DEF Local, Points
  <2>2. /\ x.pc = "commit" /\ x.op = "code"
        /\ x.subject = req[r].subject /\ x.client = req[r].client /\ x.scope = req[r].scope
    BY <1>1 DEF Local
  <2>3. req' = [req EXCEPT ![r] = x]
    BY <1>3 DEF Inserted, TInv, TypeOK
  <2> HIDE DEF x
  <2>4. Requests'
    BY <1>2, <2>1, <2>2, <2>3, TypeSet DEF Issuers, Issuing
  <2> DEFINE row == [subject |-> req[r].subject, client |-> req[r].client,
                     scope |-> req[r].scope, expires |-> req[r].expires]
  <2>5. row \in CodeRow \cup {None} /\ WriteCode(r, k, row) /\ UNCHANGED view
    BY <1>2, <1>3 DEF CodeRow, Inserted
  <2> HIDE DEF row
  <2>6. Transactions'
    BY <2>5, TypeWriteCode
  <2>7. QED
    BY <2>4, <2>6, TypeKept DEF MakeCode, Tables
<1>4. CASE Lost(r, k) /\ req[r].tries + 1 < MaxAttempts
  <2> DEFINE x == [req[r] EXCEPT !.tries = @ + 1]
  <2>1. x \in Local
    BY <1>1 DEF Local
  <2>2. /\ x.pc = "make_code" /\ x.op = "code"
        /\ x.subject = req[r].subject /\ x.client = req[r].client /\ x.scope = req[r].scope
    BY <1>1 DEF Local
  <2>3. req' = [req EXCEPT ![r].tries = @ + 1] /\ UNCHANGED <<view, written>>
    BY <1>4 DEF Lost
  <2>4. req' = [req EXCEPT ![r] = x]
    BY <2>3 DEF TInv, TypeOK
  <2> HIDE DEF x
  <2>5. Requests'
    BY <1>2, <2>1, <2>2, <2>4, TypeSet DEF Issuers, Issuing
  <2>6. Transactions'
    BY <2>3 DEF TInv, TypeOK, Transactions
  <2>7. QED
    BY <2>5, <2>6, TypeKept DEF MakeCode, Tables
<1>5. CASE Lost(r, k) /\ ~(req[r].tries + 1 < MaxAttempts)
  <2>1. Reject(r, "COLLISION") /\ "COLLISION" \in Answers
    BY <1>5 DEF Lost, Answers
  <2>2. QED
    BY <2>1, TypeReject, TypeKept DEF MakeCode, Tables
<1>6. QED
  BY <1>3, <1>4, <1>5 DEF MakeCode

LEMMA TypeGoto ==
    ASSUME TInv, NEW r \in Request, req[r].pc \in Issuers,
           NEW p \in Issuers \cup {"commit"}, p # "find", Goto(r, p),
           p # "insert" => req[r].token \in Token,
           p \in {"consume", "consume_write"} => req[r].op = "exchange"
    PROVE  Requests'
<1>1. req[r] \in Local /\ req \in [Request -> Local]
  BY DEF TInv, TypeOK
<1>2. req' = [req EXCEPT ![r].pc = p, ![r].token = req[r].token]
  BY <1>1 DEF Goto, Local
<1>3. req[r].token \in Token \cup {None}
  BY <1>1 DEF Local
<1>4. /\ req[r].op \in Issuing /\ req[r].pc # "idle"
      /\ req[r].op = "exchange" => req[r].code \in Code
  BY DEF TInv, LocalsOK, Issuers
<1>5. QED
  BY <1>2, <1>3, <1>4, TypeMove

LEMMA TypeIssued ==
    ASSUME TInv, NEW r \in Request, req[r].pc \in Issuers, NEW t \in Token, Issued(r, t)
    PROVE  Requests'
<1>1. /\ req[r].op \in Issuing /\ req[r].pc # "idle"
      /\ req[r].op = "exchange" => req[r].code \in Code
  BY DEF TInv, LocalsOK, Issuers
<1>2. /\ Afterwards(r) \in Issuers \cup {"commit"} /\ Afterwards(r) \notin {"find", "insert"}
      /\ Afterwards(r) \in {"consume", "consume_write"} => req[r].op = "exchange"
  BY DEF Afterwards, Issuers
<1>3. QED
  BY <1>1, <1>2, TypeMove DEF Issued

LEMMA TypeReuse ==
    ASSUME TInv, NEW r \in Request, req[r].pc \in Issuers, NEW t \in Token, Reuse(r, t)
    PROVE  Requests'
<1>1. CASE Issued(r, t)
  BY <1>1, TypeIssued
<1>2. CASE req' = [req EXCEPT ![r].pc = "update", ![r].token = t]
  <2>1. /\ req[r].op \in Issuing /\ req[r].pc # "idle"
        /\ req[r].op = "exchange" => req[r].code \in Code
    BY DEF TInv, LocalsOK, Issuers
  <2>2. "update" \in Issuers \cup {"commit"}
    BY DEF Issuers
  <2>3. QED
    BY <1>2, <2>1, <2>2, TypeMove
<1>3. QED
  BY <1>1, <1>2 DEF Reuse

(* The statements of an issue that read.                                   *)
LEMMA TypeIssueReads ==
    ASSUME TInv, NEW r \in Request,
           Find(r) \/ Update(r) \/ Classify(r) \/ Winner(r) \/ Consume(r) \/ ClassifyValue(r)
    PROVE  TInv'
<1>1. UNCHANGED <<codes, tokens, now>>
  BY DEF Find, Update, Classify, Winner, Consume, ClassifyValue, Tables
<1>2. req[r].pc \in Issuers
  BY DEF Find, Update, Classify, Winner, Consume, ClassifyValue, Issuers
<1>3. ASSUME NEW a \in Answers, Reject(r, a)
      PROVE  TInv'
  BY <1>1, <1>3, TypeReject, TypeKept
<1>4. ASSUME Look(r), UNCHANGED written, NEW t \in Token, Reuse(r, t)
      PROVE  TInv'
  BY <1>1, <1>2, <1>4, TypeReuse, TypeLook, TypeKept
<1>5. ASSUME Look(r), UNCHANGED written, NEW p \in Issuers \cup {"commit"}, p # "find", Goto(r, p),
             p # "insert" => req[r].token \in Token,
             p \in {"consume", "consume_write"} => req[r].op = "exchange"
      PROVE  TInv'
  BY <1>1, <1>2, <1>5, TypeGoto, TypeLook, TypeKept
<1>6. req[r].pc \in Issuers \ {"find", "insert"} => req[r].token \in Token
  BY DEF TInv, LocalsOK, Issuers, Issuing
<1>7. CASE Find(r)
  <2>1. "insert" \in Issuers \cup {"commit"}
    BY DEF Issuers
  <2>2. QED
    BY <1>4, <1>5, <1>7, <2>1 DEF Find
<1>8. CASE Update(r)
  <2>1. {"insert", "update_write"} \subseteq Issuers \cup {"commit"} /\ req[r].token \in Token
    BY <1>6, <1>8 DEF Issuers, Update
  <2>2. ASSUME Issued(r, req[r].token)
        PROVE  TInv'
    BY <1>1, <1>2, <1>8, <2>1, <2>2, TypeIssued, TypeLook, TypeKept DEF Update
  <2>3. QED
    BY <1>5, <1>8, <2>1, <2>2 DEF Update
<1>9. CASE Classify(r)
  <2>1. {"classify_value", "winner"} \subseteq Issuers \cup {"commit"} /\ req[r].token \in Token
    BY <1>6, <1>9 DEF Issuers, Classify
  <2>2. QED
    BY <1>5, <1>9, <2>1 DEF Classify
<1>10. CASE Winner(r)
  BY <1>3, <1>4, <1>10 DEF Winner, Answers
<1>11. CASE Consume(r)
  <2>1. /\ "consume_write" \in Issuers \cup {"commit"} /\ req[r].token \in Token
        /\ req[r].op = "exchange"
    BY <1>6, <1>11 DEF Issuers, Consume, TInv, LocalsOK
  <2>2. QED
    BY <1>3, <1>5, <1>11, <2>1 DEF Consume, Answers
<1>12. CASE ClassifyValue(r)
  BY <1>3, <1>12 DEF ClassifyValue, Answers
<1>13. QED
  BY <1>7, <1>8, <1>9, <1>10, <1>11, <1>12

(* The statements of an issue that write.                                  *)
LEMMA TypeIssueWrites ==
    ASSUME TInv, NEW r \in Request,
           UpdateWrite(r) \/ ConsumeWrite(r) \/ \E t \in Token : Insert(r, t)
    PROVE  TInv'
<1>1. UNCHANGED <<codes, tokens, now>>
  BY DEF UpdateWrite, ConsumeWrite, Insert, Tables
<1>2. /\ req[r].pc \in Issuers
      /\ req[r].pc # "insert" => req[r].token \in Token
      /\ req[r].op \in Issuing /\ req[r].pc # "idle"
      /\ req[r].op = "exchange" => req[r].code \in Code
  BY DEF UpdateWrite, ConsumeWrite, Insert, Issuers, Issuing, TInv, LocalsOK
<1>3. /\ req[r].subject \in Subject /\ req[r].client \in Client /\ req[r].scope \in Scope
  BY <1>2 DEF TInv, LocalsOK
<1>4. CASE UpdateWrite(r) /\ tokens[req[r].token] = None
  BY <1>1, <1>4, TypeReject, TypeKept DEF UpdateWrite, Answers
<1>5. CASE UpdateWrite(r) /\ tokens[req[r].token] # None
  <2>1. req[r].token \in Token
    BY <1>2, <1>5 DEF UpdateWrite
  <2>2. [tokens[req[r].token] EXCEPT !.scope = req[r].scope] \in TokenRow
    BY <1>3, <1>5, <2>1 DEF TInv, TypeOK, TokenRow, Row
  <2>3. /\ WriteToken(r, req[r].token, [tokens[req[r].token] EXCEPT !.scope = req[r].scope])
        /\ Issued(r, req[r].token) /\ UNCHANGED view
    BY <1>5 DEF UpdateWrite
  <2>4. Requests'
    BY <1>2, <2>1, <2>3, TypeIssued
  <2>5. Transactions'
    BY <2>1, <2>2, <2>3, TypeWriteToken
  <2>6. QED
    BY <1>1, <2>4, <2>5, TypeKept
<1>6. ASSUME NEW t \in Token, Insert(r, t), Taken(r, t)
      PROVE  TInv'
  <2>1. "classify" \in Issuers \cup {"commit"}
    BY DEF Issuers
  <2>2. Requests'
    BY <1>2, <1>6, <2>1, TypeMove DEF Insert
  <2>3. Transactions'
    BY <1>6 DEF Insert, TInv, TypeOK, Transactions
  <2>4. QED
    BY <1>1, <2>2, <2>3, TypeKept
<1>7. ASSUME NEW t \in Token, Insert(r, t), ~Taken(r, t)
      PROVE  TInv'
  <2> DEFINE row == [subject |-> req[r].subject, client |-> req[r].client,
                     scope |-> req[r].scope]
  <2>1. row \in TokenRow
    BY <1>3 DEF TokenRow, Row
  <2>2. WriteToken(r, t, row) /\ Issued(r, t) /\ UNCHANGED view
    BY <1>7 DEF Insert
  <2> HIDE DEF row
  <2>3. Requests'
    BY <1>2, <2>2, TypeIssued
  <2>4. Transactions'
    BY <2>1, <2>2, TypeWriteToken
  <2>5. QED
    BY <1>1, <2>3, <2>4, TypeKept
<1>8. CASE ConsumeWrite(r)
  <2>1. /\ req[r].token \in Token /\ req[r].code \in Code
        /\ "commit" \in Issuers \cup {"commit"}
    BY <1>2, <1>8 DEF ConsumeWrite, TInv, LocalsOK
  <2>2. Requests'
    BY <1>2, <1>8, <2>1, TypeGoto DEF ConsumeWrite, Issuers
  <2>3. CASE UNCHANGED written
    <3>1. Transactions'
      BY <1>8, <2>3 DEF ConsumeWrite, TInv, TypeOK, Transactions
    <3>2. QED
      BY <1>1, <2>2, <3>1, TypeKept
  <2>4. CASE WriteCode(r, req[r].code, None)
    BY <1>1, <1>8, <2>1, <2>2, <2>4, TypeWriteCode, TypeKept DEF ConsumeWrite
  <2>5. QED
    BY <1>8, <2>3, <2>4 DEF ConsumeWrite
<1>9. QED
  BY <1>4, <1>5, <1>6, <1>7, <1>8

(* The statements about a token that is presented. *)
LEMMA TypeServeToken ==
    ASSUME TInv, NEW r \in Request, Touch(r) \/ TouchWrite(r) \/ RevokeWrite(r)
    PROVE  TInv'
<1>1. UNCHANGED <<codes, tokens, now>>
  BY DEF Touch, TouchWrite, RevokeWrite, Tables
<1>2. /\ req[r] \in Local /\ req[r].token \in Token
      /\ req[r].op \in {"resolve", "revoke"}
      /\ ~RevokeWrite(r) => req[r].op = "resolve"
  BY DEF Touch, TouchWrite, RevokeWrite, TInv, TypeOK, LocalsOK, Issuing
<1>3. ASSUME NEW p \in {"touch_write", "commit"}, Goto(r, p), p = "touch_write" => ~RevokeWrite(r)
      PROVE  Requests'
  <2> DEFINE x == [req[r] EXCEPT !.pc = p]
  <2>1. x \in Local
    BY <1>2 DEF Local, Points
  <2>2. x.pc = p /\ x.op = req[r].op /\ x.token = req[r].token
    BY <1>2 DEF Local
  <2>3. req' = [req EXCEPT ![r] = x]
    BY <1>3 DEF Goto, TInv, TypeOK
  <2> HIDE DEF x
  <2>4. QED
    BY <1>2, <1>3, <2>1, <2>2, <2>3, TypeSet DEF Issuers, Issuing
<1>4. ASSUME NEW a \in Answers, Reject(r, a)
      PROVE  TInv'
  BY <1>1, <1>4, TypeReject, TypeKept
<1>5. CASE Touch(r)
  <2>1. CASE Look(r) /\ UNCHANGED written /\ Goto(r, "touch_write")
    BY <1>1, <1>3, <1>5, <2>1, TypeLook, TypeKept DEF Touch, RevokeWrite
  <2>2. QED
    BY <1>4, <1>5, <2>1 DEF Touch, Answers
<1>6. tokens[req[r].token] \in TokenRow /\ None \in TokenRow
  BY <1>2 DEF TInv, TypeOK, TokenRow
<1>7. CASE TouchWrite(r)
  <2>1. CASE tokens[req[r].token] # None
    BY <1>1, <1>2, <1>3, <1>6, <1>7, <2>1, TypeWriteToken, TypeKept DEF TouchWrite
  <2>2. QED
    BY <1>4, <1>7, <2>1 DEF TouchWrite, Answers
<1>8. CASE RevokeWrite(r)
  <2>1. Requests'
    BY <1>3, <1>8 DEF RevokeWrite
  <2>2. CASE UNCHANGED written
    <3>1. Transactions'
      BY <1>8, <2>2 DEF RevokeWrite, TInv, TypeOK, Transactions
    <3>2. QED
      BY <1>1, <2>1, <3>1, TypeKept
  <2>3. CASE WriteToken(r, req[r].token, None)
    BY <1>1, <1>2, <1>6, <1>8, <2>1, <2>3, TypeWriteToken, TypeKept DEF RevokeWrite
  <2>4. QED
    BY <1>8, <2>2, <2>3 DEF RevokeWrite
<1>9. QED
  BY <1>5, <1>7, <1>8

LEMMA Chosen ==
    ASSUME NEW S, NEW x, \E w \in S : w[1] = x
    PROVE  /\ (CHOOSE w \in S : w[1] = x) \in S
           /\ (CHOOSE w \in S : w[1] = x)[1] = x
<1>1. PICK w \in S : w[1] = x
  OBVIOUS
<1>2. QED
  BY <1>1, Zenon

LEMMA TypeApply ==
    ASSUME TInv, NEW r \in Request, Apply(r)
    PROVE  /\ codes' \in [Code -> CodeRow \cup {None}]
           /\ tokens' \in [Token -> TokenRow]
<1>1. written[r] \in Writes
  BY DEF TInv, TypeOK
<1>2. \A t \in Token : (\E w \in written[r].tokens : w[1] = t)
                          => (CHOOSE w \in written[r].tokens : w[1] = t)[2] \in TokenRow
  BY <1>1, Chosen DEF Writes
<1>3. \A k \in Code : (\E w \in written[r].codes : w[1] = k)
                         => (CHOOSE w \in written[r].codes : w[1] = k)[2] \in CodeRow \cup {None}
  BY <1>1, Chosen DEF Writes
<1>4. tokens' \in [Token -> TokenRow]
  BY <1>2 DEF Apply, TInv, TypeOK
<1>5. codes' \in [Code -> CodeRow \cup {None}]
  BY <1>3 DEF Apply, TInv, TypeOK
<1>6. QED
  BY <1>4, <1>5

LEMMA TypeEnd ==
    ASSUME TInv, NEW r \in Request, Commit(r) \/ Abort(r)
    PROVE  TInv'
<1>1. CASE Commit(r)
  <2> DEFINE x == [Blank EXCEPT !.op = req[r].op, !.answer = "SERVED", !.scope = req[r].scope,
                                !.code = req[r].code, !.token = req[r].token]
  <2>1. req[r] \in Local
    BY DEF TInv, TypeOK
  <2>2. x \in Local
    BY <2>1, BlankTyped DEF Local, Answers
  <2>3. x.pc = "idle"
    BY DEF Blank
  <2>4. /\ req' = [req EXCEPT ![r] = x]
        /\ written' = [written EXCEPT ![r] = NothingWritten]
        /\ view' = [view EXCEPT ![r] = None]
    BY <1>1 DEF Commit, Leave
  <2> HIDE DEF x
  <2>5. Requests'
    BY <2>2, <2>3, <2>4, TypeSet DEF Issuers
  <2>6. NothingWritten \in Writes
    BY DEF NothingWritten, Writes
  <2>7. view' \in [Request -> Snapshot \cup {None}] /\ written' \in [Request -> Writes]
    BY <2>4, <2>6 DEF TInv, TypeOK
  <2>8. now' \in Nat
    BY <1>1 DEF Commit, TInv, TypeOK
  <2>9. QED
    BY <1>1, <2>5, <2>7, <2>8, TypeApply DEF Commit, TInv, TypeOK, Requests
<1>2. CASE Abort(r)
  <2>1. Requests' /\ Transactions'
    BY <1>2, TypeReject DEF Abort, Answers
  <2>2. /\ codes' \in [Code -> CodeRow \cup {None}]
        /\ tokens' \in [Token -> TokenRow]
        /\ now' \in Nat
    BY <1>2, TypeApply DEF Abort, Tables, TInv, TypeOK
  <2>3. QED
    BY <2>1, <2>2 DEF TInv, TypeOK, Requests, Transactions
<1>3. QED
  BY <1>1, <1>2

LEMMA TypeNext ==
    ASSUME TInv, [Next]_vars
    PROVE  TInv'
<1>1. CASE Tick
  <2>1. Requests' /\ Transactions'
    BY <1>1 DEF Tick, TInv, TypeOK, LocalsOK, Requests, Transactions
  <2>2. /\ codes' \in [Code -> CodeRow \cup {None}]
        /\ tokens' \in [Token -> TokenRow]
        /\ now' \in Nat
    BY <1>1 DEF Tick, Tables, TInv, TypeOK
  <2>3. QED
    BY <2>1, <2>2 DEF TInv, TypeOK, Requests, Transactions
<1>2. CASE UNCHANGED vars
  BY <1>2 DEF vars, TInv, TypeOK, LocalsOK
<1>3. ASSUME NEW r \in Request, Arrive(r)
      PROVE  TInv'
  BY <1>3, TypeIssue, TypeExchange, TypeBegin DEF Arrive
<1>4. ASSUME NEW r \in Request, Continue(r)
      PROVE  TInv'
  BY <1>4, TypeMakeCode, TypeIssueReads, TypeIssueWrites, TypeServeToken, TypeEnd DEF Continue
<1>5. QED
  BY <1>1, <1>2, <1>3, <1>4, TypeEnd DEF Next

(* The tables, the transactions and the requests of the credential use     *)
(* cases are well typed: a token or a code that is stored is for a contact *)
(* and a client, and no statement uses a local its code has not set.       *)
THEOREM ApiTypes == Spec => []TypeOK
<1>1. TInv => TypeOK
  BY DEF TInv
<1>2. QED
  BY <1>1, TypeInit, TypeNext, PTL DEF Spec

-----------------------------------------------------------------------------
(* What a step does to the tokens, told without its statement.             *)

(* It writes none, and may give up what it wrote. *)
TokensKept(r) ==
    /\ tokens' = tokens
    /\ written'[r].tokens \in {written[r].tokens, {}}
    /\ req'[r].pc \notin Written => written'[r].tokens = {}
    /\ ~(req'[r].op = "resolve" /\ req'[r].pc = "commit")

(* It writes one that no other transaction has written: it deletes it,     *)
(* keeps its contact and client, or inserts it for a pair without a token. *)
TokenWritten(r, t, row) ==
    /\ tokens' = tokens
    /\ written[r].tokens = {} /\ written'[r].tokens = {<<t, row>>}
    /\ ~TokenLocked(r, t)
    /\ req'[r].pc \in Written /\ req'[r].token = t /\ req'[r].op = req[r].op
    /\ req[r].op = "resolve" => tokens[t] # None
    /\ \/ row = None
       \/ row # None /\ tokens[t] # None /\ IsFor(tokens[t], row.subject, row.client)
       \/ /\ row # None /\ tokens[t] = None /\ Fresh(t)
          /\ \A u \in Token : ~IsFor(tokens[u], row.subject, row.client)
          /\ ~PairLocked(r, row.subject, row.client)

(* It commits what it wrote. *)
TokensApplied(r) ==
    /\ req[r].pc = "commit" /\ req'[r].pc = "idle"
    /\ written'[r].tokens = {}
    /\ \A w \in written[r].tokens : tokens'[w[1]] = w[2]
    /\ \A t \in Token : (\A w \in written[r].tokens : w[1] # t) => tokens'[t] = tokens[t]

(* Nobody else's request, snapshot or writes change. *)
LEMMA OthersRest ==
    ASSUME TInv, NEW r \in Request, Arrive(r) \/ Continue(r) \/ Abort(r), NEW q \in Request \ {r}
    PROVE  req'[q] = req[q] /\ view'[q] = view[q] /\ written'[q] = written[q]
<1> USE DEF TInv, TypeOK
<1>1. CASE Arrive(r)
  BY <1>1 DEF Arrive, IssueCode, IssueImplicit, ExchangeCode, ResolveToken, RevokeToken, Begin, Look
<1>2. CASE Abort(r)
  BY <1>2 DEF Abort, Reject
<1>3. CASE \E k \in Code : MakeCode(r, k)
  BY <1>3 DEF MakeCode, Inserted, Lost, Reject, WriteCode
<1>4. CASE Find(r) \/ Update(r) \/ Classify(r) \/ ClassifyValue(r)
  BY <1>4 DEF Find, Update, Classify, ClassifyValue, Look, Reuse, Issued, Goto, Reject
<1>5. CASE Winner(r) \/ Consume(r) \/ Touch(r)
  BY <1>5 DEF Winner, Consume, Touch, Look, Reuse, Issued, Goto, Reject
<1>6. CASE UpdateWrite(r) \/ \E t \in Token : Insert(r, t)
  BY <1>6 DEF UpdateWrite, Insert, WriteToken, Issued, Reject
<1>7. CASE ConsumeWrite(r) \/ TouchWrite(r) \/ RevokeWrite(r)
  BY <1>7 DEF ConsumeWrite, TouchWrite, RevokeWrite, WriteToken, WriteCode, Goto, Reject
<1>8. CASE Commit(r)
  BY <1>8 DEF Commit, Leave
<1>9. QED
  BY <1>1, <1>2, <1>3, <1>4, <1>5, <1>6, <1>7, <1>8 DEF Continue

(* How a request arrives. *)
Arrived(r) ==
    \/ req'[r].pc = "make_code" /\ req'[r].op = "code" /\ req'[r].token = None /\ view' = view
    \/ /\ req'[r].pc = "find" /\ req'[r].op \in Issuing /\ req'[r].token = None
       /\ view' = view \/ Look(r)
    \/ /\ req'[r].pc = "idle" /\ req'[r].op = "exchange" /\ req'[r].answer # "SERVED"
       /\ req'[r].token = None /\ view' = view
    \/ \E t \in Token \cap delivered :
          /\ req'[r].token = t /\ req'[r].op \in {"resolve", "revoke"}
          /\ \/ /\ req'[r].pc = "idle" /\ view' = view /\ req'[r].answer # "SERVED"
                /\ Seen(r).tokens[t] = None
             \/ req'[r].pc \in {"touch", "revoke_write"} /\ Look(r)

LEMMA Arrivals ==
    ASSUME TInv, NEW r \in Request, Arrive(r)
    PROVE  Arrived(r)
<1>1. ASSUME NEW x, req' = [req EXCEPT ![r] = x]
      PROVE  req'[r] = x
  BY <1>1 DEF TInv, TypeOK
<1>2. ASSUME NEW s \in Subject, NEW c \in Client, NEW sc \in Scope, IssueCode(r, s, c, sc)
      PROVE  Arrived(r)
  <2> DEFINE x == [Blank EXCEPT !.pc = "make_code", !.op = "code", !.subject = s,
                                !.client = c, !.scope = sc, !.expires = now + Lifetime]
  <2>1. x.pc = "make_code" /\ x.op = "code" /\ x.token = None
    BY DEF Blank
  <2>2. req'[r] = x /\ view' = view
    BY <1>1, <1>2 DEF IssueCode
  <2> HIDE DEF x
  <2>3. QED
    BY <2>1, <2>2 DEF Arrived
<1>3. ASSUME NEW s \in Subject, NEW c \in Client, NEW sc \in Scope, IssueImplicit(r, s, c, sc)
      PROVE  Arrived(r)
  <2> DEFINE x == [Blank EXCEPT !.pc = "find", !.op = "implicit",
                                !.subject = s, !.client = c, !.scope = sc]
  <2>1. x.pc = "find" /\ x.op = "implicit" /\ x.token = None
    BY DEF Blank
  <2>2. req'[r] = x /\ view' = view
    BY <1>1, <1>3 DEF IssueImplicit
  <2> HIDE DEF x
  <2>3. QED
    BY <2>1, <2>2 DEF Arrived, Issuing
<1>4. ASSUME NEW k \in Code, NEW c \in Client \cup {None}, ExchangeCode(r, k, c)
      PROVE  Arrived(r)
  <2>1. ASSUME NEW a \in {"NOT_FOUND", "CLIENT_MISMATCH", "EXPIRED"},
               req' = [req EXCEPT ![r] = [Blank EXCEPT !.op = "exchange", !.answer = a]],
               view' = view
        PROVE  Arrived(r)
    <3> DEFINE x == [Blank EXCEPT !.op = "exchange", !.answer = a]
    <3>1. x.pc = "idle" /\ x.op = "exchange" /\ x.token = None /\ x.answer = a
      BY DEF Blank
    <3>2. req'[r] = x
      BY <1>1, <2>1
    <3> HIDE DEF x
    <3>3. QED
      BY <2>1, <3>1, <3>2 DEF Arrived
  <2>2. ASSUME NEW s, NEW sc, Look(r),
               req' = [req EXCEPT ![r] = [Blank EXCEPT !.pc = "find", !.op = "exchange",
                                          !.subject = s, !.client = c, !.scope = sc, !.code = k]]
        PROVE  Arrived(r)
    <3> DEFINE x == [Blank EXCEPT !.pc = "find", !.op = "exchange", !.subject = s,
                                  !.client = c, !.scope = sc, !.code = k]
    <3>1. x.pc = "find" /\ x.op = "exchange" /\ x.token = None
      BY DEF Blank
    <3>2. req'[r] = x
      BY <1>1, <2>2
    <3> HIDE DEF x
    <3>3. QED
      BY <2>2, <3>1, <3>2 DEF Arrived, Issuing
  <2>3. QED
    BY <1>4, <2>1, <2>2 DEF ExchangeCode
<1>5. ASSUME NEW t \in Token, NEW op \in {"resolve", "revoke"}, NEW p \in {"touch", "revoke_write"},
             NEW m \in {"MISSING", "ALREADY_MISSING"}, Begin(r, op, t, p, m)
      PROVE  Arrived(r)
  <2>1. t \in Token \cap delivered
    BY <1>5 DEF Begin
  <2>2. CASE /\ Seen(r).tokens[t] = None /\ view' = view
             /\ req' = [req EXCEPT ![r] = [Blank EXCEPT !.op = op, !.answer = m, !.token = t]]
    <3> DEFINE x == [Blank EXCEPT !.op = op, !.answer = m, !.token = t]
    <3>1. x.pc = "idle" /\ x.op = op /\ x.token = t /\ x.answer = m
      BY DEF Blank
    <3>2. req'[r] = x
      BY <1>1, <2>2
    <3> HIDE DEF x
    <3>3. QED
      BY <2>1, <2>2, <3>1, <3>2 DEF Arrived
  <2>3. CASE /\ Look(r)
             /\ req' = [req EXCEPT ![r] = [Blank EXCEPT !.pc = p, !.op = op, !.token = t]]
    <3> DEFINE x == [Blank EXCEPT !.pc = p, !.op = op, !.token = t]
    <3>1. x.pc = p /\ x.op = op /\ x.token = t
      BY DEF Blank
    <3>2. req'[r] = x
      BY <1>1, <2>3
    <3> HIDE DEF x
    <3>3. QED
      BY <2>1, <2>3, <3>1, <3>2 DEF Arrived
  <2>4. QED
    BY <1>5, <2>2, <2>3 DEF Begin
<1>6. QED
  BY <1>2, <1>3, <1>4, <1>5 DEF Arrive, ResolveToken, RevokeToken

LEMMA Rejected ==
    ASSUME TInv, NEW r \in Request, NEW a, Reject(r, a)
    PROVE  /\ req'[r].pc = "idle" /\ req'[r].op = req[r].op /\ req'[r].answer = a
           /\ req'[r].token = req[r].token
           /\ written'[r].tokens = {} /\ view'[r] = None
BY DEF TInv, TypeOK, Reject, Blank, NothingWritten

LEMMA Applied ==
    ASSUME TInv, WrittenOnce, NEW r \in Request, Apply(r)
    PROVE  /\ \A w \in written[r].tokens : tokens'[w[1]] = w[2]
           /\ \A t \in Token : (\A w \in written[r].tokens : w[1] # t) => tokens'[t] = tokens[t]
<1>1. ASSUME NEW w \in written[r].tokens
      PROVE  tokens'[w[1]] = w[2]
  <2>1. w[1] \in Token
    BY DEF TInv, TypeOK, Writes
  <2>2. (CHOOSE v \in written[r].tokens : v[1] = w[1]) = w
    BY Chosen DEF WrittenOnce
  <2>3. QED
    BY <2>1, <2>2 DEF Apply
<1>2. QED
  BY <1>1 DEF Apply

LEMMA TokenSteps ==
    ASSUME TInv, WrittenOnce, NEW r \in Request, Arrive(r) \/ Continue(r) \/ Abort(r)
    PROVE  \/ TokensKept(r)
           \/ \E t \in Token, row \in TokenRow : TokenWritten(r, t, row)
           \/ TokensApplied(r)
<1>1. CASE Arrive(r)
  <2>1. UNCHANGED <<tokens, written>> /\ req[r].pc = "idle"
    BY <1>1 DEF Arrive, IssueCode, IssueImplicit, ExchangeCode, ResolveToken, RevokeToken, Begin,
                Tables
  <2>2. req'[r].pc # "commit"
    BY <1>1, Arrivals DEF Arrived
  <2>3. QED
    BY <2>1, <2>2 DEF TokensKept, WrittenOnce, Written
<1>2. CASE Abort(r)
  <2>1. req'[r].pc = "idle" /\ written'[r].tokens = {}
    BY <1>2, Rejected DEF Abort
  <2>2. QED
    BY <1>2, <2>1, Applied DEF Abort, Tables, TokensKept, TokensApplied
<1>3. CASE \E k \in Code : MakeCode(r, k)
  <2>1. tokens' = tokens /\ req[r].pc = "make_code" /\ req[r].op = "code"
    BY <1>3 DEF MakeCode, Tables, TInv, LocalsOK
  <2>2. written'[r].tokens = written[r].tokens \/ written'[r].tokens = {}
    BY <1>3, Rejected DEF MakeCode, Inserted, Lost, WriteCode, TInv, TypeOK, Writes
  <2>3. written[r].tokens = {}
    BY <2>1 DEF WrittenOnce, Written
  <2>4. req'[r].op = "code"
    BY <1>3, <2>1, Rejected DEF MakeCode, Inserted, Lost, TInv, TypeOK, Local
  <2>5. QED
    BY <2>1, <2>2, <2>3, <2>4 DEF TokensKept
<1>4. CASE Find(r) \/ Update(r) \/ Classify(r) \/ ClassifyValue(r) \/ Winner(r)
  <2>1. tokens' = tokens /\ req[r].pc \in Issuers \ Written
    BY <1>4 DEF Find, Update, Classify, ClassifyValue, Winner, Tables, Issuers, Written
  <2>2. written[r].tokens = {}
    BY <2>1 DEF WrittenOnce
  <2>3. written'[r].tokens = {}
    BY <1>4, <2>2, Rejected DEF Find, Update, Classify, ClassifyValue, Winner
  <2>4. req'[r].op = req[r].op
    BY <1>4, Rejected DEF Find, Update, Classify, ClassifyValue, Winner, Reuse, Issued, Goto,
                          TInv, TypeOK, Local
  <2>5. req[r].op \in Issuing
    BY <2>1 DEF TInv, LocalsOK
  <2>6. QED
    BY <2>1, <2>2, <2>3, <2>4, <2>5 DEF TokensKept, Issuing
<1>5. CASE Consume(r)
  BY <1>5, Rejected DEF Consume, Goto, Tables, TokensKept, Written, TInv, TypeOK, LocalsOK, Local
<1>6. CASE ConsumeWrite(r)
  <2>1. tokens' = tokens /\ req[r].op = "exchange" /\ written'[r].tokens = written[r].tokens
    BY <1>6 DEF ConsumeWrite, WriteCode, Tables, TInv, TypeOK, LocalsOK, Writes
  <2>2. req'[r].pc = "commit" /\ req'[r].op = req[r].op
    BY <1>6 DEF ConsumeWrite, Goto, TInv, TypeOK, Local
  <2>3. QED
    BY <2>1, <2>2 DEF TokensKept, Written
<1>7. CASE Touch(r)
  <2>1. tokens' = tokens /\ written[r].tokens = {} /\ written'[r].tokens = {}
    BY <1>7, Rejected DEF Touch, Tables, WrittenOnce, Written
  <2>2. req'[r].pc # "commit"
    BY <1>7, Rejected DEF Touch, Goto, TInv, TypeOK, Local
  <2>3. QED
    BY <2>1, <2>2 DEF TokensKept
<1>8. CASE Commit(r)
  <2>1. req'[r].pc = "idle" /\ written'[r].tokens = {}
    BY <1>8 DEF Commit, Leave, Blank, NothingWritten, TInv, TypeOK
  <2>2. QED
    BY <1>8, <2>1, Applied DEF Commit, TokensApplied
<1> DEFINE Outcome == TokensKept(r) \/ \E t \in Token, row \in TokenRow : TokenWritten(r, t, row)
<1>9. ASSUME req[r].pc \in Writers, tokens' = tokens, NEW a, Reject(r, a)
      PROVE  Outcome
  BY <1>9, Rejected DEF TokensKept, Written
<1>10. ASSUME req[r].pc \in Writers, NEW t \in Token, NEW row \in TokenRow, WriteToken(r, t, row)
       PROVE  written[r].tokens = {} /\ written'[r].tokens = {<<t, row>>}
  <2>1. written[r].tokens = {}
    BY <1>10 DEF WrittenOnce, Writers, Written
  <2>2. QED
    BY <1>10, <2>1 DEF WriteToken, TInv, TypeOK, Writes
<1>11. CASE UpdateWrite(r)
  <2>1. tokens' = tokens /\ req[r].pc \in Writers
    BY <1>11 DEF UpdateWrite, Tables, Writers
  <2>2. CASE tokens[req[r].token] # None
    <3> DEFINE row == [tokens[req[r].token] EXCEPT !.scope = req[r].scope]
    <3>1. /\ req[r].token \in Token /\ req[r].op \in Issuing
          /\ tokens[req[r].token] \in Row /\ req[r].scope \in Scope
      BY <1>11, <2>2 DEF UpdateWrite, TInv, TypeOK, LocalsOK, Issuers, TokenRow, Issuing
    <3>2. row \in Row /\ row # None /\ IsFor(tokens[req[r].token], row.subject, row.client)
      BY <3>1, <2>2 DEF Row, IsFor
    <3>3. /\ WriteToken(r, req[r].token, row) /\ Issued(r, req[r].token)
          /\ ~TokenLocked(r, req[r].token)
      BY <1>11, <2>2 DEF UpdateWrite
    <3> HIDE DEF row
    <3>4. req'[r].pc \in Written /\ req'[r].token = req[r].token /\ req'[r].op = req[r].op
      BY <3>3 DEF Issued, Afterwards, Written, TInv, TypeOK, Local
    <3>5. TokenWritten(r, req[r].token, row) /\ row \in TokenRow
      BY <1>10, <2>1, <2>2, <3>1, <3>2, <3>3, <3>4 DEF TokenWritten, TokenRow, Issuing
    <3>6. QED
      BY <3>1, <3>5
  <2>3. QED
    BY <1>9, <1>11, <2>1, <2>2 DEF UpdateWrite
<1>12. ASSUME NEW t \in Token, Insert(r, t)
       PROVE  Outcome
  <2>1. tokens' = tokens /\ req[r].pc \in Writers /\ written[r].tokens = {}
    BY <1>12 DEF Insert, Tables, Writers, WrittenOnce, Written
  <2>2. req[r].op \in Issuing /\ req[r].subject \in Subject /\ req[r].client \in Client
        /\ req[r].scope \in Scope
    BY <1>12 DEF Insert, TInv, LocalsOK, Issuers
  <2>3. CASE Taken(r, t)
    BY <1>12, <2>1, <2>2, <2>3 DEF Insert, TokensKept, TInv, TypeOK, Local, Issuing
  <2>4. CASE ~Taken(r, t)
    <3> DEFINE row == [subject |-> req[r].subject, client |-> req[r].client,
                       scope |-> req[r].scope]
    <3>1. /\ row \in Row /\ row # None /\ tokens[t] = None /\ Fresh(t)
          /\ \A u \in Token : ~IsFor(tokens[u], row.subject, row.client)
          /\ ~PairLocked(r, row.subject, row.client)
      BY <1>12, <2>2, <2>4 DEF Row, Insert, Taken
    <3>2. WriteToken(r, t, row) /\ Issued(r, t) /\ ~TokenLocked(r, t)
      BY <1>12, <2>4 DEF Insert
    <3> HIDE DEF row
    <3>3. req'[r].pc \in Written /\ req'[r].token = t /\ req'[r].op = req[r].op
      BY <3>2 DEF Issued, Afterwards, Written, TInv, TypeOK, Local
    <3>4. TokenWritten(r, t, row) /\ row \in TokenRow
      BY <1>10, <2>1, <2>2, <3>1, <3>2, <3>3 DEF TokenWritten, TokenRow, Issuing
    <3>5. QED
      BY <3>4
  <2>5. QED
    BY <2>3, <2>4
<1>13. CASE TouchWrite(r)
  <2>1. tokens' = tokens /\ req[r].pc \in Writers /\ req[r].token \in Token
    BY <1>13 DEF TouchWrite, Tables, Writers, TInv, LocalsOK
  <2>2. CASE tokens[req[r].token] # None
    <3>1. /\ tokens[req[r].token] \in TokenRow
          /\ IsFor(tokens[req[r].token], tokens[req[r].token].subject, tokens[req[r].token].client)
      BY <2>1, <2>2 DEF TInv, TypeOK, IsFor
    <3>2. WriteToken(r, req[r].token, tokens[req[r].token]) /\ ~TokenLocked(r, req[r].token)
          /\ Goto(r, "commit")
      BY <1>13, <2>2 DEF TouchWrite
    <3>3. req'[r].pc \in Written /\ req'[r].token = req[r].token /\ req'[r].op = req[r].op
      BY <3>2 DEF Goto, Written, TInv, TypeOK, Local
    <3>4. TokenWritten(r, req[r].token, tokens[req[r].token])
      BY <1>10, <2>1, <2>2, <3>1, <3>2, <3>3 DEF TokenWritten
    <3>5. QED
      BY <2>1, <3>1, <3>4
  <2>3. QED
    BY <1>9, <1>13, <2>1, <2>2 DEF TouchWrite
<1>14. CASE RevokeWrite(r)
  <2>1. /\ tokens' = tokens /\ req[r].pc \in Writers /\ req[r].token \in Token
        /\ req[r].op = "revoke" /\ written[r].tokens = {}
    BY <1>14 DEF RevokeWrite, Tables, Writers, TInv, LocalsOK, WrittenOnce, Written
  <2>2. req'[r].pc \in Written /\ req'[r].token = req[r].token /\ req'[r].op = "revoke"
    BY <1>14, <2>1 DEF RevokeWrite, Goto, Written, TInv, TypeOK, Local
  <2>3. CASE UNCHANGED written
    BY <2>1, <2>2, <2>3 DEF TokensKept
  <2>4. CASE WriteToken(r, req[r].token, None)
    <3>1. None \in TokenRow /\ ~TokenLocked(r, req[r].token)
      BY <1>14 DEF TokenRow, RevokeWrite
    <3>2. TokenWritten(r, req[r].token, None)
      BY <1>10, <2>1, <2>2, <2>4, <3>1 DEF TokenWritten
    <3>3. QED
      BY <2>1, <3>1, <3>2
  <2>5. QED
    BY <1>14, <2>3, <2>4 DEF RevokeWrite
<1>15. QED
  BY <1>1, <1>2, <1>3, <1>4, <1>5, <1>6, <1>7, <1>8, <1>11, <1>12, <1>13, <1>14 DEF Continue

-----------------------------------------------------------------------------
(* One token per client, and no resolution without its token.              *)

LEMMA WrittenOnceStep ==
    ASSUME TInv, WrittenOnce, NEW r \in Request, Arrive(r) \/ Continue(r) \/ Abort(r)
    PROVE  WrittenOnce'
<1>1. \A q \in Request \ {r} : req'[q] = req[q] /\ written'[q] = written[q]
  BY OthersRest
<1>2. ASSUME written'[r].tokens \in {written[r].tokens, {}},
             req'[r].pc \notin Written => written'[r].tokens = {}
      PROVE  WrittenOnce'
  BY <1>1, <1>2 DEF WrittenOnce
<1>3. CASE TokensKept(r)
  BY <1>2, <1>3 DEF TokensKept
<1>4. CASE TokensApplied(r)
  BY <1>2, <1>4 DEF TokensApplied
<1>5. ASSUME NEW t \in Token, NEW row \in TokenRow, TokenWritten(r, t, row)
      PROVE  WrittenOnce'
  <2>1. \A q \in Request \ {r} : \A w \in written[q].tokens : w[1] # t
    BY <1>5 DEF TokenWritten, TokenLocked
  <2>2. /\ written'[r].tokens = {<<t, row>>} /\ req'[r].pc \in Written
        /\ \A w \in written'[r].tokens : w = <<t, row>> /\ w[1] = t
    BY <1>5 DEF TokenWritten
  <2>3. QED
    BY <1>1, <2>1, <2>2 DEF WrittenOnce
<1>6. QED
  BY <1>3, <1>4, <1>5, TokenSteps

LEMMA WritesApartStep ==
    ASSUME TInv, WrittenOnce, WritesApart, OneTokenPerClient,
           NEW r \in Request, Arrive(r) \/ Continue(r) \/ Abort(r)
    PROVE  WritesApart'
<1>1. \A q \in Request \ {r} : written'[q] = written[q]
  BY OthersRest
<1>2. CASE TokensKept(r)
  BY <1>1, <1>2 DEF TokensKept, WritesApart
<1>3. ASSUME NEW t \in Token, NEW row \in TokenRow, TokenWritten(r, t, row)
      PROVE  WritesApart'
  <2>1. /\ tokens' = tokens
        /\ \A w \in written'[r].tokens : w[1] = t /\ w[2] = row
        /\ \A q \in Request \ {r} : \A w \in written[q].tokens : w[1] # t
    BY <1>3 DEF TokenWritten, TokenLocked
  <2>2. row # None =>
          /\ \A u \in Token : IsFor(tokens[u], row.subject, row.client) => u = t
          /\ tokens[t] # None => IsFor(tokens[t], row.subject, row.client)
    BY <1>3 DEF TokenWritten, OneTokenPerClient, IsFor
  <2>3. ASSUME row # None, NEW q \in Request \ {r}, NEW v \in written[q].tokens
        PROVE  ~IsFor(v[2], row.subject, row.client)
    <3>1. CASE tokens[t] = None
      BY <1>3, <2>3, <3>1 DEF TokenWritten, PairLocked
    <3>2. CASE tokens[t] # None /\ IsFor(tokens[t], row.subject, row.client)
      BY <2>1, <2>3, <3>2 DEF WritesApart, IsFor
    <3>3. QED
      BY <1>3, <2>3, <3>1, <3>2 DEF TokenWritten
  <2>4. ASSUME row # None, NEW q \in Request \ {r}, NEW v \in written[q].tokens, v[2] # None
        PROVE  ~IsFor(row, v[2].subject, v[2].client)
    BY <2>3, <2>4 DEF IsFor
  <2>5. QED
    BY <1>1, <2>1, <2>2, <2>3, <2>4 DEF WritesApart, IsFor
<1>4. CASE TokensApplied(r)
  <2>1. ASSUME NEW q \in Request \ {r}, NEW v \in written[q].tokens, v[2] # None
        PROVE  /\ \A u \in Token : IsFor(tokens'[u], v[2].subject, v[2].client) => u = v[1]
               /\ tokens'[v[1]] # None => IsFor(tokens'[v[1]], v[2].subject, v[2].client)
    <3>1. v[1] \in Token
      BY DEF TInv, TypeOK, Writes
    <3>2. tokens'[v[1]] = tokens[v[1]]
      BY <1>4, <3>1 DEF TokensApplied, WrittenOnce
    <3>3. ASSUME NEW u \in Token, IsFor(tokens'[u], v[2].subject, v[2].client)
          PROVE  u = v[1]
      <4>1. CASE tokens'[u] = tokens[u]
        BY <2>1, <3>3, <4>1 DEF WritesApart
      <4>2. CASE \E w \in written[r].tokens : w[1] = u /\ tokens'[u] = w[2]
        BY <2>1, <3>3, <4>2 DEF WritesApart
      <4>3. QED
        BY <1>4, <4>1, <4>2 DEF TokensApplied
    <3>4. QED
      BY <2>1, <3>2, <3>3 DEF WritesApart
  <2>2. written'[r].tokens = {}
    BY <1>4 DEF TokensApplied
  <2>3. QED
    BY <1>1, <2>1, <2>2 DEF WritesApart
<1>5. QED
  BY <1>2, <1>3, <1>4, TokenSteps

LEMMA OneTokenStep ==
    ASSUME TInv, WrittenOnce, WritesApart, OneTokenPerClient,
           NEW r \in Request, Arrive(r) \/ Continue(r) \/ Abort(r)
    PROVE  OneTokenPerClient'
<1>1. CASE tokens' = tokens
  BY <1>1 DEF OneTokenPerClient
<1>2. CASE TokensApplied(r)
  <2>1. ASSUME NEW t \in Token, tokens'[t] # tokens[t]
        PROVE  \E w \in written[r].tokens : w[1] = t /\ tokens'[t] = w[2]
    BY <1>2, <2>1 DEF TokensApplied
  <2>2. ASSUME NEW t \in Token, NEW u \in Token, tokens'[t] # None,
               IsFor(tokens'[u], tokens'[t].subject, tokens'[t].client)
        PROVE  t = u
    <3>1. CASE tokens'[t] = tokens[t] /\ tokens'[u] = tokens[u]
      BY <2>2, <3>1 DEF OneTokenPerClient
    <3>2. CASE tokens'[t] # tokens[t] /\ tokens'[u] # tokens[u]
      BY <2>1, <3>2 DEF WrittenOnce
    <3>3. CASE tokens'[t] # tokens[t] /\ tokens'[u] = tokens[u]
      BY <2>1, <2>2, <3>3 DEF WritesApart
    <3>4. CASE tokens'[t] = tokens[t] /\ tokens'[u] # tokens[u]
      BY <2>1, <2>2, <3>4 DEF WritesApart, IsFor
    <3>5. QED
      BY <3>1, <3>2, <3>3, <3>4
  <2>3. QED
    BY <2>2 DEF OneTokenPerClient
<1>3. QED
  BY <1>1, <1>2, TokenSteps DEF TokensKept, TokenWritten

LEMMA ResolvingStep ==
    ASSUME TInv, WrittenOnce, ResolvingLocked,
           NEW r \in Request, Arrive(r) \/ Continue(r) \/ Abort(r)
    PROVE  ResolvingLocked'
<1>1. \A q \in Request \ {r} : req'[q] = req[q] /\ written'[q] = written[q]
  BY OthersRest
<1>2. CASE TokensKept(r)
  BY <1>1, <1>2 DEF TokensKept, ResolvingLocked
<1>3. ASSUME NEW t \in Token, NEW row \in TokenRow, TokenWritten(r, t, row)
      PROVE  ResolvingLocked'
  <2>1. /\ tokens' = tokens /\ req'[r].token = t /\ req'[r].op = req[r].op
        /\ req[r].op = "resolve" => tokens[t] # None
        /\ \E w \in written'[r].tokens : w[1] = t
    BY <1>3 DEF TokenWritten
  <2>2. QED
    BY <1>1, <2>1 DEF ResolvingLocked
<1>4. CASE TokensApplied(r)
  <2>1. ASSUME NEW q \in Request \ {r}, NEW w \in written[q].tokens
        PROVE  tokens'[w[1]] = tokens[w[1]]
    <3>1. w[1] \in Token
      BY DEF TInv, TypeOK, Writes
    <3>2. QED
      BY <1>4, <3>1 DEF TokensApplied, WrittenOnce
  <2>2. QED
    BY <1>1, <1>4, <2>1 DEF TokensApplied, ResolvingLocked
<1>5. QED
  BY <1>2, <1>3, <1>4, TokenSteps

LEMMA TableInit == Init => TableInv
<1> SUFFICES ASSUME Init
             PROVE  TableInv
  OBVIOUS
<1>1. \A r \in Request : written[r].tokens = {} /\ req[r].pc = "idle"
  BY DEF Init, NothingWritten, Blank
<1>2. OneTokenPerClient
  BY DEF Init, OneTokenPerClient, IsFor
<1>3. WrittenOnce /\ WritesApart /\ ResolvingLocked
  BY <1>1 DEF WrittenOnce, WritesApart, ResolvingLocked
<1>4. QED
  BY <1>2, <1>3, TypeInit DEF TableInv

LEMMA TableNext ==
    ASSUME TableInv, [Next]_vars
    PROVE  TableInv'
<1>1. TInv'
  BY TypeNext DEF TableInv
<1>2. ASSUME NEW r \in Request, Arrive(r) \/ Continue(r) \/ Abort(r)
      PROVE  TableInv'
  BY <1>1, <1>2, WrittenOnceStep, WritesApartStep, OneTokenStep, ResolvingStep DEF TableInv
<1>3. CASE Tick \/ UNCHANGED vars
  <2>1. tokens' = tokens /\ req' = req /\ written' = written
    BY <1>3 DEF Tick, Tables, vars
  <2>2. QED
    BY <1>1, <2>1 DEF TableInv, WrittenOnce, WritesApart, OneTokenPerClient, ResolvingLocked
<1>4. QED
  BY <1>2, <1>3 DEF Next

(* However many requests issue, for whatever codes and implicit grants,    *)
(* whatever they read and in which order they commit: two tokens are never *)
(* committed for one contact and client.                                   *)
THEOREM OneTokenForEach == Spec => []OneTokenPerClient
<1>1. TableInv => OneTokenPerClient
  BY DEF TableInv
<1>2. QED
  BY <1>1, TableInit, TableNext, PTL DEF Spec

(* A resolution that is committed finds its token in the database at its   *)
(* commit: it holds the lock of the row it has touched.                    *)
THEOREM NeverResolvedWithout == Spec => ResolvedWhileThere
<1>1. TableInv => \A r \in Request :
          req[r].op = "resolve" /\ req[r].pc = "commit" => tokens[req[r].token] # None
  BY DEF TableInv, ResolvingLocked
<1>2. TableInv /\ [Next]_vars =>
          [\A r \in Request :
              req[r].op = "resolve" /\ req[r].pc = "commit" /\ req'[r].answer = "SERVED"
                  => tokens[req[r].token] # None]_vars
  BY <1>1
<1>3. QED
  BY <1>2, TableInit, TableNext, PTL DEF Spec, ResolvedWhileThere

-----------------------------------------------------------------------------
(* What a request knows, and how it goes on.                               *)

Observed(r) ==
    \/ view'[r] \in {view[r], None}
    \/ view'[r] = Committed /\ tokens' = tokens

(* The token a request is about: the one it was, one it was presented with,*)
(* one it has read, or a fresh one.                                        *)
Known(r) ==
    \/ req'[r].token \in {req[r].token, None}
    \/ req'[r].token \in delivered
    \/ req'[r].token \in Token /\ Seen(r).tokens[req'[r].token] # None
    \/ /\ req'[r].token \in Token \cap minted'
       /\ ~TokenLocked(r, req'[r].token)

(* It keeps whom it serves; it is served, or ends without effect.          *)
GoesOn(r) ==
    /\ req[r].pc # "idle"
    /\ req'[r].op = req[r].op
    /\ req'[r].pc # "idle" => /\ req'[r].subject = req[r].subject
                              /\ req'[r].client = req[r].client
                              /\ req'[r].scope = req[r].scope
    /\ req'[r].pc = "idle" => /\ view'[r] = None
                              /\ req'[r].token = req[r].token
                              /\ req'[r].answer = "SERVED" => Commit(r)
                              /\ req'[r].answer # "ALREADY_MISSING"

LEMMA LookObserves ==
    ASSUME TInv, NEW r \in Request, Look(r), tokens' = tokens
    PROVE  Observed(r)
BY DEF TInv, TypeOK, Look, Seen, Observed

LEMMA RejectGoesOn ==
    ASSUME TInv, NEW r \in Request, req[r].pc # "idle", NEW a \in Answers \ {"SERVED", "ALREADY_MISSING"},
           Reject(r, a)
    PROVE  Observed(r) /\ Known(r) /\ GoesOn(r)
BY Rejected DEF Observed, Known, GoesOn

LEMMA GotoGoesOn ==
    ASSUME TInv, NEW r \in Request, req[r].pc # "idle", NEW p, p # "idle", Goto(r, p)
    PROVE  Known(r) /\ GoesOn(r)
BY DEF TInv, TypeOK, Local, Goto, Known, GoesOn

LEMMA IssuedGoesOn ==
    ASSUME TInv, NEW r \in Request, req[r].pc # "idle", NEW t, NEW p, p # "idle",
           req' = [req EXCEPT ![r].pc = p, ![r].token = t]
    PROVE  req'[r].token = t /\ GoesOn(r)
BY DEF TInv, TypeOK, Local, GoesOn

LEMMA ReuseGoesOn ==
    ASSUME TInv, NEW r \in Request, req[r].pc # "idle", NEW t \in Token, Found(r, t), Reuse(r, t)
    PROVE  Known(r) /\ GoesOn(r)
<1>1. Seen(r).tokens[t] # None
  BY DEF Found, IsFor
<1>2. PICK p : p # "idle" /\ req' = [req EXCEPT ![r].pc = p, ![r].token = t]
  BY DEF Reuse, Issued, Afterwards
<1>3. QED
  BY <1>1, <1>2, IssuedGoesOn DEF Known

LEMMA ServeSteps ==
    ASSUME TInv, NEW r \in Request, Continue(r) \/ Abort(r)
    PROVE  Observed(r) /\ Known(r) /\ GoesOn(r)
<1> DEFINE Goal == Observed(r) /\ Known(r) /\ GoesOn(r)
<1>0. req[r].pc # "idle"
  BY DEF Continue, Abort, MakeCode, Find, Update, UpdateWrite, Insert, Classify, ClassifyValue,
         Winner, Consume, ConsumeWrite, Touch, TouchWrite, RevokeWrite, Commit
<1>1. CASE Abort(r)
  BY <1>1, RejectGoesOn DEF Abort, Answers
<1>2. CASE Commit(r)
  <2> DEFINE x == [Blank EXCEPT !.op = req[r].op, !.answer = "SERVED", !.scope = req[r].scope,
                                !.code = req[r].code, !.token = req[r].token]
  <2>1. x.pc = "idle" /\ x.op = req[r].op /\ x.token = req[r].token /\ x.answer = "SERVED"
    BY DEF Blank
  <2>2. req' = [req EXCEPT ![r] = x] /\ view' = [view EXCEPT ![r] = None]
    BY <1>2 DEF Commit, Leave
  <2> HIDE DEF x
  <2>3. req'[r] = x /\ view'[r] = None
    BY <2>2 DEF TInv, TypeOK
  <2>4. QED
    BY <1>0, <1>2, <2>1, <2>3 DEF Observed, Known, GoesOn
<1>3. ASSUME NEW k \in Code, MakeCode(r, k)
      PROVE  Goal
  <2>1. CASE Inserted(r, k)
    BY <1>0, <2>1 DEF Inserted, Observed, Known, GoesOn, TInv, TypeOK, Local
  <2>2. CASE Lost(r, k)
    <3>1. CASE Reject(r, "COLLISION")
      BY <1>0, <3>1, RejectGoesOn DEF Answers
    <3>2. CASE req' = [req EXCEPT ![r].tries = @ + 1] /\ UNCHANGED view
      <4>1. req'[r].pc = "make_code"
        BY <1>3, <3>2 DEF MakeCode, TInv, TypeOK, Local
      <4>2. QED
        BY <1>0, <3>2, <4>1 DEF Observed, Known, GoesOn, TInv, TypeOK, Local
    <3>3. QED
      BY <2>2, <3>1, <3>2 DEF Lost
  <2>3. QED
    BY <1>3, <2>1, <2>2 DEF MakeCode
<1>4. CASE Find(r)
  BY <1>0, <1>4, LookObserves, ReuseGoesOn, GotoGoesOn DEF Find, Tables
<1>5. CASE Update(r)
  <2>1. Observed(r)
    BY <1>5, LookObserves DEF Update, Tables
  <2>2. ASSUME Issued(r, req[r].token)
        PROVE  Known(r) /\ GoesOn(r)
    BY <1>0, <2>2, IssuedGoesOn DEF Issued, Afterwards, Known
  <2>3. QED
    BY <1>0, <1>5, <2>1, <2>2, GotoGoesOn DEF Update
<1>6. CASE UpdateWrite(r)
  <2>1. CASE Reject(r, "STALE_DATA_ERROR")
    BY <1>0, <2>1, RejectGoesOn DEF Answers
  <2>2. CASE Issued(r, req[r].token) /\ UNCHANGED view
    BY <1>0, <2>2, IssuedGoesOn DEF Issued, Afterwards, Known, Observed
  <2>3. QED
    BY <1>6, <2>1, <2>2 DEF UpdateWrite
<1>7. ASSUME NEW t \in Token, Insert(r, t)
      PROVE  Goal
  <2>1. PICK p : p # "idle" /\ req' = [req EXCEPT ![r].pc = p, ![r].token = t]
    BY <1>7 DEF Insert, Issued, Afterwards
  <2>2. /\ view' = view /\ t \in minted' /\ ~TokenLocked(r, t)
    BY <1>7 DEF Insert
  <2>3. req'[r].token = t /\ GoesOn(r)
    BY <1>0, <2>1, IssuedGoesOn
  <2>4. Known(r)
    BY <2>2, <2>3 DEF Known
  <2>5. Observed(r)
    BY <2>2 DEF Observed
  <2>6. QED
    BY <2>3, <2>4, <2>5
<1>8. CASE Classify(r)
  BY <1>0, <1>8, LookObserves, GotoGoesOn DEF Classify, Tables
<1>9. CASE ClassifyValue(r)
  BY <1>0, <1>9, RejectGoesOn DEF ClassifyValue, Answers
<1>10. CASE Winner(r)
  BY <1>0, <1>10, LookObserves, ReuseGoesOn, RejectGoesOn DEF Winner, Tables, Answers
<1>11. CASE Consume(r)
  BY <1>0, <1>11, LookObserves, GotoGoesOn, RejectGoesOn DEF Consume, Tables, Answers
<1>12. CASE ConsumeWrite(r) \/ RevokeWrite(r)
  <2>1. view' = view /\ Goto(r, "commit")
    BY <1>12 DEF ConsumeWrite, RevokeWrite
  <2>2. Observed(r)
    BY <2>1 DEF Observed
  <2>3. QED
    BY <1>0, <2>1, <2>2, GotoGoesOn
<1>13. CASE Touch(r)
  BY <1>0, <1>13, LookObserves, GotoGoesOn, RejectGoesOn DEF Touch, Tables, Answers
<1>14. CASE TouchWrite(r)
  <2>1. CASE Reject(r, "STALE_DATA_ERROR")
    BY <1>0, <2>1, RejectGoesOn DEF Answers
  <2>2. CASE Goto(r, "commit") /\ UNCHANGED view
    <3>1. Observed(r)
      BY <2>2 DEF Observed
    <3>2. QED
      BY <1>0, <2>2, <3>1, GotoGoesOn
  <2>3. QED
    BY <1>14, <2>1, <2>2 DEF TouchWrite
<1>15. QED
  BY <1>1, <1>2, <1>3, <1>4, <1>5, <1>6, <1>7, <1>8, <1>9, <1>10, <1>11, <1>12, <1>13, <1>14
     DEF Continue

(* A step of a request, told by what the request knows of tokens and when  *)
(* one of them is first given to a client.                                 *)
LEMMA StepKnows ==
    ASSUME TInv, NEW r \in Request, Arrive(r) \/ Continue(r) \/ Abort(r)
    PROVE  /\ Observed(r) /\ Known(r)
           /\ minted \subseteq minted' /\ delivered \subseteq delivered'
           /\ \A t \in delivered' \ delivered : t = req[r].token /\ written'[r].tokens = {}
<1>1. Observed(r) /\ Known(r)
  <2>1. CASE Arrive(r)
    <3>1. Arrived(r) /\ tokens' = tokens
      BY <2>1, Arrivals DEF Arrive, IssueCode, IssueImplicit, ExchangeCode, ResolveToken,
                            RevokeToken, Begin, Tables
    <3>2. Known(r)
      BY <3>1 DEF Arrived, Known
    <3>3. view' = view \/ Look(r)
      BY <3>1 DEF Arrived
    <3>4. Observed(r)
      BY <3>1, <3>3, LookObserves DEF Observed
    <3>5. QED
      BY <3>2, <3>4
  <2>2. QED
    BY <2>1, ServeSteps
<1>2. CASE Commit(r)
  <2>1. written'[r].tokens = {}
    BY <1>2 DEF Commit, Leave, NothingWritten, TInv, TypeOK
  <2>2. QED
    BY <1>1, <1>2, <2>1 DEF Commit
<1>3. CASE ~Commit(r)
  <2>1. delivered' = delivered /\ minted \subseteq minted'
    BY <1>3 DEF Arrive, IssueCode, IssueImplicit, ExchangeCode, ResolveToken, RevokeToken, Begin,
                Continue, Abort, MakeCode, Find, Update, UpdateWrite, Insert, Classify,
                ClassifyValue, Winner, Consume, ConsumeWrite, Touch, TouchWrite, RevokeWrite
  <2>2. QED
    BY <1>1, <2>1
<1>4. QED
  BY <1>2, <1>3

LEMMA UnheardStep ==
    ASSUME TInv, WrittenOnce, Unheard, NEW r \in Request, Arrive(r) \/ Continue(r) \/ Abort(r)
    PROVE  Unheard'
<1> SUFFICES ASSUME NEW t \in Token, t \notin minted'
             PROVE  /\ tokens'[t] = None /\ t \notin delivered'
                    /\ \A q \in Request : /\ req'[q].token # t
                                          /\ view'[q] # None => view'[q].tokens[t] = None
                                          /\ \A w \in written'[q].tokens : w[1] # t
  BY DEF Unheard
<1>1. /\ tokens[t] = None /\ t \notin delivered
      /\ \A q \in Request : /\ req[q].token # t
                            /\ view[q] # None => view[q].tokens[t] = None
                            /\ \A w \in written[q].tokens : w[1] # t
  BY StepKnows DEF Unheard
<1>2. \A q \in Request \ {r} : /\ req'[q] = req[q] /\ view'[q] = view[q]
                               /\ written'[q] = written[q]
  BY OthersRest
<1>3. t \notin delivered'
  BY <1>1, StepKnows
<1>4. Seen(r).tokens[t] = None
  BY <1>1 DEF Seen, Committed
<1>5. req'[r].token # t
  BY <1>1, <1>4, StepKnows DEF Known
<1>6. view'[r] # None => view'[r].tokens[t] = None
  <2>1. Observed(r)
    BY StepKnows
  <2>2. QED
    BY <1>1, <2>1 DEF Observed, Committed
<1>7. tokens'[t] = None /\ \A w \in written'[r].tokens : w[1] # t
  <2>1. CASE TokensKept(r)
    BY <1>1, <2>1 DEF TokensKept
  <2>2. CASE TokensApplied(r)
    BY <1>1, <2>2 DEF TokensApplied
  <2>3. ASSUME NEW u \in Token, NEW row \in TokenRow, TokenWritten(r, u, row)
        PROVE  tokens'[t] = None /\ \A w \in written'[r].tokens : w[1] # t
    BY <1>1, <1>5, <2>3 DEF TokenWritten
  <2>4. QED
    BY <2>1, <2>2, <2>3, TokenSteps
<1>8. QED
  BY <1>1, <1>2, <1>3, <1>5, <1>6, <1>7

(* The tokens of the others' transactions are not committed over.          *)
LEMMA OthersWritesStay ==
    ASSUME TInv, WrittenOnce, NEW r \in Request, Arrive(r) \/ Continue(r) \/ Abort(r),
           NEW q \in Request \ {r}, NEW w \in written[q].tokens
    PROVE  tokens'[w[1]] = tokens[w[1]]
<1>1. w[1] \in Token
  BY DEF TInv, TypeOK, Writes
<1>2. CASE tokens' = tokens
  BY <1>2
<1>3. CASE TokensApplied(r)
  BY <1>1, <1>3 DEF TokensApplied, WrittenOnce
<1>4. QED
  BY <1>2, <1>3, TokenSteps DEF TokensKept, TokenWritten

LEMMA InsertingStep ==
    ASSUME ~Repeat, TInv, WrittenOnce, Unheard, Inserting,
           NEW r \in Request, Arrive(r) \/ Continue(r) \/ Abort(r)
    PROVE  Inserting'
<1> DEFINE Hidden(q, t) == /\ t \notin delivered
                           /\ \A p \in Request \ {q} : req[p].token # t
                           /\ \A p \in Request : view[p] # None => view[p].tokens[t] = None
           HiddenThen(q, t) ==
               /\ t \notin delivered'
               /\ \A p \in Request \ {q} : req'[p].token # t
               /\ \A p \in Request : view'[p] # None => view'[p].tokens[t] = None
<1>1. \A q \in Request \ {r} : /\ req'[q] = req[q] /\ view'[q] = view[q]
                               /\ written'[q] = written[q]
  BY OthersRest
<1>2. ASSUME NEW t, tokens[t] = None, \A p \in Request : view[p] # None => view[p].tokens[t] = None
      PROVE  \A p \in Request : view'[p] # None => view'[p].tokens[t] = None
  <2>1. Observed(r)
    BY StepKnows
  <2>2. QED
    BY <1>1, <1>2, <2>1 DEF Observed, Committed
<1>3. ASSUME NEW q \in Request \ {r}, NEW w \in written[q].tokens, w[2] # None,
             tokens'[w[1]] = None
      PROVE  HiddenThen(q, w[1])
  <2>1. w[1] \in Token /\ tokens[w[1]] = None
    BY <1>3, OthersWritesStay DEF TInv, TypeOK, Writes
  <2>2. Hidden(q, w[1])
    BY <1>3, <2>1 DEF Inserting
  <2>3. w[1] \notin delivered'
    BY <2>2, StepKnows
  <2>4. Seen(r).tokens[w[1]] = None /\ TokenLocked(r, w[1])
    BY <2>1, <2>2 DEF Seen, Committed, TokenLocked
  <2>5. req'[r].token # w[1]
    BY <2>1, <2>2, <2>4, StepKnows DEF Known
  <2>6. QED
    BY <1>1, <1>2, <2>1, <2>2, <2>3, <2>5
<1>4. ASSUME NEW w \in written'[r].tokens, w[2] # None, tokens'[w[1]] = None
      PROVE  HiddenThen(r, w[1])
  <2>1. delivered' = delivered
    BY StepKnows
  <2>2. CASE TokensKept(r)
    <3>1. w \in written[r].tokens /\ tokens[w[1]] = None
      BY <1>4, <2>2 DEF TokensKept
    <3>2. Hidden(r, w[1])
      BY <1>4, <3>1 DEF Inserting
    <3>3. QED
      BY <1>1, <1>2, <2>1, <3>1, <3>2
  <2>3. ASSUME NEW t \in Token, NEW row \in TokenRow, TokenWritten(r, t, row)
        PROVE  HiddenThen(r, w[1])
    <3>1. w[1] = t /\ tokens[t] = None /\ t \notin minted
      BY <1>4, <2>3 DEF TokenWritten, Fresh
    <3>2. Hidden(r, t)
      BY <3>1 DEF Unheard
    <3>3. QED
      BY <1>1, <1>2, <2>1, <3>1, <3>2
  <2>4. QED
    BY <1>4, <2>2, <2>3, TokenSteps DEF TokensApplied
<1>5. QED
  BY <1>1, <1>3, <1>4 DEF Inserting

LEMMA IdleUnreadStep ==
    ASSUME TInv, IdleUnread, NEW r \in Request, Arrive(r) \/ Continue(r) \/ Abort(r)
    PROVE  IdleUnread'
<1>1. CASE Arrive(r)
  <2>1. req[r].pc = "idle"
    BY <1>1 DEF Arrive, IssueCode, IssueImplicit, ExchangeCode, ResolveToken, RevokeToken, Begin
  <2>2. req'[r].pc = "idle" => view' = view
    BY <1>1, Arrivals DEF Arrived
  <2>3. QED
    BY <2>1, <2>2, OthersRest DEF IdleUnread
<1>2. CASE Continue(r) \/ Abort(r)
  BY <1>2, ServeSteps, OthersRest DEF GoesOn, IdleUnread
<1>3. QED
  BY <1>1, <1>2

LEMMA RevokingStep ==
    ASSUME TInv, WrittenOnce, Inserting, IdleUnread, Revoking,
           NEW r \in Request, Arrive(r) \/ Continue(r) \/ Abort(r)
    PROVE  Revoking'
<1>1. \A q \in Request \ {r} : req'[q] = req[q] /\ written'[q] = written[q]
  BY OthersRest
<1>2. delivered \subseteq delivered'
  BY StepKnows
<1>3. ASSUME NEW t \in delivered, tokens[t] = None, t \in Token
      PROVE  tokens'[t] = None
  <2>1. CASE tokens' = tokens
    BY <1>3, <2>1
  <2>2. CASE TokensApplied(r)
    <3>1. CASE \E w \in written[r].tokens : w[1] = t
      BY <1>3, <2>2, <3>1 DEF TokensApplied, Inserting
    <3>2. CASE \A w \in written[r].tokens : w[1] # t
      BY <1>3, <2>2, <3>2 DEF TokensApplied
    <3>3. QED
      BY <3>1, <3>2
  <2>3. QED
    BY <2>1, <2>2, TokenSteps DEF TokensKept, TokenWritten
<1> DEFINE Revokes(q) ==
               /\ req'[q].pc \in {"revoke_write", "commit"} => req'[q].token \in delivered'
               /\ req'[q].pc = "commit" =>
                     <<req'[q].token, None>> \in written'[q].tokens \/ tokens'[req'[q].token] = None
               /\ req'[q].pc = "idle" /\ req'[q].answer \in {"SERVED", "ALREADY_MISSING"} =>
                     req'[q].token \in Token \cap delivered' /\ tokens'[req'[q].token] = None
<1>4. ASSUME NEW q \in Request \ {r}, req'[q].op = "revoke"
      PROVE  Revokes(q)
  <2>1. req[q].token \in delivered /\ tokens[req[q].token] = None /\ req[q].token # None
            => tokens'[req[q].token] = None
    BY <1>3 DEF TInv, TypeOK, Local
  <2>2. req[q].pc = "commit" => req[q].token \in Token
    BY <1>1, <1>4 DEF TInv, LocalsOK
  <2>3. QED
    BY <1>1, <1>2, <1>4, <2>1, <2>2 DEF Revoking
<1>5. ASSUME req'[r].op = "revoke"
      PROVE  Revokes(r)
  <2>1. CASE Arrive(r)
    <3>1. req[r].pc = "idle" /\ tokens' = tokens
      BY <2>1 DEF Arrive, IssueCode, IssueImplicit, ExchangeCode, ResolveToken, RevokeToken, Begin,
                  Tables
    <3>2. Seen(r) = Committed
      BY <3>1 DEF IdleUnread, Seen
    <3>3. PICK t \in Token \cap delivered :
              /\ req'[r].token = t
              /\ \/ req'[r].pc = "idle" /\ Seen(r).tokens[t] = None
                 \/ req'[r].pc \in {"touch", "revoke_write"}
      BY <1>5, <2>1, Arrivals DEF Arrived, Issuing
    <3>4. QED
      BY <1>2, <3>1, <3>2, <3>3 DEF Committed
  <2>2. CASE Abort(r)
    BY <2>2, Rejected DEF Abort
  <2>3. CASE Continue(r)
    <3>1. req[r].op = "revoke" /\ req[r].pc # "idle"
      BY <1>5, <2>3, ServeSteps DEF GoesOn
    <3>2. req[r].pc \in {"revoke_write", "commit"}
      BY <3>1 DEF TInv, TypeOK, LocalsOK, Local, Points, Issuing
    <3>3. req[r].token \in delivered /\ req[r].token \in Token
      BY <3>1, <3>2 DEF Revoking, TInv, LocalsOK
    <3>4. CASE RevokeWrite(r)
      <4>1. req'[r].pc = "commit" /\ req'[r].token = req[r].token /\ tokens' = tokens
        BY <3>4 DEF RevokeWrite, Goto, Tables, TInv, TypeOK, Local
      <4>2. tokens[req[r].token] # None => <<req[r].token, None>> \in written'[r].tokens
        BY <3>4 DEF RevokeWrite, WriteToken, TInv, TypeOK, Writes
      <4>3. QED
        BY <1>2, <3>3, <4>1, <4>2
    <3>5. CASE Commit(r)
      <4>1. req'[r].pc = "idle" /\ req'[r].token = req[r].token
        BY <2>3, <3>5, ServeSteps DEF GoesOn, Commit, Leave, TInv, TypeOK, Blank
      <4>2. CASE <<req[r].token, None>> \in written[r].tokens
        BY <1>2, <3>3, <3>5, <4>1, <4>2, Applied DEF Commit
      <4>3. CASE tokens[req[r].token] = None
        BY <1>2, <1>3, <3>3, <4>1, <4>3
      <4>4. QED
        BY <3>1, <3>5, <4>2, <4>3 DEF Revoking, Commit
    <3>6. RevokeWrite(r) \/ Commit(r)
      BY <2>3, <3>2 DEF Continue, MakeCode, Find, Update, UpdateWrite, Insert, Classify,
         ClassifyValue, Winner, Consume, ConsumeWrite, Touch, TouchWrite
    <3>7. QED
      BY <3>4, <3>5, <3>6
  <2>4. QED
    BY <2>1, <2>2, <2>3
<1>6. QED
  BY <1>4, <1>5 DEF Revoking

LEMMA GoneInit == Init => GoneInv
<1> SUFFICES ASSUME Init
             PROVE  GoneInv
  OBVIOUS
<1>1. \A r \in Request : /\ written[r].tokens = {} /\ req[r].pc = "idle" /\ req[r].op = "none"
                         /\ req[r].token = None /\ view[r] = None
  BY DEF Init, NothingWritten, Blank
<1>2. Unheard /\ Inserting /\ IdleUnread /\ Revoking
  BY <1>1 DEF Init, Unheard, Inserting, IdleUnread, Revoking
<1>3. QED
  BY <1>2, TableInit DEF GoneInv

LEMMA GoneNext ==
    ASSUME ~Repeat, GoneInv, [Next]_vars
    PROVE  GoneInv'
<1>1. TableInv'
  BY TableNext DEF GoneInv
<1>2. ASSUME NEW r \in Request, Arrive(r) \/ Continue(r) \/ Abort(r)
      PROVE  GoneInv'
  BY <1>1, <1>2, UnheardStep, InsertingStep, IdleUnreadStep, RevokingStep DEF GoneInv, TableInv
<1>3. CASE Tick \/ UNCHANGED vars
  <2>1. UNCHANGED <<tokens, req, written, view, minted, delivered>>
    BY <1>3 DEF Tick, Tables, vars
  <2>2. QED
    BY <1>1, <2>1 DEF GoneInv, Unheard, Inserting, IdleUnread, Revoking
<1>4. QED
  BY <1>2, <1>3 DEF Next

(* When the generator repeats no value: once a revocation has answered,    *)
(* nothing brings its token back, no matter which transactions had read    *)
(* the row before and still go on to touch it, update it or issue it.      *)
THEOREM RevokedTokensStayGone == ASSUME ~Repeat PROVE Spec => []GoneForGood
<1>1. GoneInv => GoneForGood
  BY DEF GoneInv, Revoking, GoneForGood, Answered
<1>2. QED
  BY <1>1, GoneInit, GoneNext, PTL DEF Spec

-----------------------------------------------------------------------------
(* What is issued is what the database holds.                              *)

(* A request that goes on to an update has found the token, or keeps it.   *)
ToUpdate(r) ==
    \/ \E t \in Token : Found(r, t) /\ req'[r].token = t
    \/ req[r].pc = "update" /\ req'[r].token = req[r].token

(* A request that has issued has found that token with that scope, has     *)
(* written it, or goes on to what comes afterwards.                        *)
ToIssue(r) ==
    \/ \E t \in Token : /\ Found(r, t) /\ req'[r].token = t
                        /\ Seen(r).tokens[t].scope = req[r].scope
    \/ /\ req[r].pc = "update" /\ req'[r].token = req[r].token
       /\ Seen(r).tokens[req[r].token] # None
       /\ Seen(r).tokens[req[r].token].scope = req[r].scope
    \/ /\ req[r].pc = "update_write" /\ req'[r].token = req[r].token
       /\ tokens[req[r].token] # None
       /\ <<req[r].token, [tokens[req[r].token] EXCEPT !.scope = req[r].scope]>>
              \in written'[r].tokens
    \/ <<req'[r].token, [subject |-> req[r].subject, client |-> req[r].client,
                        scope |-> req[r].scope]>> \in written'[r].tokens
    \/ /\ req[r].pc \in Written /\ req'[r].token = req[r].token
       /\ written'[r].tokens = written[r].tokens

LEMMA WriteTokenWrites ==
    ASSUME TInv, NEW r \in Request, NEW t, NEW row, WriteToken(r, t, row)
    PROVE  <<t, row>> \in written'[r].tokens
BY DEF TInv, TypeOK, Writes, WriteToken

LEMMA ReuseSteps ==
    ASSUME TInv, NEW r \in Request, NEW t \in Token, Found(r, t), Reuse(r, t)
    PROVE  /\ req'[r].pc \in {"update", "update_write"} => ToUpdate(r)
           /\ req'[r].pc \in Written => ToIssue(r)
<1>1. req'[r].token = t
  BY DEF Reuse, Issued, TInv, TypeOK, Local
<1>2. CASE Seen(r).tokens[t].scope = req[r].scope
  BY <1>1, <1>2 DEF ToUpdate, ToIssue
<1>3. CASE Seen(r).tokens[t].scope # req[r].scope
  <2>1. req'[r].pc = "update"
    BY <1>3 DEF Reuse, TInv, TypeOK, Local
  <2>2. QED
    BY <1>1, <2>1 DEF ToUpdate, Written
<1>4. QED
  BY <1>2, <1>3

LEMMA GotoSteps ==
    ASSUME TInv, NEW r \in Request, NEW p, Goto(r, p)
    PROVE  req'[r].pc = p /\ req'[r].token = req[r].token /\ req'[r].op = req[r].op
BY DEF TInv, TypeOK, Local, Goto

LEMMA IssuedSteps ==
    ASSUME TInv, NEW r \in Request, NEW t, Issued(r, t)
    PROVE  req'[r].pc \in Written \ {"consume_write"} /\ req'[r].token = t
BY DEF TInv, TypeOK, Local, Issued, Afterwards, Written

LEMMA Left ==
    ASSUME TInv, NEW r \in Request, NEW a, Leave(r, a)
    PROVE  /\ req'[r].pc = "idle" /\ req'[r].op = req[r].op /\ req'[r].answer = a
           /\ req'[r].token = req[r].token /\ req'[r].scope = req[r].scope
<1> DEFINE x == [Blank EXCEPT !.op = req[r].op, !.answer = a, !.scope = req[r].scope,
                              !.code = req[r].code, !.token = req[r].token]
<1>1. /\ x.pc = "idle" /\ x.op = req[r].op /\ x.answer = a
      /\ x.token = req[r].token /\ x.scope = req[r].scope
  BY DEF Blank
<1>2. req' = [req EXCEPT ![r] = x]
  BY DEF Leave
<1> HIDE DEF x
<1>3. QED
  BY <1>1, <1>2 DEF TInv, TypeOK

LEMMA IssueSteps ==
    ASSUME TInv, WrittenOnce, NEW r \in Request, Continue(r), req'[r].op \in Issuing
    PROVE  /\ req'[r].pc \in {"update", "update_write"} => ToUpdate(r)
           /\ req'[r].pc \in Written => ToIssue(r)
           /\ req'[r].pc \in Written \cup {"update", "update_write"} => tokens' = tokens
<1> DEFINE Goal == /\ req'[r].pc \in {"update", "update_write"} => ToUpdate(r)
                   /\ req'[r].pc \in Written => ToIssue(r)
<1>0. req'[r].pc \in Written \cup {"update", "update_write"} => tokens' = tokens
  BY TokenSteps DEF TokensKept, TokenWritten, TokensApplied, Written
<1> SUFFICES Goal
  BY <1>0
<1>1. req[r].op \in Issuing /\ req[r].pc # "idle"
  BY ServeSteps DEF GoesOn
<1>2. req[r].pc \notin {"make_code", "touch", "touch_write", "revoke_write"}
  BY <1>1 DEF TInv, LocalsOK, Issuing
<1>3. ASSUME NEW a, Reject(r, a)
      PROVE  Goal
  BY <1>3, Rejected DEF Written
<1>4. CASE Find(r)
  <2>1. ASSUME Goto(r, "insert")
        PROVE  Goal
    BY <2>1, GotoSteps DEF Written
  <2>2. QED
    BY <1>4, <2>1, ReuseSteps DEF Find
<1>5. CASE Update(r)
  <2>1. req[r].pc = "update"
    BY <1>5 DEF Update
  <2>2. ASSUME Goto(r, "insert")
        PROVE  Goal
    BY <2>2, GotoSteps DEF Written
  <2>3. ASSUME Goto(r, "update_write")
        PROVE  Goal
    BY <2>1, <2>3, GotoSteps DEF Written, ToUpdate
  <2>4. ASSUME Seen(r).tokens[req[r].token] # None,
               Seen(r).tokens[req[r].token].scope = req[r].scope,
               Issued(r, req[r].token)
        PROVE  Goal
    BY <2>1, <2>4, IssuedSteps DEF Written, ToIssue
  <2>5. QED
    BY <1>5, <2>2, <2>3, <2>4 DEF Update
<1>6. CASE UpdateWrite(r)
  <2>1. req[r].pc = "update_write"
    BY <1>6 DEF UpdateWrite
  <2>2. ASSUME tokens[req[r].token] # None, Issued(r, req[r].token),
               WriteToken(r, req[r].token, [tokens[req[r].token] EXCEPT !.scope = req[r].scope])
        PROVE  Goal
    <3>1. <<req[r].token, [tokens[req[r].token] EXCEPT !.scope = req[r].scope]>>
              \in written'[r].tokens
      BY <2>2, WriteTokenWrites
    <3>2. QED
      BY <2>1, <2>2, <3>1, IssuedSteps DEF Written, ToIssue
  <2>3. QED
    BY <1>3, <1>6, <2>2 DEF UpdateWrite
<1>7. ASSUME NEW t \in Token, Insert(r, t)
      PROVE  Goal
  <2>1. CASE Taken(r, t)
    <3>1. req'[r].pc = "classify"
      BY <1>7, <2>1 DEF Insert, TInv, TypeOK, Local
    <3>2. QED
      BY <3>1 DEF Written
  <2>2. CASE ~Taken(r, t)
    <3>1. /\ Issued(r, t)
          /\ WriteToken(r, t, [subject |-> req[r].subject, client |-> req[r].client,
                               scope |-> req[r].scope])
      BY <1>7, <2>2 DEF Insert
    <3>2. <<t, [subject |-> req[r].subject, client |-> req[r].client,
                scope |-> req[r].scope]>> \in written'[r].tokens
      BY <3>1, WriteTokenWrites
    <3>3. QED
      BY <3>1, <3>2, IssuedSteps DEF Written, ToIssue
  <2>3. QED
    BY <2>1, <2>2
<1>8. CASE Classify(r)
  BY <1>8, GotoSteps DEF Classify, Written
<1>9. CASE ClassifyValue(r)
  BY <1>3, <1>9 DEF ClassifyValue
<1>10. CASE Winner(r)
  BY <1>3, <1>10, ReuseSteps DEF Winner
<1>11. CASE Consume(r)
  <2>1. ASSUME Goto(r, "consume_write"), UNCHANGED written
        PROVE  Goal
    BY <1>11, <2>1, GotoSteps DEF Consume, ToIssue, Written
  <2>2. QED
    BY <1>3, <1>11, <2>1 DEF Consume
<1>12. CASE ConsumeWrite(r)
  <2>1. written'[r].tokens = written[r].tokens
    BY <1>12 DEF ConsumeWrite, WriteCode, TInv, TypeOK, Writes
  <2>2. req[r].pc = "consume_write" /\ Goto(r, "commit")
    BY <1>12 DEF ConsumeWrite
  <2>3. req'[r].pc = "commit" /\ req'[r].token = req[r].token
    BY <2>2, GotoSteps
  <2>4. req[r].pc \in Written
    BY <2>2 DEF Written
  <2>5. ToIssue(r)
    BY <2>1, <2>3, <2>4 DEF ToIssue
  <2>6. QED
    BY <2>3, <2>5
<1>13. CASE Commit(r)
  <2>1. req'[r].pc = "idle"
    BY <1>13, Left DEF Commit
  <2>2. QED
    BY <2>1 DEF Written
<1>14. Goal
  BY <1>2, <1>4, <1>5, <1>6, <1>7, <1>8, <1>9, <1>10, <1>11, <1>12, <1>13
     DEF Continue, MakeCode, Touch, TouchWrite, RevokeWrite
<1>15. QED
  BY <1>14

(* What is kept of a subject's tokens while its request is served.         *)
LEMMA Holding ==
    ASSUME Observe, NEW r \in Request, req'[r].op \in Issuing
    PROVE  /\ req'[r].pc # "idle" =>
                 /\ req[r].pc # "idle" => held[r] \subseteq held'[r]
                 /\ \A t \in Token : IsFor(tokens'[t], req'[r].subject, req'[r].client) =>
                       <<t, tokens'[t].scope>> \in held'[r]
           /\ req'[r].pc = "idle" /\ req[r].pc = "idle" /\ req'[r].answer = "SERVED" =>
                 held'[r] = held[r]
<1>1. CASE req'[r].pc # "idle"
  <2>1. held'[r] = (IF req[r].pc = "idle" THEN {} ELSE held[r]) \cup Now(r)'
    BY <1>1 DEF Observe
  <2>2. QED
    BY <1>1, <2>1 DEF Now
<1>2. CASE req'[r].pc = "idle"
  BY <1>2 DEF Observe
<1>3. QED
  BY <1>1, <1>2

LEMMA SnapshotsAgreeStep ==
    ASSUME TInv, WrittenOnce, WritesApart, Inserting, SnapshotsAgree,
           NEW r \in Request, Arrive(r) \/ Continue(r) \/ Abort(r)
    PROVE  SnapshotsAgree'
<1>1. ASSUME NEW q \in Request, NEW t \in Token, view[q] # None, view[q].tokens[t] # None,
             tokens'[t] # None
      PROVE  SamePair(tokens'[t], view[q].tokens[t])
  <2>1. CASE tokens'[t] = tokens[t]
    BY <1>1, <2>1 DEF SnapshotsAgree
  <2>2. CASE \E w \in written[r].tokens : w[1] = t /\ tokens'[t] = w[2]
    <3>1. PICK w \in written[r].tokens : w[1] = t /\ tokens'[t] = w[2]
      BY <2>2
    <3>2. tokens[t] # None
      BY <1>1, <3>1 DEF Inserting
    <3>3. IsFor(tokens[t], w[2].subject, w[2].client)
      BY <1>1, <3>1, <3>2 DEF WritesApart
    <3>4. QED
      BY <1>1, <3>1, <3>2, <3>3 DEF SnapshotsAgree, SamePair, IsFor
  <2>3. QED
    BY <2>1, <2>2, TokenSteps DEF TokensKept, TokenWritten, TokensApplied
<1>2. Observed(r)
  BY StepKnows
<1>3. ASSUME NEW t \in Token, view'[r] # None, view'[r].tokens[t] # None, tokens'[t] # None
      PROVE  SamePair(tokens'[t], view'[r].tokens[t])
  BY <1>1, <1>2, <1>3 DEF Observed, Committed, SamePair, IsFor
<1>4. QED
  BY <1>1, <1>3, OthersRest DEF SnapshotsAgree

(* A row that is there now is still for whom it was when it was read.      *)
LEMMA FoundStays ==
    ASSUME TInv, SnapshotsAgree, NEW r \in Request, NEW t \in Token, Found(r, t), tokens[t] # None
    PROVE  ForRequest(r, tokens[t])
<1>1. CASE view[r] = None
  BY <1>1 DEF Found, Seen, Committed, ForRequest
<1>2. CASE view[r] # None
  BY <1>2 DEF Found, Seen, SnapshotsAgree, SamePair, IsFor, ForRequest
<1>3. QED
  BY <1>1, <1>2

LEMMA UpdatesStep ==
    ASSUME TInv, WrittenOnce, WritesApart, Inserting, SnapshotsAgree, UpdatesItsOwn, TInv',
           NEW r \in Request, Arrive(r) \/ Continue(r) \/ Abort(r)
    PROVE  UpdatesItsOwn'
<1> DEFINE Own(q) ==
        /\ tokens'[req'[q].token] # None =>
              IsFor(tokens'[req'[q].token], req'[q].subject, req'[q].client)
        /\ view'[q] # None /\ view'[q].tokens[req'[q].token] # None =>
              IsFor(view'[q].tokens[req'[q].token], req'[q].subject, req'[q].client)
<1>1. ASSUME NEW q \in Request \ {r}, req'[q].pc \in {"update", "update_write"}
      PROVE  Own(q)
  <2>1. req'[q] = req[q] /\ view'[q] = view[q]
    BY OthersRest
  <2>2. req[q].token \in Token
    BY <1>1, <2>1 DEF TInv, LocalsOK, Issuers, Issuing
  <2>3. CASE tokens'[req[q].token] = tokens[req[q].token]
    BY <1>1, <2>1, <2>3 DEF UpdatesItsOwn, ForRequest
  <2>4. CASE \E w \in written[r].tokens : w[1] = req[q].token /\ tokens'[req[q].token] = w[2]
    <3>1. PICK w \in written[r].tokens : w[1] = req[q].token /\ tokens'[req[q].token] = w[2]
      BY <2>4
    <3>2. w[2] # None => tokens[req[q].token] # None
      BY <3>1 DEF Inserting
    <3>3. w[2] # None => IsFor(tokens[req[q].token], w[2].subject, w[2].client)
      BY <3>1, <3>2 DEF WritesApart
    <3>4. QED
      BY <1>1, <2>1, <3>1, <3>2, <3>3 DEF UpdatesItsOwn, ForRequest, IsFor
  <2>5. QED
    BY <2>2, <2>3, <2>4, TokenSteps DEF TokensKept, TokenWritten, TokensApplied
<1>2. ASSUME req'[r].pc \in {"update", "update_write"}
      PROVE  Own(r)
  <2>1. Continue(r)
    BY <1>2, Arrivals, Rejected DEF Arrived, Abort
  <2>2. GoesOn(r) /\ Observed(r)
    BY <2>1, ServeSteps
  <2>3. req'[r].op \in Issuing
    BY <1>2 DEF TInv, LocalsOK, Issuers
  <2>4. ToUpdate(r) /\ tokens' = tokens
    BY <1>2, <2>1, <2>3, IssueSteps
  <2>5. CASE \E t \in Token : Found(r, t) /\ req'[r].token = t
    <3>1. PICK t \in Token : Found(r, t) /\ req'[r].token = t
      BY <2>5
    <3>2. tokens[t] # None => ForRequest(r, tokens[t])
      BY <3>1, FoundStays
    <3>3. view[r] # None => ForRequest(r, view[r].tokens[t])
      BY <3>1 DEF Found, Seen, ForRequest
    <3>4. QED
      BY <1>2, <2>2, <2>4, <3>1, <3>2, <3>3 DEF GoesOn, Observed, ForRequest, Committed
  <2>6. CASE req[r].pc = "update" /\ req'[r].token = req[r].token
    BY <1>2, <2>2, <2>4, <2>6 DEF GoesOn, Observed, ForRequest, Committed, UpdatesItsOwn
  <2>7. QED
    BY <2>4, <2>5, <2>6 DEF ToUpdate
<1>3. QED
  BY <1>1, <1>2 DEF UpdatesItsOwn, ForRequest

(* A row its transaction has found was there while the request was served. *)
LEMMA FoundHeld ==
    ASSUME TInv, SnapshotsSeen, Observe, NEW r \in Request, NEW t \in Token,
           GoesOn(r), req[r].op \in Issuing, req'[r].pc # "idle", tokens' = tokens,
           ForRequest(r, Seen(r).tokens[t])
    PROVE  <<t, Seen(r).tokens[t].scope>> \in held'[r]
<1>1. /\ req[r].pc # "idle" /\ req'[r].op = req[r].op
      /\ req'[r].subject = req[r].subject /\ req'[r].client = req[r].client
  BY DEF GoesOn
<1>2. CASE view[r] = None
  BY <1>1, <1>2, Holding DEF Seen, Committed, ForRequest
<1>3. CASE view[r] # None
  BY <1>1, <1>3, Holding DEF Seen, SnapshotsSeen
<1>4. QED
  BY <1>2, <1>3

LEMMA SeenStep ==
    ASSUME TInv, WrittenOnce, IdleUnread, SnapshotsSeen, Observe,
           NEW r \in Request, Arrive(r) \/ Continue(r) \/ Abort(r)
    PROVE  SnapshotsSeen'
<1>1. ASSUME NEW q \in Request \ {r}, req'[q].pc # "idle", req'[q].op \in Issuing,
             view'[q] # None, NEW t \in Token,
             IsFor(view'[q].tokens[t], req'[q].subject, req'[q].client)
      PROVE  <<t, view'[q].tokens[t].scope>> \in held'[q]
  <2>1. req'[q] = req[q] /\ view'[q] = view[q]
    BY OthersRest
  <2>2. <<t, view[q].tokens[t].scope>> \in held[q]
    BY <1>1, <2>1 DEF SnapshotsSeen, ForRequest
  <2>3. QED
    BY <1>1, <2>1, <2>2, Holding
<1>2. ASSUME req'[r].pc # "idle", req'[r].op \in Issuing,
             view'[r] # None, NEW t \in Token,
             IsFor(view'[r].tokens[t], req'[r].subject, req'[r].client)
      PROVE  <<t, view'[r].tokens[t].scope>> \in held'[r]
  <2>1. Observed(r)
    BY StepKnows
  <2>2. CASE view'[r] = Committed /\ tokens' = tokens
    BY <1>2, <2>2, Holding DEF Committed
  <2>3. CASE view'[r] = view[r]
    <3>1. req[r].pc # "idle"
      BY <1>2, <2>3 DEF IdleUnread
    <3>2. ~Arrive(r)
      BY <3>1 DEF Arrive, IssueCode, IssueImplicit, ExchangeCode, ResolveToken, RevokeToken, Begin
    <3>3. GoesOn(r)
      BY <3>2, ServeSteps
    <3>4. <<t, view[r].tokens[t].scope>> \in held[r]
      BY <1>2, <2>3, <3>3 DEF GoesOn, SnapshotsSeen, ForRequest
    <3>5. QED
      BY <1>2, <2>3, <3>1, <3>4, Holding
  <2>4. QED
    BY <1>2, <2>1, <2>2, <2>3 DEF Observed
<1>3. QED
  BY <1>1, <1>2 DEF SnapshotsSeen, ForRequest

LEMMA IssuedOrWrittenStep ==
    ASSUME TInv, WrittenOnce, UpdatesItsOwn, SnapshotsSeen, IssuedOrWritten, Observe,
           NEW r \in Request, Arrive(r) \/ Continue(r) \/ Abort(r)
    PROVE  IssuedOrWritten'
<1> DEFINE IsIssued(q) ==
        \/ <<req'[q].token, req'[q].scope>> \in held'[q]
        \/ \E w \in written'[q].tokens : /\ w[1] = req'[q].token
                                         /\ IsFor(w[2], req'[q].subject, req'[q].client)
                                         /\ w[2].scope = req'[q].scope
<1>1. ASSUME NEW q \in Request \ {r}, req'[q].pc \in Written, req'[q].op \in Issuing
      PROVE  IsIssued(q)
  <2>1. req'[q] = req[q] /\ written'[q] = written[q]
    BY OthersRest
  <2>2. req[q].pc # "idle" /\ held[q] \subseteq held'[q]
    BY <1>1, <2>1, Holding DEF Written
  <2>3. QED
    BY <1>1, <2>1, <2>2 DEF IssuedOrWritten, ForRequest
<1>2. ASSUME req'[r].pc \in Written, req'[r].op \in Issuing
      PROVE  IsIssued(r)
  <2>1. Continue(r)
    BY <1>2, Arrivals, Rejected DEF Arrived, Abort, Written
  <2>2. req'[r].pc # "idle" /\ GoesOn(r)
    BY <1>2, <2>1, ServeSteps DEF Written
  <2>3. /\ req[r].pc # "idle" /\ req[r].op \in Issuing
        /\ req'[r].subject = req[r].subject /\ req'[r].client = req[r].client
        /\ req'[r].scope = req[r].scope
    BY <1>2, <2>2 DEF GoesOn
  <2>4. ToIssue(r) /\ tokens' = tokens
    BY <1>2, <2>1, IssueSteps
  <2>5. ASSUME NEW t \in Token, ForRequest(r, Seen(r).tokens[t]), req'[r].token = t,
               Seen(r).tokens[t].scope = req[r].scope
        PROVE  IsIssued(r)
    BY <2>2, <2>3, <2>4, <2>5, FoundHeld
  <2>6. CASE \E t \in Token : /\ Found(r, t) /\ req'[r].token = t
                              /\ Seen(r).tokens[t].scope = req[r].scope
    BY <2>5, <2>6 DEF Found, ForRequest
  <2>7. CASE /\ req[r].pc = "update" /\ req'[r].token = req[r].token
             /\ Seen(r).tokens[req[r].token] # None
             /\ Seen(r).tokens[req[r].token].scope = req[r].scope
    <3>1. req[r].token \in Token
      BY <2>3, <2>7 DEF TInv, LocalsOK, Issuing
    <3>2. ForRequest(r, Seen(r).tokens[req[r].token])
      BY <2>7 DEF UpdatesItsOwn, Seen, Committed
    <3>3. QED
      BY <2>5, <2>7, <3>1, <3>2
  <2>8. CASE /\ req[r].pc = "update_write" /\ req'[r].token = req[r].token
             /\ tokens[req[r].token] # None
             /\ <<req[r].token, [tokens[req[r].token] EXCEPT !.scope = req[r].scope]>>
                    \in written'[r].tokens
    <3> DEFINE row == [tokens[req[r].token] EXCEPT !.scope = req[r].scope]
    <3>1. req[r].token \in Token /\ req[r].scope \in Scope
      BY <2>3, <2>8 DEF TInv, LocalsOK, Issuing
    <3>2. ForRequest(r, tokens[req[r].token])
      BY <2>8 DEF UpdatesItsOwn
    <3>3. tokens[req[r].token] \in Row
      BY <2>8, <3>1 DEF TInv, TypeOK, TokenRow
    <3>4. /\ row \in Row /\ row.scope = req[r].scope
          /\ row.subject = tokens[req[r].token].subject
          /\ row.client = tokens[req[r].token].client
      BY <3>1, <3>3 DEF Row
    <3>5. row # None
      BY <3>4
    <3>6. <<req[r].token, row>> \in written'[r].tokens
      BY <2>8
    <3> HIDE DEF row
    <3>7. QED
      BY <2>3, <2>8, <3>2, <3>4, <3>5, <3>6 DEF ForRequest, IsFor
  <2>9. CASE <<req'[r].token, [subject |-> req[r].subject, client |-> req[r].client,
                               scope |-> req[r].scope]>> \in written'[r].tokens
    <3> DEFINE row == [subject |-> req[r].subject, client |-> req[r].client,
                       scope |-> req[r].scope]
    <3>1. req[r].subject \in Subject /\ req[r].client \in Client /\ req[r].scope \in Scope
      BY <2>3 DEF TInv, LocalsOK
    <3>2. /\ row \in Row /\ row.scope = req[r].scope
          /\ row.subject = req[r].subject /\ row.client = req[r].client
      BY <3>1 DEF Row
    <3>3. row # None
      BY <3>2
    <3>4. <<req'[r].token, row>> \in written'[r].tokens
      BY <2>9
    <3> HIDE DEF row
    <3>5. QED
      BY <2>3, <3>2, <3>3, <3>4 DEF IsFor
  <2>10. CASE /\ req[r].pc \in Written /\ req'[r].token = req[r].token
              /\ written'[r].tokens = written[r].tokens
    <3>1. held[r] \subseteq held'[r]
      BY <1>2, <2>2, <2>3, Holding
    <3>2. QED
      BY <2>3, <2>10, <3>1 DEF IssuedOrWritten, ForRequest
  <2>11. QED
    BY <2>4, <2>6, <2>7, <2>8, <2>9, <2>10 DEF ToIssue
<1>3. QED
  BY <1>1, <1>2 DEF IssuedOrWritten, ForRequest

LEMMA RecordedStep ==
    ASSUME TInv, WrittenOnce, IssuedOrWritten, IssuedAsRecorded, Observe,
           NEW r \in Request, Arrive(r) \/ Continue(r) \/ Abort(r)
    PROVE  IssuedAsRecorded'
<1>1. ASSUME NEW q \in Request \ {r},
             req'[q].pc = "idle", req'[q].op \in Issuing, req'[q].answer = "SERVED"
      PROVE  <<req'[q].token, req'[q].scope>> \in held'[q]
  <2>1. req'[q] = req[q]
    BY OthersRest
  <2>2. QED
    BY <1>1, <2>1, Holding DEF IssuedAsRecorded
<1>2. ASSUME req'[r].pc = "idle", req'[r].op \in Issuing, req'[r].answer = "SERVED"
      PROVE  <<req'[r].token, req'[r].scope>> \in held'[r]
  <2>1. ~Arrive(r)
    BY <1>2, Arrivals DEF Arrived, Issuing
  <2>2. Commit(r)
    BY <1>2, <2>1, ServeSteps DEF GoesOn
  <2>3. /\ req[r].pc = "commit" /\ req[r].op = req'[r].op
        /\ req'[r].token = req[r].token /\ req'[r].scope = req[r].scope
    BY <2>2, Left DEF Commit
  <2> DEFINE then == {<<t, tokens'[t].scope>> :
                         t \in {u \in Token : IsFor(tokens'[u], req[r].subject, req[r].client)}}
  <2>4. held'[r] = {<<req[r].token, req[r].scope>>} \cap (held[r] \cup then)
    BY <1>2, <2>3 DEF Observe
  <2>5. req[r].token \in Token
    BY <1>2, <2>3 DEF TInv, LocalsOK, Issuing
  <2>6. CASE <<req[r].token, req[r].scope>> \in held[r]
    BY <2>3, <2>4, <2>6
  <2>7. ASSUME NEW w \in written[r].tokens, w[1] = req[r].token, ForRequest(r, w[2]),
               w[2].scope = req[r].scope
        PROVE  <<req[r].token, req[r].scope>> \in then
    <3>1. tokens'[req[r].token] = w[2]
      BY <2>2, <2>7, Applied DEF Commit
    <3>2. QED
      BY <2>5, <2>7, <3>1 DEF ForRequest
  <2> HIDE DEF then
  <2>8. QED
    BY <1>2, <2>3, <2>4, <2>6, <2>7 DEF IssuedOrWritten, Written
<1>3. QED
  BY <1>1, <1>2 DEF IssuedAsRecorded

LEMMA RecordInit == Init => RecordInv
<1> SUFFICES ASSUME Init
             PROVE  RecordInv
  OBVIOUS
<1>1. \A r \in Request : req[r].pc = "idle" /\ req[r].op = "none" /\ view[r] = None
  BY DEF Init, Blank
<1>2. /\ SnapshotsAgree /\ UpdatesItsOwn /\ SnapshotsSeen /\ IssuedOrWritten
      /\ IssuedAsRecorded
  BY <1>1 DEF SnapshotsAgree, UpdatesItsOwn, SnapshotsSeen, IssuedOrWritten, IssuedAsRecorded,
              Written, Issuing
<1>3. QED
  BY <1>2, GoneInit DEF RecordInv

LEMMA RecordNext ==
    ASSUME ~Repeat, RecordInv, [Next]_vars
    PROVE  RecordInv'
<1>1. GoneInv'
  BY GoneNext DEF RecordInv
<1>2. TInv'
  BY <1>1 DEF GoneInv, TableInv
<1>3. ASSUME NEW r \in Request, Arrive(r) \/ Continue(r) \/ Abort(r), Observe
      PROVE  RecordInv'
  <2>1. SnapshotsAgree' /\ UpdatesItsOwn'
    BY <1>2, <1>3, SnapshotsAgreeStep, UpdatesStep DEF RecordInv, GoneInv, TableInv
  <2>2. SnapshotsSeen' /\ IssuedOrWritten' /\ IssuedAsRecorded'
    BY <1>3, SeenStep, IssuedOrWrittenStep, RecordedStep DEF RecordInv, GoneInv, TableInv
  <2>3. QED
    BY <1>1, <2>1, <2>2 DEF RecordInv
<1>4. CASE Tick /\ Observe
  <2>1. UNCHANGED <<tokens, req, written, view, minted, delivered>>
    BY <1>4 DEF Tick, Tables
  <2>2. \A r \in Request : /\ req[r].pc # "idle" /\ req[r].op \in Issuing =>
                                 held[r] \subseteq held'[r]
                           /\ req[r].pc = "idle" /\ req[r].op \in Issuing
                                 /\ req[r].answer = "SERVED" => held'[r] = held[r]
    BY <1>4, <2>1, Holding
  <2>3. SnapshotsAgree' /\ UpdatesItsOwn'
    BY <2>1 DEF RecordInv, SnapshotsAgree, UpdatesItsOwn, ForRequest
  <2>4. SnapshotsSeen'
    <3>1. ASSUME NEW r \in Request, req'[r].pc # "idle", req'[r].op \in Issuing,
                 view'[r] # None, NEW t \in Token,
                 IsFor(view'[r].tokens[t], req'[r].subject, req'[r].client)
          PROVE  <<t, view'[r].tokens[t].scope>> \in held'[r]
      <4>1. <<t, view[r].tokens[t].scope>> \in held[r]
        BY <2>1, <3>1 DEF RecordInv, SnapshotsSeen, ForRequest
      <4>2. held[r] \subseteq held'[r]
        BY <2>1, <2>2, <3>1
      <4>3. QED
        BY <2>1, <4>1, <4>2
    <3>2. QED
      BY <3>1 DEF SnapshotsSeen, ForRequest
  <2>5. IssuedOrWritten'
    <3>1. ASSUME NEW r \in Request, req'[r].pc \in Written, req'[r].op \in Issuing
          PROVE  \/ <<req'[r].token, req'[r].scope>> \in held'[r]
                 \/ \E w \in written'[r].tokens :
                        /\ w[1] = req'[r].token
                        /\ IsFor(w[2], req'[r].subject, req'[r].client)
                        /\ w[2].scope = req'[r].scope
      <4>1. held[r] \subseteq held'[r]
        BY <2>1, <2>2, <3>1 DEF Written
      <4>2. QED
        BY <2>1, <3>1, <4>1 DEF RecordInv, IssuedOrWritten, ForRequest
    <3>2. QED
      BY <3>1 DEF IssuedOrWritten, ForRequest
  <2>6. IssuedAsRecorded'
    <3>1. ASSUME NEW r \in Request, req[r].pc = "idle", req[r].op \in Issuing,
                 req[r].answer = "SERVED"
          PROVE  held'[r] = held[r]
      BY <2>2, <3>1
    <3>2. QED
      BY <2>1, <3>1 DEF RecordInv, IssuedAsRecorded
  <2>7. QED
    BY <1>1, <2>3, <2>4, <2>5, <2>6 DEF RecordInv
<1>5. CASE UNCHANGED vars
  BY <1>1, <1>5 DEF vars, RecordInv, SnapshotsAgree, UpdatesItsOwn, SnapshotsSeen,
                    IssuedOrWritten, IssuedAsRecorded, ForRequest
<1>6. QED
  BY <1>3, <1>4, <1>5 DEF Next

(* When the generator repeats no value: what a client is told it was       *)
(* issued is what the database held for that contact and client while the  *)
(* request was served, or what the request itself has committed, whatever  *)
(* other requests issue, update, use and revoke meanwhile.                 *)
THEOREM IssuedWhatIsHeld == ASSUME ~Repeat PROVE Spec => []IssuedAsRecorded
<1>1. RecordInv => IssuedAsRecorded
  BY DEF RecordInv
<1>2. QED
  BY <1>1, RecordInit, RecordNext, PTL DEF Spec
=============================================================================
