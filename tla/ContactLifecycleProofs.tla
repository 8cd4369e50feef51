----------------------- MODULE ContactLifecycleProofs -----------------------
(***************************************************************************)
(* Proofs about ContactLifecycle, for every number of requests, contacts,  *)
(* tokens and categories, every token limit, and however often other       *)
(* programs change what the requests work on.                              *)
(***************************************************************************)
EXTENDS ContactLifecycle, FiniteSetTheorems, TLAPS

Inviting == {"authorize", "hook", "find", "create", "save", "insert", "select", "trim",
             "deliver", "send", "code", "discard"}
Points == {"idle"} \cup Inviting \cup Deleting
Holding == {"select", "trim", "deliver", "send", "code", "discard"}
Tables == {"token", "member", "private"}
Pairs == Contact \X Category
Rights == {AddUsers} \cup Group

Local == [pc : Points, kind : Kinds \cup {None}, address : Address \cup {None},
          groups : SUBSET Group, contact : Contact \cup {None},
          stamp : (0..MaxTime) \cup {None}, token : Token \cup {None}, keep : SUBSET Token,
          snapshot : SUBSET Pairs, doomed : SUBSET Token, leaving : SUBSET Pairs,
          counted : [Category -> Nat \cup {None}]]
Entry == [moments : SUBSET SUBSET Rights, met : SUBSET Contact, touched : SUBSET Category]
Histories == [of : [Request -> Entry], cut : SUBSET Token, untrimmed : SUBSET Token,
              strays : SUBSET (Contact \X Tables), off : SUBSET Category]

TypeOK ==
    /\ contact \in [Contact -> ContactRows \cup {None}]
    /\ token \in [Token -> TokenRows \cup {None}]
    /\ private \subseteq Contact
    /\ member \subseteq Pairs
    /\ cnt \in [Category -> Nat]
    /\ rights \subseteq Rights
    /\ born \in 0..MaxContact
    /\ now \in 0..MaxTime
    /\ req \in [Request -> Local]
    /\ history \in Histories

-----------------------------------------------------------------------------
(* What holds of a request h whose history is o.                           *)

(* Which of its locals it has got so far. *)
Known(h) ==
    /\ h.pc \in {"authorize", "hook", "find", "create"} => h.address \in Address
    /\ h.pc \in Deleting \cup Holding \cup {"save", "insert"} => h.contact \in Contact
    /\ h.pc \in {"insert", "select"} => h.stamp \in 0..MaxTime
    /\ h.pc \in Holding <=> h.token # None

(* What the inviting user may do now is one of the moments; the groups are *)
(* those of one moment.                                                    *)
Granted(h, o) ==
    /\ h.pc \in Inviting => rights \in o.moments
    /\ h.pc \in {"hook", "find", "create", "save", "insert"} =>
          \E m \in o.moments : AddUsers \in m /\ h.groups \subseteq m

(* The row of its token is the one it inserted, while there is one.        *)
Inserted(h, o) ==
    h.token \in Stored =>
        /\ token[h.token].contact = h.contact
        /\ token[h.token].type = TypeOf(h.kind)
        /\ h.pc = "select" => token[h.token].created = h.stamp
        /\ \E m \in o.moments : AddUsers \in m /\ token[h.token].groups \subseteq m

(* Its token is there, or was not its own to keep; its trim keeps it.      *)
Keeps(h) ==
    /\ h.pc \in Holding => h.token \in Stored \cup history.cut
    /\ h.pc = "trim" => h.token \in h.keep \cup history.cut \/ h.token \notin Stored

Trims(h) ==
    h.pc = "trim" =>
        /\ IsFiniteSet(h.keep) /\ Cardinality(h.keep) <= TokenLimit
        /\ h.keep = {} => h.token \notin Stored

(* None of those who had its address then has it when it creates another. *)
Met(h, o) ==
    /\ o.met \subseteq 1..born
    /\ h.pc = "create" /\ h.kind # "code" => o.met \cap Holders(h.address) = {}

(* What a deletion has passed and will not take with it is a stray.        *)
Passed(h) ==
    /\ h.pc \in {"begin", "sweep", "recount", "commit"} /\ h.contact \in private =>
          <<h.contact, "private">> \in history.strays
    /\ h.pc \in {"recount", "commit"} =>
          /\ \A k \in Stored : token[k].contact = h.contact =>
                k \in h.doomed \/ <<h.contact, "token">> \in history.strays
          /\ \A g \in Category : <<h.contact, g>> \in member =>
                <<h.contact, g>> \in h.leaving \/ <<h.contact, "member">> \in history.strays

(* A category that nobody touched since has the members of the snapshot.   *)
Counts(h, o) ==
    /\ h.pc \in {"sweep", "recount", "commit"} =>
          \A g \in Category \ o.touched : MembersOf(g, member) = MembersOf(g, h.snapshot)
    /\ \A g \in Category : h.counted[g] # None =>
          /\ h.pc = "commit"
          /\ h.counted[g] = Cardinality(MembersOf(g, h.snapshot \ h.leaving))

OK(h, o) ==
    /\ Known(h)
    /\ Granted(h, o)
    /\ Inserted(h, o)
    /\ Keeps(h)
    /\ Trims(h)
    /\ Met(h, o)
    /\ Passed(h)
    /\ Counts(h, o)

(* No two requests hold the same token. *)
Apart ==
    \A r, q \in Request : req[r].token = req[q].token => r = q \/ req[r].token = None

(* Rows without a contact; ids that have not been given out.               *)
NoRows ==
    \A c \in Contact : contact[c] = None =>
        /\ (\E k \in Stored : token[k].contact = c) => <<c, "token">> \in history.strays
        /\ (\E g \in Category : <<c, g>> \in member) => <<c, "member">> \in history.strays
        /\ c \in private => <<c, "private">> \in history.strays
Unborn == \A c \in Contact : contact[c] # None => c \in 1..born

Inv ==
    /\ TypeOK
    /\ IsFiniteSet(Stored)
    /\ TokensBounded
    /\ CountsHonest
    /\ NoRows
    /\ Unborn
    /\ Apart
    /\ \A r \in Request : OK(req[r], history.of[r])

-----------------------------------------------------------------------------
(* A request that changes nothing but its own locals and history.          *)

LEMMA IdleIs ==
    /\ Idle \in Local /\ Idle.pc = "idle" /\ Idle.token = None /\ Idle.kind = None
    /\ \A g \in Category : Idle.counted[g] = None
    /\ Calm \in Entry /\ Calm.met = {}
BY DEF Idle, Local, Points, Kinds, Calm, Entry

LEMMA IdleOK ==
    ASSUME NEW g \in Local, g = Idle, NEW o \in Entry, o = Calm
    PROVE  OK(g, o) /\ OK(g, o)'
<1>1. /\ g.pc = "idle" /\ g.token = None /\ g.kind = None /\ o.met = {}
      /\ \A a \in Category : g.counted[a] = None
  BY IdleIs
<1>2. g.token \notin Token
  BY <1>1, NoneAssumption
<1>3. OK(g, o)
  <2>1. Known(g) /\ Granted(g, o) /\ Keeps(g) /\ Trims(g)
    BY <1>1 DEF Known, Granted, Keeps, Trims, Deleting, Holding, Inviting
  <2>2. Inserted(g, o) /\ Met(g, o) /\ Passed(g) /\ Counts(g, o)
    BY <1>1, <1>2 DEF Inserted, Stored, Met, Passed, Counts
  <2>3. QED
    BY <2>1, <2>2 DEF OK
<1>4. OK(g, o)'
  <2>1. Known(g)' /\ Granted(g, o)' /\ Keeps(g)' /\ Trims(g)'
    BY <1>1 DEF Known, Granted, Keeps, Trims, Deleting, Holding, Inviting
  <2>2. Inserted(g, o)' /\ Met(g, o)' /\ Passed(g)' /\ Counts(g, o)'
    BY <1>1, <1>2 DEF Inserted, Stored, Met, Passed, Counts
  <2>3. QED
    BY <2>1, <2>2 DEF OK
<1>5. QED
  BY <1>3, <1>4

(* The members of a category are finitely many: contacts are. *)
LEMMA MembersFinite ==
    ASSUME NEW pairs \in SUBSET Pairs, NEW a \in Category
    PROVE  Cardinality(MembersOf(a, pairs)) \in Nat
<1>1. MembersOf(a, pairs) \subseteq Contact \X {a}
  BY DEF MembersOf, Pairs
<1>2. IsFiniteSet(Contact) /\ IsFiniteSet({a})
  <2>1. 1 \in Int /\ MaxContact \in Int
    BY BoundsAssumption
  <2>2. IsFiniteSet(1..MaxContact)
    BY <2>1, FS_Interval
  <2>3. QED
    BY <2>2, FS_Singleton DEF Contact
<1>3. IsFiniteSet(Contact \X {a})
  BY <1>2, FS_Product
<1>4. QED
  BY <1>1, <1>3, FS_Subset, FS_CardinalityType

(* The rows stay, and so do the other requests; tokens cut off may become  *)
(* more, or forget the one this request held.                              *)
LEMMA Advance ==
    ASSUME Inv, NEW r \in Request, NEW h \in Local, h = req[r],
           NEW g \in Local, NEW o \in Entry,
           req' = [req EXCEPT ![r] = g], history'.of = [history.of EXCEPT ![r] = o],
           history' \in Histories,
           UNCHANGED tables, UNCHANGED <<rights, born, now>>,
           UNCHANGED <<history.untrimmed, history.strays, history.off>>,
           history.cut \ {h.token} \subseteq history'.cut,
           g.token \in {h.token, None}, OK(g, o)'
    PROVE  Inv'
<1>1. /\ req'[r] = g /\ \A q \in Request \ {r} : req'[q] = req[q]
      /\ history'.of[r] = o /\ \A q \in Request \ {r} : history'.of[q] = history.of[q]
  BY DEF Inv, TypeOK, Histories
<1>2. UNCHANGED <<contact, token, private, member, cnt, Stored>>
  BY DEF tables, Stored
<1>3. TypeOK'
  BY <1>2 DEF Inv, TypeOK
<1>4. /\ IsFiniteSet(Stored)' /\ TokensBounded' /\ CountsHonest' /\ NoRows' /\ Unborn'
  BY <1>2 DEF Inv, TokensBounded, TokensOf, CountsHonest, NoRows, Unborn
<1>5. Apart'
  BY <1>1 DEF Inv, Apart
<1>6. ASSUME NEW q \in Request \ {r}
      PROVE  OK(req[q], history.of[q])'
  <2>1. PICK l \in Local : l = req[q]
    BY DEF Inv, TypeOK
  <2>2. PICK e \in Entry : e = history.of[q]
    BY DEF Inv, TypeOK, Histories
  <2>3. OK(l, e)
    BY <2>1, <2>2 DEF Inv
  <2>4. l.token # None => l.token # h.token
    BY <2>1 DEF Inv, Apart
  <2>5. Known(l)' /\ Granted(l, e)' /\ Trims(l)' /\ Passed(l)' /\ Counts(l, e)'
    BY <1>2, <2>3 DEF OK, Known, Granted, Trims, Passed, Counts
  <2>6. Inserted(l, e)' /\ Met(l, e)'
    BY <1>2, <2>3 DEF OK, Inserted, Met, Holders, Existing
  <2>7. Keeps(l)'
    <3>1. l.pc \in Holding => l.token # None
      BY <2>3 DEF OK, Known
    <3>2. "trim" \in Holding
      BY DEF Holding
    <3>3. QED
      BY <1>2, <2>3, <2>4, <3>1, <3>2 DEF OK, Keeps
  <2>8. OK(l, e)'
    BY <2>5, <2>6, <2>7 DEF OK
  <2>9. QED
    BY <1>1, <2>1, <2>2, <2>8
<1>7. QED
  BY <1>1, <1>3, <1>4, <1>5, <1>6 DEF Inv

(* A request is over: what it held it no longer holds.                     *)
LEMMA FinishStep ==
    ASSUME Inv, NEW r \in Request, Finish(r), history' = Over(r, history),
           UNCHANGED tables, UNCHANGED <<rights, born, now>>
    PROVE  Inv'
<1>1. PICK h \in Local : h = req[r]
  BY DEF Inv, TypeOK
<1>2. PICK g \in Local : g = Idle
  BY IdleIs
<1>3. PICK o \in Entry : o = Calm
  BY IdleIs
<1>4. req' = [req EXCEPT ![r] = g]
  BY <1>2 DEF Finish
<1>5. /\ history'.of = [history.of EXCEPT ![r] = o] /\ history' \in Histories
      /\ UNCHANGED <<history.untrimmed, history.strays, history.off>>
      /\ history'.cut = history.cut \ {h.token}
  BY <1>1, <1>3 DEF Over, Inv, TypeOK, Histories
<1>6. OK(g, o)'
  BY <1>2, <1>3, IdleOK
<1>7. QED
  BY <1>1, <1>2, <1>4, <1>5, <1>6, Advance, IdleIs

(* An invitation goes on: its locals stay as they are.                     *)
LEMMA GoOn ==
    ASSUME Inv, NEW r \in Request, NEW h \in Local, h = req[r], NEW p \in Inviting,
           Goto(r, p), UNCHANGED tables, UNCHANGED <<rights, born, now, history>>,
           h.pc \in Inviting, p \in Holding <=> h.pc \in Holding,
           p \notin {"authorize", "save", "insert", "select", "trim"},
           p \in {"hook", "find", "create"} => h.pc \in {"hook", "find"},
           p = "create" => Holders(h.address) = {}
    PROVE  Inv'
<1>1. PICK g : g = [h EXCEPT !.pc = p]
  OBVIOUS
<1>2. PICK o \in Entry : o = history.of[r]
  BY DEF Inv, TypeOK, Histories
<1>3. p \in Points
  BY DEF Points
<1>4. /\ g \in Local /\ g.pc = p /\ g.kind = h.kind /\ g.address = h.address
      /\ g.groups = h.groups /\ g.contact = h.contact /\ g.token = h.token
      /\ g.counted = h.counted
  BY <1>1, <1>3 DEF Local
<1>5. req' = [req EXCEPT ![r] = g] /\ history'.of = [history.of EXCEPT ![r] = o]
  BY <1>1, <1>2 DEF Goto, Inv, TypeOK, Histories
<1>6. OK(h, o)
  BY <1>2 DEF Inv
<1>7. OK(g, o)'
  <2>1. UNCHANGED <<contact, token, private, member, Stored>>
    BY DEF tables, Stored
  <2>2. Known(g)'
    BY <1>4, <1>6 DEF OK, Known, Holding, Inviting, Deleting
  <2>3. Granted(g, o)' /\ Inserted(g, o)' /\ Keeps(g)' /\ Trims(g)'
    BY <1>4, <1>6, <2>1 DEF OK, Granted, Inserted, Keeps, Trims, Inviting
  <2>4. Met(g, o)'
    BY <1>4, <1>6, <2>1 DEF OK, Met, Holders, Existing
  <2>5. Passed(g)' /\ Counts(g, o)'
    BY <1>4, <1>6, <2>1 DEF OK, Passed, Counts, Inviting
  <2>6. QED
    BY <2>2, <2>3, <2>4, <2>5 DEF OK
<1>8. QED
  BY <1>4, <1>5, <1>7, Advance DEF Inv, TypeOK

LEMMA InviteStep ==
    ASSUME Inv, NEW r \in Request, Invite(r)
    PROVE  Inv'
<1>1. PICK h \in Local : h = req[r]
  BY DEF Inv, TypeOK
<1>2. PICK kind \in Kinds, a \in Address, asked \in SUBSET Group :
          /\ req' = [req EXCEPT ![r] = [Idle EXCEPT !.pc = "authorize", !.kind = kind,
                                                    !.address = a, !.groups = asked]]
          /\ history' = [history EXCEPT !.of[r] =
                           [moments |-> {rights}, touched |-> {},
                            met |-> IF kind = "code" THEN {} ELSE Holders(a)]]
  BY DEF Invite
<1>3. h.token = None
  BY <1>1 DEF Invite, InFlight, Inv, OK, Known, Holding
<1>4. PICK i \in Local : i = Idle /\ i.token = None /\ \A g \in Category : i.counted[g] = None
  BY IdleIs
<1>5. PICK p \in Points : p = "authorize"
  BY DEF Points, Inviting
<1>6. PICK g : g = [i EXCEPT !.pc = p, !.kind = kind, !.address = a, !.groups = asked]
  OBVIOUS
<1>7. /\ g \in Local /\ g.pc = p /\ g.kind = kind /\ g.address = a
      /\ g.token = None /\ g.counted = i.counted
  <2>1. g \in Local /\ g.pc = p /\ g.kind = kind /\ g.address = a
    BY <1>6 DEF Local
  <2>2. g.token = i.token /\ g.counted = i.counted
    BY <1>6 DEF Local
  <2>3. QED
    BY <1>4, <2>1, <2>2
<1>8. PICK m \in SUBSET Contact : m = IF kind = "code" THEN {} ELSE Holders(a)
  BY DEF Holders, Existing
<1>9. PICK o \in Entry : o = [moments |-> {rights}, touched |-> {}, met |-> m]
  BY DEF Entry, Inv, TypeOK
<1>10. o.moments = {rights} /\ m \subseteq 1..born /\ o.met = m
  BY <1>8, <1>9 DEF Holders, Existing, Inv, Unborn
<1>11. /\ req' = [req EXCEPT ![r] = g] /\ history'.of = [history.of EXCEPT ![r] = o]
       /\ history' \in Histories
       /\ UNCHANGED <<history.cut, history.untrimmed, history.strays, history.off>>
  <2>1. o = [moments |-> {rights}, touched |-> {},
             met |-> IF kind = "code" THEN {} ELSE Holders(a)]
    BY <1>8, <1>9
  <2>2. history' = [history EXCEPT !.of[r] = o]
    BY <1>2, <2>1
  <2>3. req' = [req EXCEPT ![r] = g]
    BY <1>2, <1>4, <1>5, <1>6
  <2>4. QED
    BY <2>2, <2>3 DEF Inv, TypeOK, Histories
<1>12. UNCHANGED tables /\ UNCHANGED <<rights, born, now>>
  BY DEF Invite
<1>13. OK(g, o)'
  <2>1. None \notin Token
    BY NoneAssumption
  <2>2. Known(g)' /\ Granted(g, o)' /\ Keeps(g)' /\ Trims(g)'
    BY <1>5, <1>7, <1>10, <1>12 DEF Known, Granted, Keeps, Trims, Holding, Deleting
  <2>3. Inserted(g, o)' /\ Met(g, o)' /\ Passed(g)' /\ Counts(g, o)'
    BY <1>4, <1>5, <1>7, <1>10, <1>12, <2>1 DEF Inserted, Stored, Met, Passed, Counts
  <2>4. QED
    BY <2>2, <2>3 DEF OK
<1>14. QED
  BY <1>1, <1>3, <1>7, <1>11, <1>12, <1>13, Advance

LEMMA AuthorizeStep ==
    ASSUME Inv, NEW r \in Request, Authorize(r)
    PROVE  Inv'
<1>1. PICK h \in Local : h = req[r]
  BY DEF Inv, TypeOK
<1>2. PICK o \in Entry : o = history.of[r]
  BY DEF Inv, TypeOK, Histories
<1>3. OK(h, o) /\ h.pc = "authorize"
  BY <1>1, <1>2 DEF Inv, Authorize
<1>4. UNCHANGED tables /\ UNCHANGED <<rights, born, now>>
  BY DEF Authorize, outside
<1>5. CASE AddUsers \in rights
  <2>1. PICK p \in {"hook", "create"} : p = IF h.kind = "code" THEN "create" ELSE "hook"
    OBVIOUS
  <2>2. PICK groups \in SUBSET Group : groups = h.groups \cap rights
    BY DEF Local
  <2>3. PICK g : g = [h EXCEPT !.pc = p, !.groups = groups]
    OBVIOUS
  <2>4. /\ g \in Local /\ g.pc = p /\ g.groups = groups /\ g.kind = h.kind
        /\ g.address = h.address /\ g.token = h.token /\ g.counted = h.counted
    BY <2>3 DEF Local, Points, Inviting
  <2>5. /\ req' = [req EXCEPT ![r] = g] /\ history'.of = [history.of EXCEPT ![r] = o]
        /\ UNCHANGED history
    BY <1>1, <1>2, <1>5, <2>1, <2>2, <2>3 DEF Authorize, Inv, TypeOK, Histories
  <2>6. UNCHANGED <<contact, token, private, member, Stored>>
    BY <1>4 DEF tables, Stored
  <2>7. Known(g)' /\ Keeps(g)' /\ Trims(g)'
    BY <1>3, <2>4, <2>6 DEF OK, Known, Keeps, Trims, Holding, Deleting, Inviting
  <2>8. Granted(g, o)'
    BY <1>3, <1>4, <1>5, <2>2, <2>4 DEF OK, Granted, Inviting
  <2>9. h.token \notin Stored /\ h.token = None
    BY <1>3, NoneAssumption DEF OK, Known, Stored, Holding
  <2>10. Inserted(g, o)' /\ Met(g, o)' /\ Passed(g)' /\ Counts(g, o)'
    BY <1>3, <1>4, <2>1, <2>4, <2>6, <2>9 DEF OK, Inserted, Met, Passed, Counts
  <2>11. QED
    BY <1>1, <1>4, <2>4, <2>5, <2>7, <2>8, <2>10, Advance DEF OK, Inv, TypeOK
<1>6. CASE AddUsers \notin rights
  BY <1>4, <1>6, FinishStep DEF Authorize
<1>7. QED
  BY <1>5, <1>6

(* The steps of an invitation that only say where it goes next.            *)
LEMMA ControlStep ==
    ASSUME Inv, NEW r \in Request, Hook(r) \/ Deliver(r) \/ Accept(r) \/ Refuse(r)
    PROVE  Inv'
<1>1. PICK h \in Local : h = req[r]
  BY DEF Inv, TypeOK
<1>2. UNCHANGED tables /\ UNCHANGED <<rights, born, now>>
  BY DEF Hook, Deliver, Accept, Refuse, outside
<1>3. CASE Finish(r) /\ history' = Over(r, history)
  BY <1>2, <1>3, FinishStep
<1>4. CASE h.pc = "hook" /\ Goto(r, "find") /\ UNCHANGED history
  <2>1. PICK p \in Inviting : p = "find"
    BY DEF Inviting
  <2>2. p \notin Holding /\ h.pc \notin Holding /\ h.pc \in Inviting
    BY <1>4, <2>1 DEF Holding, Inviting
  <2>3. QED
    BY <1>1, <1>2, <1>4, <2>1, <2>2, GoOn
<1>5. CASE h.pc = "deliver" /\ Goto(r, "send") /\ UNCHANGED history
  <2>1. PICK p \in Inviting : p = "send"
    BY DEF Inviting
  <2>2. p \in Holding /\ h.pc \in Holding /\ h.pc \in Inviting
    BY <1>5, <2>1 DEF Holding, Inviting
  <2>3. QED
    BY <1>1, <1>2, <1>5, <2>1, <2>2, GoOn
<1>6. CASE h.pc = "deliver" /\ Goto(r, "code") /\ UNCHANGED history
  <2>1. PICK p \in Inviting : p = "code"
    BY DEF Inviting
  <2>2. p \in Holding /\ h.pc \in Holding /\ h.pc \in Inviting
    BY <1>6, <2>1 DEF Holding, Inviting
  <2>3. QED
    BY <1>1, <1>2, <1>6, <2>1, <2>2, GoOn
<1>7. CASE h.pc = "code" /\ Goto(r, "discard") /\ UNCHANGED history
  <2>1. PICK p \in Inviting : p = "discard"
    BY DEF Inviting
  <2>2. p \in Holding /\ h.pc \in Holding /\ h.pc \in Inviting
    BY <1>7, <2>1 DEF Holding, Inviting
  <2>3. QED
    BY <1>1, <1>2, <1>7, <2>1, <2>2, GoOn
<1>8. QED
  BY <1>1, <1>3, <1>4, <1>5, <1>6, <1>7 DEF Hook, Deliver, Accept, Refuse

LEMMA FindStep ==
    ASSUME Inv, NEW r \in Request, Find(r)
    PROVE  Inv'
<1>1. PICK h \in Local : h = req[r]
  BY DEF Inv, TypeOK
<1>2. PICK o \in Entry : o = history.of[r]
  BY DEF Inv, TypeOK, Histories
<1>3. OK(h, o) /\ h.pc = "find"
  BY <1>1, <1>2 DEF Inv, Find
<1>4. UNCHANGED tables /\ UNCHANGED <<rights, born, now>>
  BY DEF Find, outside
<1>5. CASE Holders(h.address) = {} /\ Goto(r, "create") /\ UNCHANGED history
  <2>1. PICK p \in Inviting : p = "create"
    BY DEF Inviting
  <2>2. p \notin Holding /\ h.pc \notin Holding /\ h.pc \in Inviting
    BY <1>3, <2>1 DEF Holding, Inviting
  <2>3. QED
    BY <1>1, <1>3, <1>4, <1>5, <2>1, <2>2, GoOn
<1>6. ASSUME NEW c \in Contact,
             req' = [req EXCEPT ![r].pc = "insert", ![r].contact = c, ![r].stamp = now,
                                ![r].address = None],
             history' = [history EXCEPT !.of[r].met = {}]
      PROVE  Inv'
  <2>1. PICK p \in Points : p = "insert"
    BY DEF Points, Inviting
  <2>2. PICK n \in 0..MaxTime : n = now
    BY DEF Inv, TypeOK
  <2>3. PICK g : g = [h EXCEPT !.pc = p, !.contact = c, !.stamp = n, !.address = None]
    OBVIOUS
  <2>4. /\ g \in Local /\ g.pc = "insert" /\ g.contact = c /\ g.stamp = n /\ g.kind = h.kind
        /\ g.groups = h.groups /\ g.token = h.token /\ g.counted = h.counted
    BY <2>1, <2>3 DEF Local
  <2>5. PICK e : e = [o EXCEPT !.met = {}]
    OBVIOUS
  <2>6. e \in Entry /\ e.met = {} /\ e.moments = o.moments
    BY <2>5 DEF Entry
  <2>7. req' = [req EXCEPT ![r] = g]
    BY <1>1, <1>6, <2>1, <2>2, <2>3 DEF Inv, TypeOK
  <2>8. /\ history'.of = [history.of EXCEPT ![r] = e] /\ history' \in Histories
        /\ UNCHANGED <<history.cut, history.untrimmed, history.strays, history.off>>
    BY <1>2, <1>6, <2>5, <2>6 DEF Inv, TypeOK, Histories
  <2>9. UNCHANGED <<contact, token, private, member, Stored>>
    BY <1>4 DEF tables, Stored
  <2>10. h.token = None /\ h.token \notin Stored
    BY <1>3, NoneAssumption DEF OK, Known, Stored, Holding
  <2>11. Known(g)' /\ Granted(g, e)' /\ Keeps(g)' /\ Trims(g)'
    BY <1>3, <1>4, <2>4, <2>6, <2>10 DEF OK, Known, Granted, Keeps, Trims, Holding, Inviting
  <2>12. Inserted(g, e)' /\ Met(g, e)' /\ Passed(g)' /\ Counts(g, e)'
    BY <1>3, <2>4, <2>6, <2>9, <2>10 DEF OK, Inserted, Met, Passed, Counts
  <2>13. OK(g, e)'
    BY <2>11, <2>12 DEF OK
  <2>14. QED
    BY <1>1, <1>4, <2>4, <2>6, <2>7, <2>8, <2>13, Advance
<1>7. CASE Finish(r) /\ history' = Over(r, history)
  BY <1>4, <1>7, FinishStep
<1>8. QED
  BY <1>1, <1>5, <1>6, <1>7 DEF Find, Holders, Existing

LEMMA SaveStep ==
    ASSUME Inv, NEW r \in Request, Save(r)
    PROVE  Inv'
<1>1. PICK h \in Local : h = req[r]
  BY DEF Inv, TypeOK
<1>2. PICK o \in Entry : o = history.of[r]
  BY DEF Inv, TypeOK, Histories
<1>3. OK(h, o) /\ h.pc = "save"
  BY <1>1, <1>2 DEF Inv, Save
<1>4. UNCHANGED tables /\ UNCHANGED <<rights, born, now, history>>
  BY DEF Save, outside
<1>5. PICK p \in Points : p = "insert"
  BY DEF Points, Inviting
<1>6. PICK n \in 0..MaxTime : n = now
  BY DEF Inv, TypeOK
<1>7. PICK g : g = [h EXCEPT !.pc = p, !.stamp = n]
  OBVIOUS
<1>8. /\ g \in Local /\ g.pc = "insert" /\ g.contact = h.contact /\ g.stamp = n
      /\ g.kind = h.kind /\ g.groups = h.groups /\ g.token = h.token /\ g.counted = h.counted
  BY <1>5, <1>7 DEF Local
<1>9. req' = [req EXCEPT ![r] = g] /\ history'.of = [history.of EXCEPT ![r] = o]
  BY <1>1, <1>2, <1>4, <1>5, <1>6, <1>7 DEF Save, Inv, TypeOK, Histories
<1>10. UNCHANGED <<contact, token, private, member, Stored>>
  BY <1>4 DEF tables, Stored
<1>11. h.token = None /\ h.token \notin Stored
  BY <1>3, NoneAssumption DEF OK, Known, Stored, Holding
<1>12. Known(g)' /\ Granted(g, o)' /\ Keeps(g)' /\ Trims(g)'
  BY <1>3, <1>4, <1>8, <1>11 DEF OK, Known, Granted, Keeps, Trims, Holding, Inviting
<1>13. Inserted(g, o)' /\ Met(g, o)' /\ Passed(g)' /\ Counts(g, o)'
  BY <1>3, <1>4, <1>8, <1>10, <1>11 DEF OK, Inserted, Met, Passed, Counts
<1>14. QED
  BY <1>1, <1>4, <1>8, <1>9, <1>12, <1>13, Advance DEF OK, Inv, TypeOK

(* What is kept of a finite set of tokens: no more than the limit, nothing *)
(* only of nothing, and without a token only when enough are not older.    *)
LEMMA NewestAre ==
    ASSUME NEW mine \in SUBSET Token, IsFiniteSet(mine), NEW keep \in Newest(mine)
    PROVE  /\ keep \subseteq mine /\ IsFiniteSet(keep) /\ Cardinality(keep) <= TokenLimit
           /\ keep = {} => mine = {}
           /\ \A k \in mine \ keep :
                 ~(Cardinality({x \in mine \ {k} : token[x].created >= token[k].created}) < TokenLimit)
<1>1. keep \subseteq mine
  BY DEF Newest
<1>2. Cardinality(keep) = IF Cardinality(mine) < TokenLimit THEN Cardinality(mine)
                          ELSE TokenLimit
  BY DEF Newest
<1>3. IsFiniteSet(keep) /\ Cardinality(keep) \in Nat /\ Cardinality(mine) \in Nat
  BY <1>1, FS_Subset, FS_CardinalityType
<1>4. TokenLimit \in Nat /\ TokenLimit > 0
  BY LimitAssumption
<1>5. keep = {} => mine = {}
  BY <1>2, <1>3, <1>4, FS_EmptySet
<1>6. ASSUME NEW k \in mine \ keep
      PROVE  ~(Cardinality({x \in mine \ {k} : token[x].created >= token[k].created}) < TokenLimit)
  <2> DEFINE rivals == {x \in mine \ {k} : token[x].created >= token[k].created}
  <2>1. keep \subseteq rivals
    BY <1>1, <1>6 DEF Newest
  <2>2. IsFiniteSet(rivals)
    BY FS_Subset
  <2>3. keep # mine
    BY <1>6
  <2>4. Cardinality(keep) # Cardinality(mine)
    BY <1>1, <2>3, FS_Subset
  <2>5. Cardinality(keep) = TokenLimit
    BY <1>2, <2>4
  <2>6. Cardinality(keep) <= Cardinality(rivals) /\ Cardinality(rivals) \in Nat
    BY <2>1, <2>2, FS_Subset, FS_CardinalityType
  <2> HIDE DEF rivals
  <2>7. ~(Cardinality(rivals) < TokenLimit)
    BY <1>4, <2>5, <2>6
  <2>8. QED
    BY <2>7 DEF rivals
<1>7. QED
  BY <1>1, <1>2, <1>3, <1>4, <1>5, <1>6

LEMMA SelectStep ==
    ASSUME Inv, NEW r \in Request, Select(r)
    PROVE  Inv'
<1>1. PICK h \in Local : h = req[r]
  BY DEF Inv, TypeOK
<1>2. PICK o \in Entry : o = history.of[r]
  BY DEF Inv, TypeOK, Histories
<1>3. OK(h, o) /\ h.pc = "select" /\ h.token \in Token
  BY <1>1, <1>2 DEF Inv, Select, OK, Known, Holding, Local
<1>4. UNCHANGED tables /\ UNCHANGED <<rights, born, now>>
  BY DEF Select, outside
<1>5. PICK mine \in SUBSET Token : mine = TokensOf(h.contact, TypeOf(h.kind))
  BY DEF TokensOf, Stored
<1>6. PICK rivals : rivals = {k \in mine \ {h.token} : token[k].created >= h.stamp}
  OBVIOUS
<1>7. PICK keep \in Newest(mine) :
          req' = [req EXCEPT ![r].pc = "trim", ![r].keep = keep, ![r].stamp = None]
  BY <1>1, <1>5 DEF Select, Of
<1>8. PICK cut : cut = history.cut \cup IF Cardinality(rivals) < TokenLimit THEN {}
                                        ELSE {h.token}
  OBVIOUS
<1>9. history' = [history EXCEPT !.cut = cut]
  BY <1>1, <1>5, <1>6, <1>8 DEF Select, Of
<1>10. IsFiniteSet(mine)
  BY <1>5, FS_Subset DEF Inv, TokensOf
<1>11. /\ keep \subseteq mine /\ IsFiniteSet(keep) /\ Cardinality(keep) <= TokenLimit
       /\ keep = {} => mine = {}
  BY <1>10, NewestAre
<1>12. h.token \in Stored => h.token \in keep \cup cut
  <2>1. SUFFICES ASSUME h.token \in Stored, h.token \notin keep
                 PROVE  h.token \in cut
    OBVIOUS
  <2>2. h.token \in mine /\ token[h.token].created = h.stamp
    BY <1>3, <1>5, <2>1 DEF OK, Inserted, TokensOf
  <2>3. rivals = {x \in mine \ {h.token} : token[x].created >= token[h.token].created}
    BY <1>6, <2>2
  <2>4. \A k \in mine \ keep :
           ~(Cardinality({x \in mine \ {k} : token[x].created >= token[k].created}) < TokenLimit)
    BY <1>10, NewestAre
  <2>5. PICK k \in mine \ keep : k = h.token
    BY <2>1, <2>2
  <2>6. ~(Cardinality(rivals) < TokenLimit)
    BY <2>3, <2>4, <2>5
  <2>7. QED
    BY <1>8, <2>6
<1>13. keep = {} => h.token \notin Stored
  BY <1>3, <1>5, <1>11 DEF OK, Inserted, TokensOf
<1>14. PICK p \in Points : p = "trim"
  BY DEF Points, Inviting
<1>15. PICK g : g = [h EXCEPT !.pc = p, !.keep = keep, !.stamp = None]
  OBVIOUS
<1>16. /\ g \in Local /\ g.pc = "trim" /\ g.contact = h.contact /\ g.keep = keep
       /\ g.kind = h.kind /\ g.token = h.token /\ g.counted = h.counted
  BY <1>11, <1>14, <1>15 DEF Local
<1>17. req' = [req EXCEPT ![r] = g]
  BY <1>1, <1>7, <1>14, <1>15 DEF Inv, TypeOK
<1>18. /\ history' \in Histories /\ history'.of = [history.of EXCEPT ![r] = o]
       /\ UNCHANGED <<history.untrimmed, history.strays, history.off>>
       /\ history'.cut = cut /\ history.cut \subseteq cut
  BY <1>2, <1>3, <1>8, <1>9 DEF Inv, TypeOK, Histories
<1>19. UNCHANGED <<contact, token, private, member, Stored>>
  BY <1>4 DEF tables, Stored
<1>20. Known(g)' /\ Granted(g, o)' /\ Inserted(g, o)'
  BY <1>3, <1>4, <1>16, <1>19 DEF OK, Known, Granted, Inserted, Holding, Inviting
<1>21. Keeps(g)' /\ Trims(g)'
  BY <1>3, <1>11, <1>12, <1>13, <1>16, <1>18, <1>19 DEF OK, Keeps, Trims, Holding
<1>22. Met(g, o)' /\ Passed(g)' /\ Counts(g, o)'
  BY <1>3, <1>4, <1>16, <1>19 DEF OK, Met, Passed, Counts
<1>23. QED
  BY <1>1, <1>4, <1>16, <1>17, <1>18, <1>20, <1>21, <1>22, Advance DEF OK

-----------------------------------------------------------------------------
(* A deletion, before and while its transaction runs.                      *)

LEMMA DeleteStep ==
    ASSUME Inv, NEW r \in Request, Delete(r)
    PROVE  Inv'
<1>1. PICK h \in Local : h = req[r]
  BY DEF Inv, TypeOK
<1>2. PICK o \in Entry : o = history.of[r]
  BY DEF Inv, TypeOK, Histories
<1>3. OK(h, o) /\ h.token = None
  BY <1>1, <1>2 DEF Inv, OK, Known, Holding, Delete, InFlight
<1>4. UNCHANGED tables /\ UNCHANGED <<rights, born, now, history>>
  BY DEF Delete
<1>5. PICK c \in Contact :
          req' = [req EXCEPT ![r] = [Idle EXCEPT !.pc = "announce", !.contact = c]]
  BY DEF Delete
<1>6. PICK i \in Local : i = Idle /\ i.token = None /\ \A g \in Category : i.counted[g] = None
  BY IdleIs
<1>7. PICK p \in Points : p = "announce"
  BY DEF Points, Deleting
<1>8. PICK g : g = [i EXCEPT !.pc = p, !.contact = c]
  OBVIOUS
<1>9. g \in Local /\ g.pc = p /\ g.contact = c /\ g.token = i.token /\ g.counted = i.counted
  BY <1>8 DEF Local
<1>10. req' = [req EXCEPT ![r] = g] /\ history'.of = [history.of EXCEPT ![r] = o]
  BY <1>2, <1>4, <1>5, <1>6, <1>7, <1>8 DEF Inv, TypeOK, Histories
<1>11. UNCHANGED <<contact, token, private, member, Stored>> /\ None \notin Stored
  BY <1>4, NoneAssumption DEF tables, Stored
<1>12. Known(g)' /\ Granted(g, o)' /\ Keeps(g)' /\ Trims(g)'
  BY <1>6, <1>7, <1>9 DEF Known, Granted, Keeps, Trims, Holding, Deleting, Inviting
<1>13. Inserted(g, o)' /\ Met(g, o)' /\ Passed(g)' /\ Counts(g, o)'
  BY <1>3, <1>4, <1>6, <1>7, <1>9, <1>11 DEF OK, Inserted, Met, Passed, Counts
<1>14. QED
  BY <1>1, <1>3, <1>4, <1>6, <1>9, <1>10, <1>12, <1>13, Advance DEF OK, Inv, TypeOK

LEMMA BeginStep ==
    ASSUME Inv, NEW r \in Request, Begin(r)
    PROVE  Inv'
<1>1. PICK h \in Local : h = req[r]
  BY DEF Inv, TypeOK
<1>2. PICK o \in Entry : o = history.of[r]
  BY DEF Inv, TypeOK, Histories
<1>3. OK(h, o) /\ h.pc = "begin"
  BY <1>1, <1>2 DEF Inv, Begin
<1>4. UNCHANGED tables /\ UNCHANGED <<rights, born, now>>
  BY DEF Begin, outside
<1>5. PICK seen \in SUBSET Pairs : seen = member
  BY DEF Inv, TypeOK
<1>6. PICK p \in Points : p = "sweep"
  BY DEF Points, Deleting
<1>7. PICK g : g = [h EXCEPT !.pc = p, !.snapshot = seen]
  OBVIOUS
<1>8. /\ g \in Local /\ g.pc = p /\ g.contact = h.contact /\ g.snapshot = seen
      /\ g.token = h.token /\ g.counted = h.counted
  BY <1>7 DEF Local
<1>9. PICK e : e = [o EXCEPT !.touched = {}]
  OBVIOUS
<1>10. e \in Entry /\ e.touched = {} /\ e.met = o.met
  BY <1>9 DEF Entry
<1>11. req' = [req EXCEPT ![r] = g]
  BY <1>1, <1>5, <1>6, <1>7 DEF Begin, Inv, TypeOK
<1>12. /\ history'.of = [history.of EXCEPT ![r] = e] /\ history' \in Histories
       /\ UNCHANGED <<history.cut, history.untrimmed, history.strays, history.off>>
  BY <1>2, <1>9, <1>10 DEF Begin, Inv, TypeOK, Histories
<1>13. UNCHANGED <<contact, token, private, member, Stored>> /\ None \notin Stored
  BY <1>4, NoneAssumption DEF tables, Stored
<1>14. h.token = None /\ \A a \in Category : h.counted[a] = None
  BY <1>3 DEF OK, Known, Counts, Holding
<1>15. Known(g)' /\ Granted(g, e)' /\ Keeps(g)' /\ Trims(g)'
  BY <1>3, <1>6, <1>8, <1>14 DEF OK, Known, Granted, Keeps, Trims, Holding, Deleting, Inviting
<1>16. Inserted(g, e)' /\ Met(g, e)' /\ Passed(g)'
  BY <1>3, <1>4, <1>6, <1>8, <1>10, <1>12, <1>13, <1>14 DEF OK, Inserted, Met, Passed
<1>17. Counts(g, e)'
  BY <1>5, <1>6, <1>8, <1>13, <1>14 DEF Counts
<1>18. QED
  BY <1>1, <1>4, <1>8, <1>10, <1>11, <1>12, <1>15, <1>16, <1>17, Advance DEF OK

LEMMA SweepStep ==
    ASSUME Inv, NEW r \in Request, Sweep(r)
    PROVE  Inv'
<1>1. PICK h \in Local : h = req[r]
  BY DEF Inv, TypeOK
<1>2. PICK o \in Entry : o = history.of[r]
  BY DEF Inv, TypeOK, Histories
<1>3. OK(h, o) /\ h.pc = "sweep"
  BY <1>1, <1>2 DEF Inv, Sweep
<1>4. UNCHANGED tables /\ UNCHANGED <<rights, born, now, history>>
  BY DEF Sweep, outside
<1>5. PICK doomed \in SUBSET Token : doomed = {k \in Stored : token[k].contact = h.contact}
  BY DEF Stored
<1>6. PICK leaving \in SUBSET Pairs : leaving = {p \in member : p[1] = h.contact}
  BY DEF Inv, TypeOK
<1>7. PICK p \in Points : p = "recount"
  BY DEF Points, Deleting
<1>8. PICK g : g = [h EXCEPT !.pc = p, !.doomed = doomed, !.leaving = leaving]
  OBVIOUS
<1>9. /\ g \in Local /\ g.pc = p /\ g.contact = h.contact /\ g.snapshot = h.snapshot
      /\ g.token = h.token /\ g.counted = h.counted /\ g.doomed = doomed /\ g.leaving = leaving
  BY <1>8 DEF Local
<1>10. req' = [req EXCEPT ![r] = g] /\ history'.of = [history.of EXCEPT ![r] = o]
  BY <1>1, <1>2, <1>4, <1>5, <1>6, <1>7, <1>8 DEF Sweep, Of, Inv, TypeOK, Histories
<1>11. UNCHANGED <<contact, token, private, member, Stored>> /\ None \notin Stored
  BY <1>4, NoneAssumption DEF tables, Stored
<1>12. h.token = None /\ \A a \in Category : h.counted[a] = None
  BY <1>3 DEF OK, Known, Counts, Holding
<1>13. Known(g)' /\ Granted(g, o)' /\ Keeps(g)' /\ Trims(g)'
  BY <1>3, <1>7, <1>9, <1>12 DEF OK, Known, Granted, Keeps, Trims, Holding, Deleting, Inviting
<1>14. Inserted(g, o)' /\ Met(g, o)' /\ Counts(g, o)'
  BY <1>3, <1>4, <1>7, <1>9, <1>11, <1>12 DEF OK, Inserted, Met, Counts
<1>15. Passed(g)'
  <2>1. \A a : <<h.contact, a>>[1] = h.contact
    OBVIOUS
  <2>2. QED
    BY <1>3, <1>4, <1>5, <1>6, <1>7, <1>9, <1>11, <2>1 DEF OK, Passed
<1>16. QED
  BY <1>1, <1>4, <1>9, <1>10, <1>13, <1>14, <1>15, Advance DEF OK, Inv, TypeOK

LEMMA RecountStep ==
    ASSUME Inv, NEW r \in Request, Recount(r)
    PROVE  Inv'
<1>1. PICK h \in Local : h = req[r]
  BY DEF Inv, TypeOK
<1>2. PICK o \in Entry : o = history.of[r]
  BY DEF Inv, TypeOK, Histories
<1>3. OK(h, o) /\ h.pc = "recount"
  BY <1>1, <1>2 DEF Inv, Recount
<1>4. UNCHANGED tables /\ UNCHANGED <<rights, born, now, history>>
  BY DEF Recount, outside
<1>5. PICK mine : req' = [req EXCEPT ![r].pc = "commit",
                                     ![r].counted = [a \in Category |-> IF a \in mine
                                                                        THEN Count(r, a) ELSE None]]
  BY DEF Recount
<1>6. \A a \in Category : Count(r, a) = Cardinality(MembersOf(a, h.snapshot \ h.leaving))
  BY <1>1 DEF Count
<1>7. PICK counted : counted = [a \in Category |-> IF a \in mine THEN Count(r, a) ELSE None]
  OBVIOUS
<1>8. counted \in [Category -> Nat \cup {None}]
  <2>1. ASSUME NEW a \in Category
        PROVE  Count(r, a) \in Nat
    BY <1>6, MembersFinite DEF Local
  <2>2. QED
    BY <1>7, <2>1
<1>9. PICK p \in Points : p = "commit"
  BY DEF Points, Deleting
<1>10. PICK g : g = [h EXCEPT !.pc = p, !.counted = counted]
  OBVIOUS
<1>11. /\ g \in Local /\ g.pc = p /\ g.contact = h.contact /\ g.snapshot = h.snapshot
       /\ g.token = h.token /\ g.counted = counted /\ g.doomed = h.doomed
       /\ g.leaving = h.leaving
  BY <1>8, <1>10 DEF Local
<1>12. req' = [req EXCEPT ![r] = g] /\ history'.of = [history.of EXCEPT ![r] = o]
  BY <1>1, <1>2, <1>4, <1>5, <1>7, <1>9, <1>10 DEF Inv, TypeOK, Histories
<1>13. UNCHANGED <<contact, token, private, member, Stored>> /\ None \notin Stored
  BY <1>4, NoneAssumption DEF tables, Stored
<1>14. h.token = None
  BY <1>3 DEF OK, Known, Holding
<1>15. Known(g)' /\ Granted(g, o)' /\ Keeps(g)' /\ Trims(g)'
  BY <1>3, <1>9, <1>11, <1>14 DEF OK, Known, Granted, Keeps, Trims, Holding, Deleting, Inviting
<1>16. Inserted(g, o)' /\ Met(g, o)' /\ Passed(g)'
  BY <1>3, <1>4, <1>9, <1>11, <1>13, <1>14 DEF OK, Inserted, Met, Passed
<1>17. Counts(g, o)'
  BY <1>3, <1>6, <1>7, <1>9, <1>11, <1>13 DEF OK, Counts
<1>18. QED
  BY <1>1, <1>4, <1>11, <1>12, <1>15, <1>16, <1>17, Advance DEF OK, Inv, TypeOK

-----------------------------------------------------------------------------
(* The transactions of an invitation.                                      *)

(* Tokens may go, and then say so; none changes.                           *)
LEMMA TokensKept ==
    ASSUME NEW h \in Local, NEW o \in Entry, Known(h), Inserted(h, o), Keeps(h), Trims(h),
           h.token \in Token =>
               /\ token'[h.token] \in {token[h.token], None}
               /\ token[h.token] # None /\ token'[h.token] = None => h.token \in history'.cut
               /\ h.token \in history.cut => h.token \in history'.cut
    PROVE  Inserted(h, o)' /\ Keeps(h)' /\ Trims(h)'
<1>1. h.token \in Stored' => h.token \in Stored /\ token'[h.token] = token[h.token]
  BY DEF Stored
<1>2. h.pc \in Holding => h.token \in Token
  BY DEF Known, Local
<1>3. h.token \in Token /\ h.token \in Stored \cup history.cut
        => h.token \in Stored' \cup history'.cut
  BY DEF Stored
<1>4. Inserted(h, o)'
  BY <1>1 DEF Inserted
<1>5. Keeps(h)'
  <2>1. h.pc \in Holding => h.token \in Stored' \cup history'.cut
    BY <1>2, <1>3 DEF Keeps
  <2>2. h.pc = "trim" => h.pc \in Holding
    BY DEF Holding
  <2>3. h.pc = "trim" => h.token \in h.keep \cup history'.cut \/ h.token \notin Stored'
    BY <1>1, <1>2, <2>2 DEF Keeps
  <2>4. QED
    BY <2>1, <2>3 DEF Keeps
<1>6. Trims(h)'
  BY <1>1 DEF Trims
<1>7. QED
  BY <1>4, <1>5, <1>6

LEMMA CreateStep ==
    ASSUME Inv, NEW r \in Request, Create(r)
    PROVE  Inv'
<1>1. PICK h \in Local : h = req[r]
  BY DEF Inv, TypeOK
<1>2. PICK o \in Entry : o = history.of[r]
  BY DEF Inv, TypeOK, Histories
<1>3. OK(h, o) /\ h.pc = "create"
  BY <1>1, <1>2 DEF Inv, Create
<1>4. /\ UNCHANGED <<token, private, member, cnt, rights, now, Stored>>
      /\ born' = born + 1 /\ born' \in Contact /\ born' \in 0..MaxContact
  BY BoundsAssumption DEF Create, outside, Stored, Contact, Inv, TypeOK
<1>5. PICK c \in Contact : c = born + 1
  BY <1>4
<1>6. PICK row \in ContactRows : contact' = [contact EXCEPT ![c] = row]
  <2>1. PICK addresses \in {{}, {h.address}} :
            /\ h.kind # "code" => addresses # {}
            /\ contact' = [contact EXCEPT ![c] = [status |-> "invited", addresses |-> addresses]]
    BY <1>1, <1>5 DEF Create
  <2>2. addresses \subseteq Address
    BY <1>3 DEF OK, Known
  <2>3. [status |-> "invited", addresses |-> addresses] \in ContactRows
    BY <2>2 DEF ContactRows, Statuses
  <2>4. QED
    BY <2>1, <2>3
<1>7. PICK p \in Points : p = "save"
  BY DEF Points, Inviting
<1>8. PICK g : g = [h EXCEPT !.pc = p, !.contact = c, !.address = None]
  OBVIOUS
<1>9. /\ g \in Local /\ g.pc = p /\ g.contact = c /\ g.kind = h.kind /\ g.groups = h.groups
      /\ g.token = h.token /\ g.counted = h.counted
  BY <1>8 DEF Local
<1>10. PICK e : e = [o EXCEPT !.met = {}]
  OBVIOUS
<1>11. e \in Entry /\ e.met = {} /\ e.moments = o.moments
  BY <1>10 DEF Entry
<1>12. req' = [req EXCEPT ![r] = g]
  BY <1>1, <1>4, <1>5, <1>7, <1>8 DEF Create, Inv, TypeOK
<1>13. /\ history'.of = [history.of EXCEPT ![r] = e] /\ history' \in Histories
       /\ UNCHANGED <<history.cut, history.untrimmed, history.strays, history.off>>
  BY <1>2, <1>10, <1>11 DEF Create, Inv, TypeOK, Histories
<1>14. /\ req'[r] = g /\ \A q \in Request \ {r} : req'[q] = req[q]
       /\ history'.of[r] = e /\ \A q \in Request \ {r} : history'.of[q] = history.of[q]
  BY <1>12, <1>13 DEF Inv, TypeOK, Histories
<1>15. TypeOK'
  BY <1>4, <1>6, <1>9, <1>12, <1>13 DEF Inv, TypeOK
<1>16. /\ IsFiniteSet(Stored)' /\ TokensBounded' /\ CountsHonest'
  BY <1>4, <1>13 DEF Inv, TokensBounded, TokensOf, CountsHonest
<1>17. NoRows' /\ Unborn'
  <2>1. \A x \in Contact : contact[x] # None => contact'[x] # None
    BY <1>6, NoneAssumption DEF Inv, TypeOK
  <2>2. \A x \in Contact : contact'[x] # None => contact[x] # None \/ x = c
    BY <1>6 DEF Inv, TypeOK
  <2>3. NoRows'
    BY <1>4, <1>13, <2>1 DEF Inv, NoRows
  <2>4. Unborn'
    BY <1>4, <1>5, <2>2 DEF Inv, TypeOK, Unborn
  <2>5. QED
    BY <2>3, <2>4
<1>18. Apart'
  BY <1>1, <1>9, <1>14 DEF Inv, Apart
<1>19. OK(g, e)'
  <2>1. h.token = None /\ h.token \notin Stored
    BY <1>3, NoneAssumption DEF OK, Known, Stored, Holding
  <2>2. Known(g)' /\ Granted(g, e)' /\ Keeps(g)' /\ Trims(g)'
    BY <1>3, <1>4, <1>7, <1>9, <1>11, <2>1 DEF OK, Known, Granted, Keeps, Trims, Holding, Inviting
  <2>3. Inserted(g, e)' /\ Met(g, e)' /\ Passed(g)' /\ Counts(g, e)'
    BY <1>3, <1>4, <1>7, <1>9, <1>11, <2>1 DEF OK, Inserted, Met, Passed, Counts
  <2>4. QED
    BY <2>2, <2>3 DEF OK
<1>20. ASSUME NEW q \in Request \ {r}
       PROVE  OK(req[q], history.of[q])'
  <2>1. PICK l \in Local : l = req[q]
    BY DEF Inv, TypeOK
  <2>2. PICK d \in Entry : d = history.of[q]
    BY DEF Inv, TypeOK, Histories
  <2>3. OK(l, d)
    BY <2>1, <2>2 DEF Inv
  <2>4. Known(l)' /\ Granted(l, d)' /\ Inserted(l, d)' /\ Keeps(l)' /\ Trims(l)'
    BY <1>4, <1>13, <2>3 DEF OK, Known, Granted, Inserted, Keeps, Trims
  <2>5. Passed(l)' /\ Counts(l, d)'
    BY <1>4, <1>13, <2>3 DEF OK, Passed, Counts
  <2>6. Met(l, d)'
    <3>1. 1..born \subseteq 1..born' /\ c \notin 1..born
      BY <1>4, <1>5 DEF Inv, TypeOK
    <3>2. \A x \in (1..born) \cap Contact : contact'[x] = contact[x]
      BY <1>6, <3>1 DEF Inv, TypeOK
    <3>3. QED
      BY <2>3, <3>1, <3>2 DEF OK, Met, Holders, Existing
  <2>7. OK(l, d)'
    BY <2>4, <2>5, <2>6 DEF OK
  <2>8. QED
    BY <1>14, <2>1, <2>2, <2>7
<1>21. QED
  BY <1>14, <1>15, <1>16, <1>17, <1>18, <1>19, <1>20 DEF Inv

LEMMA InsertStep ==
    ASSUME Inv, NEW r \in Request, Insert(r)
    PROVE  Inv'
<1>1. PICK h \in Local : h = req[r]
  BY DEF Inv, TypeOK
<1>2. PICK o \in Entry : o = history.of[r]
  BY DEF Inv, TypeOK, Histories
<1>3. OK(h, o) /\ h.pc = "insert"
  BY <1>1, <1>2 DEF Inv, Insert
<1>4. UNCHANGED <<contact, private, member, cnt, rights, born, now>>
  BY DEF Insert, outside
<1>5. PICK k \in Token : k = NewToken /\ k \in FreeTokens
  BY DEF Insert, NewToken, FreeTokens
<1>6. token[k] = None /\ \A q \in Request : req[q].token # k
  BY <1>5 DEF FreeTokens
<1>7. PICK row \in TokenRows :
          row = [contact |-> h.contact, type |-> TypeOf(h.kind), created |-> h.stamp,
                 groups |-> h.groups]
  <2>1. h.contact \in Contact /\ h.stamp \in 0..MaxTime /\ h.groups \in SUBSET Group
    BY <1>3 DEF OK, Known, Local
  <2>2. TypeOf(h.kind) \in Types
    BY DEF TypeOf, Types
  <2>3. QED
    BY <2>1, <2>2 DEF TokenRows
<1>8. token' = [token EXCEPT ![k] = row]
  BY <1>1, <1>5, <1>7 DEF Insert, Of
<1>9. PICK more : more = IF contact[h.contact] = None \/ Swept(h.contact)
                         THEN {<<h.contact, "token">>} ELSE {}
  OBVIOUS
<1>10. history' = [history EXCEPT !.cut = @ \ {k}, !.untrimmed = @ \cup {k},
                                  !.strays = @ \cup more]
  BY <1>1, <1>5, <1>9 DEF Insert, Of
<1>11. more \subseteq Contact \X Tables
  BY <1>3, <1>9 DEF OK, Known, Tables
<1>12. /\ history' \in Histories /\ history'.of = [history.of EXCEPT ![r] = o]
       /\ history'.cut = history.cut \ {k} /\ history'.untrimmed = history.untrimmed \cup {k}
       /\ history'.strays = history.strays \cup more /\ history'.off = history.off
  BY <1>2, <1>10, <1>11 DEF Inv, TypeOK, Histories
<1>13. PICK p \in Points : p = "select"
  BY DEF Points, Inviting
<1>14. PICK g : g = [h EXCEPT !.pc = p, !.token = k, !.groups = {}]
  OBVIOUS
<1>15. /\ g \in Local /\ g.pc = p /\ g.contact = h.contact /\ g.kind = h.kind /\ g.token = k
       /\ g.stamp = h.stamp /\ g.counted = h.counted
  BY <1>14 DEF Local
<1>16. req' = [req EXCEPT ![r] = g]
  BY <1>1, <1>5, <1>13, <1>14 DEF Insert, Inv, TypeOK
<1>17. /\ req'[r] = g /\ \A q \in Request \ {r} : req'[q] = req[q]
       /\ history'.of[r] = o /\ \A q \in Request \ {r} : history'.of[q] = history.of[q]
  BY <1>2, <1>12, <1>16 DEF Inv, TypeOK, Histories
<1>18. /\ token'[k] = row /\ \A x \in Token \ {k} : token'[x] = token[x]
       /\ row # None /\ Stored' = Stored \cup {k} /\ k \notin Stored
  BY <1>6, <1>8, NoneAssumption DEF Inv, TypeOK, Stored
<1>19. /\ row.contact = h.contact /\ row.type = TypeOf(h.kind) /\ row.created = h.stamp
       /\ row.groups = h.groups
  BY <1>7
<1>20. TypeOK'
  BY <1>4, <1>8, <1>12, <1>15, <1>16 DEF Inv, TypeOK
<1>21. IsFiniteSet(Stored)' /\ TokensBounded' /\ CountsHonest'
  <2>1. IsFiniteSet(Stored')
    BY <1>18, FS_AddElement DEF Inv
  <2>2. ASSUME NEW c \in Contact, NEW type \in Types
        PROVE  (TokensOf(c, type) \ history.untrimmed)' = TokensOf(c, type) \ history.untrimmed
    BY <1>12, <1>18 DEF TokensOf, Stored
  <2>3. TokensBounded'
    BY <2>2 DEF Inv, TokensBounded
  <2>4. CountsHonest'
    BY <1>4, <1>12 DEF Inv, CountsHonest
  <2>5. QED
    BY <2>1, <2>3, <2>4
<1>22. NoRows' /\ Unborn'
  <2>1. ASSUME NEW c \in Contact, contact[c] = None, NEW x \in Stored', token'[x].contact = c
        PROVE  <<c, "token">> \in history'.strays
    <3>1. CASE x = k
      BY <1>9, <1>12, <1>18, <1>19, <2>1, <3>1
    <3>2. CASE x # k
      BY <1>12, <1>18, <2>1, <3>2 DEF Inv, NoRows, Stored
    <3>3. QED
      BY <3>1, <3>2
  <2>2. NoRows'
    BY <1>4, <1>12, <2>1 DEF Inv, NoRows
  <2>3. Unborn'
    BY <1>4 DEF Inv, Unborn
  <2>4. QED
    BY <2>2, <2>3
<1>23. Apart'
  BY <1>6, <1>15, <1>17 DEF Inv, Apart
<1>24. OK(g, o)'
  <2>1. k # None
    BY NoneAssumption
  <2>2. Known(g)' /\ Granted(g, o)' /\ Keeps(g)' /\ Trims(g)'
    BY <1>3, <1>4, <1>13, <1>15, <1>18, <2>1
       DEF OK, Known, Granted, Keeps, Trims, Holding, Inviting, Deleting
  <2>3. Inserted(g, o)'
    BY <1>3, <1>15, <1>18, <1>19 DEF OK, Inserted, Granted
  <2>4. Met(g, o)' /\ Passed(g)' /\ Counts(g, o)'
    BY <1>3, <1>4, <1>13, <1>15 DEF OK, Met, Passed, Counts
  <2>5. QED
    BY <2>2, <2>3, <2>4 DEF OK
<1>25. ASSUME NEW q \in Request \ {r}
       PROVE  OK(req[q], history.of[q])'
  <2>1. PICK l \in Local : l = req[q]
    BY DEF Inv, TypeOK
  <2>2. PICK d \in Entry : d = history.of[q]
    BY DEF Inv, TypeOK, Histories
  <2>3. OK(l, d) /\ l.token # k
    BY <1>6, <2>1, <2>2 DEF Inv
  <2>4. Known(l)' /\ Granted(l, d)' /\ Met(l, d)' /\ Counts(l, d)'
    BY <1>4, <2>3 DEF OK, Known, Granted, Met, Counts, Holders, Existing
  <2>5. Inserted(l, d)' /\ Keeps(l)' /\ Trims(l)'
    BY <1>12, <1>18, <2>3, TokensKept DEF OK
  <2>6. Passed(l)'
    <3>1. l.pc \in {"recount", "commit"} /\ l.contact = h.contact
            => <<l.contact, "token">> \in history'.strays
      BY <1>9, <1>12, <2>1 DEF Swept, Of
    <3>2. \A x \in Stored' : token'[x].contact = l.contact => x \in Stored \/ l.contact = h.contact
      BY <1>18, <1>19
    <3>3. \A x \in Stored : token'[x] = token[x]
      BY <1>18 DEF Stored
    <3>4. QED
      BY <1>4, <1>12, <2>3, <3>1, <3>2, <3>3 DEF OK, Passed
  <2>7. OK(l, d)'
    BY <2>3, <2>4, <2>5, <2>6 DEF OK
  <2>8. QED
    BY <1>17, <2>1, <2>2, <2>7
<1>26. QED
  BY <1>17, <1>20, <1>21, <1>22, <1>23, <1>24, <1>25 DEF Inv

(* Tokens go: there are no more of them, and no stray less.                *)
LEMMA FewerAre ==
    ASSUME IsFiniteSet(Stored), TokensBounded, NEW c \in Contact, NEW type \in Types,
           (TokensOf(c, type) \ history.untrimmed)' \subseteq TokensOf(c, type) \ history.untrimmed
    PROVE  Cardinality(TokensOf(c, type) \ history.untrimmed)' <= TokenLimit
<1> DEFINE S == TokensOf(c, type) \ history.untrimmed
<1>1. S \subseteq Stored
  BY DEF TokensOf
<1>2. IsFiniteSet(S) /\ Cardinality(S) <= TokenLimit
  BY <1>1, FS_Subset DEF TokensBounded
<1>3. S' \subseteq S
  OBVIOUS
<1> HIDE DEF S
<1>4. Cardinality(S') <= Cardinality(S) /\ Cardinality(S') \in Nat /\ Cardinality(S) \in Nat
  BY <1>2, <1>3, FS_Subset, FS_CardinalityType
<1>5. TokenLimit \in Nat
  BY LimitAssumption
<1>6. Cardinality(S') <= TokenLimit
  BY <1>2, <1>4, <1>5
<1>7. QED
  BY <1>6 DEF S

LEMMA Fewer ==
    ASSUME Inv, \A k \in Token : token'[k] \in {token[k], None},
           \A k \in Stored' : k \in history.untrimmed => k \in history'.untrimmed
    PROVE  /\ Stored' \subseteq Stored /\ \A k \in Stored' : token'[k] = token[k]
           /\ IsFiniteSet(Stored)' /\ TokensBounded'
<1>1. Stored' \subseteq Stored /\ \A k \in Stored' : token'[k] = token[k]
  BY DEF Stored
<1>2. IsFiniteSet(Stored')
  BY <1>1, FS_Subset DEF Inv
<1>3. ASSUME NEW c \in Contact, NEW type \in Types
      PROVE  (Cardinality(TokensOf(c, type) \ history.untrimmed) <= TokenLimit)'
  <2>1. (TokensOf(c, type) \ history.untrimmed)' \subseteq TokensOf(c, type) \ history.untrimmed
    BY <1>1 DEF TokensOf
  <2>2. QED
    BY <2>1, FewerAre DEF Inv
<1>4. QED
  BY <1>1, <1>2, <1>3 DEF TokensBounded

LEMMA TrimStep ==
    ASSUME Inv, NEW r \in Request, Trim(r)
    PROVE  Inv'
<1>1. PICK h \in Local : h = req[r]
  BY DEF Inv, TypeOK
<1>2. PICK o \in Entry : o = history.of[r]
  BY DEF Inv, TypeOK, Histories
<1>3. OK(h, o) /\ h.pc = "trim" /\ h.token \in Token
  BY <1>1, <1>2 DEF Inv, Trim, OK, Known, Holding, Local
<1>4. UNCHANGED <<contact, private, member, cnt, rights, born, now>>
  BY DEF Trim, outside
<1>5. PICK mine \in SUBSET Token : mine = TokensOf(h.contact, TypeOf(h.kind))
  BY DEF TokensOf, Stored
<1>6. PICK dropped \in SUBSET Token : dropped = IF h.keep = {} THEN {} ELSE mine \ h.keep
  OBVIOUS
<1>7. /\ token' = [k \in Token |-> IF k \in dropped THEN None ELSE token[k]]
      /\ history' = [history EXCEPT !.cut = @ \cup (dropped \ {h.token}),
                                    !.untrimmed = @ \ (dropped \cup {h.token})]
  BY <1>1, <1>5, <1>6 DEF Trim, Of
<1>8. /\ history' \in Histories /\ history'.of = [history.of EXCEPT ![r] = o]
      /\ history'.cut = history.cut \cup (dropped \ {h.token})
      /\ history'.untrimmed = history.untrimmed \ (dropped \cup {h.token})
      /\ history'.strays = history.strays /\ history'.off = history.off
  BY <1>2, <1>7 DEF Inv, TypeOK, Histories
<1>9. PICK p \in Points : p = "deliver"
  BY DEF Points, Inviting
<1>10. PICK g : g = [h EXCEPT !.pc = p, !.keep = {}]
  OBVIOUS
<1>11. /\ g \in Local /\ g.pc = p /\ g.contact = h.contact /\ g.kind = h.kind
       /\ g.token = h.token /\ g.counted = h.counted
  BY <1>10 DEF Local
<1>12. req' = [req EXCEPT ![r] = g]
  BY <1>1, <1>9, <1>10 DEF Trim, Inv, TypeOK
<1>13. /\ req'[r] = g /\ \A q \in Request \ {r} : req'[q] = req[q]
       /\ history'.of[r] = o /\ \A q \in Request \ {r} : history'.of[q] = history.of[q]
  BY <1>2, <1>8, <1>12 DEF Inv, TypeOK, Histories
<1>14. \A k \in Token : token'[k] = IF k \in dropped THEN None ELSE token[k]
  BY <1>7
<1>15. Stored' = Stored \ dropped /\ \A k \in Stored' : token'[k] = token[k]
  BY <1>14 DEF Stored
<1>16. TypeOK'
  BY <1>4, <1>7, <1>8, <1>11, <1>12 DEF Inv, TypeOK
<1>17. h.token \in Stored => h.token \in mine
  BY <1>3, <1>5 DEF OK, Inserted, TokensOf
<1>18. IsFiniteSet(Stored)' /\ TokensBounded'
  <2>1. IsFiniteSet(Stored')
    BY <1>15, FS_Subset DEF Inv
  <2>2. ASSUME NEW c \in Contact, NEW type \in Types
        PROVE  (Cardinality(TokensOf(c, type) \ history.untrimmed) <= TokenLimit)'
    <3>1. CASE h.token \notin TokensOf(c, type)
      <4>1. (TokensOf(c, type) \ history.untrimmed)' \subseteq TokensOf(c, type) \ history.untrimmed
        BY <1>8, <1>15, <3>1 DEF TokensOf
      <4>2. QED
        BY <4>1, FewerAre DEF Inv
    <3>2. CASE h.token \in TokensOf(c, type)
      <4> DEFINE S == TokensOf(c, type) \ history.untrimmed
      <4>1. h.token \in Stored /\ TokensOf(c, type) = mine
        BY <1>3, <1>5, <3>2 DEF TokensOf, OK, Inserted
      <4>2. h.keep # {} /\ IsFiniteSet(h.keep) /\ Cardinality(h.keep) <= TokenLimit
        BY <1>3, <4>1 DEF OK, Trims
      <4>3. S' \subseteq h.keep
        BY <1>6, <1>15, <4>1, <4>2 DEF TokensOf
      <4> HIDE DEF S
      <4>4. /\ Cardinality(S') <= Cardinality(h.keep) /\ Cardinality(S') \in Nat
            /\ Cardinality(h.keep) \in Nat
        BY <4>2, <4>3, FS_Subset, FS_CardinalityType
      <4>5. Cardinality(S') <= TokenLimit
        BY <4>2, <4>4, LimitAssumption
      <4>6. QED
        BY <4>5 DEF S
    <3>3. QED
      BY <3>1, <3>2
  <2>3. QED
    BY <2>1, <2>2 DEF TokensBounded
<1>19. CountsHonest' /\ NoRows' /\ Unborn'
  BY <1>4, <1>8, <1>15 DEF Inv, CountsHonest, NoRows, Unborn
<1>20. Apart'
  BY <1>1, <1>11, <1>13 DEF Inv, Apart
<1>21. OK(g, o)'
  <2>1. Known(g)' /\ Granted(g, o)' /\ Trims(g)'
    BY <1>3, <1>4, <1>9, <1>11 DEF OK, Known, Granted, Trims, Holding, Inviting, Deleting
  <2>2. Inserted(g, o)'
    BY <1>3, <1>9, <1>11, <1>15 DEF OK, Inserted
  <2>3. Keeps(g)'
    <3>1. h.token \in Stored \cup history.cut /\ (h.token \in Stored => h.token \in h.keep \cup history.cut)
      BY <1>3 DEF OK, Keeps, Holding
    <3>2. h.token \in h.keep => h.token \notin dropped
      BY <1>6
    <3>3. QED
      BY <1>8, <1>9, <1>11, <1>15, <3>1, <3>2 DEF Keeps
  <2>4. Met(g, o)' /\ Passed(g)' /\ Counts(g, o)'
    BY <1>3, <1>4, <1>9, <1>11 DEF OK, Met, Passed, Counts
  <2>5. QED
    BY <2>1, <2>2, <2>3, <2>4 DEF OK
<1>22. ASSUME NEW q \in Request \ {r}
       PROVE  OK(req[q], history.of[q])'
  <2>1. PICK l \in Local : l = req[q]
    BY DEF Inv, TypeOK
  <2>2. PICK d \in Entry : d = history.of[q]
    BY DEF Inv, TypeOK, Histories
  <2>3. OK(l, d) /\ (l.token # None => l.token # h.token)
    BY <1>1, <2>1, <2>2 DEF Inv, Apart
  <2>4. Known(l)' /\ Granted(l, d)' /\ Met(l, d)' /\ Counts(l, d)'
    BY <1>4, <2>3 DEF OK, Known, Granted, Met, Counts, Holders, Existing
  <2>5. l.token \in Token => l.token # None
    BY NoneAssumption
  <2>6. Inserted(l, d)' /\ Keeps(l)' /\ Trims(l)'
    BY <1>8, <1>14, <2>3, <2>5, TokensKept DEF OK
  <2>7. Passed(l)'
    BY <1>4, <1>8, <1>15, <2>3 DEF OK, Passed
  <2>8. OK(l, d)'
    BY <2>3, <2>4, <2>6, <2>7 DEF OK
  <2>9. QED
    BY <1>13, <2>1, <2>2, <2>8
<1>23. QED
  BY <1>13, <1>16, <1>18, <1>19, <1>20, <1>21, <1>22 DEF Inv

LEMMA DiscardStep ==
    ASSUME Inv, NEW r \in Request, Discard(r)
    PROVE  Inv'
<1>1. PICK h \in Local : h = req[r]
  BY DEF Inv, TypeOK
<1>2. PICK g \in Local : g = Idle /\ g.token = None
  BY IdleIs
<1>3. PICK o \in Entry : o = Calm
  BY IdleIs
<1>4. UNCHANGED <<contact, private, member, cnt, rights, born, now>>
  BY DEF Discard, outside
<1>5. h.pc = "discard" /\ h.token \in Token
  BY <1>1 DEF Discard, Inv, OK, Known, Holding, Local
<1>6. /\ token' = [token EXCEPT ![h.token] = None] /\ req' = [req EXCEPT ![r] = g]
      /\ history' = [Over(r, history) EXCEPT !.untrimmed = @ \ {h.token}]
  BY <1>1, <1>2 DEF Discard, Finish
<1>7. /\ history' \in Histories /\ history'.of = [history.of EXCEPT ![r] = o]
      /\ history'.cut = history.cut \ {h.token}
      /\ history'.untrimmed = history.untrimmed \ {h.token}
      /\ history'.strays = history.strays /\ history'.off = history.off
  BY <1>1, <1>3, <1>6 DEF Over, Inv, TypeOK, Histories
<1>8. /\ req'[r] = g /\ \A q \in Request \ {r} : req'[q] = req[q]
      /\ history'.of[r] = o /\ \A q \in Request \ {r} : history'.of[q] = history.of[q]
  BY <1>6, <1>7 DEF Inv, TypeOK, Histories
<1>9. \A k \in Token : token'[k] = IF k = h.token THEN None ELSE token[k]
  BY <1>6 DEF Inv, TypeOK
<1>10. TypeOK'
  BY <1>4, <1>6, <1>7 DEF Inv, TypeOK
<1>11. h.token \notin Stored'
  BY <1>9 DEF Stored
<1>12. /\ Stored' \subseteq Stored /\ \A k \in Stored' : token'[k] = token[k]
       /\ IsFiniteSet(Stored)' /\ TokensBounded'
  BY <1>7, <1>9, <1>11, Fewer
<1>13. CountsHonest' /\ NoRows' /\ Unborn'
  BY <1>4, <1>7, <1>12 DEF Inv, CountsHonest, NoRows, Unborn
<1>14. Apart'
  BY <1>2, <1>8 DEF Inv, Apart
<1>15. ASSUME NEW q \in Request \ {r}
       PROVE  OK(req[q], history.of[q])'
  <2>1. PICK l \in Local : l = req[q]
    BY DEF Inv, TypeOK
  <2>2. PICK d \in Entry : d = history.of[q]
    BY DEF Inv, TypeOK, Histories
  <2>3. OK(l, d) /\ (l.token # None => l.token # h.token)
    BY <1>1, <2>1, <2>2 DEF Inv, Apart
  <2>4. Known(l)' /\ Granted(l, d)' /\ Met(l, d)' /\ Counts(l, d)'
    BY <1>4, <2>3 DEF OK, Known, Granted, Met, Counts, Holders, Existing
  <2>5. l.token \in Token => l.token # None
    BY NoneAssumption
  <2>6. Inserted(l, d)' /\ Keeps(l)' /\ Trims(l)'
    BY <1>7, <1>9, <2>3, <2>5, TokensKept DEF OK
  <2>7. Passed(l)'
    BY <1>4, <1>7, <1>12, <2>3 DEF OK, Passed
  <2>8. OK(l, d)'
    BY <2>3, <2>4, <2>6, <2>7 DEF OK
  <2>9. QED
    BY <1>8, <2>1, <2>2, <2>8
<1>16. OK(g, o)'
  BY <1>2, <1>3, IdleOK
<1>17. QED
  BY <1>8, <1>10, <1>12, <1>13, <1>14, <1>15, <1>16 DEF Inv

-----------------------------------------------------------------------------
(* The transactions of a deletion.                                         *)

LEMMA AnnounceStep ==
    ASSUME Inv, NEW r \in Request, Announce(r)
    PROVE  Inv'
<1>1. PICK h \in Local : h = req[r]
  BY DEF Inv, TypeOK
<1>2. PICK o \in Entry : o = history.of[r]
  BY DEF Inv, TypeOK, Histories
<1>3. OK(h, o) /\ h.pc = "announce" /\ h.contact \in Contact /\ h.token = None
  BY <1>1, <1>2 DEF Inv, Announce, OK, Known, Deleting, Holding
<1>4. UNCHANGED <<contact, token, member, cnt, rights, born, now, Stored>>
  BY DEF Announce, outside, Stored
<1>5. PICK stray \in Contact \X Tables : stray = <<h.contact, "private">>
  BY <1>3 DEF Tables
<1>6. PICK strays \in SUBSET (Contact \X Tables) :
          /\ history' = [history EXCEPT !.strays = strays]
          /\ \/ private' = private \ {h.contact} /\ strays = history.strays \ {stray}
             \/ private' = private /\ strays = history.strays \cup {stray}
  <2>1. CASE /\ private' = private \ {h.contact}
             /\ history' = [history EXCEPT !.strays = @ \ {stray}]
    BY <2>1 DEF Inv, TypeOK, Histories
  <2>2. CASE /\ private' = private
             /\ history' = [history EXCEPT !.strays = @ \cup {stray}]
    BY <2>2 DEF Inv, TypeOK, Histories
  <2>3. QED
    BY <1>1, <1>5, <2>1, <2>2 DEF Announce, Of
<1>7. /\ history' \in Histories /\ history'.of = [history.of EXCEPT ![r] = o]
      /\ UNCHANGED <<history.cut, history.untrimmed, history.off>>
      /\ history'.strays = strays
  BY <1>2, <1>6 DEF Inv, TypeOK, Histories
<1>8. PICK p \in Points : p = "begin"
  BY DEF Points, Deleting
<1>9. PICK g : g = [h EXCEPT !.pc = p]
  OBVIOUS
<1>10. /\ g \in Local /\ g.pc = p /\ g.contact = h.contact /\ g.token = h.token
       /\ g.counted = h.counted
  BY <1>9 DEF Local
<1>11. req' = [req EXCEPT ![r] = g]
  BY <1>1, <1>8, <1>9 DEF Announce, Goto, Inv, TypeOK
<1>12. /\ req'[r] = g /\ \A q \in Request \ {r} : req'[q] = req[q]
       /\ history'.of[r] = o /\ \A q \in Request \ {r} : history'.of[q] = history.of[q]
  BY <1>2, <1>7, <1>11 DEF Inv, TypeOK, Histories
<1>13. \A c : c \in private' => c \in private /\ (c = h.contact => stray \in strays)
  BY <1>6
<1>14. /\ \A s \in history.strays : s # stray => s \in strays
       /\ \A s \in history.strays : s[2] # "private" => s \in strays
       /\ \A c \in private' : <<c, "private">> \in history.strays => <<c, "private">> \in strays
  <2>1. stray[2] = "private"
    BY <1>5
  <2>2. \A c : <<c, "private">> = stray => c = h.contact
    BY <1>5
  <2>3. QED
    BY <1>6, <2>1, <2>2
<1>15. /\ \A c : <<c, "token">> \in history.strays => <<c, "token">> \in strays
       /\ \A c : <<c, "member">> \in history.strays => <<c, "member">> \in strays
  <2>1. \A c : <<c, "token">>[2] # "private" /\ <<c, "member">>[2] # "private"
    OBVIOUS
  <2>2. QED
    BY <1>14, <2>1
<1>16. TypeOK'
  BY <1>4, <1>6, <1>7, <1>10, <1>11 DEF Inv, TypeOK
<1>17. IsFiniteSet(Stored)' /\ TokensBounded' /\ CountsHonest' /\ Unborn'
  BY <1>4, <1>7 DEF Inv, TokensBounded, TokensOf, CountsHonest, Unborn
<1>18. NoRows'
  BY <1>4, <1>7, <1>13, <1>14, <1>15 DEF Inv, NoRows
<1>19. Apart'
  BY <1>1, <1>10, <1>12 DEF Inv, Apart
<1>20. OK(g, o)'
  <2>1. h.token \notin Stored
    BY <1>3, NoneAssumption DEF Stored
  <2>2. Known(g)' /\ Granted(g, o)' /\ Keeps(g)' /\ Trims(g)'
    BY <1>3, <1>8, <1>10 DEF OK, Known, Granted, Keeps, Trims, Holding, Inviting, Deleting
  <2>3. Inserted(g, o)' /\ Met(g, o)' /\ Counts(g, o)'
    BY <1>3, <1>4, <1>8, <1>10, <2>1 DEF OK, Inserted, Met, Counts
  <2>4. Passed(g)'
    BY <1>5, <1>7, <1>8, <1>10, <1>13 DEF Passed
  <2>5. QED
    BY <2>2, <2>3, <2>4 DEF OK
<1>21. ASSUME NEW q \in Request \ {r}
       PROVE  OK(req[q], history.of[q])'
  <2>1. PICK l \in Local : l = req[q]
    BY DEF Inv, TypeOK
  <2>2. PICK d \in Entry : d = history.of[q]
    BY DEF Inv, TypeOK, Histories
  <2>3. OK(l, d)
    BY <2>1, <2>2 DEF Inv
  <2>4. Known(l)' /\ Granted(l, d)' /\ Met(l, d)' /\ Counts(l, d)'
    BY <1>4, <2>3 DEF OK, Known, Granted, Met, Counts, Holders, Existing
  <2>5. Inserted(l, d)' /\ Keeps(l)' /\ Trims(l)'
    BY <1>4, <1>7, <2>3 DEF OK, Inserted, Keeps, Trims
  <2>6. Passed(l)'
    BY <1>4, <1>7, <1>13, <1>14, <1>15, <2>3 DEF OK, Passed
  <2>7. OK(l, d)'
    BY <2>3, <2>4, <2>5, <2>6 DEF OK
  <2>8. QED
    BY <1>12, <2>1, <2>2, <2>7
<1>22. QED
  BY <1>12, <1>16, <1>17, <1>18, <1>19, <1>20, <1>21 DEF Inv

(* Whoever is counting is told what was touched; nothing else changes.     *)
LEMMA TouchIs ==
    ASSUME NEW h \in Histories, NEW categories \in SUBSET Category
    PROVE  LET new == Touch(h, categories)
           IN  /\ new \in Histories /\ new.off = h.off /\ new.strays = h.strays
               /\ new.cut = h.cut /\ new.untrimmed = h.untrimmed
               /\ \A q \in Request : /\ new.of[q].moments = h.of[q].moments
                                     /\ new.of[q].met = h.of[q].met
                                     /\ new.of[q].touched = h.of[q].touched \cup
                                           IF req[q].pc \in {"sweep", "recount", "commit"}
                                           THEN categories ELSE {}
<1> DEFINE More(q) == IF req[q].pc \in {"sweep", "recount", "commit"} THEN categories ELSE {}
<1>1. PICK of : of = [q \in Request |-> [h.of[q] EXCEPT !.touched = h.of[q].touched \cup More(q)]]
  OBVIOUS
<1>2. Touch(h, categories) = [h EXCEPT !.of = of]
  BY <1>1 DEF Touch
<1>3. \A q \in Request : /\ of[q] \in Entry /\ of[q].moments = h.of[q].moments
                         /\ of[q].met = h.of[q].met
                         /\ of[q].touched = h.of[q].touched \cup More(q)
  <2>1. ASSUME NEW q \in Request
        PROVE  /\ of[q] \in Entry /\ of[q].moments = h.of[q].moments
               /\ of[q].met = h.of[q].met
               /\ of[q].touched = h.of[q].touched \cup More(q)
    <3>1. PICK d \in Entry : d = h.of[q]
      BY DEF Histories
    <3>2. PICK m \in SUBSET Category : m = d.touched \cup More(q)
      BY DEF Entry
    <3>3. of[q] = [d EXCEPT !.touched = m]
      BY <1>1, <3>1, <3>2
    <3>4. QED
      BY <3>1, <3>2, <3>3 DEF Entry
  <2>2. QED
    BY <2>1
<1>4. of \in [Request -> Entry]
  BY <1>1, <1>3
<1>5. PICK new : new = [h EXCEPT !.of = of]
  OBVIOUS
<1>6. /\ new \in Histories /\ new.off = h.off /\ new.strays = h.strays
      /\ new.cut = h.cut /\ new.untrimmed = h.untrimmed /\ new.of = of
  BY <1>4, <1>5 DEF Histories
<1>7. Touch(h, categories) = new
  BY <1>2, <1>5
<1>8. QED
  BY <1>3, <1>6, <1>7

LEMMA CommitStep ==
    ASSUME Inv, NEW r \in Request, Commit(r)
    PROVE  Inv'
<1>1. PICK h \in Local : h = req[r]
  BY DEF Inv, TypeOK
<1>2. PICK o \in Entry : o = history.of[r]
  BY DEF Inv, TypeOK, Histories
<1>3. OK(h, o) /\ h.pc = "commit" /\ h.contact \in Contact /\ h.token = None
  BY <1>1, <1>2 DEF Inv, Commit, OK, Known, Deleting, Holding
<1>4. PICK c \in Contact : c = h.contact
  BY <1>3
<1>5. /\ UNCHANGED <<private, rights, born, now>>
      /\ contact' = [contact EXCEPT ![c] = None]
      /\ token' = [k \in Token |-> IF k \in h.doomed THEN None ELSE token[k]]
      /\ member' = member \ h.leaving
      /\ cnt' = [a \in Category |-> IF h.counted[a] = None THEN cnt[a] ELSE h.counted[a]]
  BY <1>1, <1>4 DEF Commit, outside, Of
<1>6. PICK left \in SUBSET Category : left = {a \in Category : MembersOf(a, h.leaving) # {}}
  OBVIOUS
<1>7. PICK counted \in SUBSET Category : counted = {a \in Category : h.counted[a] # None}
  OBVIOUS
<1>8. PICK clean :
          clean = (IF \E k \in Token : token'[k] # None /\ token'[k].contact = c
                   THEN {} ELSE {<<c, "token">>})
                  \cup (IF \E a \in Category : <<c, a>> \in member'
                        THEN {} ELSE {<<c, "member">>})
  OBVIOUS
<1>9. PICK old : old = [history EXCEPT !.off = (@ \cup left \cup counted) \ (counted \ o.touched),
                                       !.strays = @ \ clean,
                                       !.cut = @ \cup h.doomed,
                                       !.untrimmed = @ \ h.doomed]
  OBVIOUS
<1>10. history' = Over(r, Touch(old, left \cup counted))
  BY <1>1, <1>2, <1>4, <1>6, <1>7, <1>8, <1>9 DEF Commit, Of
<1>11. /\ old \in Histories /\ old.of = history.of
       /\ old.off = (history.off \cup left \cup counted) \ (counted \ o.touched)
       /\ old.strays = history.strays \ clean
       /\ old.cut = history.cut \cup h.doomed
       /\ old.untrimmed = history.untrimmed \ h.doomed
  BY <1>9 DEF Inv, TypeOK, Histories, Local
<1>12. PICK new : new = Touch(old, left \cup counted)
  OBVIOUS
<1>13. /\ new \in Histories /\ new.off = old.off /\ new.strays = old.strays
       /\ new.cut = old.cut /\ new.untrimmed = old.untrimmed
       /\ \A q \in Request : /\ new.of[q].moments = old.of[q].moments
                             /\ new.of[q].met = old.of[q].met
                             /\ new.of[q].touched = old.of[q].touched \cup
                                   IF req[q].pc \in {"sweep", "recount", "commit"}
                                   THEN left \cup counted ELSE {}
  BY <1>11, <1>12, TouchIs
<1>14. PICK i \in Local : i = Idle /\ i.token = None
  BY IdleIs
<1>15. PICK e \in Entry : e = Calm
  BY IdleIs
<1>16. /\ history' \in Histories /\ history'.off = new.off /\ history'.strays = new.strays
       /\ history'.cut = new.cut \ {None} /\ history'.untrimmed = new.untrimmed
       /\ history'.of[r] = e /\ \A q \in Request \ {r} : history'.of[q] = new.of[q]
  BY <1>1, <1>3, <1>10, <1>12, <1>13, <1>15 DEF Over, Histories
<1>17. req' = [req EXCEPT ![r] = i]
  BY <1>14 DEF Commit, Finish
<1>18. req'[r] = i /\ \A q \in Request \ {r} : req'[q] = req[q]
  BY <1>17 DEF Inv, TypeOK
<1>19. \A k \in Token : token'[k] = IF k \in h.doomed THEN None ELSE token[k]
  BY <1>5
<1>20. /\ history'.strays = history.strays \ clean
       /\ history'.cut = (history.cut \cup h.doomed) \ {None}
       /\ history'.untrimmed = history.untrimmed \ h.doomed
       /\ history'.off = (history.off \cup left \cup counted) \ (counted \ o.touched)
  BY <1>11, <1>13, <1>16
<1>21. TypeOK'
  <2>1. cnt' \in [Category -> Nat]
    BY <1>5 DEF Inv, TypeOK, Local
  <2>2. member' \subseteq Pairs /\ contact' \in [Contact -> ContactRows \cup {None}]
    BY <1>5 DEF Inv, TypeOK
  <2>3. token' \in [Token -> TokenRows \cup {None}]
    BY <1>5 DEF Inv, TypeOK
  <2>4. QED
    BY <1>5, <1>16, <1>17, <2>1, <2>2, <2>3 DEF Inv, TypeOK
<1>22. /\ Stored' \subseteq Stored /\ \A k \in Stored' : token'[k] = token[k]
       /\ IsFiniteSet(Stored)' /\ TokensBounded'
  <2>1. \A k \in Stored' : k \notin h.doomed
    BY <1>19 DEF Stored
  <2>2. QED
    BY <1>19, <1>20, <2>1, Fewer
<1>23. \A a \in Category \ left : MembersOf(a, member') = MembersOf(a, member)
  BY <1>5, <1>6 DEF MembersOf
<1>24. CountsHonest'
  <2>1. ASSUME NEW a \in Category \ history'.off
        PROVE  cnt'[a] = Cardinality(MembersOf(a, member'))
    <3>1. CASE a \in counted \ o.touched
      <4>1. MembersOf(a, member) = MembersOf(a, h.snapshot)
        BY <1>3, <3>1 DEF OK, Counts
      <4>2. MembersOf(a, member \ h.leaving) = MembersOf(a, h.snapshot \ h.leaving)
        BY <4>1 DEF MembersOf
      <4>3. h.counted[a] = Cardinality(MembersOf(a, h.snapshot \ h.leaving))
        BY <1>3, <1>7, <3>1 DEF OK, Counts
      <4>4. QED
        BY <1>5, <1>7, <3>1, <4>2, <4>3
    <3>2. CASE a \notin counted \ o.touched
      <4>1. a \notin history.off /\ a \notin left /\ a \notin counted
        BY <1>20, <2>1, <3>2
      <4>2. QED
        BY <1>5, <1>7, <1>23, <4>1 DEF Inv, CountsHonest
    <3>3. QED
      BY <3>1, <3>2
  <2>2. QED
    BY <2>1 DEF CountsHonest
<1>25. /\ \A x, y : <<x, y>> \in history.strays /\ (x # c \/ y = "private")
                        => <<x, y>> \in history'.strays
       /\ <<c, "token">> \in history.strays /\ (\E k \in Stored' : token'[k].contact = c)
             => <<c, "token">> \in history'.strays
       /\ <<c, "member">> \in history.strays /\ (\E a \in Category : <<c, a>> \in member')
             => <<c, "member">> \in history'.strays
  <2>1. clean \subseteq {<<c, "token">>, <<c, "member">>}
    BY <1>8
  <2>2. \A x, y : <<x, y>> \in {<<c, "token">>, <<c, "member">>} => x = c /\ y \in {"token", "member"}
    OBVIOUS
  <2>3. \A x, y : x # c \/ y = "private" => <<x, y>> \notin clean
    BY <2>1, <2>2
  <2>4. (\E k \in Stored' : token'[k].contact = c) => <<c, "token">> \notin clean
    BY <1>8 DEF Stored
  <2>5. (\E a \in Category : <<c, a>> \in member') => <<c, "member">> \notin clean
    BY <1>8
  <2>6. QED
    BY <1>20, <2>3, <2>4, <2>5
<1>26. /\ \A k \in Stored' : token'[k].contact = c => <<c, "token">> \in history.strays
       /\ \A a \in Category : <<c, a>> \in member' => <<c, "member">> \in history.strays
       /\ c \in private => <<c, "private">> \in history.strays
  <2>1. \A k \in Stored' : k \in Stored /\ k \notin h.doomed /\ token'[k] = token[k]
    BY <1>19, <1>22 DEF Stored
  <2>2. QED
    BY <1>3, <1>4, <1>5, <2>1 DEF OK, Passed
<1>27. NoRows' /\ Unborn'
  <2>1. ASSUME NEW x \in Contact, contact'[x] = None
        PROVE  /\ (\E k \in Stored' : token'[k].contact = x) => <<x, "token">> \in history'.strays
               /\ (\E a \in Category : <<x, a>> \in member') => <<x, "member">> \in history'.strays
               /\ x \in private' => <<x, "private">> \in history'.strays
    <3>1. CASE x = c
      BY <1>5, <1>25, <1>26, <3>1
    <3>2. CASE x # c
      <4>1. contact[x] = None
        BY <1>5, <2>1, <3>2 DEF Inv, TypeOK
      <4>2. /\ (\E k \in Stored : token[k].contact = x) => <<x, "token">> \in history.strays
            /\ (\E a \in Category : <<x, a>> \in member) => <<x, "member">> \in history.strays
            /\ x \in private => <<x, "private">> \in history.strays
        BY <4>1 DEF Inv, NoRows
      <4>3. QED
        BY <1>5, <1>22, <1>25, <3>2, <4>2
    <3>3. QED
      BY <3>1, <3>2
  <2>2. NoRows'
    BY <2>1 DEF NoRows
  <2>3. Unborn'
    BY <1>5 DEF Inv, TypeOK, Unborn
  <2>4. QED
    BY <2>2, <2>3
<1>28. Apart'
  BY <1>14, <1>18 DEF Inv, Apart
<1>29. OK(i, e)'
  BY <1>14, <1>15, IdleOK
<1>30. ASSUME NEW q \in Request \ {r}
       PROVE  OK(req[q], history.of[q])'
  <2>1. PICK l \in Local : l = req[q]
    BY DEF Inv, TypeOK
  <2>2. PICK d \in Entry : d = history.of[q]
    BY DEF Inv, TypeOK, Histories
  <2>3. PICK f \in Entry : f = history'.of[q]
    BY <1>16 DEF Histories
  <2>4. OK(l, d)
    BY <2>1, <2>2 DEF Inv
  <2>5. /\ f.moments = d.moments /\ f.met = d.met /\ d.touched \subseteq f.touched
        /\ l.pc \in {"sweep", "recount", "commit"} => left \subseteq f.touched
    BY <1>11, <1>13, <1>16, <2>1, <2>2, <2>3
  <2>6. Inserted(l, f) /\ l.token \notin {None} \cap Token
    BY <2>4, <2>5, NoneAssumption DEF OK, Inserted
  <2>7. Known(l)' /\ Granted(l, f)'
    BY <1>5, <2>4, <2>5 DEF OK, Known, Granted
  <2>8. Met(l, f)'
    <3>1. \A x \in Contact : contact'[x] # None => contact'[x] = contact[x]
      BY <1>5 DEF Inv, TypeOK
    <3>2. QED
      BY <1>5, <2>4, <2>5, <3>1 DEF OK, Met, Holders, Existing
  <2>9. Inserted(l, f)' /\ Keeps(l)' /\ Trims(l)'
    <3>1. l.token \in Token => /\ token'[l.token] \in {token[l.token], None}
                               /\ token[l.token] # None /\ token'[l.token] = None
                                     => l.token \in history'.cut
                               /\ l.token \in history.cut => l.token \in history'.cut
      BY <1>19, <1>20, <2>6
    <3>2. QED
      BY <2>4, <2>6, <3>1, TokensKept DEF OK
  <2>10. Passed(l)'
    <3>1. CASE l.contact = c
      BY <1>5, <1>22, <1>25, <2>4, <3>1 DEF OK, Passed
    <3>2. CASE l.contact # c
      BY <1>5, <1>22, <1>25, <2>4, <3>2 DEF OK, Passed
    <3>3. QED
      BY <3>1, <3>2
  <2>11. Counts(l, f)'
    BY <1>23, <2>4, <2>5 DEF OK, Counts
  <2>12. OK(l, f)'
    BY <2>7, <2>8, <2>9, <2>10, <2>11 DEF OK
  <2>13. QED
    BY <1>18, <2>1, <2>3, <2>12
<1>31. QED
  BY <1>16, <1>18, <1>21, <1>22, <1>24, <1>27, <1>28, <1>29, <1>30 DEF Inv

-----------------------------------------------------------------------------
(* What other programs do.                                                 *)

LEMMA ChangeRightsStep ==
    ASSUME Inv, ChangeRights
    PROVE  Inv'
<1>1. PICK new \in SUBSET Rights :
          /\ rights' = new
          /\ LET Moments(r) == history.of[r].moments \cup IF InFlight(r) THEN {new} ELSE {}
             IN  history' = [history EXCEPT !.of =
                    [r \in Request |-> [history.of[r] EXCEPT !.moments = Moments(r)]]]
  BY DEF ChangeRights, Rights
<1>2. UNCHANGED <<contact, token, private, member, cnt, born, now, req, Stored>>
  BY DEF ChangeRights, tables, Stored
<1>3. /\ history' \in Histories
      /\ UNCHANGED <<history.cut, history.untrimmed, history.strays, history.off>>
      /\ \A q \in Request : /\ history'.of[q].met = history.of[q].met
                            /\ history'.of[q].touched = history.of[q].touched
                            /\ history'.of[q].moments = history.of[q].moments \cup
                                  IF InFlight(q) THEN {new} ELSE {}
  <2>1. history \in Histories
    BY DEF Inv, TypeOK
  <2>2. PICK of : of = [r \in Request |-> [history.of[r] EXCEPT !.moments =
                             history.of[r].moments \cup IF InFlight(r) THEN {new} ELSE {}]]
    OBVIOUS
  <2>3. history' = [history EXCEPT !.of = of]
    BY <1>1, <2>2
  <2>4. \A q \in Request : /\ of[q] \in Entry /\ of[q].met = history.of[q].met
                           /\ of[q].touched = history.of[q].touched
                           /\ of[q].moments = history.of[q].moments \cup
                                 IF InFlight(q) THEN {new} ELSE {}
    <3>1. ASSUME NEW q \in Request
          PROVE  /\ of[q] \in Entry /\ of[q].met = history.of[q].met
                 /\ of[q].touched = history.of[q].touched
                 /\ of[q].moments = history.of[q].moments \cup
                       IF InFlight(q) THEN {new} ELSE {}
      <4>1. PICK d \in Entry : d = history.of[q]
        BY <2>1 DEF Histories
      <4>2. PICK m \in SUBSET SUBSET Rights :
                m = d.moments \cup IF InFlight(q) THEN {new} ELSE {}
        BY DEF Entry
      <4>3. of[q] = [d EXCEPT !.moments = m]
        BY <2>2, <4>1, <4>2
      <4>4. QED
        BY <4>1, <4>2, <4>3 DEF Entry
    <3>2. QED
      BY <3>1
  <2>5. of \in [Request -> Entry]
    BY <2>2, <2>4
  <2>6. QED
    BY <2>1, <2>3, <2>4, <2>5 DEF Histories
<1>4. TypeOK'
  BY <1>1, <1>2, <1>3 DEF Inv, TypeOK
<1>5. /\ IsFiniteSet(Stored)' /\ TokensBounded' /\ CountsHonest' /\ NoRows' /\ Unborn' /\ Apart'
  BY <1>2, <1>3 DEF Inv, TokensBounded, TokensOf, CountsHonest, NoRows, Unborn, Apart
<1>6. ASSUME NEW q \in Request
      PROVE  OK(req[q], history.of[q])'
  <2>1. PICK l \in Local : l = req[q]
    BY DEF Inv, TypeOK
  <2>2. PICK d \in Entry : d = history.of[q]
    BY DEF Inv, TypeOK, Histories
  <2>3. PICK f \in Entry : f = history'.of[q]
    BY <1>3 DEF Histories
  <2>4. OK(l, d)
    BY <2>1, <2>2 DEF Inv
  <2>5. /\ f.met = d.met /\ f.touched = d.touched /\ d.moments \subseteq f.moments
        /\ l.pc \in Inviting => rights' \in f.moments
    BY <1>1, <1>3, <2>1, <2>2, <2>3 DEF InFlight, Inviting
  <2>6. Known(l)' /\ Granted(l, f)'
    BY <2>4, <2>5 DEF OK, Known, Granted
  <2>7. Inserted(l, f)'
    BY <1>2, <2>4, <2>5 DEF OK, Inserted
  <2>8. Keeps(l)' /\ Trims(l)' /\ Passed(l)'
    BY <1>2, <1>3, <2>4 DEF OK, Keeps, Trims, Passed
  <2>9. Met(l, f)' /\ Counts(l, f)'
    BY <1>2, <2>4, <2>5 DEF OK, Met, Counts, Holders, Existing
  <2>10. OK(l, f)'
    BY <2>6, <2>7, <2>8, <2>9 DEF OK
  <2>11. QED
    BY <1>2, <2>1, <2>3, <2>10
<1>7. QED
  BY <1>4, <1>5, <1>6 DEF Inv

LEMMA RedeemStep ==
    ASSUME Inv, NEW k \in Token, Redeem(k)
    PROVE  Inv'
<1>1. PICK c \in Contact : c = token[k].contact /\ contact[c] # None
  BY DEF Redeem, Existing
<1>2. UNCHANGED <<private, member, cnt, rights, born, now, req>>
  BY DEF Redeem
<1>3. /\ contact' = [contact EXCEPT ![c].status = "user"] /\ token' = [token EXCEPT ![k] = None]
      /\ history' = [history EXCEPT !.cut = @ \cup {k}, !.untrimmed = @ \ {k}]
  BY <1>1 DEF Redeem
<1>4. /\ history' \in Histories /\ history'.of = history.of
      /\ history'.cut = history.cut \cup {k} /\ history'.untrimmed = history.untrimmed \ {k}
      /\ history'.strays = history.strays /\ history'.off = history.off
  BY <1>3 DEF Inv, TypeOK, Histories
<1>5. PICK row \in ContactRows : row = contact[c]
  BY <1>1 DEF Inv, TypeOK
<1>6. PICK user \in ContactRows : user = [row EXCEPT !.status = "user"]
  BY DEF ContactRows, Statuses
<1>7. user.addresses = row.addresses /\ user # None
  BY <1>6, NoneAssumption DEF ContactRows
<1>8. contact' = [contact EXCEPT ![c] = user]
  BY <1>3, <1>5, <1>6
<1>9. \A x \in Contact : /\ contact'[x] = None <=> contact[x] = None
                         /\ contact[x] # None => contact'[x].addresses = contact[x].addresses
  BY <1>1, <1>5, <1>7, <1>8 DEF Inv, TypeOK
<1>10. \A x \in Token : token'[x] = IF x = k THEN None ELSE token[x]
  BY <1>3 DEF Inv, TypeOK
<1>11. k \notin Stored'
  BY <1>10 DEF Stored
<1>12. /\ Stored' \subseteq Stored /\ \A x \in Stored' : token'[x] = token[x]
       /\ IsFiniteSet(Stored)' /\ TokensBounded'
  BY <1>4, <1>10, <1>11, Fewer
<1>13. TypeOK'
  BY <1>2, <1>3, <1>4, <1>8 DEF Inv, TypeOK
<1>14. CountsHonest' /\ Apart'
  BY <1>2, <1>4 DEF Inv, CountsHonest, Apart
<1>15. NoRows' /\ Unborn'
  BY <1>2, <1>4, <1>9, <1>12 DEF Inv, NoRows, Unborn
<1>16. ASSUME NEW q \in Request
       PROVE  OK(req[q], history.of[q])'
  <2>1. PICK l \in Local : l = req[q]
    BY DEF Inv, TypeOK
  <2>2. PICK d \in Entry : d = history.of[q]
    BY DEF Inv, TypeOK, Histories
  <2>3. OK(l, d)
    BY <2>1, <2>2 DEF Inv
  <2>4. Known(l)' /\ Granted(l, d)' /\ Counts(l, d)'
    BY <1>2, <2>3 DEF OK, Known, Granted, Counts
  <2>5. Met(l, d)'
    BY <1>2, <1>9, <2>3 DEF OK, Met, Holders, Existing
  <2>6. Inserted(l, d)' /\ Keeps(l)' /\ Trims(l)'
    BY <1>4, <1>10, <2>3, TokensKept DEF OK
  <2>7. Passed(l)'
    BY <1>2, <1>4, <1>12, <2>3 DEF OK, Passed
  <2>8. OK(l, d)'
    BY <2>3, <2>4, <2>5, <2>6, <2>7 DEF OK
  <2>9. QED
    BY <1>2, <1>4, <2>1, <2>2, <2>8
<1>17. QED
  BY <1>12, <1>13, <1>14, <1>15, <1>16 DEF Inv

LEMMA GrantPrivateStep ==
    ASSUME Inv, NEW c \in Contact, GrantPrivate(c)
    PROVE  Inv'
<1>1. UNCHANGED <<contact, token, member, cnt, rights, born, now, req, Stored>>
  BY DEF GrantPrivate, Stored
<1>2. contact[c] # None /\ private' = private \cup {c}
  BY DEF GrantPrivate, Existing
<1>3. PICK more : more = IF \E r \in Request : Of(r) = c /\ req[r].pc \in Deleting
                         THEN {<<c, "private">>} ELSE {}
  OBVIOUS
<1>4. more \subseteq Contact \X Tables
  BY <1>3 DEF Tables
<1>5. history' = [history EXCEPT !.strays = @ \cup more]
  BY <1>3 DEF GrantPrivate
<1>6. /\ history' \in Histories /\ history'.of = history.of
      /\ UNCHANGED <<history.cut, history.untrimmed, history.off>>
      /\ history'.strays = history.strays \cup more
  BY <1>4, <1>5 DEF Inv, TypeOK, Histories
<1>7. TypeOK'
  BY <1>1, <1>2, <1>6 DEF Inv, TypeOK
<1>8. /\ IsFiniteSet(Stored)' /\ TokensBounded' /\ CountsHonest' /\ Unborn' /\ Apart'
  BY <1>1, <1>6 DEF Inv, TokensBounded, TokensOf, CountsHonest, Unborn, Apart
<1>9. NoRows'
  BY <1>1, <1>2, <1>6 DEF Inv, NoRows
<1>10. ASSUME NEW q \in Request
       PROVE  OK(req[q], history.of[q])'
  <2>1. PICK l \in Local : l = req[q]
    BY DEF Inv, TypeOK
  <2>2. PICK d \in Entry : d = history.of[q]
    BY DEF Inv, TypeOK, Histories
  <2>3. OK(l, d)
    BY <2>1, <2>2 DEF Inv
  <2>4. Known(l)' /\ Granted(l, d)' /\ Met(l, d)' /\ Counts(l, d)'
    BY <1>1, <2>3 DEF OK, Known, Granted, Met, Counts, Holders, Existing
  <2>5. Inserted(l, d)' /\ Keeps(l)' /\ Trims(l)'
    BY <1>1, <1>6, <2>3 DEF OK, Inserted, Keeps, Trims
  <2>6. Passed(l)'
    <3>1. l.contact = c /\ l.pc \in Deleting => <<l.contact, "private">> \in history'.strays
      BY <1>3, <1>6, <2>1 DEF Of
    <3>2. l.contact \in private' => l.contact \in private \/ l.contact = c
      BY <1>2
    <3>3. {"begin", "sweep", "recount", "commit"} \subseteq Deleting
      BY DEF Deleting
    <3>4. QED
      BY <1>1, <1>6, <2>3, <3>1, <3>2, <3>3 DEF OK, Passed
  <2>7. OK(l, d)'
    BY <2>4, <2>5, <2>6 DEF OK
  <2>8. QED
    BY <1>1, <1>6, <2>1, <2>2, <2>7
<1>11. QED
  BY <1>7, <1>8, <1>9, <1>10 DEF Inv

LEMMA JoinStep ==
    ASSUME Inv, NEW c \in Contact, NEW a \in Category, Join(c, a)
    PROVE  Inv'
<1>1. UNCHANGED <<contact, token, private, rights, born, now, req, Stored>>
  BY DEF Join, Stored
<1>2. /\ contact[c] # None /\ member' = member \cup {<<c, a>>}
      /\ cnt' = [cnt EXCEPT ![a] = Cardinality(MembersOf(a, member'))]
  BY DEF Join, Existing
<1>3. PICK more : more = IF Swept(c) THEN {<<c, "member">>} ELSE {}
  OBVIOUS
<1>4. more \subseteq Contact \X Tables
  BY <1>3 DEF Tables
<1>5. PICK own \in SUBSET Category : own = {a}
  OBVIOUS
<1>6. PICK old : old = Touch(history, own)
  OBVIOUS
<1>7. /\ old \in Histories /\ old.off = history.off /\ old.strays = history.strays
      /\ old.cut = history.cut /\ old.untrimmed = history.untrimmed
      /\ \A q \in Request : /\ old.of[q].moments = history.of[q].moments
                            /\ old.of[q].met = history.of[q].met
                            /\ old.of[q].touched = history.of[q].touched \cup
                                  IF req[q].pc \in {"sweep", "recount", "commit"}
                                  THEN own ELSE {}
  <2>1. history \in Histories
    BY DEF Inv, TypeOK
  <2>2. QED
    BY <1>6, <2>1, TouchIs
<1>8. history' = [old EXCEPT !.off = @ \ {a}, !.strays = @ \cup more]
  BY <1>5, <1>3, <1>6 DEF Join, Touch
<1>9. /\ history' \in Histories /\ history'.of = old.of
      /\ history'.cut = history.cut /\ history'.untrimmed = history.untrimmed
      /\ history'.off = history.off \ {a} /\ history'.strays = history.strays \cup more
  BY <1>4, <1>7, <1>8 DEF Histories
<1>10. member' \in SUBSET Pairs
  BY <1>2 DEF Inv, TypeOK, Pairs
<1>11. cnt' \in [Category -> Nat] /\ cnt'[a] = Cardinality(MembersOf(a, member'))
  BY <1>2, <1>10, MembersFinite DEF Inv, TypeOK
<1>12. TypeOK'
  BY <1>1, <1>9, <1>10, <1>11 DEF Inv, TypeOK
<1>13. \A b \in Category \ {a} : cnt'[b] = cnt[b] /\ MembersOf(b, member') = MembersOf(b, member)
  BY <1>2 DEF MembersOf, Inv, TypeOK
<1>14. CountsHonest'
  BY <1>9, <1>11, <1>13 DEF Inv, CountsHonest
<1>15. IsFiniteSet(Stored)' /\ TokensBounded' /\ Unborn' /\ Apart'
  BY <1>1, <1>9 DEF Inv, TokensBounded, TokensOf, Unborn, Apart
<1>16. \A x \in Contact : \A b : <<x, b>> \in member' => <<x, b>> \in member \/ x = c
  BY <1>2
<1>17. NoRows'
  BY <1>1, <1>2, <1>9, <1>16 DEF Inv, NoRows
<1>18. ASSUME NEW q \in Request
       PROVE  OK(req[q], history.of[q])'
  <2>1. PICK l \in Local : l = req[q]
    BY DEF Inv, TypeOK
  <2>2. PICK d \in Entry : d = history.of[q]
    BY DEF Inv, TypeOK, Histories
  <2>3. PICK f \in Entry : f = history'.of[q]
    BY <1>9 DEF Histories
  <2>4. OK(l, d)
    BY <2>1, <2>2 DEF Inv
  <2>5. /\ f.moments = d.moments /\ f.met = d.met /\ d.touched \subseteq f.touched
        /\ l.pc \in {"sweep", "recount", "commit"} => a \in f.touched
    BY <1>5, <1>7, <1>9, <2>1, <2>2, <2>3
  <2>6. Known(l)' /\ Granted(l, f)' /\ Met(l, f)'
    BY <1>1, <2>4, <2>5 DEF OK, Known, Granted, Met, Holders, Existing
  <2>7. Inserted(l, f)' /\ Keeps(l)' /\ Trims(l)'
    BY <1>1, <1>9, <2>4, <2>5 DEF OK, Inserted, Keeps, Trims
  <2>8. Passed(l)'
    <3>1. l.contact = c /\ l.pc \in {"recount", "commit"}
            => <<l.contact, "member">> \in history'.strays
      BY <1>3, <1>9, <2>1 DEF Swept, Of
    <3>2. l.pc \in {"recount", "commit"} => l.contact \in Contact
      BY <2>4 DEF OK, Known, Deleting
    <3>3. QED
      BY <1>1, <1>9, <1>16, <2>4, <3>1, <3>2 DEF OK, Passed
  <2>9. Counts(l, f)'
    BY <1>13, <2>4, <2>5 DEF OK, Counts
  <2>10. OK(l, f)'
    BY <2>6, <2>7, <2>8, <2>9 DEF OK
  <2>11. QED
    BY <1>1, <2>1, <2>3, <2>10
<1>19. QED
  BY <1>12, <1>14, <1>15, <1>17, <1>18 DEF Inv

LEMMA QuietStep ==
    ASSUME Inv, Tick \/ UNCHANGED vars
    PROVE  Inv'
<1>1. UNCHANGED <<contact, token, private, member, cnt, rights, born, req, history, Stored>>
  BY DEF Tick, tables, vars, Stored
<1>2. now' \in 0..MaxTime
  BY BoundsAssumption DEF Tick, vars, Inv, TypeOK
<1>3. TypeOK'
  BY <1>1, <1>2 DEF Inv, TypeOK
<1>4. /\ IsFiniteSet(Stored)' /\ TokensBounded' /\ CountsHonest' /\ NoRows' /\ Unborn' /\ Apart'
  BY <1>1 DEF Inv, TokensBounded, TokensOf, CountsHonest, NoRows, Unborn, Apart
<1>5. ASSUME NEW q \in Request
      PROVE  OK(req[q], history.of[q])'
  <2>1. PICK l \in Local : l = req[q]
    BY DEF Inv, TypeOK
  <2>2. PICK d \in Entry : d = history.of[q]
    BY DEF Inv, TypeOK, Histories
  <2>3. OK(l, d)
    BY <2>1, <2>2 DEF Inv
  <2>4. Known(l)' /\ Granted(l, d)' /\ Inserted(l, d)' /\ Keeps(l)' /\ Trims(l)'
    BY <1>1, <2>3 DEF OK, Known, Granted, Inserted, Keeps, Trims
  <2>5. Met(l, d)' /\ Passed(l)' /\ Counts(l, d)'
    BY <1>1, <2>3 DEF OK, Met, Holders, Existing, Passed, Counts
  <2>6. OK(l, d)'
    BY <2>4, <2>5 DEF OK
  <2>7. QED
    BY <1>1, <2>1, <2>2, <2>6
<1>6. QED
  BY <1>3, <1>4, <1>5 DEF Inv

-----------------------------------------------------------------------------
(* The invariant, and what it says about the system.                       *)

LEMMA InvInit == Init => Inv
<1> SUFFICES ASSUME Init
             PROVE  Inv
  OBVIOUS
<1>1. /\ born \in {0, 1} \cap 0..MaxContact /\ private = 1..born
      /\ member = (1..born) \X Category /\ cnt = [g \in Category |-> born]
      /\ rights = {AddUsers} \cup Group /\ now = 0
      /\ req = [r \in Request |-> Idle] /\ history = NoHistory
  BY DEF Init
<1>2. 1..born \subseteq Contact
  BY <1>1, BoundsAssumption DEF Contact
<1>3. PICK row \in ContactRows : contact = [c \in Contact |-> IF c <= born THEN row ELSE None]
  <2>1. PICK row \in {[status |-> s, addresses |-> {a}] : s \in Statuses, a \in Address} :
            contact = [c \in Contact |-> IF c <= born THEN row ELSE None]
    BY DEF Init
  <2>2. PICK s \in Statuses, a \in Address : row = [status |-> s, addresses |-> {a}]
    BY <2>1
  <2>3. row \in ContactRows
    BY <2>2 DEF ContactRows
  <2>4. QED
    BY <2>1, <2>3
<1>4. \A c \in Contact : contact[c] # None <=> c \in 1..born
  BY <1>1, <1>3, BoundsAssumption, NoneAssumption DEF Contact
<1>5. PICK first : first = CHOOSE k \in Token : TRUE
  OBVIOUS
<1>6. PICK old \in SUBSET {first} :
          token = [k \in Token |->
                     IF k \in old /\ born = 1
                     THEN [contact |-> 1, type |-> "user_invite", created |-> 0, groups |-> {}]
                     ELSE None]
  BY <1>5 DEF Init
<1>7. /\ token \in [Token -> TokenRows \cup {None}] /\ Stored \subseteq {first}
      /\ \A k \in Stored : token[k].contact \in 1..born
  <2>1. CASE born = 1
    <3>1. 1 \in Contact /\ 0 \in 0..MaxTime
      BY <1>2, <2>1, BoundsAssumption
    <3>2. PICK link \in TokenRows :
              link = [contact |-> 1, type |-> "user_invite", created |-> 0, groups |-> {}]
      BY <3>1 DEF TokenRows, Types
    <3>3. token = [k \in Token |-> IF k \in old THEN link ELSE None] /\ link.contact = 1
      BY <1>6, <2>1, <3>2
    <3>4. QED
      BY <2>1, <3>3 DEF Stored
  <2>2. CASE born # 1
    BY <1>6, <2>2 DEF Stored
  <2>3. QED
    BY <2>1, <2>2
<1>8. PICK i \in Local : i = Idle
  BY IdleIs
<1>9. PICK e \in Entry : e = Calm
  BY IdleIs
<1>10. /\ history \in Histories /\ history.of = [r \in Request |-> e]
      /\ history.strays = {} /\ history.off = {}
  BY <1>1, <1>9 DEF NoHistory, Histories
<1>11. TypeOK
  <2>1. contact \in [Contact -> ContactRows \cup {None}]
    BY <1>3
  <2>2. private \subseteq Contact /\ member \subseteq Pairs /\ cnt \in [Category -> Nat]
    BY <1>1, <1>2 DEF Pairs
  <2>3. now \in 0..MaxTime /\ born \in 0..MaxContact
    BY <1>1, BoundsAssumption
  <2>4. QED
    BY <1>1, <1>7, <1>8, <1>10, <2>1, <2>2, <2>3 DEF TypeOK, Rights
<1>12. IsFiniteSet(Stored) /\ TokensBounded
  <2>1. IsFiniteSet({first}) /\ Cardinality({first}) = 1
    BY FS_Singleton
  <2>2. ASSUME NEW S \in SUBSET Stored
        PROVE  IsFiniteSet(S) /\ Cardinality(S) <= TokenLimit
    <3>1. IsFiniteSet(S) /\ Cardinality(S) <= 1 /\ Cardinality(S) \in Nat
      BY <1>7, <2>1, FS_Subset, FS_CardinalityType
    <3>2. QED
      BY <3>1, LimitAssumption
  <2>3. \A c, type : TokensOf(c, type) \ history.untrimmed \subseteq Stored
    BY DEF TokensOf
  <2>4. QED
    BY <2>2, <2>3 DEF TokensBounded
<1>13. CountsHonest
  <2>1. ASSUME NEW g \in Category
        PROVE  cnt[g] = Cardinality(MembersOf(g, member))
    <3>1. CASE born = 0
      <4>1. MembersOf(g, member) = {}
        BY <1>1, <3>1 DEF MembersOf
      <4>2. QED
        BY <1>1, <3>1, <4>1, FS_EmptySet
    <3>2. CASE born = 1
      <4>1. 1..born = {1}
        BY <3>2
      <4>2. MembersOf(g, member) = {<<1, g>>}
        BY <1>1, <4>1 DEF MembersOf
      <4>3. QED
        BY <1>1, <3>2, <4>2, FS_Singleton
    <3>3. QED
      BY <1>1, <3>1, <3>2
  <2>2. QED
    BY <2>1 DEF CountsHonest
<1>14. NoRows /\ Unborn
  BY <1>1, <1>4, <1>7 DEF NoRows, Unborn
<1>15. Apart
  BY <1>1, IdleIs DEF Apart
<1>16. QED
  BY <1>1, <1>8, <1>9, <1>10, <1>11, <1>12, <1>13, <1>14, <1>15, IdleOK DEF Inv

LEMMA InvNext == Inv /\ [Next]_vars => Inv'
<1> SUFFICES ASSUME Inv, [Next]_vars
             PROVE  Inv'
  OBVIOUS
<1>1. ASSUME NEW r \in Request, Fail(r)
      PROVE  Inv'
  BY <1>1, FinishStep DEF Fail, outside
<1>2. ASSUME NEW r \in Request,
             \/ Invite(r) \/ Authorize(r) \/ Hook(r) \/ Find(r) \/ Create(r) \/ Save(r)
             \/ Insert(r) \/ Select(r) \/ Trim(r) \/ Deliver(r) \/ Accept(r) \/ Refuse(r)
             \/ Discard(r)
      PROVE  Inv'
  BY <1>2, InviteStep, AuthorizeStep, ControlStep, FindStep, CreateStep, SaveStep, InsertStep,
     SelectStep, TrimStep, DiscardStep
<1>3. ASSUME NEW r \in Request,
             Delete(r) \/ Announce(r) \/ Begin(r) \/ Sweep(r) \/ Recount(r) \/ Commit(r)
      PROVE  Inv'
  BY <1>3, DeleteStep, AnnounceStep, BeginStep, SweepStep, RecountStep, CommitStep
<1>4. QED
  BY <1>1, <1>2, <1>3, ChangeRightsStep, RedeemStep, GrantPrivateStep, JoinStep, QuietStep
     DEF Next

LEMMA Invariance == Spec => []Inv
BY InvInit, InvNext, PTL DEF Spec

(* An invitation gives away only groups that its inviter could manage at a *)
(* moment of the request at which he could also invite: _actor_snapshot    *)
(* reads both in one transaction, and the token carries what it found.     *)
THEOREM GroupsAreTheInviters == Spec => []GroupsWithinRights
<1>1. Inv => GroupsWithinRights
  BY DEF Inv, OK, Inserted, GroupsWithinRights
<1>2. QED
  BY <1>1, Invariance, PTL

(* _trim_tokens_committed leaves a contact no more tokens of a type than   *)
(* _TOKEN_LIMIT, whatever other invitations insert and trim meanwhile; the *)
(* ones above it wait for a trim of their own.                             *)
THEOREM TokensStayBounded == Spec => []TokensBounded
<1>1. Inv => TokensBounded
  BY DEF Inv
<1>2. QED
  BY <1>1, Invariance, PTL

(* The token an invitation is about to hand over is in the table unless    *)
(* another removed it or enough others are not older.                      *)
THEOREM TokensArriveAlive == Spec => []HandedOverLives
<1>1. Inv => HandedOverLives
  BY DEF Inv, OK, Keeps, Holding, HandedOverLives
<1>2. QED
  BY <1>1, Invariance, PTL

(* A deletion leaves no row of its contact behind but what came when it    *)
(* had passed the table, or what a handler failed to drop.                 *)
THEOREM DeletionIsThorough == Spec => []NothingOutlivesItsContact
<1>1. Inv => NothingOutlivesItsContact
  <2> SUFFICES ASSUME Inv, NEW c \in (1..born) \ Existing
               PROVE  /\ (\E k \in Stored : token[k].contact = c) => <<c, "token">> \in history.strays
                      /\ (\E g \in Category : <<c, g>> \in member) => <<c, "member">> \in history.strays
                      /\ c \in private => <<c, "private">> \in history.strays
    BY DEF NothingOutlivesItsContact
  <2>1. c \in Contact /\ contact[c] = None
    BY BoundsAssumption DEF Inv, TypeOK, Contact, Existing
  <2>2. QED
    BY <2>1 DEF Inv, NoRows
<1>2. QED
  BY <1>1, Invariance, PTL

(* The number of a category is that of its members, unless its last        *)
(* deletion emptied it or overlapped with another change of it.            *)
THEOREM CountsAreHonest == Spec => []CountsHonest
<1>1. Inv => CountsHonest
  BY DEF Inv
<1>2. QED
  BY <1>1, Invariance, PTL

(* A link invitation never creates a second contact for an address that    *)
(* one has had since before the invitation began.                          *)
THEOREM FoundBeforeCreated == Spec => NoSecondContact
<1>1. Inv => \A r \in Request : Create(r) /\ req[r].kind # "code" =>
                 history.of[r].met \cap Holders(req[r].address) = {}
  BY DEF Inv, OK, Met, Create
<1>2. Inv /\ [Next]_vars =>
        [\A r \in Request : Create(r) /\ req[r].kind # "code" =>
             history.of[r].met \cap Holders(req[r].address) = {}]_vars
  BY <1>1
<1>3. QED
  BY <1>2, Invariance, PTL DEF Spec, NoSecondContact
=============================================================================
