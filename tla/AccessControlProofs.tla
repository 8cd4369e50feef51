------------------------ MODULE AccessControlProofs ------------------------
(***************************************************************************)
(* Proofs about AccessControl, for every number of requests, contacts,     *)
(* groups, applications and rights, whatever the requests ask for and      *)
(* whatever the tables hold at the start.                                  *)
(***************************************************************************)
EXTENDS AccessControl, FiniteSetTheorems, SequenceTheorems, TLAPS

-----------------------------------------------------------------------------
(* How a right is evaluated.                                               *)

(* A name without a row for the subject is worth nothing. *)
LEMMA NothingIsZero ==
    ASSUME NEW d, NEW c, NEW a, NEW n,
           \A t \in Targets(d, c) : d[RightRow(t, a, n)] = None
    PROVE  Highest(d, c, a, n) = 0
BY DEF Highest

LEMMA NamesTold ==
    ASSUME NEW d, NEW c, NEW a, NEW n \in Name \ {Backend}
    PROVE  LET names == NamedRights(d, c, a)
           IN  /\ n \in DOMAIN names => names[n] = EffectiveRight(d, c, a, n).value
               /\ n \notin DOMAIN names => Highest(d, c, a, n) = 0
BY NothingIsZero DEF NamedRights

(* For any tables: a single right and the snapshot are read off the same   *)
(* rows.                                                                   *)
LEMMA ToldAsEvaluated ==
    ASSUME NEW d, NEW c \in Contact, NEW a \in App, NEW n \in Name \ {Backend}
    PROVE  LET told == RightsSnapshot(d, c, a)
               Told(m) == IF m \in DOMAIN told.names THEN told.names[m] ELSE 0
               right == EffectiveRight(d, c, a, n)
           IN  /\ right.unlimited = told.unlimited
               /\ ~right.unlimited =>
                     \/ right.value = Told(n)
                     \/ /\ Fallback[n] # None
                        /\ right.value = Told(Fallback[n])
<1> DEFINE all == \/ a # Global /\ GlobalValue(d, c) > 0
                  \/ AppValue(d, c, a) >= 2
           told == RightsSnapshot(d, c, a)
           Told(m) == IF m \in DOMAIN told.names THEN told.names[m] ELSE 0
           right == EffectiveRight(d, c, a, n)
<1>1. CASE all
  BY <1>1 DEF EffectiveRight, RightsSnapshot, Unlimited
<1>2. CASE ~all
  <2>1. told.unlimited = FALSE /\ told.names = NamedRights(d, c, a)
    BY <1>2 DEF RightsSnapshot
  <2>2. \A m \in Name : EffectiveRight(d, c, a, m) =
                            IF AppValue(d, c, a) <= 0 THEN Finite(0)
                            ELSE IF Highest(d, c, a, m) # 0 \/ Fallback[m] = None
                                 THEN Finite(Highest(d, c, a, m))
                                 ELSE Finite(Highest(d, c, a, Fallback[m]))
    BY <1>2 DEF EffectiveRight
  <2>3. right.unlimited = FALSE
    BY <2>2 DEF Finite
  <2>4. \A m \in Name \ {Backend} :
           /\ m \in DOMAIN told.names => Told(m) = EffectiveRight(d, c, a, m).value
           /\ m \notin DOMAIN told.names => Told(m) = 0 /\ Highest(d, c, a, m) = 0
    BY <2>1, NamesTold
  <2> HIDE DEF Told
  <2>5. CASE n \in DOMAIN told.names
    BY <2>1, <2>3, <2>4, <2>5 DEF Told
  <2>6. CASE n \notin DOMAIN told.names
    <3>1. Told(n) = 0 /\ Highest(d, c, a, n) = 0
      BY <2>4, <2>6
    <3>2. CASE right.value = 0
      BY <2>1, <2>3, <3>1, <3>2 DEF Told
    <3>3. CASE right.value # 0
      <4> DEFINE m == Fallback[n]
      <4>1. /\ ~(AppValue(d, c, a) <= 0) /\ m # None
            /\ right.value = Highest(d, c, a, m)
        BY <2>2, <3>1, <3>3 DEF Finite
      <4>2. m \in Name \ {Backend}
        BY <4>1, NamesAssumption
      <4>3. Told(m) = Highest(d, c, a, m)
        BY <2>2, <2>4, <3>3, <4>1, <4>2 DEF Finite
      <4>4. QED
        BY <2>1, <2>3, <4>1, <4>3 DEF Told
    <3>4. QED
      BY <3>2, <3>3
  <2>7. QED
    BY <2>5, <2>6
<1>3. QED
  BY <1>1, <1>2

(* The rights snapshot an application is given and the single questions    *)
(* about rights never differ, fallbacks and the control application        *)
(* included.  It rests on the fallback of a name never being the access    *)
(* level itself, which prefix.all cannot be.                               *)
THEOREM SnapshotAgreesWithRights == Spec => []SnapshotTellsRights
<1>1. SnapshotTellsRights
  BY ToldAsEvaluated DEF SnapshotTellsRights
<1>2. QED
  BY <1>1, PTL

-----------------------------------------------------------------------------
(* What raises the access of a subject.                                    *)

LEMMA MaxOfFinite ==
    ASSUME NEW S \in SUBSET Int, IsFiniteSet(S), S # {}
    PROVE  Max(S) \in S /\ \A x \in S : x <= Max(S)
<1> DEFINE Above(x) == {y \in S : y > x}
           aboves == {Above(x) : x \in S}
           order == StrictSubsetOrdering(S)
<1>1. IsWellFoundedOn(order, FiniteSubsetsOf(S))
  BY FS_StrictSubsetOrderingWellFounded
<1>2. aboves \subseteq FiniteSubsetsOf(S) /\ aboves # {}
  <2>1. \A x \in S : Above(x) \in SUBSET S
    OBVIOUS
  <2> HIDE DEF Above
  <2>2. FiniteSubsetsOf(S) = SUBSET S
    BY FS_FiniteSubsetsOfFinite
  <2>3. PICK x \in S : TRUE
    OBVIOUS
  <2>4. Above(x) \in aboves
    OBVIOUS
  <2>5. QED
    BY <2>1, <2>2, <2>4
<1>3. \E U \in aboves : \A V \in aboves : <<V, U>> \notin order
  BY <1>1, <1>2, WFMin
<1>4. PICK x \in S : \A y \in S : <<Above(y), Above(x)>> \notin order
  BY <1>3
<1>5. \A y \in S : y <= x
  <2> SUFFICES ASSUME NEW y \in S, y > x
               PROVE  FALSE
    OBVIOUS
  <2>1. Above(y) \subseteq Above(x)
    <3>1. x \in Int /\ y \in Int /\ \A z \in S : z \in Int
      OBVIOUS
    <3>2. ASSUME NEW z \in S, z > y
          PROVE  z > x
      BY <3>1, <3>2
    <3>3. QED
      BY <3>2
  <2>2. y \in Above(x) /\ y \notin Above(y)
    OBVIOUS
  <2>3. Above(x) \in SUBSET S /\ Above(y) \in SUBSET S
    OBVIOUS
  <2> HIDE DEF Above
  <2>4. <<Above(y), Above(x)>> \in order
    BY <2>1, <2>2, <2>3 DEF StrictSubsetOrdering
  <2>5. QED
    BY <1>4, <2>4
<1>6. QED
  BY <1>5 DEF Max

Directory == [Row -> Int \cup {None}]

LEMMA HighestIsOne ==
    ASSUME NEW d \in Directory, NEW c \in Contact, NEW a \in App, NEW n \in Name
    PROVE  /\ Highest(d, c, a, n) \in Int
           /\ \/ Highest(d, c, a, n) = 0
              \/ \E t \in Targets(d, c) : d[RightRow(t, a, n)] = Highest(d, c, a, n)
           /\ \A t \in Targets(d, c) : d[RightRow(t, a, n)] # None =>
                 d[RightRow(t, a, n)] <= Highest(d, c, a, n)
<1> DEFINE values == {d[RightRow(t, a, n)] : t \in Targets(d, c)} \ {None}
<1>1. Targets(d, c) \subseteq Target
  BY DEF Targets, GroupsOf, Target
<1>2. \A t \in Target : d[RightRow(t, a, n)] \in Int \cup {None}
  BY DEF Directory, Row, RightRows
<1>3. values \in SUBSET Int
  BY <1>1, <1>2
<1>4. IsFiniteSet(values)
  <2>1. IsFiniteSet(Targets(d, c))
    <3>1. GroupsOf(d, c) \in SUBSET Group
      BY DEF GroupsOf
    <3>2. IsFiniteSet(GroupsOf(d, c)) /\ IsFiniteSet({c, Guests})
      <4>1. IsFiniteSet({c})
        BY FS_EmptySet, FS_AddElement
      <4>2. IsFiniteSet({c} \cup {Guests})
        BY <4>1, FS_AddElement
      <4>3. {c} \cup {Guests} = {c, Guests}
        OBVIOUS
      <4>4. QED
        BY <3>1, <4>2, <4>3, FinitenessAssumption, FS_Subset
    <3>3. QED
      BY <3>2, FS_Union DEF Targets
  <2> DEFINE read == {d[RightRow(t, a, n)] : t \in Targets(d, c)}
             f == [t \in Targets(d, c) |-> d[RightRow(t, a, n)]]
  <2>2. f \in Surjection(Targets(d, c), read)
    BY DEF Surjection
  <2> HIDE DEF f
  <2>3. IsFiniteSet(read)
    BY <2>1, <2>2, FS_Surjection
  <2>4. QED
    BY <2>3, FS_Subset
<1>5. CASE values = {}
  BY <1>5 DEF Highest
<1>6. CASE values # {}
  <2>1. Highest(d, c, a, n) = Max(values)
    BY <1>6 DEF Highest
  <2>2. Max(values) \in values /\ \A x \in values : x <= Max(values)
    BY <1>3, <1>4, <1>6, MaxOfFinite
  <2>3. QED
    BY <1>3, <2>1, <2>2
<1>7. QED
  BY <1>5, <1>6

LEMMA LevelIs ==
    ASSUME NEW d, NEW c, NEW a
    PROVE  Level(d, c, a) = IF GlobalValue(d, c) > 0 THEN 3
                            ELSE IF a = Global THEN 0
                            ELSE IF AppValue(d, c, a) >= 2 THEN 2
                            ELSE IF AppValue(d, c, a) = 1 THEN 1
                            ELSE 0
<1> DEFINE levels == <<"none", "limited", "full", "global">>
           access == AppAccess(d, c, a)
<1>1. /\ levels[0 + 1] = "none" /\ levels[1 + 1] = "limited"
      /\ levels[2 + 1] = "full" /\ levels[3 + 1] = "global"
  OBVIOUS
<1> HIDE DEF levels
<1>2. \A i \in 0..3 : i = 0 \/ i = 1 \/ i = 2 \/ i = 3
  OBVIOUS
<1>3. /\ access = "none" => (CHOOSE i \in 0..3 : access = levels[i + 1]) = 0
      /\ access = "limited" => (CHOOSE i \in 0..3 : access = levels[i + 1]) = 1
      /\ access = "full" => (CHOOSE i \in 0..3 : access = levels[i + 1]) = 2
      /\ access = "global" => (CHOOSE i \in 0..3 : access = levels[i + 1]) = 3
  BY <1>1, <1>2
<1>4. Level(d, c, a) = CHOOSE i \in 0..3 : access = levels[i + 1]
  BY DEF Level, levels
<1>5. QED
  BY <1>3, <1>4 DEF AppAccess

(* A right that raises the access in a: it was not there, or not for c.    *)
Raises(d, e, c, a, t) ==
    /\ t \in Targets(e, c)
    /\ e[RightRow(t, a, Backend)] # None
    /\ t \notin Targets(d, c) \/ e[RightRow(t, a, Backend)] # d[RightRow(t, a, Backend)]

LEMMA NotRaised ==
    ASSUME NEW d \in Directory, NEW e \in Directory, NEW c \in Contact, NEW a \in App,
           \A t : ~Raises(d, e, c, a, t)
    PROVE  \/ Highest(e, c, a, Backend) = 0
           \/ Highest(e, c, a, Backend) <= Highest(d, c, a, Backend)
<1>1. Backend \in Name
  BY NamesAssumption
<1>2. Highest(e, c, a, Backend) \in Int
  BY <1>1, HighestIsOne
<1>3. ASSUME NEW t \in Targets(e, c),
             e[RightRow(t, a, Backend)] = Highest(e, c, a, Backend)
      PROVE  Highest(e, c, a, Backend) <= Highest(d, c, a, Backend)
  <2>1. e[RightRow(t, a, Backend)] # None
    BY <1>2, <1>3, NoneAssumption
  <2>2. t \in Targets(d, c) /\ d[RightRow(t, a, Backend)] = e[RightRow(t, a, Backend)]
    BY <2>1 DEF Raises
  <2>3. d[RightRow(t, a, Backend)] <= Highest(d, c, a, Backend)
    BY <1>1, <2>1, <2>2, HighestIsOne
  <2>4. QED
    BY <1>3, <2>2, <2>3
<1>4. QED
  BY <1>1, <1>3, HighestIsOne

LEMMA LevelRaised ==
    ASSUME NEW d \in Directory, NEW e \in Directory, NEW c \in Contact, NEW a \in App,
           Level(e, c, a) > Level(d, c, a)
    PROVE  \E b \in App : \E t : Raises(d, e, c, b, t)
<1> SUFFICES ASSUME \A b \in App : \A t : ~Raises(d, e, c, b, t)
             PROVE  FALSE
  OBVIOUS
<1>1. Global \in App /\ Backend \in Name
  BY NamesAssumption
<1>2. /\ GlobalValue(d, c) \in Int /\ GlobalValue(e, c) \in Int
      /\ AppValue(d, c, a) \in Int /\ AppValue(e, c, a) \in Int
  BY <1>1, HighestIsOne DEF GlobalValue, AppValue
<1>3. GlobalValue(e, c) = 0 \/ GlobalValue(e, c) <= GlobalValue(d, c)
  BY <1>1, NotRaised DEF GlobalValue
<1>4. AppValue(e, c, a) = 0 \/ AppValue(e, c, a) <= AppValue(d, c, a)
  BY NotRaised DEF AppValue
<1>5. QED
  BY <1>2, <1>3, <1>4, LevelIs

-----------------------------------------------------------------------------
(* What the transactions write.                                            *)

(* A row that a command may come to hold. *)
MayWrite(c, row) ==
    \/ row \in GroupRows
    \/ /\ c.op \in {"add_member", "replace_members"}
       /\ \E m \in c.contacts, g \in Group : row = MemberRow(m, g)
    \/ \E n \in Name :
          /\ row = RightRow(c.target, c.app, n)
          /\ \/ n # Backend
             \/ c.op \in {"set_app_access", "set_global_access"} /\ c.value > 0
    \/ /\ c.op = "set_global_access" /\ c.value > 0
       /\ row = RightRow(c.target, Global, Backend)

Statement ==
    [do : {"delete", "insert", "upsert", "recount", "touch", "create"}, rows : SUBSET Row,
     value : Nat]

(* A statement of a command: one that writes a value has a row to write. *)
StatementsOf(c) ==
    {s \in Statement :
       /\ s.do \notin {"delete", "create"} => s.rows # {} /\ \A row \in s.rows : MayWrite(c, row)
       /\ s.do \in {"recount", "touch"} => s.rows \subseteq GroupRows}

TypeOK ==
    /\ db \in Directory
    /\ pc \in [Request -> {"idle", "open", "done"}]
    /\ cmd \in [Request -> Commands \cup {None}]
    /\ view \in [Request -> {<<>>} \cup Directory]
    /\ DOMAIN todo = Request /\ todo = [r \in Request |-> todo[r]]
    /\ DOMAIN written = Request /\ written = [r \in Request |-> written[r]]
    /\ \A r \in Request :
          /\ DOMAIN written[r] \subseteq Row
          /\ \A row \in DOMAIN written[r] : written[r][row] \in Int \cup {None}

(* An open transaction serves a command, has statements of it left, and has *)
(* read its actor to be an administrator; it writes nothing but what the   *)
(* command may write.                                                      *)
Serving ==
    \A r \in Request :
        /\ pc[r] = "idle" => DOMAIN written[r] = {}
        /\ pc[r] = "open" =>
              /\ cmd[r] \in Commands
              /\ todo[r] \in Seq(StatementsOf(cmd[r]))
              /\ cmd[r].op # "delete_contacts" => IsAdmin(view[r], cmd[r].actor)
              /\ \A row \in DOMAIN written[r] : written[r][row] # None => MayWrite(cmd[r], row)

Inv == TypeOK /\ Serving

(* The rows a set is taken in, one after the other. *)
LEMMA InSomeOrder ==
    ASSUME NEW S, IsFiniteSet(S)
    PROVE  \E n \in Nat : SetToSeq(S) \in [1..n -> S]
<1>1. Cardinality(S) \in Nat /\ ExistsBijection(1..Cardinality(S), S)
  BY FS_CardinalityType
<1>2. \E f \in [1..Cardinality(S) -> S] : IsInjective(f)
  BY <1>1 DEF ExistsBijection, Bijection, Injection
<1>3. SetToSeq(S) \in [1..Cardinality(S) -> S]
  BY <1>2 DEF SetToSeq
<1>4. QED
  BY <1>1, <1>3

LEMMA MembersFinite ==
    ASSUME NEW S \in SUBSET Contact, NEW g
    PROVE  IsFiniteSet({MemberRow(c, g) : c \in S})
<1> DEFINE rows == {MemberRow(c, g) : c \in S}
           f == [c \in S |-> MemberRow(c, g)]
<1>1. IsFiniteSet(S)
  BY FinitenessAssumption, FS_Subset
<1>2. f \in Surjection(S, rows)
  BY DEF Surjection
<1> HIDE DEF f
<1>3. QED
  BY <1>1, <1>2, FS_Surjection

LEMMA DeltaStates ==
    ASSUME NEW c, NEW d, NEW g \in Group, NEW wanted \in SUBSET Contact,
           wanted = {} \/ (c.op = "replace_members" /\ wanted = c.contacts)
    PROVE  Delta(d, g, wanted) \in Seq(StatementsOf(c))
<1> DEFINE gone == {MemberRow(m, g) : m \in MembersOf(d, g) \ wanted}
           new == {MemberRow(m, g) : m \in wanted \ MembersOf(d, g)}
           deletes == [i \in DOMAIN SetToSeq(gone) |-> Delete({SetToSeq(gone)[i]})]
           inserts == [i \in DOMAIN SetToSeq(new) |-> Insert(SetToSeq(new)[i])]
<1>1. Delta(d, g, wanted) = deletes \o inserts
  BY DEF Delta, Each
<1>2. gone \subseteq Row /\ new \subseteq Row
  BY DEF MembersOf, Row, MemberRows
<1>3. IsFiniteSet(gone) /\ IsFiniteSet(new)
  BY MembersFinite DEF MembersOf
<1>4. \A row \in gone : Delete({row}) \in StatementsOf(c)
  BY <1>2 DEF Delete, StatementsOf, Statement
<1>5. \A row \in new : MayWrite(c, row)
  BY DEF MayWrite
<1>6. \A row \in new : Insert(row) \in StatementsOf(c)
  BY <1>2, <1>5 DEF Insert, StatementsOf, Statement
<1> HIDE DEF gone, new
<1>7. deletes \in Seq(StatementsOf(c))
  <2>1. PICK n \in Nat : SetToSeq(gone) \in [1..n -> gone]
    BY <1>3, InSomeOrder
  <2>2. deletes \in [1..n -> StatementsOf(c)]
    BY <1>4, <2>1
  <2> HIDE DEF deletes
  <2>3. QED
    BY <2>2, SeqDef
<1>8. inserts \in Seq(StatementsOf(c))
  <2>1. PICK n \in Nat : SetToSeq(new) \in [1..n -> new]
    BY <1>3, InSomeOrder
  <2>2. inserts \in [1..n -> StatementsOf(c)]
    BY <1>6, <2>1
  <2> HIDE DEF inserts
  <2>3. QED
    BY <2>2, SeqDef
<1> HIDE DEF deletes, inserts
<1>9. QED
  BY <1>1, <1>7, <1>8, ConcatProperties

LEMMA SomeRows ==
    /\ \A g \in Group : GroupRow(g) \in Row /\ GroupRow(g) \in GroupRows
    /\ \A m \in Contact, g \in Group : MemberRow(m, g) \in Row
    /\ \A t \in Target, a \in App, n \in Name : RightRow(t, a, n) \in Row
BY DEF Row, GroupRows, MemberRows, RightRows

-----------------------------------------------------------------------------
(* The steps of a transaction.                                             *)

LEMMA OpenStep ==
    ASSUME Inv, NEW r \in Request, NEW c \in Commands, NEW statements, pc[r] = "idle",
           statements \in Seq(StatementsOf(c)),
           c.op # "delete_contacts" => IsAdmin(db, c.actor),
           Open(r, c, statements)
    PROVE  Inv'
<1>1. TypeOK'
  BY DEF Inv, TypeOK, Open
<1>2. /\ pc'[r] = "open" /\ cmd'[r] = c /\ view'[r] = db /\ todo'[r] = statements
      /\ written' = written
  BY DEF Inv, TypeOK, Open
<1>3. \A q \in Request \ {r} : /\ pc'[q] = pc[q] /\ cmd'[q] = cmd[q] /\ view'[q] = view[q]
                               /\ todo'[q] = todo[q]
  BY DEF Inv, TypeOK, Open
<1>4. DOMAIN written[r] = {}
  BY DEF Inv, Serving
<1>5. \A row \in DOMAIN written'[r] : written'[r][row] # None => MayWrite(cmd'[r], row)
  BY <1>2, <1>4
<1>6. Serving'
  BY <1>2, <1>3, <1>5 DEF Inv, Serving
<1>7. QED
  BY <1>1, <1>6 DEF Inv

LEMMA CloseStep ==
    ASSUME Inv, NEW r \in Request, Close(r), db' \in Directory
    PROVE  Inv'
<1>1. TypeOK'
  <2>1. /\ pc' \in [Request -> {"idle", "open", "done"}]
        /\ cmd' \in [Request -> Commands \cup {None}]
        /\ view' \in [Request -> {<<>>} \cup Directory]
        /\ DOMAIN todo' = Request /\ todo' = [q \in Request |-> todo'[q]]
    BY DEF Inv, TypeOK, Close
  <2>2. /\ DOMAIN written' = Request /\ written' = [q \in Request |-> written'[q]]
        /\ written'[r] = <<>>
        /\ \A q \in Request \ {r} : written'[q] = written[q]
    BY DEF Inv, TypeOK, Close
  <2>3. DOMAIN written'[r] = {}
    BY <2>2
  <2>4. QED
    BY <2>1, <2>2, <2>3 DEF Inv, TypeOK
<1>2. pc'[r] = "done"
  BY DEF Inv, TypeOK, Close
<1>3. \A q \in Request \ {r} : /\ pc'[q] = pc[q] /\ cmd'[q] = cmd[q] /\ view'[q] = view[q]
                               /\ todo'[q] = todo[q] /\ written'[q] = written[q]
  BY DEF Inv, TypeOK, Close
<1>4. Serving'
  BY <1>2, <1>3 DEF Inv, Serving
<1>5. QED
  BY <1>1, <1>4 DEF Inv

LEMMA WriteStep ==
    ASSUME Inv, NEW r \in Request, NEW writes, pc[r] = "open", todo[r] # <<>>,
           DOMAIN writes \subseteq Row,
           \A row \in DOMAIN writes :
              /\ writes[row] \in Int \cup {None}
              /\ writes[row] # None => MayWrite(cmd[r], row),
           written' = [written EXCEPT ![r] = Over(writes, @)],
           todo' = [todo EXCEPT ![r] = Tail(@)],
           UNCHANGED <<db, pc, cmd, view>>
    PROVE  Inv'
<1>1. /\ DOMAIN written'[r] = DOMAIN writes \cup DOMAIN written[r]
      /\ \A row \in DOMAIN writes : written'[r][row] = writes[row]
      /\ \A row \in DOMAIN written[r] \ DOMAIN writes : written'[r][row] = written[r][row]
  BY DEF Inv, TypeOK, Over
<1>2. \A q \in Request \ {r} : written'[q] = written[q] /\ todo'[q] = todo[q]
  BY DEF Inv, TypeOK
<1>3. TypeOK'
  <2>1. DOMAIN todo' = Request /\ todo' = [q \in Request |-> todo'[q]]
    BY DEF Inv, TypeOK
  <2>2. DOMAIN written' = Request /\ written' = [q \in Request |-> written'[q]]
    BY DEF Inv, TypeOK
  <2>3. \A q \in Request : /\ DOMAIN written'[q] \subseteq Row
                           /\ \A row \in DOMAIN written'[q] : written'[q][row] \in Int \cup {None}
    BY <1>1, <1>2 DEF Inv, TypeOK
  <2>4. QED
    BY <2>1, <2>2, <2>3 DEF Inv, TypeOK
<1>4. Serving'
  <2>1. todo[r] \in Seq(StatementsOf(cmd[r]))
    BY DEF Inv, Serving
  <2>2. todo'[r] \in Seq(StatementsOf(cmd[r]))
    BY <2>1, HeadTailProperties DEF Inv, TypeOK
  <2>3. \A row \in DOMAIN written'[r] : written'[r][row] # None => MayWrite(cmd[r], row)
    BY <1>1 DEF Inv, Serving
  <2>4. QED
    BY <1>2, <2>2, <2>3 DEF Inv, Serving
<1>5. QED
  BY <1>3, <1>4 DEF Inv

LEMMA AdministerStep ==
    ASSUME Inv, NEW r \in Request, NEW c \in Commands, pc[r] = "idle", NEW valid, NEW statements,
           valid /\ Authorized(c) => statements \in Seq(StatementsOf(c)),
           Administer(r, c, valid, statements)
    PROVE  Inv'
<1>1. CASE Authorized(c) /\ valid /\ Open(r, c, statements)
  <2>1. statements \in Seq(StatementsOf(c)) /\ IsAdmin(db, c.actor)
    BY <1>1 DEF Authorized
  <2>2. QED
    BY <1>1, <2>1, OpenStep
<1>2. CASE Refuse(r)
  <2>1. Close(r) /\ db' = db
    BY <1>2 DEF Refuse
  <2>2. QED
    BY <2>1, CloseStep DEF Inv, TypeOK
<1>3. QED
  BY <1>1, <1>2 DEF Administer

(* The statements a use case plans are statements of its command.          *)
LEMMA GroupStep ==
    ASSUME Inv, NEW r \in Request, NEW c \in Commands,
           \/ CreateGroup(r, c) \/ UpdateGroup(r, c) \/ DeleteGroup(r, c)
           \/ AddGroupMember(r, c) \/ RemoveGroupMember(r, c) \/ ReplaceGroupMembers(r, c)
    PROVE  Inv'
<1> USE SomeRows
<1> DEFINE S == StatementsOf(c)
<1>0. c \in Command /\ c.contacts \in SUBSET Contact
  BY CommandsAssumption DEF Command
<1>1. ASSUME c.group \in Group
      PROVE  /\ Touch(c.group) \in S /\ Recount(c.group) \in S
             /\ Delete(RightsOf({c.group})) \in S /\ Delete({GroupRow(c.group)}) \in S
  <2>1. MayWrite(c, GroupRow(c.group))
    BY <1>1 DEF MayWrite
  <2>2. RightsOf({c.group}) \subseteq Row
    BY <1>1 DEF RightsOf, Target
  <2>3. QED
    BY <1>1, <2>1, <2>2 DEF Touch, Recount, Delete, StatementsOf, Statement
<1>2. CASE CreateGroup(r, c)
  <2>1. Create \in S
    BY DEF Create, StatementsOf, Statement
  <2>2. <<Create>> \in Seq(S)
    BY <2>1
  <2>3. QED
    BY <1>2, <2>2, AdministerStep DEF CreateGroup, Asks
<1>3. CASE UpdateGroup(r, c)
  <2>1. c.group \in Group
    BY <1>3, CommandsAssumption DEF UpdateGroup, Asks
  <2>2. <<Touch(c.group)>> \in Seq(S)
    BY <1>1, <2>1
  <2>3. QED
    BY <1>3, <2>2, AdministerStep DEF UpdateGroup, Asks
<1>4. CASE DeleteGroup(r, c)
  <2>1. c.group \in Group
    BY <1>4, CommandsAssumption DEF DeleteGroup, Asks
  <2>2. Delta(db, c.group, {}) \in Seq(S)
    BY <2>1, DeltaStates
  <2>3. <<Delete(RightsOf({c.group})), Delete({GroupRow(c.group)})>> \in Seq(S)
    BY <1>1, <2>1
  <2> DEFINE statements == Delta(db, c.group, {})
                           \o <<Delete(RightsOf({c.group})), Delete({GroupRow(c.group)})>>
  <2>4. statements \in Seq(S)
    BY <2>2, <2>3, ConcatProperties
  <2>5. Administer(r, c, Exists(db, c.group), statements) /\ pc[r] = "idle"
    BY <1>4 DEF DeleteGroup, Asks
  <2> HIDE DEF statements
  <2>6. QED
    BY <2>4, <2>5, AdministerStep
<1>5. CASE AddGroupMember(r, c)
  <2>1. c.group \in Group /\ c.op = "add_member" /\ pc[r] = "idle"
    BY <1>5, CommandsAssumption DEF AddGroupMember, Asks
  <2>2. PICK m \in c.contacts :
            Administer(r, c,
                Exists(db, c.group) /\ IsUser(db, m) /\ db[MemberRow(m, c.group)] = None,
                <<Insert(MemberRow(m, c.group)), Recount(c.group)>>)
    BY <1>5 DEF AddGroupMember
  <2>3. MayWrite(c, MemberRow(m, c.group)) /\ MemberRow(m, c.group) \in Row
    BY <1>0, <2>1 DEF MayWrite
  <2>4. Insert(MemberRow(m, c.group)) \in S
    BY <2>3 DEF Insert, StatementsOf, Statement
  <2>5. <<Insert(MemberRow(m, c.group)), Recount(c.group)>> \in Seq(S)
    BY <1>1, <2>1, <2>4
  <2>6. QED
    BY <2>1, <2>2, <2>5, AdministerStep
<1>6. CASE RemoveGroupMember(r, c)
  <2>1. c.group \in Group /\ pc[r] = "idle"
    BY <1>6, CommandsAssumption DEF RemoveGroupMember, Asks
  <2>2. PICK m \in c.contacts :
            Administer(r, c, Exists(db, c.group) /\ db[MemberRow(m, c.group)] # None,
                <<Delete({MemberRow(m, c.group)}), Recount(c.group)>>)
    BY <1>6 DEF RemoveGroupMember
  <2>3. MemberRow(m, c.group) \in Row
    BY <1>0, <2>1
  <2>4. Delete({MemberRow(m, c.group)}) \in S
    BY <2>3 DEF Delete, StatementsOf, Statement
  <2>5. <<Delete({MemberRow(m, c.group)}), Recount(c.group)>> \in Seq(S)
    BY <1>1, <2>1, <2>4
  <2>6. QED
    BY <2>1, <2>2, <2>5, AdministerStep
<1>7. CASE ReplaceGroupMembers(r, c)
  <2>1. c.group \in Group /\ c.op = "replace_members" /\ pc[r] = "idle"
    BY <1>7, CommandsAssumption DEF ReplaceGroupMembers, Asks
  <2>2. Delta(db, c.group, c.contacts) \in Seq(S)
    BY <1>0, <2>1, DeltaStates
  <2> DEFINE statements == Append(Delta(db, c.group, c.contacts), Recount(c.group))
  <2>3. statements \in Seq(S)
    BY <1>1, <2>1, <2>2, AppendProperties
  <2>4. Administer(r, c, Exists(db, c.group) /\ \A m \in c.contacts : IsUser(db, m), statements)
    BY <1>7 DEF ReplaceGroupMembers
  <2> HIDE DEF statements
  <2>5. QED
    BY <2>1, <2>3, <2>4, AdministerStep
<1>8. QED
  BY <1>2, <1>3, <1>4, <1>5, <1>6, <1>7

LEMMA RightStep ==
    ASSUME Inv, NEW r \in Request, NEW c \in Commands,
           \/ AssignRight(r, c) \/ RevokeRight(r, c)
           \/ SetAppAccess(r, c) \/ SetGlobalAdminAccess(r, c)
    PROVE  Inv'
<1> USE SomeRows
<1> DEFINE S == StatementsOf(c)
<1>0. /\ c \in Command /\ c.app \in App /\ c.name \in Name /\ c.value \in Nat
      /\ c.target \in Target /\ pc[r] = "idle"
      /\ Global \in App /\ Backend \in Name
  BY CommandsAssumption, NamesAssumption
     DEF Command, AssignRight, RevokeRight, SetAppAccess, SetGlobalAdminAccess, Asks
<1>1. ASSUME NEW row \in Row, MayWrite(c, row), NEW v \in Nat
      PROVE  Upsert(row, v) \in S
  BY <1>1 DEF Upsert, StatementsOf, Statement
<1>2. ASSUME NEW rows \in SUBSET Row
      PROVE  Delete(rows) \in S
  BY <1>2 DEF Delete, StatementsOf, Statement
<1>3. CASE AssignRight(r, c)
  <2> DEFINE row == RightRow(c.target, c.app, c.name)
  <2>1. row \in Row
    BY <1>0
  <2>2. c.name # Backend => MayWrite(c, row)
    BY <1>0 DEF MayWrite
  <2> HIDE DEF row
  <2>3. c.name # Backend => <<Upsert(row, c.value)>> \in Seq(S)
    BY <1>0, <1>1, <2>1, <2>2
  <2>4. Administer(r, c, Valid(c.target) /\ c.name # Backend /\ c.value # 0,
                   <<Upsert(row, c.value)>>)
    BY <1>3 DEF AssignRight, row
  <2>5. QED
    BY <1>0, <2>3, <2>4, AdministerStep
<1>4. CASE RevokeRight(r, c)
  <2> DEFINE row == RightRow(c.target, c.app, c.name)
  <2>1. row \in Row
    BY <1>0
  <2> HIDE DEF row
  <2>2. <<Delete({row})>> \in Seq(S)
    BY <1>2, <2>1
  <2>3. Administer(r, c, Valid(c.target) /\ c.name # Backend /\ db[row] # None, <<Delete({row})>>)
    BY <1>4 DEF RevokeRight, row
  <2>4. QED
    BY <1>0, <2>2, <2>3, AdministerStep
<1>5. CASE SetAppAccess(r, c)
  <2> DEFINE clear == Delete(AppRightsOf(c.target, c.app))
             set == Upsert(RightRow(c.target, c.app, Backend), c.value)
             statements == IF c.value = 0 THEN <<clear>>
                           ELSE IF c.value = 1 THEN <<set>> ELSE <<clear, set>>
  <2>1. AppRightsOf(c.target, c.app) \subseteq Row
    BY <1>0 DEF AppRightsOf
  <2>2. clear \in S
    BY <1>2, <2>1
  <2>3. c.value > 0 => MayWrite(c, RightRow(c.target, c.app, Backend))
    BY <1>0, <1>5 DEF MayWrite, SetAppAccess, Asks
  <2>4. c.value > 0 => set \in S
    BY <1>0, <1>1, <2>3
  <2>5. Administer(r, c, Valid(c.target) /\ c.app # Global, statements)
    BY <1>5 DEF SetAppAccess
  <2> HIDE DEF clear, set
  <2>6. statements \in Seq(S)
    <3>1. CASE c.value = 0
      BY <2>2, <3>1
    <3>2. CASE c.value > 0
      BY <2>2, <2>4, <3>2
    <3>3. QED
      BY <1>0, <3>1, <3>2
  <2> HIDE DEF statements
  <2>7. QED
    BY <1>0, <2>5, <2>6, AdministerStep
<1>6. CASE SetGlobalAdminAccess(r, c)
  <2> DEFINE clear == Delete(RightsOf({c.target}))
             set == Upsert(RightRow(c.target, Global, Backend), 1)
             statements == IF c.value = 0 THEN <<clear>> ELSE <<clear, set>>
  <2>1. RightsOf({c.target}) \subseteq Row
    BY <1>0 DEF RightsOf
  <2>2. clear \in S
    BY <1>2, <2>1
  <2>3. c.value > 0 => MayWrite(c, RightRow(c.target, Global, Backend))
    BY <1>0, <1>6 DEF MayWrite, SetGlobalAdminAccess, Asks
  <2>4. c.value > 0 => set \in S
    BY <1>0, <1>1, <2>3
  <2>5. Administer(r, c, Valid(c.target), statements)
    BY <1>6 DEF SetGlobalAdminAccess
  <2> HIDE DEF clear, set
  <2>6. statements \in Seq(S)
    <3>1. CASE c.value = 0
      BY <2>2, <3>1
    <3>2. CASE c.value > 0
      BY <2>2, <2>4, <3>2
    <3>3. QED
      BY <1>0, <3>1, <3>2
  <2> HIDE DEF statements
  <2>7. QED
    BY <1>0, <2>5, <2>6, AdministerStep
<1>7. QED
  BY <1>3, <1>4, <1>5, <1>6

LEMMA DeletionStep ==
    ASSUME Inv, NEW r \in Request, NEW c \in Commands, DeleteContacts(r, c)
    PROVE  Inv'
<1> DEFINE rights == RightsOf(c.contacts)
           members == {MemberRow(m, g) : m \in c.contacts, g \in Group}
           contacts == {ContactRow(m) : m \in c.contacts}
<1>1. c.contacts \in SUBSET Contact
  BY CommandsAssumption DEF Command
<1>2. rights \subseteq Row /\ members \subseteq Row /\ contacts \subseteq Row
  BY <1>1 DEF RightsOf, Row, RightRows, MemberRows, ContactRows, Target
<1>3. ASSUME NEW rows \in SUBSET Row
      PROVE  Delete(rows) \in StatementsOf(c)
  BY <1>3 DEF Delete, StatementsOf, Statement
<1>4. <<Delete(rights), Delete(members), Delete(contacts)>> \in Seq(StatementsOf(c))
  <2> HIDE DEF rights, members, contacts
  <2>1. QED
    BY <1>2, <1>3
<1>5. /\ Open(r, c, <<Delete(rights), Delete(members), Delete(contacts)>>)
      /\ pc[r] = "idle" /\ c.op = "delete_contacts"
  BY DEF DeleteContacts, Asks
<1> HIDE DEF rights, members, contacts
<1>6. QED
  BY <1>4, <1>5, OpenStep

(* The statement a transaction faces, and the single row of it.            *)
LEMMA Facing ==
    ASSUME Inv, NEW r \in Request, pc[r] = "open", todo[r] # <<>>
    PROVE  /\ Head(todo[r]) \in StatementsOf(cmd[r])
           /\ Rows(r) \subseteq Row
           /\ Rows(r) # {} => TheRow(r) \in Rows(r)
<1>1. todo[r] \in Seq(StatementsOf(cmd[r]))
  BY DEF Inv, Serving
<1>2. Head(todo[r]) \in StatementsOf(cmd[r])
  BY <1>1, HeadTailProperties
<1>3. Rows(r) \subseteq Row
  BY <1>2 DEF Rows, StatementsOf, Statement
<1>4. Rows(r) # {} => TheRow(r) \in Rows(r)
  BY DEF TheRow
<1>5. QED
  BY <1>2, <1>3, <1>4

LEMMA SingleWritten ==
    \A row, v : /\ DOMAIN Single(row, v) = {row}
                /\ \A x \in DOMAIN Single(row, v) : x = row /\ Single(row, v)[x] = v
BY DEF Single

LEMMA LatestTyped ==
    ASSUME Inv, NEW r \in Request, NEW row \in Row
    PROVE  Latest(r)[row] \in Int \cup {None}
BY DEF Inv, TypeOK, Latest, Over, Directory

LEMMA AppliedTyped ==
    ASSUME Inv, NEW r \in Request
    PROVE  /\ Applied(r) \in Directory
           /\ \A row \in Row :
                Applied(r)[row] = IF row \in DOMAIN written[r] THEN written[r][row] ELSE db[row]
<1>1. DOMAIN written[r] \cup DOMAIN db = Row
  BY DEF Inv, TypeOK, Directory
<1>2. Applied(r) = [row \in Row |-> IF row \in DOMAIN written[r] THEN written[r][row] ELSE db[row]]
  BY <1>1 DEF Applied, Over
<1>3. \A row \in Row : (IF row \in DOMAIN written[r] THEN written[r][row] ELSE db[row])
                           \in Int \cup {None}
  BY DEF Inv, TypeOK, Directory
<1>4. QED
  BY <1>2, <1>3 DEF Directory

LEMMA FailStep ==
    ASSUME Inv, NEW r \in Request, Fail(r)
    PROVE  Inv'
<1>1. Close(r) /\ db' = db
  BY DEF Fail
<1>2. QED
  BY <1>1, CloseStep DEF Inv, TypeOK

(* A statement that writes one row, or none.                               *)
LEMMA OneRowStep ==
    ASSUME Inv, NEW r \in Request, pc[r] = "open", todo[r] # <<>>,
           NEW row \in Row, NEW v \in Int \cup {None}, MayWrite(cmd[r], row),
           Wrote(r, Single(row, v)) \/ Wrote(r, <<>>)
    PROVE  Inv'
<1>1. CASE Wrote(r, Single(row, v))
  <2> DEFINE writes == Single(row, v)
  <2>1. DOMAIN writes \subseteq Row /\ \A x \in DOMAIN writes : x = row /\ writes[x] = v
    BY SingleWritten
  <2>2. Wrote(r, writes)
    BY <1>1
  <2> HIDE DEF writes
  <2>3. \A x \in DOMAIN writes : /\ writes[x] \in Int \cup {None}
                                 /\ writes[x] # None => MayWrite(cmd[r], x)
    BY <2>1
  <2>4. QED
    BY <2>1, <2>2, <2>3, WriteStep DEF Wrote
<1>2. CASE Wrote(r, <<>>)
  <2>1. DOMAIN <<>> = {}
    OBVIOUS
  <2>2. QED
    BY <1>2, <2>1, WriteStep DEF Wrote
<1>3. QED
  BY <1>1, <1>2

LEMMA StatementStep ==
    ASSUME Inv, NEW r \in Request,
           \/ DeleteRows(r) \/ InsertRow(r) \/ UpsertRow(r)
           \/ RecountGroup(r) \/ TouchGroup(r)
    PROVE  Inv'
<1>1. pc[r] = "open" /\ todo[r] # <<>>
  BY DEF DeleteRows, InsertRow, UpsertRow, RecountGroup, TouchGroup, Faces
<1>2. /\ Head(todo[r]) \in StatementsOf(cmd[r])
      /\ Rows(r) \subseteq Row
      /\ Rows(r) # {} => TheRow(r) \in Rows(r)
  BY <1>1, Facing
<1>3. ASSUME Head(todo[r]).do \notin {"delete", "create"}
      PROVE  TheRow(r) \in Row /\ MayWrite(cmd[r], TheRow(r))
  BY <1>2, <1>3 DEF StatementsOf, Rows
<1>4. CASE DeleteRows(r)
  <2> DEFINE writes == [row \in {row \in Rows(r) : Latest(r)[row] # None} |-> None]
  <2>1. DOMAIN writes \subseteq Row /\ \A row \in DOMAIN writes : writes[row] = None
    BY <1>2
  <2>2. Wrote(r, writes)
    BY <1>4 DEF DeleteRows
  <2> HIDE DEF writes
  <2>3. QED
    BY <1>1, <2>1, <2>2, WriteStep DEF Wrote
<1>5. CASE InsertRow(r)
  <2>1. TheRow(r) \in Row /\ MayWrite(cmd[r], TheRow(r))
    BY <1>3, <1>5 DEF InsertRow, Faces
  <2>2. CASE Wrote(r, Single(TheRow(r), 1))
    BY <1>1, <2>1, <2>2, OneRowStep
  <2>3. CASE Fail(r)
    BY <2>3, FailStep
  <2>4. QED
    BY <1>5, <2>2, <2>3 DEF InsertRow
<1>6. CASE UpsertRow(r)
  <2> DEFINE v == Head(todo[r]).value
  <2>1. TheRow(r) \in Row /\ MayWrite(cmd[r], TheRow(r))
    BY <1>3, <1>6 DEF UpsertRow, Faces
  <2>2. v \in Int \cup {None}
    BY <1>2 DEF StatementsOf, Statement
  <2>3. \/ Wrote(r, Single(TheRow(r), v)) \/ Wrote(r, <<>>)
        \/ Fail(r)
    BY <1>6 DEF UpsertRow
  <2> HIDE DEF v
  <2>4. QED
    BY <1>1, <2>1, <2>2, <2>3, OneRowStep, FailStep
<1>7. CASE RecountGroup(r)
  <2> DEFINE v == Cardinality(UsersIn(Own(r), TheRow(r)[2]))
  <2>1. TheRow(r) \in Row /\ MayWrite(cmd[r], TheRow(r))
    BY <1>3, <1>7 DEF RecountGroup, Faces
  <2>2. UsersIn(Own(r), TheRow(r)[2]) \in SUBSET Contact
    BY DEF UsersIn, MembersOf
  <2>3. v \in Int
    BY <2>2, FinitenessAssumption, FS_Subset, FS_CardinalityType
  <2>4. Wrote(r, Single(TheRow(r), v)) \/ Wrote(r, <<>>)
    BY <1>7 DEF RecountGroup
  <2> HIDE DEF v
  <2>5. QED
    BY <1>1, <2>1, <2>3, <2>4, OneRowStep
<1>8. CASE TouchGroup(r)
  <2> DEFINE v == Latest(r)[TheRow(r)]
  <2>1. TheRow(r) \in Row /\ MayWrite(cmd[r], TheRow(r))
    BY <1>3, <1>8 DEF TouchGroup, Faces
  <2>2. v \in Int \cup {None}
    BY <2>1, LatestTyped
  <2>3. Wrote(r, Single(TheRow(r), v)) \/ Fail(r)
    BY <1>8 DEF TouchGroup
  <2> HIDE DEF v
  <2>4. QED
    BY <1>1, <2>1, <2>2, <2>3, OneRowStep, FailStep
<1>9. QED
  BY <1>4, <1>5, <1>6, <1>7, <1>8

LEMMA CreateStep ==
    ASSUME Inv, NEW r \in Request, CreateRow(r)
    PROVE  Inv'
<1>1. CASE Fail(r)
  BY <1>1, FailStep
<1>2. CASE ~Fail(r)
  <2>1. PICK g \in Group \ issued :
            /\ written' = [written EXCEPT ![r] = Over(Single(GroupRow(g), 0), @)]
            /\ todo' = [todo EXCEPT ![r] = Tail(@)]
            /\ UNCHANGED <<db, pc, cmd, view, overtaken>>
    BY <1>2 DEF CreateRow
  <2>2. pc[r] = "open" /\ todo[r] # <<>>
    BY DEF CreateRow, Faces
  <2>3. GroupRow(g) \in Row /\ MayWrite(cmd[r], GroupRow(g))
    BY SomeRows DEF MayWrite
  <2> DEFINE writes == Single(GroupRow(g), 0)
  <2>4. /\ DOMAIN writes \subseteq Row
        /\ \A x \in DOMAIN writes : x = GroupRow(g) /\ writes[x] = 0
    BY <2>3, SingleWritten
  <2>5. /\ written' = [written EXCEPT ![r] = Over(writes, @)]
        /\ todo' = [todo EXCEPT ![r] = Tail(@)]
        /\ UNCHANGED <<db, pc, cmd, view>>
    BY <2>1
  <2> HIDE DEF writes
  <2>6. \A x \in DOMAIN writes : /\ writes[x] \in Int \cup {None}
                                 /\ writes[x] # None => MayWrite(cmd[r], x)
    BY <2>3, <2>4
  <2>7. QED
    BY <2>2, <2>4, <2>5, <2>6, WriteStep
<1>3. QED
  BY <1>1, <1>2

LEMMA InvInit == Init => Inv
<1> SUFFICES ASSUME Init
             PROVE  Inv
  OBVIOUS
<1>1. db \in Directory
  BY DirectoriesAssumption DEF Init, Directory
<1>2. \A r \in Request : DOMAIN written[r] = {}
  BY DEF Init
<1>3. QED
  BY <1>1, <1>2 DEF Init, Inv, TypeOK, Serving

LEMMA InvNext == Inv /\ [Next]_vars => Inv'
<1> SUFFICES ASSUME Inv, [Next]_vars
             PROVE  Inv'
  OBVIOUS
<1>1. ASSUME NEW r \in Request, NEW c \in Commands, Ask(r, c)
      PROVE  Inv'
  BY <1>1, GroupStep, RightStep, DeletionStep DEF Ask
<1>2. ASSUME NEW r \in Request, Commit(r)
      PROVE  Inv'
  BY <1>2, CloseStep, AppliedTyped DEF Commit
<1>3. ASSUME NEW r \in Request, RollBack(r)
      PROVE  Inv'
  BY <1>3, FailStep DEF RollBack
<1>4. CASE UNCHANGED vars
  BY <1>4 DEF vars, Inv, TypeOK, Serving
<1>5. QED
  BY <1>1, <1>2, <1>3, <1>4, StatementStep, CreateStep DEF Next

-----------------------------------------------------------------------------
(* Who lets anybody in.                                                    *)

LEMMA OtherRows ==
    /\ \A m, g : MemberRow(m, g) \notin GroupRows
    /\ \A t, a, n : RightRow(t, a, n) \notin GroupRows
    /\ \A m, g, t, a, n : MemberRow(m, g) # RightRow(t, a, n)
    /\ \A m, g, p, h : MemberRow(m, g) = MemberRow(p, h) => m = p /\ g = h
    /\ \A t, a, n, u, b, o : RightRow(t, a, n) = RightRow(u, b, o) => t = u /\ a = b /\ n = o
BY DEF MemberRow, RightRow, GroupRows, GroupRow

LEMMA GrantingMembership ==
    ASSUME NEW c, NEW m, NEW g, MayWrite(c, MemberRow(m, g))
    PROVE  c.op \in {"add_member", "replace_members"} /\ m \in c.contacts
<1> HIDE DEF MemberRow, RightRow
<1>1. QED
  BY OtherRows DEF MayWrite

LEMMA GrantingRight ==
    ASSUME NEW c, NEW t, NEW a, MayWrite(c, RightRow(t, a, Backend))
    PROVE  /\ c.op \in {"set_app_access", "set_global_access"} /\ c.value > 0
           /\ c.target = t
BY OtherRows DEF MayWrite

LEMMA AskWritesNothing ==
    ASSUME NEW r \in Request, NEW c \in Commands, Ask(r, c)
    PROVE  db' = db
<1>1. ASSUME NEW valid, NEW statements, Administer(r, c, valid, statements)
      PROVE  db' = db
  BY <1>1 DEF Administer, Open, Refuse
<1>2. CASE DeleteContacts(r, c)
  BY <1>2 DEF DeleteContacts, Open
<1>3. CASE CreateGroup(r, c) \/ UpdateGroup(r, c) \/ DeleteGroup(r, c)
  BY <1>1, <1>3 DEF CreateGroup, UpdateGroup, DeleteGroup
<1>4. CASE AddGroupMember(r, c) \/ RemoveGroupMember(r, c) \/ ReplaceGroupMembers(r, c)
  BY <1>1, <1>4 DEF AddGroupMember, RemoveGroupMember, ReplaceGroupMembers
<1>5. CASE AssignRight(r, c) \/ RevokeRight(r, c)
  BY <1>1, <1>5 DEF AssignRight, RevokeRight
<1>6. CASE SetAppAccess(r, c) \/ SetGlobalAdminAccess(r, c)
  BY <1>1, <1>6 DEF SetAppAccess, SetGlobalAdminAccess
<1>7. QED
  BY <1>2, <1>3, <1>4, <1>5, <1>6 DEF Ask

LEMMA StatementWritesNothing ==
    ASSUME NEW r \in Request,
           \/ DeleteRows(r) \/ InsertRow(r) \/ UpsertRow(r) \/ RecountGroup(r)
           \/ TouchGroup(r) \/ CreateRow(r) \/ RollBack(r)
    PROVE  db' = db
BY DEF DeleteRows, InsertRow, UpsertRow, RecountGroup, TouchGroup, CreateRow, RollBack,
       Wrote, Fail

LEMMA OnlyGranted ==
    ASSUME Inv, NEW r \in Request, Commit(r), NEW c \in Contact, NEW a \in App,
           Level(db', c, a) > Level(db, c, a)
    PROVE  /\ Closes(r)
           /\ IsAdmin(view[r], cmd[r].actor)
           /\ \/ cmd[r].op \in {"add_member", "replace_members"} /\ c \in cmd[r].contacts
              \/ /\ cmd[r].op \in {"set_app_access", "set_global_access"}
                 /\ cmd[r].value > 0
                 /\ cmd[r].target \in Targets(db', c)
<1> DEFINE e == Applied(r)
<1>1. /\ db' = e /\ e \in Directory /\ db \in Directory
      /\ \A row \in Row : e[row] = IF row \in DOMAIN written[r] THEN written[r][row] ELSE db[row]
  BY AppliedTyped DEF Commit, Inv, TypeOK
<1>2. Closes(r)
  BY DEF Commit, Close, Closes, Inv, TypeOK
<1> HIDE DEF e
<1>3. PICK b, t : b \in App /\ Raises(db, e, c, b, t)
  BY <1>1, LevelRaised
<1>4. t \in Targets(e, c) /\ t \in Target
  BY <1>3 DEF Raises, Targets, GroupsOf, Target
<1>5. ASSUME NEW row \in Row, e[row] # None, e[row] # db[row]
      PROVE  MayWrite(cmd[r], row)
  BY <1>1, <1>5 DEF Commit, Inv, Serving
<1>6. Backend \in Name
  BY NamesAssumption
<1>7. \/ cmd[r].op \in {"add_member", "replace_members"} /\ c \in cmd[r].contacts
      \/ /\ cmd[r].op \in {"set_app_access", "set_global_access"}
         /\ cmd[r].value > 0
         /\ cmd[r].target = t
  <2>1. CASE e[RightRow(t, b, Backend)] # db[RightRow(t, b, Backend)]
    <3>1. RightRow(t, b, Backend) \in Row /\ e[RightRow(t, b, Backend)] # None
      BY <1>3, <1>4, <1>6, SomeRows DEF Raises
    <3>2. MayWrite(cmd[r], RightRow(t, b, Backend))
      BY <1>5, <2>1, <3>1
    <3>3. QED
      BY <3>2, GrantingRight
  <2>2. CASE t \notin Targets(db, c)
    <3>1. t \in Group /\ e[MemberRow(c, t)] # None /\ db[MemberRow(c, t)] = None
      BY <1>4, <2>2 DEF Targets, GroupsOf
    <3>2. MayWrite(cmd[r], MemberRow(c, t))
      BY <1>5, <3>1, SomeRows
    <3>3. QED
      BY <3>2, GrantingMembership
  <2>3. QED
    BY <1>3, <2>1, <2>2 DEF Raises
<1>8. IsAdmin(view[r], cmd[r].actor)
  BY <1>7 DEF Commit, Inv, Serving
<1>9. QED
  BY <1>1, <1>2, <1>4, <1>7, <1>8

(* Nobody gains access to an application but from the committed transaction *)
(* of somebody its snapshot has as an administrator, and that transaction  *)
(* gives the right, or puts the contact into a group that has it.          *)
THEOREM GainsAreGranted == Spec => AccessIsGranted
<1> DEFINE Granted ==
        \A c \in Contact, a \in App : Level(db', c, a) > Level(db, c, a) =>
           \E r \in Request :
               /\ Closes(r)
               /\ IsAdmin(view[r], cmd[r].actor)
               /\ \/ cmd[r].op \in {"add_member", "replace_members"} /\ c \in cmd[r].contacts
                  \/ /\ cmd[r].op \in {"set_app_access", "set_global_access"}
                     /\ cmd[r].value > 0
                     /\ cmd[r].target \in Targets(db', c)
<1>1. Inv /\ [Next]_vars => Granted
  <2> SUFFICES ASSUME Inv, [Next]_vars, NEW c \in Contact, NEW a \in App,
                      Level(db', c, a) > Level(db, c, a)
               PROVE  \E r \in Request : Commit(r)
    BY OnlyGranted DEF Granted
  <2>1. CASE db' = db
    <3>1. Level(db, c, a) > Level(db, c, a)
      BY <2>1
    <3>2. Level(db, c, a) \in Int
      BY LevelIs
    <3>3. QED
      BY <3>1, <3>2
  <2>2. CASE db' # db
    <3>1. PICK r \in Request :
              \/ \E q \in Commands : Ask(r, q)
              \/ DeleteRows(r) \/ InsertRow(r) \/ UpsertRow(r) \/ RecountGroup(r)
              \/ TouchGroup(r) \/ CreateRow(r) \/ Commit(r) \/ RollBack(r)
      BY <2>2 DEF Next, vars
    <3>2. Commit(r)
      BY <2>2, <3>1, AskWritesNothing, StatementWritesNothing
    <3>3. QED
      BY <3>2
  <2>3. QED
    BY <2>1, <2>2
<1>2. QED
  BY <1>1, InvInit, InvNext, PTL DEF Spec, AccessIsGranted
-----------------------------------------------------------------------------
(* What a transaction leaves behind.                                       *)

Deletions == {"delete_group", "delete_contacts"}
MemberOps == {"add_member", "remove_member", "replace_members"}
OnGroup == MemberOps \cup {"update_group", "delete_group"}
OnRights == {"assign_right", "revoke_right", "set_app_access", "set_global_access"}

(* The rows a command is about. *)
Scope(c, x) ==
    \/ x \in ContactRows /\ c.op = "delete_contacts" /\ x[2] \in c.contacts
    \/ x \in GroupRows /\ (c.op = "create_group" \/ (c.op \in OnGroup /\ x[2] = c.group))
    \/ /\ x \in MemberRows
       /\ \/ c.op \in MemberOps \cup {"delete_group"} /\ x[3] = c.group
          \/ c.op = "delete_contacts" /\ x[2] \in c.contacts
    \/ /\ x \in RightRows
       /\ \/ c.op \in OnRights /\ x[2] = c.target
          \/ c.op = "delete_group" /\ x[2] = c.group
          \/ c.op = "delete_contacts" /\ x[2] \in c.contacts

(* A membership or a right whose contact and group are there in d. *)
Owned(d, x) ==
    /\ x \in MemberRows \cup RightRows
    /\ ~Gone(d, x[2])
    /\ (x \in MemberRows => ~Gone(d, x[3]))

(* A statement fit for a command that has read v. *)
Sober(c, v, st) ==
    /\ \A x \in st.rows : Scope(c, x)
    /\ st.do = "delete" => \A x \in st.rows \cap GroupRows : c.op = "delete_group"
    /\ st.do \in {"insert", "upsert"} => c.op \notin Deletions /\ \A x \in st.rows : Owned(v, x)
    /\ st.do = "recount" => c.op \in MemberOps /\ st.rows = {GroupRow(c.group)}
    /\ st.do = "touch" => c.op = "update_group" /\ st.rows = {GroupRow(c.group)}
    /\ st.do = "create" => c.op = "create_group"

(* The statements left: of a command on members, the last one is the only   *)
(* recount.                                                                *)
Planned(c, v, s) ==
    /\ \A i \in DOMAIN s : Sober(c, v, s[i])
    /\ c.op \in MemberOps /\ s # <<>> =>
          /\ s[Len(s)] = Recount(c.group)
          /\ \A i \in DOMAIN s : i < Len(s) => s[i].do # "recount"

(* The rows written so far, uncommitted: values only where the snapshot has *)
(* an owner for them, and no count before the last statement.              *)
Drafted(c, v, s, w) ==
    \A x \in DOMAIN w :
        /\ Scope(c, x)
        /\ w[x] = None /\ x \in GroupRows => c.op = "delete_group"
        /\ w[x] # None =>
              /\ c.op \notin Deletions
              /\ x \in MemberRows \cup RightRows => Owned(v, x)
        /\ x \in GroupRows /\ c.op = "create_group" => w[x] = 0
        /\ x \in GroupRows /\ c.op \in MemberOps => s = <<>>

(* Of what a deletion is about each row is gone, or a statement left meets it. *)
Removed(c, v, s, w) ==
    c.op \in Deletions => \A x \in Row : Scope(c, x) =>
        \/ x \in DOMAIN w /\ w[x] = None
        \/ x \notin DOMAIN w /\ v[x] = None
        \/ \E i \in DOMAIN s : s[i].do = "delete" /\ x \in s[i].rows

(* The count written is that of the rows the transaction sees.             *)
Counted(c, v, s, w) ==
    /\ c.op = "update_group" => \A x \in DOMAIN w : w[x] = v[x]
    /\ c.op \in MemberOps /\ s = <<>> =>
          /\ GroupRow(c.group) \in DOMAIN w
          /\ w[GroupRow(c.group)] = Cardinality(UsersIn(Over(w, v), c.group))

(* The group a command is about was there.                                 *)
Named(c, v) == c.op \in OnGroup => v[GroupRow(c.group)] # None

Sound(c, v, s, w) == Named(c, v) /\ Planned(c, v, s) /\ Drafted(c, v, s, w)

(* The snapshot v still tells what d holds of the rows that bear on c.     *)
Agrees(c, v, d) == \A x \in Footprint(c) : d[x] = v[x]

(* A request that holds a new group, not yet committed. *)
Made(r, g) == pc[r] = "open" /\ cmd[r].op = "create_group" /\ GroupRow(g) \in DOMAIN written[r]

(* Every identifier of a group in use was handed out, and one that a request *)
(* has created and not committed is known to nobody else.                  *)
Fresh ==
    /\ \A g \in Group : Exists(db, g) \/ MembersOf(db, g) # {} => g \in issued
    /\ \A r \in Request, g \in Group : pc[r] = "open" /\ Exists(view[r], g) => g \in issued
    /\ \A r \in Request, g \in Group : Made(r, g) =>
          /\ g \in issued
          /\ ~Exists(db, g) /\ MembersOf(db, g) = {}
          /\ \A o \in Request : /\ pc[o] = "open" => ~Exists(view[o], g)
                                /\ Made(o, g) => o = r

(* Every open transaction keeps to its command; while nobody has overtaken  *)
(* it, its snapshot is true of the tables and its work complete so far.    *)
Careful ==
    \A r \in Request : pc[r] = "open" =>
        /\ view[r] \in Directory
        /\ Sound(cmd[r], view[r], todo[r], written[r])
        /\ ~overtaken[r] =>
              /\ Agrees(cmd[r], view[r], db)
              /\ Removed(cmd[r], view[r], todo[r], written[r])
              /\ Counted(cmd[r], view[r], todo[r], written[r])

LEMMA RowParts ==
    /\ \A m \in Contact :
          /\ ContactRow(m) \in ContactRows /\ ContactRow(m)[2] = m
          /\ ContactRow(m) \notin GroupRows \cup MemberRows \cup RightRows
    /\ \A g \in Group :
          /\ GroupRow(g) \in GroupRows /\ GroupRow(g)[2] = g
          /\ GroupRow(g) \notin ContactRows \cup MemberRows \cup RightRows
    /\ \A m \in Contact, g \in Group :
          /\ MemberRow(m, g) \in MemberRows /\ MemberRow(m, g)[2] = m /\ MemberRow(m, g)[3] = g
          /\ MemberRow(m, g) \notin ContactRows \cup GroupRows \cup RightRows
    /\ \A t \in Target, a \in App, n \in Name :
          /\ RightRow(t, a, n) \in RightRows /\ RightRow(t, a, n)[2] = t
          /\ RightRow(t, a, n) \notin ContactRows \cup GroupRows \cup MemberRows
<1>1. ASSUME NEW m \in Contact
      PROVE  /\ ContactRow(m) \in ContactRows /\ ContactRow(m)[2] = m
             /\ ContactRow(m) \notin GroupRows \cup MemberRows \cup RightRows
  BY DEF ContactRows, GroupRows, MemberRows, RightRows, ContactRow, GroupRow, MemberRow, RightRow
<1>2. ASSUME NEW g \in Group
      PROVE  /\ GroupRow(g) \in GroupRows /\ GroupRow(g)[2] = g
             /\ GroupRow(g) \notin ContactRows \cup MemberRows \cup RightRows
  BY DEF ContactRows, GroupRows, MemberRows, RightRows, ContactRow, GroupRow, MemberRow, RightRow
<1>3. ASSUME NEW m \in Contact, NEW g \in Group
      PROVE  /\ MemberRow(m, g) \in MemberRows
             /\ MemberRow(m, g)[2] = m /\ MemberRow(m, g)[3] = g
             /\ MemberRow(m, g) \notin ContactRows \cup GroupRows \cup RightRows
  BY DEF ContactRows, GroupRows, MemberRows, RightRows, ContactRow, GroupRow, MemberRow, RightRow
<1>4. ASSUME NEW t \in Target, NEW a \in App, NEW n \in Name
      PROVE  /\ RightRow(t, a, n) \in RightRows /\ RightRow(t, a, n)[2] = t
             /\ RightRow(t, a, n) \notin ContactRows \cup GroupRows \cup MemberRows
  BY DEF ContactRows, GroupRows, MemberRows, RightRows, ContactRow, GroupRow, MemberRow, RightRow
<1>5. QED
  BY <1>1, <1>2, <1>3, <1>4

LEMMA RowKinds ==
    /\ \A x \in ContactRows : x[2] \in Contact /\ x = ContactRow(x[2])
    /\ \A x \in GroupRows : x[2] \in Group /\ x = GroupRow(x[2])
    /\ \A x \in MemberRows : x[2] \in Contact /\ x[3] \in Group /\ x = MemberRow(x[2], x[3])
    /\ \A x \in RightRows : x[2] \in Target /\ \E a \in App, n \in Name : x = RightRow(x[2], a, n)
    /\ Row = ContactRows \cup GroupRows \cup MemberRows \cup RightRows
    /\ \A x \in Row :
          /\ x \in ContactRows => x \notin GroupRows \cup MemberRows \cup RightRows
          /\ x \in GroupRows => x \notin MemberRows \cup RightRows
          /\ x \in MemberRows => x \notin RightRows
<1>1. \A x \in ContactRows : x[2] \in Contact /\ x = ContactRow(x[2])
  BY RowParts DEF ContactRows
<1>2. \A x \in GroupRows : x[2] \in Group /\ x = GroupRow(x[2])
  BY RowParts DEF GroupRows
<1>3. \A x \in MemberRows : x[2] \in Contact /\ x[3] \in Group /\ x = MemberRow(x[2], x[3])
  <2> SUFFICES ASSUME NEW x \in MemberRows
               PROVE  x[2] \in Contact /\ x[3] \in Group /\ x = MemberRow(x[2], x[3])
    OBVIOUS
  <2>1. PICK m \in Contact, g \in Group : x = MemberRow(m, g)
    BY DEF MemberRows
  <2>2. QED
    BY <2>1, RowParts
<1>4. \A x \in RightRows : x[2] \in Target /\ \E a \in App, n \in Name : x = RightRow(x[2], a, n)
  <2> SUFFICES ASSUME NEW x \in RightRows
               PROVE  x[2] \in Target /\ \E a \in App, n \in Name : x = RightRow(x[2], a, n)
    OBVIOUS
  <2>1. PICK t \in Target, a \in App, n \in Name : x = RightRow(t, a, n)
    BY DEF RightRows
  <2>2. QED
    BY <2>1, RowParts
<1>5. QED
  BY <1>1, <1>2, <1>3, <1>4, RowParts DEF Row

(* What a command is about bears on it, and so do the subjects it names.   *)
LEMMA InFootprint ==
    ASSUME NEW c
    PROVE  /\ Footprint(c) \subseteq Row
           /\ ContactRows \subseteq Footprint(c)
           /\ c.group \in Group => GroupRow(c.group) \in Footprint(c)
           /\ c.target \in Group => GroupRow(c.target) \in Footprint(c)
           /\ \A x \in MemberRows : x[3] = c.group => x \in Footprint(c)
           /\ \A x \in Row : Scope(c, x) /\ c.op # "create_group" => x \in Footprint(c)
<1> DEFINE subjects == c.contacts \cup {c.group, c.target}
<1>1. Footprint(c) = ContactRows \cup {row \in Row \ ContactRows : row[2] \in subjects}
                     \cup {row \in MemberRows : row[3] \in subjects}
  BY DEF Footprint
<1>2. Footprint(c) \subseteq Row /\ ContactRows \subseteq Footprint(c)
  BY <1>1, RowKinds
<1>3. /\ c.group \in Group => GroupRow(c.group) \in Footprint(c)
      /\ c.target \in Group => GroupRow(c.target) \in Footprint(c)
  BY <1>1, RowParts, RowKinds
<1>4. \A x \in MemberRows : x[3] = c.group => x \in Footprint(c)
  BY <1>1
<1>5. ASSUME NEW x \in Row, Scope(c, x), c.op # "create_group"
      PROVE  x \in Footprint(c)
  BY <1>1, <1>5, RowKinds DEF Scope
<1>6. QED
  BY <1>2, <1>3, <1>4, <1>5

(* A command names its group, or its target, if it is about one.           *)
LEMMA NamedSubjects ==
    ASSUME NEW c \in Commands
    PROVE  /\ c.op \in OnGroup => c.group \in Group
           /\ c.op \in OnRights => c.target \in Target
           /\ c.contacts \in SUBSET Contact
BY CommandsAssumption DEF OnGroup, OnRights, MemberOps, Command

(* Whoever owns a row that a command may write has not gone unnoticed.     *)
LEMMA GoneAlike ==
    ASSUME NEW c \in Commands, NEW d, NEW v, Agrees(c, v, d), c.op \notin Deletions,
           NEW x \in MemberRows \cup RightRows, Scope(c, x)
    PROVE  /\ Gone(d, x[2]) => Gone(v, x[2])
           /\ x \in MemberRows /\ Gone(d, x[3]) => Gone(v, x[3])
<1>1. \A m \in Contact : d[ContactRow(m)] = v[ContactRow(m)]
  BY InFootprint, RowParts DEF Agrees
<1>2. \A g \in Group : g = c.group \/ g = c.target => d[GroupRow(g)] = v[GroupRow(g)]
  BY InFootprint DEF Agrees
<1>3. CASE x \in MemberRows
  <2>1. x[2] \in Contact /\ x[3] \in Group /\ x[3] = c.group
    BY <1>3, RowKinds DEF Scope, Deletions
  <2>2. x[2] \notin Group /\ x[3] \notin Contact
    BY <2>1, TargetsAssumption
  <2>3. QED
    BY <1>1, <1>2, <2>1, <2>2 DEF Gone, Exists
<1>4. CASE x \in RightRows
  <2>1. x[2] = c.target /\ x \notin MemberRows
    BY <1>4, RowKinds DEF Scope, Deletions
  <2>2. QED
    BY <1>1, <1>2, <2>1 DEF Gone, Exists
<1>5. QED
  BY <1>3, <1>4

-----------------------------------------------------------------------------
(* What a commit makes of the tables.                                      *)

LEMMA OrphansKept ==
    ASSUME NEW c \in Commands, NEW d, NEW v, NEW w, NEW e,
           DOMAIN w \subseteq Row,
           \A x \in Row : e[x] = IF x \in DOMAIN w THEN w[x] ELSE d[x],
           Sound(c, v, <<>>, w), Agrees(c, v, d), Removed(c, v, <<>>, w)
    PROVE  Orphans(e) \subseteq Orphans(d)
<1> SUFFICES ASSUME NEW x \in MemberRows \cup RightRows, e[x] # None,
                    Gone(e, x[2]) \/ (x \in MemberRows /\ Gone(e, x[3]))
             PROVE  /\ d[x] # None
                    /\ Gone(d, x[2]) \/ (x \in MemberRows /\ Gone(d, x[3]))
  BY DEF Orphans
<1>1. x \in Row
  BY RowKinds
<1>2. \A y \in DOMAIN w : Scope(c, y) /\ (w[y] = None /\ y \in GroupRows => c.op = "delete_group")
  BY DEF Sound, Drafted
<1>3. CASE c.op \in Deletions
  <2>1. x \notin DOMAIN w
    BY <1>1, <1>3 DEF Sound, Drafted
  <2>2. d[x] = e[x]
    BY <1>1, <2>1
  <2>3. ~Scope(c, x)
    <3> SUFFICES ASSUME Scope(c, x)
                 PROVE  FALSE
      OBVIOUS
    <3>1. DOMAIN <<>> = 1..0 /\ 1..0 = {}
      OBVIOUS
    <3>2. v[x] = None
      BY <1>1, <1>3, <2>1, <3>1 DEF Removed
    <3>3. d[x] = v[x]
      BY <1>1, <1>3, InFootprint DEF Agrees, Deletions
    <3>4. QED
      BY <2>2, <3>2, <3>3
  <2>4. ASSUME NEW t, t = x[2] \/ (x \in MemberRows /\ t = x[3]), Gone(e, t)
        PROVE  Gone(d, t)
    <3>1. CASE t \in Contact /\ e[ContactRow(t)] = None
      <4>1. x \in MemberRows => t = x[2]
        BY <2>4, <3>1, RowKinds, TargetsAssumption
      <4>2. ContactRow(t) \notin DOMAIN w
        BY <1>2, <2>3, <2>4, <3>1, <4>1, RowParts DEF Scope
      <4>3. QED
        BY <3>1, <4>2, RowParts, RowKinds DEF Gone
    <3>2. CASE t \in Group /\ ~Exists(e, t)
      <4>1. x \in MemberRows => t = x[3]
        BY <2>4, <3>2, RowKinds, TargetsAssumption
      <4>2. GroupRow(t) \notin DOMAIN w
        BY <1>2, <1>3, <2>3, <2>4, <3>2, <4>1, RowParts DEF Scope, Deletions, OnGroup, MemberOps
      <4>3. QED
        BY <3>2, <4>2, RowParts, RowKinds DEF Gone, Exists
    <3>3. QED
      BY <2>4, <3>1, <3>2 DEF Gone
  <2>5. QED
    BY <2>2, <2>4
<1>4. CASE c.op \notin Deletions
  <2>1. ASSUME NEW t, Gone(e, t)
        PROVE  Gone(d, t)
    <3>1. CASE t \in Contact /\ e[ContactRow(t)] = None
      <4>1. ContactRow(t) \notin DOMAIN w
        BY <1>2, <1>4, <3>1, RowParts DEF Scope, Deletions
      <4>2. QED
        BY <3>1, <4>1, RowParts, RowKinds DEF Gone
    <3>2. CASE t \in Group /\ ~Exists(e, t)
      <4>1. GroupRow(t) \in DOMAIN w => w[GroupRow(t)] # None
        BY <1>2, <1>4, <3>2, RowParts DEF Deletions
      <4>2. QED
        BY <3>2, <4>1, RowParts, RowKinds DEF Gone, Exists
    <3>3. QED
      BY <2>1, <3>1, <3>2 DEF Gone
  <2>2. CASE x \notin DOMAIN w
    BY <1>1, <2>1, <2>2
  <2>3. CASE x \in DOMAIN w
    <3>1. Scope(c, x) /\ Owned(v, x)
      BY <1>1, <2>3 DEF Sound, Drafted
    <3>2. QED
      BY <1>4, <2>1, <3>1, GoneAlike DEF Owned
  <2>4. QED
    BY <2>2, <2>3
<1>5. QED
  BY <1>3, <1>4

(* The users of a group are read from its memberships and the contacts.    *)
LEMMA SameUsers ==
    ASSUME NEW d, NEW e, NEW g \in Group,
           \A x \in ContactRows : d[x] = e[x],
           \A x \in MemberRows : x[3] = g => d[x] = e[x]
    PROVE  UsersIn(d, g) = UsersIn(e, g)
<1>1. \A m \in Contact : IsUser(d, m) <=> IsUser(e, m)
  BY RowParts DEF IsUser
<1>2. MembersOf(d, g) = MembersOf(e, g)
  BY RowParts DEF MembersOf
<1>3. MembersOf(d, g) \subseteq Contact
  BY DEF MembersOf
<1>4. QED
  BY <1>1, <1>2, <1>3 DEF UsersIn

LEMMA CountsKept ==
    ASSUME NEW c \in Commands, NEW d \in Directory, NEW v \in Directory, NEW w, NEW e,
           DOMAIN w \subseteq Row,
           \A x \in Row : e[x] = IF x \in DOMAIN w THEN w[x] ELSE d[x],
           Sound(c, v, <<>>, w), Agrees(c, v, d), Removed(c, v, <<>>, w), Counted(c, v, <<>>, w),
           c.op = "create_group" =>
               \A g \in Group : GroupRow(g) \in DOMAIN w => MembersOf(d, g) = {},
           c.op # "delete_contacts"
    PROVE  Miscounted(e) \subseteq Miscounted(d)
<1> SUFFICES ASSUME NEW g \in Group, Exists(e, g), e[GroupRow(g)] # Cardinality(UsersIn(e, g))
             PROVE  Exists(d, g) /\ d[GroupRow(g)] # Cardinality(UsersIn(d, g))
  BY DEF Miscounted
<1>1. \A y \in DOMAIN w : Scope(c, y)
  BY DEF Sound, Drafted
<1>2. \A x \in ContactRows : x \notin DOMAIN w /\ e[x] = d[x]
  BY <1>1, RowKinds DEF Scope
<1>3. GroupRow(g) \in Row
  BY SomeRows
<1>4. ASSUME \A x \in MemberRows : x[3] = g => x \notin DOMAIN w
      PROVE  UsersIn(e, g) = UsersIn(d, g)
  <2>1. \A x \in MemberRows : x[3] = g => e[x] = d[x]
    BY <1>4, RowKinds
  <2>2. QED
    BY <1>2, <2>1, SameUsers
<1>5. CASE ~(c.op \in OnGroup /\ c.group = g)
  <2>1. \A x \in MemberRows : x[3] = g => x \notin DOMAIN w
    BY <1>1, <1>5, RowKinds DEF Scope, OnGroup
  <2>2. CASE GroupRow(g) \notin DOMAIN w
    BY <1>3, <1>4, <2>1, <2>2 DEF Exists
  <2>3. CASE GroupRow(g) \in DOMAIN w
    <3>1. c.op = "create_group"
      BY <1>1, <1>5, <2>3, RowParts DEF Scope
    <3>2. e[GroupRow(g)] = 0
      BY <1>3, <2>3, <3>1, RowParts DEF Sound, Drafted
    <3>3. UsersIn(d, g) = {}
      BY <2>3, <3>1 DEF UsersIn
    <3>4. QED
      BY <1>4, <2>1, <3>2, <3>3, FS_EmptySet
  <2>4. QED
    BY <2>2, <2>3
<1>6. CASE c.op = "update_group" /\ c.group = g
  <2>1. \A x \in MemberRows : x[3] = g => x \notin DOMAIN w
    BY <1>1, <1>6, RowKinds DEF Scope, OnGroup, MemberOps
  <2>2. GroupRow(g) \in Footprint(c)
    BY <1>6, InFootprint
  <2>3. e[GroupRow(g)] = d[GroupRow(g)]
    BY <1>3, <1>6, <2>2 DEF Counted, Agrees
  <2>4. QED
    BY <1>4, <2>1, <2>3 DEF Exists
<1>7. CASE c.op = "delete_group" /\ c.group = g
  <2>1. Scope(c, GroupRow(g))
    BY <1>7, RowParts DEF Scope, OnGroup
  <2>2. DOMAIN <<>> = 1..0 /\ 1..0 = {}
    OBVIOUS
  <2>3. \/ GroupRow(g) \in DOMAIN w /\ w[GroupRow(g)] = None
        \/ GroupRow(g) \notin DOMAIN w /\ v[GroupRow(g)] = None
    BY <1>3, <1>7, <2>1, <2>2 DEF Removed, Deletions
  <2>4. d[GroupRow(g)] = v[GroupRow(g)]
    BY <1>7, InFootprint DEF Agrees
  <2>5. QED
    BY <1>3, <2>3, <2>4 DEF Exists
<1>8. CASE c.op \in MemberOps /\ c.group = g
  <2> DEFINE o == Over(w, v)
  <2>1. e[GroupRow(g)] = Cardinality(UsersIn(o, g))
    BY <1>3, <1>8 DEF Counted
  <2>2. \A x \in Row : o[x] = IF x \in DOMAIN w THEN w[x] ELSE v[x]
    BY DEF Over, Directory
  <2> HIDE DEF o
  <2>3. \A x \in ContactRows : o[x] = e[x]
    BY <2>2, InFootprint, RowKinds DEF Agrees
  <2>4. \A x \in MemberRows : x[3] = g => o[x] = e[x]
    BY <1>8, <2>2, InFootprint, RowKinds DEF Agrees
  <2>5. UsersIn(o, g) = UsersIn(e, g)
    BY <2>3, <2>4, SameUsers
  <2>6. QED
    BY <2>1, <2>5
<1>9. QED
  BY <1>5, <1>6, <1>7, <1>8 DEF OnGroup

-----------------------------------------------------------------------------
(* The statements a use case plans.                                        *)

LEMMA EachOnce ==
    ASSUME NEW S, IsFiniteSet(S)
    PROVE  \A x \in S : \E i \in DOMAIN SetToSeq(S) : SetToSeq(S)[i] = x
<1> DEFINE n == Cardinality(S)
<1>1. n \in Nat /\ ExistsBijection(1..n, S)
  BY FS_CardinalityType
<1>2. \E f \in [1..n -> S] : IsInjective(f)
  BY <1>1 DEF ExistsBijection, Bijection, Injection
<1>3. SetToSeq(S) \in Injection(1..n, S)
  BY <1>2 DEF SetToSeq, Injection
<1>4. Cardinality(1..n) = n
  BY <1>1, FS_Interval
<1>5. SetToSeq(S) \in Surjection(1..n, S)
  BY <1>3, <1>4, FS_Injection
<1>6. QED
  BY <1>5 DEF Surjection

(* The delta deletes each member not wanted and inserts each one missing.  *)
IsDelta(s, d, g, wanted) ==
    /\ \E n \in Nat : DOMAIN s = 1..n /\ Len(s) = n
    /\ \A i \in DOMAIN s :
          \/ \E m \in MembersOf(d, g) \ wanted : s[i] = Delete({MemberRow(m, g)})
          \/ \E m \in wanted \ MembersOf(d, g) : s[i] = Insert(MemberRow(m, g))
    /\ \A m \in MembersOf(d, g) \ wanted : \E i \in DOMAIN s : s[i] = Delete({MemberRow(m, g)})

LEMMA DeltaIs ==
    ASSUME NEW d, NEW g \in Group, NEW wanted \in SUBSET Contact
    PROVE  IsDelta(Delta(d, g, wanted), d, g, wanted)
<1> DEFINE gone == {MemberRow(m, g) : m \in MembersOf(d, g) \ wanted}
           new == {MemberRow(m, g) : m \in wanted \ MembersOf(d, g)}
           deletes == [i \in DOMAIN SetToSeq(gone) |-> Delete({SetToSeq(gone)[i]})]
           inserts == [i \in DOMAIN SetToSeq(new) |-> Insert(SetToSeq(new)[i])]
<1>1. Delta(d, g, wanted) = deletes \o inserts
  BY DEF Delta, Each
<1>2. IsFiniteSet(gone) /\ IsFiniteSet(new)
  BY MembersFinite DEF MembersOf
<1>3. \A x \in gone : \E m \in MembersOf(d, g) \ wanted : x = MemberRow(m, g)
  OBVIOUS
<1>4. \A x \in new : \E m \in wanted \ MembersOf(d, g) : x = MemberRow(m, g)
  OBVIOUS
<1>5. \A m \in MembersOf(d, g) \ wanted : MemberRow(m, g) \in gone
  OBVIOUS
<1> HIDE DEF gone, new
<1>6. PICK k \in Nat : SetToSeq(gone) \in [1..k -> gone]
  BY <1>2, InSomeOrder
<1>7. PICK l \in Nat : SetToSeq(new) \in [1..l -> new]
  BY <1>2, InSomeOrder
<1>8. \A x \in gone : \E i \in 1..k : SetToSeq(gone)[i] = x
  BY <1>2, <1>6, EachOnce
<1>9. /\ DOMAIN deletes = 1..k /\ \A i \in 1..k : deletes[i] = Delete({SetToSeq(gone)[i]})
      /\ DOMAIN inserts = 1..l /\ \A i \in 1..l : inserts[i] = Insert(SetToSeq(new)[i])
  BY <1>6, <1>7
<1>10. deletes = [i \in 1..k |-> deletes[i]] /\ inserts = [i \in 1..l |-> inserts[i]]
  BY <1>6, <1>7
<1> HIDE DEF deletes, inserts
<1>11. deletes \in Seq({deletes[i] : i \in 1..k}) /\ Len(deletes) = k
  BY <1>9, <1>10, SeqDef
<1>12. inserts \in Seq({inserts[i] : i \in 1..l}) /\ Len(inserts) = l
  BY <1>9, <1>10, SeqDef
<1> DEFINE D == deletes \o inserts
<1>13. /\ DOMAIN D = 1..(k + l) /\ Len(D) = k + l
       /\ \A i \in 1..k : D[i] = deletes[i]
       /\ \A i \in (k + 1)..(k + l) : D[i] = inserts[i - k]
  BY <1>11, <1>12
<1> HIDE DEF D
<1>14. \A i \in 1..(k + l) :
          \/ \E m \in MembersOf(d, g) \ wanted : D[i] = Delete({MemberRow(m, g)})
          \/ \E m \in wanted \ MembersOf(d, g) : D[i] = Insert(MemberRow(m, g))
  <2> SUFFICES ASSUME NEW i \in 1..(k + l)
               PROVE  \/ \E m \in MembersOf(d, g) \ wanted : D[i] = Delete({MemberRow(m, g)})
                      \/ \E m \in wanted \ MembersOf(d, g) : D[i] = Insert(MemberRow(m, g))
    OBVIOUS
  <2>1. CASE i \in 1..k
    <3>1. SetToSeq(gone)[i] \in gone /\ D[i] = Delete({SetToSeq(gone)[i]})
      BY <1>6, <1>9, <1>13, <2>1
    <3>2. QED
      BY <1>3, <3>1
  <2>2. CASE i \in (k + 1)..(k + l)
    <3>1. i - k \in 1..l
      BY <2>2
    <3>2. SetToSeq(new)[i - k] \in new /\ D[i] = Insert(SetToSeq(new)[i - k])
      BY <1>7, <1>9, <1>13, <2>2, <3>1
    <3>3. QED
      BY <1>4, <3>2
  <2>3. i \in 1..k \/ i \in (k + 1)..(k + l)
    BY <1>6, <1>7
  <2>4. QED
    BY <2>1, <2>2, <2>3
<1>15. \A m \in MembersOf(d, g) \ wanted : \E i \in 1..(k + l) : D[i] = Delete({MemberRow(m, g)})
  <2> SUFFICES ASSUME NEW m \in MembersOf(d, g) \ wanted
               PROVE  \E i \in 1..(k + l) : D[i] = Delete({MemberRow(m, g)})
    OBVIOUS
  <2>1. PICK i \in 1..k : SetToSeq(gone)[i] = MemberRow(m, g)
    BY <1>5, <1>8
  <2>2. i \in 1..(k + l) /\ D[i] = Delete({MemberRow(m, g)})
    BY <1>9, <1>13, <2>1
  <2>3. QED
    BY <2>2
<1>16. k + l \in Nat
  OBVIOUS
<1>17. Delta(d, g, wanted) = D
  BY <1>1 DEF D
<1>18. IsDelta(D, d, g, wanted)
  BY <1>13, <1>14, <1>15, <1>16 DEF IsDelta
<1>19. QED
  BY <1>17, <1>18

-----------------------------------------------------------------------------
(* How a plan is worked off.                                               *)

LEMMA PlanShrinks ==
    ASSUME NEW c, NEW v, NEW s, NEW S, s \in Seq(S), s # <<>>, Planned(c, v, s)
    PROVE  /\ Sober(c, v, Head(s))
           /\ Planned(c, v, Tail(s))
           /\ c.op \in MemberOps => (Tail(s) = <<>> <=> Head(s).do = "recount")
           /\ \A x : (\E i \in DOMAIN s : s[i].do = "delete" /\ x \in s[i].rows) =>
                 \/ Head(s).do = "delete" /\ x \in Head(s).rows
                 \/ \E i \in DOMAIN Tail(s) : Tail(s)[i].do = "delete" /\ x \in Tail(s)[i].rows
<1> DEFINE t == Tail(s)
<1>1. /\ Len(s) \in Nat /\ Len(s) >= 1 /\ DOMAIN s = 1..Len(s) /\ Head(s) = s[1]
      /\ Len(t) = Len(s) - 1 /\ DOMAIN t = 1..Len(t)
      /\ \A i \in 1..Len(t) : t[i] = s[i + 1]
      /\ t \in Seq(S)
  OBVIOUS
<1> HIDE DEF t
<1>2. t = <<>> <=> Len(t) = 0
  BY <1>1, EmptySeq
<1>3. Sober(c, v, Head(s))
  BY <1>1 DEF Planned
<1>4. \A i \in DOMAIN t : Sober(c, v, t[i])
  BY <1>1 DEF Planned
<1>5. ASSUME c.op \in MemberOps
      PROVE  /\ t # <<>> => /\ t[Len(t)] = Recount(c.group)
                            /\ \A i \in DOMAIN t : i < Len(t) => t[i].do # "recount"
             /\ t = <<>> <=> Head(s).do = "recount"
  <2>1. /\ s[Len(s)] = Recount(c.group)
        /\ \A i \in 1..Len(s) : i < Len(s) => s[i].do # "recount"
    BY <1>1, <1>5 DEF Planned
  <2>2. Recount(c.group).do = "recount"
    BY DEF Recount
  <2>3. t = <<>> <=> Head(s).do = "recount"
    BY <1>1, <1>2, <2>1, <2>2
  <2>4. ASSUME t # <<>>
        PROVE  /\ t[Len(t)] = Recount(c.group)
               /\ \A i \in DOMAIN t : i < Len(t) => t[i].do # "recount"
    BY <1>1, <1>2, <2>1, <2>4
  <2>5. QED
    BY <2>3, <2>4
<1>6. ASSUME NEW x, NEW i \in DOMAIN s, s[i].do = "delete", x \in s[i].rows
      PROVE  \/ Head(s).do = "delete" /\ x \in Head(s).rows
             \/ \E j \in DOMAIN t : t[j].do = "delete" /\ x \in t[j].rows
  <2>1. CASE i = 1
    BY <1>1, <1>6, <2>1
  <2>2. CASE i # 1
    <3>1. i - 1 \in DOMAIN t /\ t[i - 1] = s[i]
      BY <1>1, <2>2
    <3>2. QED
      BY <1>6, <3>1
  <2>3. QED
    BY <2>1, <2>2
<1>7. Planned(c, v, t)
  BY <1>4, <1>5 DEF Planned
<1>8. QED
  BY <1>3, <1>5, <1>6, <1>7 DEF t

LEMMA DraftGrows ==
    ASSUME NEW c, NEW v, NEW s, s # <<>>, NEW w, NEW writes, Drafted(c, v, s, w),
           Drafted(c, v, Tail(s), writes)
    PROVE  Drafted(c, v, Tail(s), Over(writes, w))
<1> DEFINE o == Over(writes, w)
<1>1. /\ DOMAIN o = DOMAIN writes \cup DOMAIN w
      /\ \A x \in DOMAIN writes : o[x] = writes[x]
      /\ \A x \in DOMAIN w : x \notin DOMAIN writes => o[x] = w[x]
  BY DEF Over
<1> HIDE DEF o
<1>2. Drafted(c, v, Tail(s), o)
  BY <1>1 DEF Drafted
<1>3. QED
  BY <1>2 DEF o

(* What a use case plans on the tables d it has read.                      *)
Fits(c, d, s) ==
    /\ Named(c, d)
    /\ Planned(c, d, s)
    /\ Removed(c, d, s, <<>>)
    /\ c.op \in MemberOps => s # <<>>

LEMMA NothingDrafted == DOMAIN <<>> = {}
OBVIOUS

LEMMA OneGroupFits ==
    ASSUME NEW c \in Commands, NEW d, NEW s, NEW one, DOMAIN s = {1}, s[1] = one,
           \/ c.op = "create_group" /\ one = Create
           \/ c.op = "update_group" /\ one = Touch(c.group) /\ Exists(d, c.group)
    PROVE  Fits(c, d, s)
<1>1. Sober(c, d, one)
  <2>1. CASE c.op = "create_group" /\ one = Create
    BY <2>1 DEF Sober, Create
  <2>2. CASE c.op = "update_group" /\ one = Touch(c.group)
    <3>1. c.group \in Group
      BY <2>2, NamedSubjects DEF OnGroup
    <3>2. Scope(c, GroupRow(c.group))
      BY <2>2, <3>1, RowParts DEF Scope, OnGroup
    <3>3. one.rows = {GroupRow(c.group)} /\ one.do = "touch"
      BY <2>2 DEF Touch
    <3>4. QED
      BY <2>2, <3>2, <3>3 DEF Sober
  <2>3. QED
    BY <2>1, <2>2
<1>2. c.op \notin MemberOps /\ c.op \notin Deletions
  BY DEF MemberOps, Deletions
<1>3. Named(c, d)
  BY DEF Named, Exists, OnGroup, MemberOps
<1>4. QED
  BY <1>1, <1>2, <1>3 DEF Fits, Planned, Removed

LEMMA GroupDeletionFits ==
    ASSUME NEW c \in Commands, NEW d, c.op = "delete_group", Exists(d, c.group)
    PROVE  Fits(c, d, Delta(d, c.group, {})
                      \o <<Delete(RightsOf({c.group})), Delete({GroupRow(c.group)})>>)
<1> DEFINE g == c.group
           D == Delta(d, g, {})
           rest == <<Delete(RightsOf({g})), Delete({GroupRow(g)})>>
           s == D \o rest
<1>1. g \in Group
  BY NamedSubjects DEF OnGroup
<1>2. D \in Seq(StatementsOf(c))
  BY <1>1, DeltaStates
<1>3. /\ \A i \in DOMAIN D : \E m \in MembersOf(d, g) : D[i] = Delete({MemberRow(m, g)})
      /\ \A m \in MembersOf(d, g) : \E i \in DOMAIN D : D[i] = Delete({MemberRow(m, g)})
  <2>1. IsDelta(D, d, g, {})
    BY <1>1, DeltaIs
  <2> HIDE DEF D
  <2>2. QED
    BY <2>1 DEF IsDelta
<1> HIDE DEF D
<1>4. /\ Len(D) \in Nat /\ DOMAIN D = 1..Len(D)
      /\ DOMAIN s = 1..(Len(D) + 2)
      /\ \A i \in 1..Len(D) : s[i] = D[i]
      /\ s[Len(D) + 1] = Delete(RightsOf({g})) /\ s[Len(D) + 2] = Delete({GroupRow(g)})
  BY <1>2
<1> HIDE DEF s, rest
<1>5. \A m \in Contact : Scope(c, MemberRow(m, g))
  BY <1>1, RowParts DEF Scope
<1>6. Scope(c, GroupRow(g))
  BY <1>1, RowParts DEF Scope, OnGroup
<1>7. \A x \in RightsOf({g}) : Scope(c, x)
  BY <1>1, RowParts DEF Scope, RightsOf, Target
<1>8. ASSUME NEW rows, \A x \in rows : Scope(c, x)
      PROVE  Sober(c, d, Delete(rows))
  BY <1>8 DEF Sober, Delete
<1>9. \A i \in DOMAIN s : Sober(c, d, s[i])
  <2> SUFFICES ASSUME NEW i \in DOMAIN s
               PROVE  Sober(c, d, s[i])
    OBVIOUS
  <2>1. CASE i \in 1..Len(D)
    <3>1. PICK m \in MembersOf(d, g) : s[i] = Delete({MemberRow(m, g)})
      BY <1>3, <1>4, <2>1
    <3>2. m \in Contact
      BY DEF MembersOf
    <3>3. QED
      BY <1>5, <1>8, <3>1, <3>2
  <2>2. CASE i = Len(D) + 1
    BY <1>4, <1>7, <1>8, <2>2
  <2>3. CASE i = Len(D) + 2
    BY <1>4, <1>6, <1>8, <2>3
  <2>4. QED
    BY <1>4, <2>1, <2>2, <2>3
<1>10. ASSUME NEW x \in Row, Scope(c, x), d[x] # None
       PROVE  \E i \in DOMAIN s : s[i].do = "delete" /\ x \in s[i].rows
  <2>1. CASE x \in MemberRows
    <3>1. x[2] \in Contact /\ x = MemberRow(x[2], g)
      BY <1>10, <2>1, RowKinds DEF Scope
    <3>2. x[2] \in MembersOf(d, g)
      BY <1>10, <3>1 DEF MembersOf
    <3>3. PICK i \in DOMAIN D : D[i] = Delete({x})
      BY <1>3, <3>1, <3>2
    <3>4. i \in DOMAIN s /\ s[i] = Delete({x})
      BY <1>4, <3>3
    <3>5. QED
      BY <3>4 DEF Delete
  <2>2. CASE x \in RightRows
    <3>1. x[2] = g
      BY <1>10, <2>2, RowKinds DEF Scope, OnRights
    <3>2. x \in RightsOf({g})
      BY <2>2, <3>1, RowKinds DEF RightsOf
    <3>3. Len(D) + 1 \in DOMAIN s
      BY <1>4
    <3>4. QED
      BY <1>4, <3>2, <3>3 DEF Delete
  <2>3. CASE x \in GroupRows
    <3>1. x = GroupRow(g)
      BY <1>10, <2>3, RowKinds DEF Scope
    <3>2. Len(D) + 2 \in DOMAIN s
      BY <1>4
    <3>3. QED
      BY <1>4, <3>1, <3>2 DEF Delete
  <2>4. x \notin ContactRows
    BY <1>10, RowKinds DEF Scope
  <2>5. QED
    BY <2>1, <2>2, <2>3, <2>4, RowKinds
<1>11. c.op \notin MemberOps
  BY DEF MemberOps
<1>12. Fits(c, d, s)
  BY <1>9, <1>10, <1>11, NothingDrafted DEF Fits, Planned, Removed, Named, Exists
<1>13. QED
  BY <1>12 DEF s, rest, D

(* A plan that ends with the only recount of it.                           *)
LEMMA MembersFit ==
    ASSUME NEW c \in Commands, NEW d, c.op \in MemberOps, Exists(d, c.group),
           NEW n \in Nat, NEW s, DOMAIN s = 1..n + 1, Len(s) = n + 1,
           s[n + 1] = Recount(c.group),
           \A i \in 1..n : \E m \in Contact :
               \/ s[i] = Delete({MemberRow(m, c.group)})
               \/ s[i] = Insert(MemberRow(m, c.group)) /\ IsUser(d, m)
    PROVE  Fits(c, d, s)
<1> DEFINE g == c.group
<1>1. g \in Group
  BY NamedSubjects DEF OnGroup
<1>2. c.op \notin Deletions
  BY DEF MemberOps, Deletions
<1>3. ASSUME NEW m \in Contact
      PROVE  /\ Scope(c, MemberRow(m, g)) /\ MemberRow(m, g) \notin GroupRows
             /\ IsUser(d, m) => Owned(d, MemberRow(m, g))
  <2>1. Scope(c, MemberRow(m, g)) /\ MemberRow(m, g) \notin GroupRows
    BY <1>1, RowParts DEF Scope
  <2>2. m \notin Group /\ g \notin Contact
    BY <1>1, TargetsAssumption
  <2>3. IsUser(d, m) => ~Gone(d, m)
    BY <2>2 DEF IsUser, Gone
  <2>4. ~Gone(d, g)
    BY <2>2 DEF Gone
  <2>5. QED
    BY <1>1, <2>1, <2>3, <2>4, RowParts DEF Owned
<1>4. \A m \in Contact :
         /\ Sober(c, d, Delete({MemberRow(m, g)}))
         /\ IsUser(d, m) => Sober(c, d, Insert(MemberRow(m, g)))
  BY <1>2, <1>3 DEF Sober, Delete, Insert
<1>5. Sober(c, d, Recount(g))
  <2>1. Scope(c, GroupRow(g))
    BY <1>1, RowParts DEF Scope, OnGroup
  <2>2. Recount(g).do = "recount" /\ Recount(g).rows = {GroupRow(g)}
    BY DEF Recount
  <2>3. QED
    BY <2>1, <2>2 DEF Sober
<1>6. \A i \in 1..n : Sober(c, d, s[i]) /\ s[i].do # "recount"
  <2> SUFFICES ASSUME NEW i \in 1..n
               PROVE  Sober(c, d, s[i]) /\ s[i].do # "recount"
    OBVIOUS
  <2>1. PICK m \in Contact : \/ s[i] = Delete({MemberRow(m, g)})
                             \/ s[i] = Insert(MemberRow(m, g)) /\ IsUser(d, m)
    OBVIOUS
  <2>2. Sober(c, d, s[i])
    BY <1>4, <2>1
  <2>3. s[i].do # "recount"
    BY <2>1 DEF Delete, Insert
  <2>4. QED
    BY <2>2, <2>3
<1>7. DOMAIN s = 1..(n + 1) /\ \A i \in 1..(n + 1) : i \in 1..n \/ i = n + 1
  OBVIOUS
<1>8. \A i \in DOMAIN s : Sober(c, d, s[i]) /\ (i < Len(s) => s[i].do # "recount")
  BY <1>5, <1>6, <1>7
<1>9. s # <<>>
  <2>1. n + 1 \in DOMAIN s
    OBVIOUS
  <2>2. QED
    BY <2>1, NothingDrafted
<1>10. Planned(c, d, s)
  BY <1>8 DEF Planned
<1>11. QED
  BY <1>2, <1>9, <1>10 DEF Fits, Named, Exists, Removed

(* A plan about the rights of one target that is there.                    *)
LEMMA RightsFit ==
    ASSUME NEW c \in Commands, NEW d, c.op \in OnRights, ~Gone(d, c.target), NEW s,
           \A i \in DOMAIN s :
               s[i].do \in {"delete", "upsert"} /\ s[i].rows \subseteq RightsOf({c.target})
    PROVE  Fits(c, d, s)
<1>1. c.target \in Target
  BY NamedSubjects
<1>2. /\ c.op \notin Deletions /\ c.op \notin MemberOps /\ c.op \notin OnGroup
  BY DEF OnRights, OnGroup, Deletions, MemberOps
<1>3. ASSUME NEW x \in RightsOf({c.target})
      PROVE  Scope(c, x) /\ x \notin GroupRows /\ Owned(d, x)
  <2>1. x \in RightRows /\ x[2] = c.target
    BY <1>1, RowParts DEF RightsOf
  <2>2. x \notin GroupRows /\ x \notin MemberRows
    BY <2>1, RowKinds
  <2>3. QED
    BY <2>1, <2>2 DEF Scope, Owned
<1>4. \A i \in DOMAIN s : Sober(c, d, s[i])
  BY <1>2, <1>3 DEF Sober
<1>5. QED
  BY <1>2, <1>4 DEF Fits, Named, Planned, Removed

LEMMA ContactDeletionFits ==
    ASSUME NEW c \in Commands, NEW d, c.op = "delete_contacts"
    PROVE  Fits(c, d, << Delete(RightsOf(c.contacts)),
                         Delete({MemberRow(m, g) : m \in c.contacts, g \in Group}),
                         Delete({ContactRow(m) : m \in c.contacts}) >>)
<1> DEFINE rights == RightsOf(c.contacts)
           members == {MemberRow(m, g) : m \in c.contacts, g \in Group}
           contacts == {ContactRow(m) : m \in c.contacts}
           s == <<Delete(rights), Delete(members), Delete(contacts)>>
<1>1. c.contacts \subseteq Contact
  BY NamedSubjects
<1>2. \A x \in rights : Scope(c, x) /\ x \notin GroupRows
  BY <1>1, RowParts DEF Scope, RightsOf, Target
<1>3. \A x \in members : Scope(c, x) /\ x \notin GroupRows
  BY <1>1, RowParts DEF Scope
<1>4. \A x \in contacts : Scope(c, x) /\ x \notin GroupRows
  BY <1>1, RowParts DEF Scope
<1>5. \A x \in Row : Scope(c, x) => x \in rights \/ x \in members \/ x \in contacts
  <2> SUFFICES ASSUME NEW x \in Row, Scope(c, x)
               PROVE  x \in rights \/ x \in members \/ x \in contacts
    OBVIOUS
  <2>1. x[2] \in c.contacts /\ x \in ContactRows \cup MemberRows \cup RightRows
    BY DEF Scope, OnGroup, OnRights, MemberOps
  <2>2. QED
    BY <2>1, RowKinds DEF RightsOf
<1> HIDE DEF rights, members, contacts
<1>6. /\ DOMAIN s = {1, 2, 3}
      /\ s[1] = Delete(rights) /\ s[2] = Delete(members) /\ s[3] = Delete(contacts)
  OBVIOUS
<1> HIDE DEF s
<1>7. ASSUME NEW rows, \A x \in rows : Scope(c, x) /\ x \notin GroupRows
      PROVE  Sober(c, d, Delete(rows))
  BY <1>7 DEF Sober, Delete
<1>8. \A i \in DOMAIN s : Sober(c, d, s[i])
  BY <1>2, <1>3, <1>4, <1>6, <1>7
<1>9. \A x \in Row : Scope(c, x) => \E i \in DOMAIN s : s[i].do = "delete" /\ x \in s[i].rows
  BY <1>5, <1>6 DEF Delete
<1>10. c.op \notin MemberOps /\ c.op \notin OnGroup
  BY DEF MemberOps, OnGroup
<1>11. Fits(c, d, s)
  BY <1>8, <1>9, <1>10 DEF Fits, Planned, Removed, Named
<1>12. QED
  BY <1>11 DEF s, rights, members, contacts

-----------------------------------------------------------------------------
(* The invariant, step by step.                                            *)

Whole == Inv /\ Fresh /\ Careful

LEMMA OpenWhole ==
    ASSUME Whole, NEW r \in Request, NEW c \in Commands, NEW s, pc[r] = "idle",
           Fits(c, db, s), Open(r, c, s)
    PROVE  Fresh' /\ Careful'
<1>1. /\ pc'[r] = "open" /\ cmd'[r] = c /\ view'[r] = db /\ todo'[r] = s
      /\ written' = written /\ db' = db /\ issued' = issued /\ overtaken' = overtaken
  BY DEF Whole, Inv, TypeOK, Open
<1>2. \A q \in Request \ {r} : /\ pc'[q] = pc[q] /\ cmd'[q] = cmd[q] /\ view'[q] = view[q]
                               /\ todo'[q] = todo[q]
  BY DEF Whole, Inv, TypeOK, Open
<1>3. DOMAIN written[r] = {}
  BY DEF Whole, Inv, Serving
<1>4. Fresh'
  <2>1. \A q \in Request, g \in Group : Made(q, g)' <=> q # r /\ Made(q, g)
    BY <1>1, <1>2, <1>3 DEF Made
  <2>2. \A q \in Request, g \in Group : pc'[q] = "open" /\ Exists(view'[q], g) =>
            \/ q # r /\ pc[q] = "open" /\ Exists(view[q], g)
            \/ q = r /\ Exists(db, g)
    BY <1>1, <1>2
  <2>3. QED
    BY <1>1, <2>1, <2>2 DEF Whole, Fresh
<1>5. Sound(c, db, s, written[r])
  BY <1>3 DEF Fits, Sound, Drafted
<1>6. Agrees(c, db, db) /\ Removed(c, db, s, written[r])
  BY <1>3, NothingDrafted DEF Fits, Agrees, Removed
<1>7. Counted(c, db, s, written[r]) /\ db \in Directory
  BY <1>3 DEF Fits, Counted, Whole, Inv, TypeOK
<1>8. Careful'
  BY <1>1, <1>2, <1>5, <1>6, <1>7 DEF Whole, Careful
<1>9. QED
  BY <1>4, <1>8

LEMMA CloseWhole ==
    ASSUME Whole, NEW r \in Request, Close(r), db' = db, issued' = issued,
           \A q \in Request \ {r} : overtaken'[q] = overtaken[q]
    PROVE  Fresh' /\ Careful'
<1>1. pc'[r] = "done"
  BY DEF Whole, Inv, TypeOK, Close
<1>2. \A q \in Request \ {r} : /\ pc'[q] = pc[q] /\ cmd'[q] = cmd[q] /\ view'[q] = view[q]
                               /\ todo'[q] = todo[q] /\ written'[q] = written[q]
  BY DEF Whole, Inv, TypeOK, Close
<1>3. \A q \in Request, g \in Group : Made(q, g)' => q # r /\ Made(q, g)
  BY <1>1, <1>2 DEF Made
<1>4. \A q \in Request : pc'[q] = "open" => q # r
  BY <1>1
<1>5. Fresh'
  BY <1>2, <1>3, <1>4 DEF Whole, Fresh
<1>6. Careful'
  BY <1>2, <1>4 DEF Whole, Careful
<1>7. QED
  BY <1>5, <1>6

LEMMA FailWhole ==
    ASSUME Whole, NEW r \in Request, Fail(r)
    PROVE  Fresh' /\ Careful'
<1>1. Close(r) /\ db' = db /\ issued' = issued
  BY DEF Fail
<1>2. \A q \in Request \ {r} : overtaken'[q] = overtaken[q]
  BY DEF Fail
<1>3. QED
  BY <1>1, <1>2, CloseWhole

LEMMA WroteWhole ==
    ASSUME Whole, NEW r \in Request, pc[r] = "open", NEW writes, Wrote(r, writes),
           \A g \in Group : GroupRow(g) \in DOMAIN writes => cmd[r].op # "create_group",
           Sound(cmd[r], view[r], Tail(todo[r]), Over(writes, written[r])),
           ~overtaken[r] =>
               /\ Removed(cmd[r], view[r], Tail(todo[r]), Over(writes, written[r]))
               /\ Counted(cmd[r], view[r], Tail(todo[r]), Over(writes, written[r]))
    PROVE  Fresh' /\ Careful'
<1>1. /\ pc' = pc /\ cmd' = cmd /\ view' = view /\ db' = db /\ issued' = issued
      /\ overtaken' = overtaken
      /\ todo'[r] = Tail(todo[r]) /\ written'[r] = Over(writes, written[r])
  BY DEF Whole, Inv, TypeOK, Wrote
<1>2. \A q \in Request \ {r} : todo'[q] = todo[q] /\ written'[q] = written[q]
  BY DEF Whole, Inv, TypeOK, Wrote
<1>3. DOMAIN written'[r] = DOMAIN writes \cup DOMAIN written[r]
  BY <1>1 DEF Over
<1>4. \A q \in Request, g \in Group : Made(q, g)' => Made(q, g)
  BY <1>1, <1>2, <1>3 DEF Made
<1>5. Fresh'
  BY <1>1, <1>4 DEF Whole, Fresh
<1>6. Careful'
  BY <1>1, <1>2 DEF Whole, Careful
<1>7. QED
  BY <1>5, <1>6

LEMMA CommitWhole ==
    ASSUME Whole, NEW r \in Request, Commit(r)
    PROVE  Fresh' /\ Careful'
<1> DEFINE c == cmd[r]
           w == written[r]
<1>1. /\ pc[r] = "open" /\ issued' = issued /\ db' = Applied(r) /\ Close(r)
      /\ c \in Commands /\ Sound(c, view[r], <<>>, w)
  BY DEF Commit, Whole, Inv, Serving, Careful
<1>2. pc'[r] = "done"
  BY <1>1 DEF Close, Whole, Inv, TypeOK
<1>3. \A q \in Request \ {r} : /\ pc'[q] = pc[q] /\ cmd'[q] = cmd[q] /\ view'[q] = view[q]
                               /\ todo'[q] = todo[q] /\ written'[q] = written[q]
  BY <1>1 DEF Whole, Inv, TypeOK, Close
<1>4. \A x \in Row : db'[x] = IF x \in DOMAIN w THEN w[x] ELSE db[x]
  BY <1>1, AppliedTyped DEF Whole
<1>5. \A q \in Request, g \in Group : Made(q, g)' => q # r /\ Made(q, g)
  BY <1>2, <1>3 DEF Made
<1>6. /\ \A x \in DOMAIN w : Scope(c, x)
      /\ \A x \in DOMAIN w : w[x] # None /\ x \in MemberRows => Owned(view[r], x)
      /\ c.op \in OnGroup => Exists(view[r], c.group)
  BY <1>1 DEF Sound, Drafted, Named, Exists
<1>7. \A g \in Group : GroupRow(g) \in DOMAIN w => Made(r, g) \/ Exists(view[r], g)
  BY <1>1, <1>6, RowParts DEF Scope, Made
<1>8. ASSUME NEW m \in Contact, NEW g \in Group,
             MemberRow(m, g) \in DOMAIN w, w[MemberRow(m, g)] # None
      PROVE  Exists(view[r], g)
  <2>1. ~Gone(view[r], g)
    BY <1>6, <1>8, RowParts DEF Owned
  <2>2. QED
    BY <2>1 DEF Gone
<1> HIDE DEF c, w
<1>9. \A g \in Group : Exists(db', g) => \/ Exists(db, g)
                                         \/ Made(r, g) \/ Exists(view[r], g)
  BY <1>4, <1>7, SomeRows DEF Exists
<1>10. \A g \in Group : MembersOf(db', g) # {} => MembersOf(db, g) # {} \/ Exists(view[r], g)
  BY <1>4, <1>8, SomeRows DEF MembersOf
<1>11. Fresh'
  <2>1. \A g \in Group : Exists(db', g) \/ MembersOf(db', g) # {} => g \in issued'
    BY <1>1, <1>9, <1>10 DEF Whole, Fresh
  <2>2. \A q \in Request, g \in Group : pc'[q] = "open" /\ Exists(view'[q], g) => g \in issued'
    BY <1>1, <1>2, <1>3 DEF Whole, Fresh
  <2>3. ASSUME NEW q \in Request, NEW g \in Group, Made(q, g)'
        PROVE  /\ g \in issued'
               /\ ~Exists(db', g) /\ MembersOf(db', g) = {}
               /\ \A o \in Request : /\ pc'[o] = "open" => ~Exists(view'[o], g)
                                     /\ Made(o, g)' => o = q
    <3>1. q # r /\ Made(q, g)
      BY <1>5, <2>3
    <3>2. ~Exists(view[r], g) /\ ~Made(r, g)
      BY <1>1, <3>1 DEF Whole, Fresh
    <3>3. ~Exists(db', g) /\ MembersOf(db', g) = {}
      BY <1>9, <1>10, <3>1, <3>2 DEF Whole, Fresh
    <3>4. \A o \in Request : /\ pc'[o] = "open" => ~Exists(view'[o], g)
                             /\ Made(o, g)' => o = q
      BY <1>2, <1>3, <1>5, <3>1 DEF Whole, Fresh
    <3>5. QED
      BY <1>1, <3>1, <3>3, <3>4 DEF Whole, Fresh
  <2>4. QED
    BY <2>1, <2>2, <2>3 DEF Fresh
<1>12. ASSUME NEW q \in Request \ {r}, pc[q] = "open", ~overtaken'[q]
       PROVE  ~overtaken[q] /\ \A x \in Footprint(cmd[q]) : db'[x] = db[x]
  <2>1. ~overtaken[q] /\ ~Overtakes(r, q)
    BY <1>12 DEF Commit
  <2>2. QED
    BY <1>4, <1>12, <2>1, InFootprint DEF Overtakes, w
<1>13. Careful'
  <2> SUFFICES ASSUME NEW q \in Request, pc'[q] = "open"
               PROVE  /\ view'[q] \in Directory /\ Sound(cmd'[q], view'[q], todo'[q], written'[q])
                      /\ ~overtaken'[q] =>
                            /\ Agrees(cmd'[q], view'[q], db')
                            /\ Removed(cmd'[q], view'[q], todo'[q], written'[q])
                            /\ Counted(cmd'[q], view'[q], todo'[q], written'[q])
    BY DEF Careful
  <2>1. q # r /\ pc[q] = "open"
    BY <1>2, <1>3
  <2>2. ~overtaken'[q] => Agrees(cmd[q], view[q], db')
    BY <1>12, <2>1 DEF Whole, Careful, Agrees
  <2>3. QED
    BY <1>3, <1>12, <2>1, <2>2 DEF Whole, Careful
<1>14. QED
  BY <1>11, <1>13

(* What a statement finds: the plan it comes from, and the tables.         *)
LEMMA FacingWhole ==
    ASSUME Whole, NEW r \in Request, pc[r] = "open", todo[r] # <<>>
    PROVE  /\ cmd[r] \in Commands
           /\ view[r] \in Directory /\ Named(cmd[r], view[r])
           /\ Sober(cmd[r], view[r], Head(todo[r]))
           /\ Planned(cmd[r], view[r], Tail(todo[r]))
           /\ Drafted(cmd[r], view[r], todo[r], written[r])
           /\ cmd[r].op \in MemberOps => (Tail(todo[r]) = <<>> <=> Head(todo[r]).do = "recount")
           /\ \A x \in Row :
                 Latest(r)[x] = IF x \in DOMAIN written[r] THEN written[r][x] ELSE db[x]
           /\ \A x \in Row : Own(r)[x] = IF x \in DOMAIN written[r] THEN written[r][x] ELSE view[r][x]
           /\ ~overtaken[r] =>
                 /\ Agrees(cmd[r], view[r], db)
                 /\ Removed(cmd[r], view[r], todo[r], written[r])
                 /\ Counted(cmd[r], view[r], todo[r], written[r])
<1>1. cmd[r] \in Commands /\ todo[r] \in Seq(StatementsOf(cmd[r]))
  BY DEF Whole, Inv, Serving
<1>2. /\ view[r] \in Directory /\ Sound(cmd[r], view[r], todo[r], written[r])
      /\ ~overtaken[r] =>
            /\ Agrees(cmd[r], view[r], db)
            /\ Removed(cmd[r], view[r], todo[r], written[r])
            /\ Counted(cmd[r], view[r], todo[r], written[r])
  BY DEF Whole, Careful
<1>3. /\ Sober(cmd[r], view[r], Head(todo[r]))
      /\ Planned(cmd[r], view[r], Tail(todo[r]))
      /\ cmd[r].op \in MemberOps => (Tail(todo[r]) = <<>> <=> Head(todo[r]).do = "recount")
  BY <1>1, <1>2, PlanShrinks DEF Sound
<1>4. \A x \in Row : Latest(r)[x] = IF x \in DOMAIN written[r] THEN written[r][x] ELSE db[x]
  BY DEF Whole, Inv, TypeOK, Latest, Over, Directory
<1>5. \A x \in Row : Own(r)[x] = IF x \in DOMAIN written[r] THEN written[r][x] ELSE view[r][x]
  BY <1>2 DEF Own, Over, Directory
<1>6. QED
  BY <1>1, <1>2, <1>3, <1>4, <1>5 DEF Sound

LEMMA DeleteWhole ==
    ASSUME Whole, NEW r \in Request, DeleteRows(r)
    PROVE  Fresh' /\ Careful'
<1> DEFINE c == cmd[r]
           v == view[r]
           s == todo[r]
           w == written[r]
           rows == Rows(r)
           writes == [row \in {row \in rows : Latest(r)[row] # None} |-> None]
           o == Over(writes, w)
<1>1. pc[r] = "open" /\ s # <<>> /\ Head(s).do = "delete" /\ rows = Head(s).rows
  BY DEF DeleteRows, Faces, Rows
<1>2. /\ Named(c, v) /\ Sober(c, v, Head(s)) /\ Planned(c, v, Tail(s)) /\ Drafted(c, v, s, w)
      /\ c.op \in MemberOps => Tail(s) # <<>>
      /\ \A x \in Row : Latest(r)[x] = IF x \in DOMAIN w THEN w[x] ELSE db[x]
      /\ ~overtaken[r] => Agrees(c, v, db) /\ Removed(c, v, s, w) /\ Counted(c, v, s, w)
  BY <1>1, FacingWhole
<1>3. rows \subseteq Row
  BY <1>1, Facing DEF Whole
<1>4. \A x \in rows : Scope(c, x) /\ (x \in GroupRows => c.op = "delete_group")
  BY <1>1, <1>2 DEF Sober
<1>5. /\ DOMAIN writes = {x \in rows : Latest(r)[x] # None}
      /\ \A x \in DOMAIN writes : writes[x] = None
  OBVIOUS
<1>6. Wrote(r, writes)
  BY DEF DeleteRows
<1> HIDE DEF rows, writes
<1>7. Drafted(c, v, Tail(s), writes)
  BY <1>4, <1>5 DEF Drafted, MemberOps
<1>8. Sound(c, v, Tail(s), o)
  BY <1>1, <1>2, <1>7, DraftGrows DEF Sound
<1>9. /\ DOMAIN o = DOMAIN writes \cup DOMAIN w
      /\ \A x \in DOMAIN writes : o[x] = None
      /\ \A x \in DOMAIN w \ DOMAIN writes : o[x] = w[x]
  BY <1>5 DEF Over
<1> HIDE DEF o
<1>10. ASSUME ~overtaken[r]
       PROVE  Removed(c, v, Tail(s), o)
  <2> SUFFICES ASSUME c.op \in Deletions, NEW x \in Row, Scope(c, x)
               PROVE  \/ x \in DOMAIN o /\ o[x] = None
                      \/ x \notin DOMAIN o /\ v[x] = None
                      \/ \E i \in DOMAIN Tail(s) : Tail(s)[i].do = "delete" /\ x \in Tail(s)[i].rows
    BY DEF Removed
  <2>1. \/ x \in DOMAIN w /\ w[x] = None
        \/ x \notin DOMAIN w /\ v[x] = None
        \/ \E i \in DOMAIN s : s[i].do = "delete" /\ x \in s[i].rows
    BY <1>2, <1>10 DEF Removed
  <2>2. CASE x \in rows
    <3>1. db[x] = v[x]
      BY <1>2, <1>10, InFootprint DEF Agrees, Deletions
    <3>2. CASE Latest(r)[x] # None
      BY <1>5, <1>9, <2>2, <3>2
    <3>3. CASE Latest(r)[x] = None
      BY <1>2, <1>5, <1>9, <2>2, <3>1, <3>3
    <3>4. QED
      BY <3>2, <3>3
  <2>3. CASE x \notin rows
    <3>1. (\E i \in DOMAIN s : s[i].do = "delete" /\ x \in s[i].rows) =>
              \E i \in DOMAIN Tail(s) : Tail(s)[i].do = "delete" /\ x \in Tail(s)[i].rows
      <4>1. s \in Seq(StatementsOf(c)) /\ Planned(c, v, s)
        BY <1>1 DEF Whole, Inv, Serving, Careful, Sound
      <4>2. QED
        BY <1>1, <2>3, <4>1, PlanShrinks
    <3>2. x \notin DOMAIN writes
      BY <1>5, <2>3
    <3>3. QED
      BY <1>9, <2>1, <3>1, <3>2
  <2>4. QED
    BY <2>2, <2>3
<1>11. ASSUME ~overtaken[r]
       PROVE  Counted(c, v, Tail(s), o)
  <2>1. c.op = "update_group" => DOMAIN writes = {}
    BY <1>4, <1>5 DEF Scope, OnRights, MemberOps
  <2>2. c.op = "update_group" => \A x \in DOMAIN o : o[x] = v[x]
    BY <1>2, <1>9, <1>11, <2>1 DEF Counted
  <2>3. QED
    BY <1>2, <2>2 DEF Counted
<1>12. \A g \in Group : GroupRow(g) \in DOMAIN writes => c.op # "create_group"
  BY <1>4, <1>5, RowParts
<1>13. QED
  BY <1>1, <1>6, <1>8, <1>10, <1>11, <1>12, WroteWhole DEF o

(* A value for a membership or a right, or none because it is there.       *)
LEMMA ValueWhole ==
    ASSUME Whole, NEW r \in Request, pc[r] = "open", todo[r] # <<>>,
           Head(todo[r]).do \in {"insert", "upsert"}, NEW writes, Wrote(r, writes),
           DOMAIN writes \subseteq {TheRow(r)}, \A x \in DOMAIN writes : writes[x] # None
    PROVE  Fresh' /\ Careful'
<1> DEFINE c == cmd[r]
           v == view[r]
           s == todo[r]
           w == written[r]
           o == Over(writes, w)
<1>1. /\ Named(c, v) /\ Sober(c, v, Head(s)) /\ Planned(c, v, Tail(s)) /\ Drafted(c, v, s, w)
      /\ c.op \in MemberOps => Tail(s) # <<>>
  BY FacingWhole
<1>2. TheRow(r) \in Rows(r)
  BY Facing DEF Whole, StatementsOf, Rows
<1>3. c.op \notin Deletions /\ Scope(c, TheRow(r)) /\ Owned(v, TheRow(r))
  BY <1>1, <1>2 DEF Sober, Rows
<1>4. TheRow(r) \notin GroupRows
  BY <1>3, RowKinds DEF Owned
<1>5. Drafted(c, v, Tail(s), writes)
  BY <1>3, <1>4 DEF Drafted
<1>6. Sound(c, v, Tail(s), o)
  BY <1>1, <1>5, DraftGrows DEF Sound
<1>7. c.op # "update_group"
  BY <1>3, <1>4, RowKinds DEF Scope, OnRights, MemberOps, Owned
<1> HIDE DEF o
<1>8. Removed(c, v, Tail(s), o) /\ Counted(c, v, Tail(s), o)
  BY <1>1, <1>3, <1>7 DEF Removed, Counted
<1>9. \A g \in Group : GroupRow(g) \notin DOMAIN writes
  BY <1>4, RowParts
<1>10. QED
  BY <1>6, <1>8, <1>9, WroteWhole DEF o

LEMMA InsertWhole ==
    ASSUME Whole, NEW r \in Request, InsertRow(r) \/ UpsertRow(r)
    PROVE  Fresh' /\ Careful'
<1> DEFINE n == Head(todo[r]).value
<1>1. pc[r] = "open" /\ todo[r] # <<>> /\ Head(todo[r]).do \in {"insert", "upsert"}
  BY DEF InsertRow, UpsertRow, Faces
<1>2. n \in Nat
  BY <1>1, Facing DEF Whole, StatementsOf, Statement
<1>3. \/ Wrote(r, Single(TheRow(r), 1)) \/ Wrote(r, Single(TheRow(r), n)) \/ Wrote(r, <<>>)
      \/ Fail(r)
  BY DEF InsertRow, UpsertRow
<1>4. ASSUME NEW k \in Nat, Wrote(r, Single(TheRow(r), k))
      PROVE  Fresh' /\ Careful'
  <2> DEFINE writes == Single(TheRow(r), k)
  <2>1. DOMAIN writes \subseteq {TheRow(r)} /\ \A x \in DOMAIN writes : writes[x] = k
    BY SingleWritten
  <2>2. k # None
    BY NoneAssumption
  <2>3. Wrote(r, writes)
    BY <1>4
  <2> HIDE DEF writes
  <2>4. QED
    BY <1>1, <2>1, <2>2, <2>3, ValueWhole
<1>5. CASE Wrote(r, <<>>)
  <2>1. DOMAIN <<>> \subseteq {TheRow(r)} /\ \A x \in DOMAIN <<>> : <<>>[x] # None
    BY NothingDrafted
  <2>2. QED
    BY <1>1, <1>5, <2>1, ValueWhole
<1> HIDE DEF n
<1>6. QED
  BY <1>2, <1>3, <1>4, <1>5, FailWhole

LEMMA TouchWhole ==
    ASSUME Whole, NEW r \in Request, TouchGroup(r)
    PROVE  Fresh' /\ Careful'
<1> DEFINE c == cmd[r]
           v == view[r]
           s == todo[r]
           w == written[r]
           row == GroupRow(c.group)
           n == Latest(r)[row]
           writes == Single(row, n)
           o == Over(writes, w)
<1>1. pc[r] = "open" /\ s # <<>> /\ Head(s).do = "touch"
  BY DEF TouchGroup, Faces
<1>2. /\ Named(c, v) /\ Sober(c, v, Head(s)) /\ Planned(c, v, Tail(s)) /\ Drafted(c, v, s, w)
      /\ \A x \in Row : Latest(r)[x] = IF x \in DOMAIN w THEN w[x] ELSE db[x]
      /\ ~overtaken[r] => Agrees(c, v, db) /\ Counted(c, v, s, w)
      /\ c \in Commands
  BY <1>1, FacingWhole
<1>3. c.op = "update_group" /\ Rows(r) = {row} /\ TheRow(r) = row
  BY <1>1, <1>2 DEF Sober, Rows, TheRow
<1>4. c.group \in Group
  BY <1>2, <1>3, NamedSubjects DEF OnGroup
<1>5. row \in GroupRows /\ row \in Row /\ Scope(c, row) /\ row \notin MemberRows \cup RightRows
  BY <1>3, <1>4, RowParts, RowKinds DEF Scope, OnGroup
<1>6. c.op \notin Deletions /\ c.op \notin MemberOps
  BY <1>3 DEF Deletions, MemberOps
<1>7. Fail(r) \/ (n # None /\ Wrote(r, writes))
  BY <1>3 DEF TouchGroup
<1>8. DOMAIN writes = {row} /\ \A x \in DOMAIN writes : x = row /\ writes[x] = n
  BY SingleWritten
<1> HIDE DEF writes
<1>9. ASSUME n # None, Wrote(r, writes)
      PROVE  Fresh' /\ Careful'
  <2>1. Drafted(c, v, Tail(s), writes)
    BY <1>3, <1>5, <1>6, <1>8, <1>9 DEF Drafted
  <2>2. Sound(c, v, Tail(s), o)
    BY <1>1, <1>2, <2>1, DraftGrows DEF Sound
  <2>3. Removed(c, v, Tail(s), o)
    BY <1>6 DEF Removed
  <2>4. ASSUME ~overtaken[r]
        PROVE  Counted(c, v, Tail(s), o)
    <3>1. db[row] = v[row]
      BY <1>2, <1>3, <1>5, <2>4, InFootprint DEF Agrees
    <3>2. \A x \in DOMAIN w : w[x] = v[x]
      BY <1>2, <1>3, <2>4 DEF Counted
    <3>3. n = v[row]
      BY <1>2, <1>5, <3>1, <3>2
    <3>4. \A x \in DOMAIN o : o[x] = v[x]
      BY <1>8, <3>2, <3>3 DEF Over
    <3>5. QED
      BY <1>6, <3>4 DEF Counted
  <2>5. \A g \in Group : GroupRow(g) \in DOMAIN writes => c.op # "create_group"
    BY <1>3
  <2> HIDE DEF o
  <2>6. QED
    BY <1>1, <1>9, <2>2, <2>3, <2>4, <2>5, WroteWhole DEF o
<1>10. QED
  BY <1>7, <1>9, FailWhole

LEMMA RecountWhole ==
    ASSUME Whole, NEW r \in Request, RecountGroup(r)
    PROVE  Fresh' /\ Careful'
<1> DEFINE c == cmd[r]
           v == view[r]
           s == todo[r]
           w == written[r]
           row == GroupRow(c.group)
           n == Cardinality(UsersIn(Own(r), c.group))
<1>1. pc[r] = "open" /\ s # <<>> /\ Head(s).do = "recount"
  BY DEF RecountGroup, Faces
<1>2. /\ c \in Commands /\ v \in Directory
      /\ Named(c, v) /\ Sober(c, v, Head(s)) /\ Planned(c, v, Tail(s)) /\ Drafted(c, v, s, w)
      /\ c.op \in MemberOps => Tail(s) = <<>>
      /\ \A x \in Row : Latest(r)[x] = IF x \in DOMAIN w THEN w[x] ELSE db[x]
      /\ \A x \in Row : Own(r)[x] = IF x \in DOMAIN w THEN w[x] ELSE v[x]
      /\ ~overtaken[r] => Agrees(c, v, db)
  BY <1>1, FacingWhole
<1>3. c.op \in MemberOps /\ Rows(r) = {row} /\ TheRow(r) = row
  BY <1>1, <1>2 DEF Sober, Rows, TheRow
<1>4. c.group \in Group /\ c.op \in OnGroup /\ Tail(s) = <<>>
  BY <1>2, <1>3, NamedSubjects DEF OnGroup
<1>5. /\ row \in GroupRows /\ row \in Row /\ row[2] = c.group /\ Scope(c, row)
      /\ row \notin MemberRows \cup RightRows \cup ContactRows
  BY <1>3, <1>4, RowParts, RowKinds DEF Scope
<1>6. c.op \notin Deletions /\ c.op \notin {"create_group", "update_group"}
  BY <1>3 DEF Deletions, MemberOps
<1>7. row \notin DOMAIN w
  BY <1>1, <1>2, <1>3, <1>5 DEF Drafted
<1>8. \/ Latest(r)[row] = None /\ Wrote(r, <<>>)
      \/ Wrote(r, Single(row, n))
  BY <1>3, <1>5 DEF RecountGroup
<1>9. CASE Latest(r)[row] = None /\ Wrote(r, <<>>)
  <2> DEFINE o == Over(<<>>, w)
  <2>1. overtaken[r]
    <3> SUFFICES ASSUME ~overtaken[r]
                 PROVE  FALSE
      OBVIOUS
    <3>1. db[row] = v[row]
      BY <1>2, <1>4, InFootprint DEF Agrees
    <3>2. QED
      BY <1>2, <1>4, <1>5, <1>7, <1>9, <3>1 DEF Named
  <2>2. Drafted(c, v, Tail(s), <<>>)
    BY NothingDrafted DEF Drafted
  <2>3. Sound(c, v, Tail(s), o)
    BY <1>1, <1>2, <2>2, DraftGrows DEF Sound
  <2>4. \A g \in Group : GroupRow(g) \notin DOMAIN <<>>
    BY NothingDrafted
  <2> HIDE DEF o
  <2>5. QED
    BY <1>1, <1>9, <2>1, <2>3, <2>4, WroteWhole DEF o
<1>10. CASE Wrote(r, Single(row, n))
  <2> DEFINE writes == Single(row, n)
             o == Over(writes, w)
             p == Over(o, v)
  <2>1. DOMAIN writes = {row} /\ \A x \in DOMAIN writes : x = row /\ writes[x] = n
    BY SingleWritten
  <2>2. n \in Nat
    <3>1. UsersIn(Own(r), c.group) \in SUBSET Contact
      BY DEF UsersIn, MembersOf
    <3>2. QED
      BY <3>1, FinitenessAssumption, FS_Subset, FS_CardinalityType
  <2>3. Wrote(r, writes)
    BY <1>10
  <2> HIDE DEF writes, n
  <2>4. Drafted(c, v, Tail(s), writes)
    BY <1>4, <1>5, <1>6, <2>1, <2>2, NoneAssumption DEF Drafted
  <2>5. Sound(c, v, Tail(s), o)
    BY <1>1, <1>2, <2>4, DraftGrows DEF Sound
  <2>6. /\ row \in DOMAIN o /\ o[row] = n
        /\ DOMAIN o = DOMAIN w \cup {row} /\ \A x \in DOMAIN w : x # row => o[x] = w[x]
    BY <2>1 DEF Over
  <2> HIDE DEF o
  <2>7. \A x \in Row : x # row => p[x] = Own(r)[x]
    BY <1>2, <2>6 DEF Over, Directory
  <2> HIDE DEF p
  <2>8. UsersIn(p, c.group) = UsersIn(Own(r), c.group)
    <3>1. /\ \A x \in ContactRows : p[x] = Own(r)[x]
          /\ \A x \in MemberRows : p[x] = Own(r)[x]
      BY <1>5, <2>7, RowKinds
    <3>2. QED
      BY <1>4, <3>1, SameUsers
  <2>9. Counted(c, v, Tail(s), o)
    BY <1>6, <2>6, <2>8 DEF Counted, n, p
  <2>10. Removed(c, v, Tail(s), o)
    BY <1>6 DEF Removed
  <2>11. \A g \in Group : GroupRow(g) \in DOMAIN writes => c.op # "create_group"
    BY <1>6
  <2>12. QED
    BY <1>1, <2>3, <2>5, <2>9, <2>10, <2>11, WroteWhole DEF o
<1>11. QED
  BY <1>8, <1>9, <1>10

LEMMA CreateWhole ==
    ASSUME Whole, NEW r \in Request, CreateRow(r)
    PROVE  Fresh' /\ Careful'
<1> DEFINE c == cmd[r]
           v == view[r]
           s == todo[r]
           w == written[r]
<1>1. pc[r] = "open" /\ s # <<>> /\ Head(s).do = "create"
  BY DEF CreateRow, Faces
<1>2. /\ Named(c, v) /\ Sober(c, v, Head(s)) /\ Planned(c, v, Tail(s)) /\ Drafted(c, v, s, w)
      /\ v \in Directory /\ (~overtaken[r] => Agrees(c, v, db))
  BY <1>1, FacingWhole
<1>3. c.op = "create_group" /\ c.op \notin Deletions /\ c.op \notin MemberOps
  BY <1>1, <1>2 DEF Sober, Deletions, MemberOps
<1>4. CASE Fail(r)
  BY <1>4, FailWhole
<1>5. CASE ~Fail(r)
  <2>1. PICK g \in Group \ issued :
            /\ issued' = issued \cup {g}
            /\ written' = [written EXCEPT ![r] = Over(Single(GroupRow(g), 0), @)]
            /\ todo' = [todo EXCEPT ![r] = Tail(@)]
            /\ UNCHANGED <<db, pc, cmd, view, overtaken>>
    BY <1>5 DEF CreateRow
  <2> DEFINE writes == Single(GroupRow(g), 0)
             o == Over(writes, w)
  <2>2. /\ DOMAIN writes = {GroupRow(g)}
        /\ \A x \in DOMAIN writes : x = GroupRow(g) /\ writes[x] = 0
    BY SingleWritten
  <2>3. /\ written'[r] = o /\ todo'[r] = Tail(s)
        /\ \A q \in Request \ {r} : written'[q] = written[q] /\ todo'[q] = todo[q]
    BY <2>1 DEF Whole, Inv, TypeOK
  <2> HIDE DEF writes
  <2>4. DOMAIN o = DOMAIN w \cup {GroupRow(g)}
    BY <2>2 DEF Over
  <2>5. Drafted(c, v, Tail(s), writes)
    BY <1>3, <2>2, RowParts, NoneAssumption DEF Drafted, Scope
  <2>6. Sound(c, v, Tail(s), o)
    BY <1>1, <1>2, <2>5, DraftGrows DEF Sound
  <2>7. Removed(c, v, Tail(s), o) /\ Counted(c, v, Tail(s), o)
    BY <1>3 DEF Removed, Counted
  <2> HIDE DEF o
  <2>8. Careful'
    BY <1>2, <2>1, <2>3, <2>6, <2>7 DEF Whole, Careful
  <2>9. \A h \in Group : GroupRow(h) = GroupRow(g) => h = g
    BY RowParts
  <2>10. \A q \in Request, h \in Group : Made(q, h)' => Made(q, h) \/ (q = r /\ h = g)
    BY <2>1, <2>3, <2>4, <2>9 DEF Made
  <2>11. Fresh'
    <3>1. ASSUME NEW q \in Request, NEW h \in Group, Made(q, h)'
          PROVE  /\ h \in issued'
                 /\ ~Exists(db', h) /\ MembersOf(db', h) = {}
                 /\ \A p \in Request : /\ pc'[p] = "open" => ~Exists(view'[p], h)
                                       /\ Made(p, h)' => p = q
      <4>1. CASE Made(q, h)
        <5>1. h # g
          BY <4>1 DEF Whole, Fresh
        <5>2. QED
          BY <2>1, <2>10, <4>1, <5>1 DEF Whole, Fresh
      <4>2. CASE q = r /\ h = g
        <5>1. \A p \in Request : ~Made(p, g)
          BY DEF Whole, Fresh
        <5>2. \A p \in Request : Made(p, h)' => p = q
          BY <2>10, <4>2, <5>1
        <5>3. QED
          BY <2>1, <4>2, <5>2 DEF Whole, Fresh
      <4>3. QED
        BY <2>10, <3>1, <4>1, <4>2
    <3>2. /\ \A h \in Group : Exists(db', h) \/ MembersOf(db', h) # {} => h \in issued'
          /\ \A q \in Request, h \in Group : pc'[q] = "open" /\ Exists(view'[q], h) => h \in issued'
      BY <2>1 DEF Whole, Fresh
    <3>3. QED
      BY <3>1, <3>2 DEF Fresh
  <2>12. QED
    BY <2>8, <2>11
<1>6. QED
  BY <1>4, <1>5

LEMMA AdministerWhole ==
    ASSUME Whole, NEW r \in Request, NEW c \in Commands, pc[r] = "idle", NEW valid, NEW s,
           valid => Fits(c, db, s), Administer(r, c, valid, s)
    PROVE  Fresh' /\ Careful'
<1>1. CASE valid /\ Open(r, c, s)
  BY <1>1, OpenWhole
<1>2. CASE Refuse(r)
  BY <1>2, CloseWhole DEF Refuse
<1>3. QED
  BY <1>1, <1>2 DEF Administer

LEMMA GroupWhole ==
    ASSUME Whole, NEW r \in Request, NEW c \in Commands,
           CreateGroup(r, c) \/ UpdateGroup(r, c) \/ DeleteGroup(r, c)
    PROVE  Fresh' /\ Careful'
<1>1. CASE CreateGroup(r, c)
  <2>1. c.op = "create_group" /\ pc[r] = "idle" /\ Administer(r, c, TRUE, <<Create>>)
    BY <1>1 DEF CreateGroup, Asks
  <2> DEFINE s == <<Create>>
  <2>2. DOMAIN s = {1} /\ s[1] = Create
    OBVIOUS
  <2>3. Administer(r, c, TRUE, s)
    BY <2>1
  <2> HIDE DEF s
  <2>4. Fits(c, db, s)
    BY <2>1, <2>2, OneGroupFits
  <2>5. QED
    BY <2>1, <2>3, <2>4, AdministerWhole
<1>2. CASE UpdateGroup(r, c)
  <2>1. /\ c.op = "update_group" /\ pc[r] = "idle"
        /\ Administer(r, c, Exists(db, c.group), <<Touch(c.group)>>)
    BY <1>2 DEF UpdateGroup, Asks
  <2> DEFINE s == <<Touch(c.group)>>
  <2>2. DOMAIN s = {1} /\ s[1] = Touch(c.group)
    OBVIOUS
  <2>3. Administer(r, c, Exists(db, c.group), s)
    BY <2>1
  <2> HIDE DEF s
  <2>4. Exists(db, c.group) => Fits(c, db, s)
    BY <2>1, <2>2, OneGroupFits
  <2>5. QED
    BY <2>1, <2>3, <2>4, AdministerWhole
<1>3. CASE DeleteGroup(r, c)
  <2> DEFINE s == Delta(db, c.group, {})
                  \o <<Delete(RightsOf({c.group})), Delete({GroupRow(c.group)})>>
  <2>1. c.op = "delete_group" /\ pc[r] = "idle" /\ Administer(r, c, Exists(db, c.group), s)
    BY <1>3 DEF DeleteGroup, Asks
  <2>2. Exists(db, c.group) => Fits(c, db, s)
    BY <2>1, GroupDeletionFits
  <2> HIDE DEF s
  <2>3. QED
    BY <2>1, <2>2, AdministerWhole
<1>4. QED
  BY <1>1, <1>2, <1>3

LEMMA MembersWhole ==
    ASSUME Whole, NEW r \in Request, NEW c \in Commands,
           AddGroupMember(r, c) \/ RemoveGroupMember(r, c) \/ ReplaceGroupMembers(r, c)
    PROVE  Fresh' /\ Careful'
<1>1. c.op \in MemberOps /\ pc[r] = "idle"
  BY DEF AddGroupMember, RemoveGroupMember, ReplaceGroupMembers, Asks, MemberOps
<1>2. c.group \in Group /\ c.contacts \in SUBSET Contact
  BY <1>1, NamedSubjects DEF OnGroup
<1>3. ASSUME NEW m \in Contact, NEW one, Exists(db, c.group),
             \/ one = Delete({MemberRow(m, c.group)})
             \/ one = Insert(MemberRow(m, c.group)) /\ IsUser(db, m)
      PROVE  Fits(c, db, <<one, Recount(c.group)>>)
  <2> DEFINE s == <<one, Recount(c.group)>>
  <2>1. DOMAIN s = 1..(1 + 1) /\ Len(s) = 1 + 1 /\ s[1 + 1] = Recount(c.group) /\ s[1] = one
    OBVIOUS
  <2> HIDE DEF s
  <2>2. 1 \in Nat /\ \A i \in 1..1 : i = 1
    OBVIOUS
  <2>3. \A i \in 1..1 : \E p \in Contact :
            \/ s[i] = Delete({MemberRow(p, c.group)})
            \/ s[i] = Insert(MemberRow(p, c.group)) /\ IsUser(db, p)
    BY <1>3, <2>1, <2>2
  <2>4. Fits(c, db, s)
    BY <1>1, <1>3, <2>1, <2>2, <2>3, MembersFit
  <2>5. QED
    BY <2>4 DEF s
<1>4. CASE AddGroupMember(r, c)
  <2>1. PICK m \in c.contacts :
            Administer(r, c,
                Exists(db, c.group) /\ IsUser(db, m) /\ db[MemberRow(m, c.group)] = None,
                <<Insert(MemberRow(m, c.group)), Recount(c.group)>>)
    BY <1>4 DEF AddGroupMember
  <2>2. Exists(db, c.group) /\ IsUser(db, m) =>
            Fits(c, db, <<Insert(MemberRow(m, c.group)), Recount(c.group)>>)
    BY <1>2, <1>3
  <2>3. QED
    BY <1>1, <2>1, <2>2, AdministerWhole
<1>5. CASE RemoveGroupMember(r, c)
  <2>1. PICK m \in c.contacts :
            Administer(r, c, Exists(db, c.group) /\ db[MemberRow(m, c.group)] # None,
                <<Delete({MemberRow(m, c.group)}), Recount(c.group)>>)
    BY <1>5 DEF RemoveGroupMember
  <2>2. Exists(db, c.group) => Fits(c, db, <<Delete({MemberRow(m, c.group)}), Recount(c.group)>>)
    BY <1>2, <1>3
  <2>3. QED
    BY <1>1, <2>1, <2>2, AdministerWhole
<1>6. CASE ReplaceGroupMembers(r, c)
  <2> DEFINE D == Delta(db, c.group, c.contacts)
             s == Append(D, Recount(c.group))
             valid == Exists(db, c.group) /\ \A m \in c.contacts : IsUser(db, m)
  <2>1. Administer(r, c, valid, s) /\ c.op = "replace_members"
    BY <1>6 DEF ReplaceGroupMembers, Asks
  <2>2. D \in Seq(StatementsOf(c))
    BY <1>2, <2>1, DeltaStates
  <2>3. IsDelta(D, db, c.group, c.contacts)
    BY <1>2, DeltaIs
  <2> HIDE DEF D
  <2>4. PICK n \in Nat : DOMAIN D = 1..n /\ Len(D) = n
    BY <2>3 DEF IsDelta
  <2>5. /\ DOMAIN s = 1..(n + 1) /\ Len(s) = n + 1 /\ s[n + 1] = Recount(c.group)
        /\ \A i \in 1..n : s[i] = D[i]
    BY <2>2, <2>4
  <2> HIDE DEF s
  <2>6. valid => \A i \in 1..n : \E m \in Contact :
            \/ s[i] = Delete({MemberRow(m, c.group)})
            \/ s[i] = Insert(MemberRow(m, c.group)) /\ IsUser(db, m)
    <3> SUFFICES ASSUME valid, NEW i \in 1..n
                 PROVE  \E m \in Contact :
                            \/ s[i] = Delete({MemberRow(m, c.group)})
                            \/ s[i] = Insert(MemberRow(m, c.group)) /\ IsUser(db, m)
      OBVIOUS
    <3>1. \/ \E m \in MembersOf(db, c.group) \ c.contacts :
                s[i] = Delete({MemberRow(m, c.group)})
          \/ \E m \in c.contacts \ MembersOf(db, c.group) :
                s[i] = Insert(MemberRow(m, c.group))
      BY <2>3, <2>4, <2>5 DEF IsDelta
    <3>2. MembersOf(db, c.group) \subseteq Contact
      BY DEF MembersOf
    <3>3. QED
      BY <1>2, <3>1, <3>2
  <2>7. valid => Fits(c, db, s)
    BY <1>1, <2>5, <2>6, MembersFit
  <2> HIDE DEF valid
  <2>8. QED
    BY <1>1, <2>1, <2>7, AdministerWhole
<1>7. QED
  BY <1>4, <1>5, <1>6

LEMMA RightsWhole ==
    ASSUME Whole, NEW r \in Request, NEW c \in Commands,
           \/ AssignRight(r, c) \/ RevokeRight(r, c)
           \/ SetAppAccess(r, c) \/ SetGlobalAdminAccess(r, c)
    PROVE  Fresh' /\ Careful'
<1> DEFINE t == c.target
           mine == RightsOf({t})
<1>1. c.op \in OnRights /\ pc[r] = "idle"
  BY DEF AssignRight, RevokeRight, SetAppAccess, SetGlobalAdminAccess, Asks, OnRights
<1>2. t \in Target /\ c.app \in App /\ c.name \in Name /\ Global \in App /\ Backend \in Name
  BY <1>1, NamedSubjects, CommandsAssumption, NamesAssumption DEF Command
<1>3. Valid(t) => ~Gone(db, t)
  BY TargetsAssumption DEF Valid, Gone, IsUser
<1>4. /\ \A a \in App, n \in Name : RightRow(t, a, n) \in mine
      /\ AppRightsOf(t, c.app) \subseteq mine
  BY <1>2 DEF RightsOf, AppRightsOf
<1> HIDE DEF mine
<1>5. ASSUME NEW valid, valid => Valid(t), NEW s, Administer(r, c, valid, s),
             \A i \in DOMAIN s : \/ \E rows \in SUBSET mine : s[i] = Delete(rows)
                                 \/ \E row \in mine : \E k : s[i] = Upsert(row, k)
      PROVE  Fresh' /\ Careful'
  <2>1. \A i \in DOMAIN s : s[i].do \in {"delete", "upsert"} /\ s[i].rows \subseteq mine
    BY <1>5 DEF Delete, Upsert
  <2>2. valid => Fits(c, db, s)
    BY <1>1, <1>3, <1>5, <2>1, RightsFit DEF mine
  <2>3. QED
    BY <1>1, <1>5, <2>2, AdministerWhole
<1>6. CASE AssignRight(r, c)
  <2> DEFINE row == RightRow(t, c.app, c.name)
             s == <<Upsert(row, c.value)>>
             valid == Valid(t) /\ c.name # Backend /\ c.value # 0
  <2>1. Administer(r, c, valid, s)
    BY <1>6 DEF AssignRight
  <2>2. row \in mine
    BY <1>2, <1>4
  <2> HIDE DEF row
  <2>3. \A i \in DOMAIN s : s[i] = Upsert(row, c.value)
    OBVIOUS
  <2> HIDE DEF s
  <2>4. QED
    BY <1>5, <2>1, <2>2, <2>3
<1>7. CASE RevokeRight(r, c)
  <2> DEFINE row == RightRow(t, c.app, c.name)
             s == <<Delete({row})>>
             valid == Valid(t) /\ c.name # Backend /\ db[row] # None
  <2>1. Administer(r, c, valid, s)
    BY <1>7 DEF RevokeRight
  <2>2. {row} \in SUBSET mine
    BY <1>2, <1>4
  <2> HIDE DEF row
  <2>3. \A i \in DOMAIN s : s[i] = Delete({row})
    OBVIOUS
  <2> HIDE DEF s
  <2>4. QED
    BY <1>5, <2>1, <2>2, <2>3
<1>8. ASSUME NEW rows \in SUBSET mine, NEW row \in mine, NEW k, NEW valid, valid => Valid(t),
             \/ Administer(r, c, valid, <<Delete(rows)>>)
             \/ Administer(r, c, valid, <<Upsert(row, k)>>)
             \/ Administer(r, c, valid, <<Delete(rows), Upsert(row, k)>>)
      PROVE  Fresh' /\ Careful'
  <2>1. PICK s : /\ s \in {<<Delete(rows)>>, <<Upsert(row, k)>>, <<Delete(rows), Upsert(row, k)>>}
                 /\ Administer(r, c, valid, s)
    BY <1>8
  <2>2. \A i \in DOMAIN s : s[i] = Delete(rows) \/ s[i] = Upsert(row, k)
    BY <2>1
  <2>3. \A i \in DOMAIN s : \/ \E q \in SUBSET mine : s[i] = Delete(q)
                            \/ \E q \in mine : \E j : s[i] = Upsert(q, j)
    BY <2>2
  <2>4. QED
    BY <1>5, <1>8, <2>1, <2>3
<1>9. CASE SetAppAccess(r, c)
  <2> DEFINE rows == AppRightsOf(t, c.app)
             row == RightRow(t, c.app, Backend)
             valid == Valid(t) /\ c.app # Global
  <2>1. \/ Administer(r, c, valid, <<Delete(rows)>>)
        \/ Administer(r, c, valid, <<Upsert(row, c.value)>>)
        \/ Administer(r, c, valid, <<Delete(rows), Upsert(row, c.value)>>)
    BY <1>9 DEF SetAppAccess
  <2>2. rows \in SUBSET mine /\ row \in mine /\ (valid => Valid(t))
    BY <1>2, <1>4
  <2> HIDE DEF rows, row, valid
  <2>3. QED
    BY <1>8, <2>1, <2>2
<1>10. CASE SetGlobalAdminAccess(r, c)
  <2> DEFINE row == RightRow(t, Global, Backend)
             valid == Valid(t)
  <2>1. \/ Administer(r, c, valid, <<Delete(mine)>>)
        \/ Administer(r, c, valid, <<Delete(mine), Upsert(row, 1)>>)
    BY <1>10 DEF SetGlobalAdminAccess, mine
  <2>2. mine \in SUBSET mine /\ row \in mine /\ (valid => Valid(t))
    BY <1>2, <1>4
  <2> HIDE DEF row, valid
  <2>3. QED
    BY <1>8, <2>1, <2>2
<1>11. QED
  BY <1>6, <1>7, <1>9, <1>10

LEMMA WholeInit == Init => Whole
<1> SUFFICES ASSUME Init
             PROVE  Whole
  OBVIOUS
<1>1. Inv
  BY InvInit
<1>2. \A r \in Request : pc[r] = "idle"
  BY DEF Init
<1>3. Fresh /\ Careful
  BY <1>2 DEF Init, Fresh, Careful, Made
<1>4. QED
  BY <1>1, <1>3 DEF Whole

LEMMA WholeNext == Whole /\ [Next]_vars => Whole'
<1> SUFFICES ASSUME Whole, [Next]_vars
             PROVE  Whole'
  OBVIOUS
<1>1. Inv'
  BY InvNext DEF Whole
<1>2. ASSUME NEW r \in Request, NEW c \in Commands, Ask(r, c)
      PROVE  Fresh' /\ Careful'
  <2>1. CASE DeleteContacts(r, c)
    <3> DEFINE s == << Delete(RightsOf(c.contacts)),
                       Delete({MemberRow(m, g) : m \in c.contacts, g \in Group}),
                       Delete({ContactRow(m) : m \in c.contacts}) >>
    <3>1. Open(r, c, s) /\ pc[r] = "idle" /\ c.op = "delete_contacts"
      BY <2>1 DEF DeleteContacts, Asks
    <3>2. Fits(c, db, s)
      BY <3>1, ContactDeletionFits
    <3> HIDE DEF s
    <3>3. QED
      BY <3>1, <3>2, OpenWhole
  <2>2. QED
    BY <1>2, <2>1, GroupWhole, MembersWhole, RightsWhole DEF Ask
<1>3. ASSUME NEW r \in Request, RollBack(r)
      PROVE  Fresh' /\ Careful'
  BY <1>3, FailWhole DEF RollBack
<1>4. CASE UNCHANGED vars
  <2>1. Fresh' /\ Careful'
    BY <1>4 DEF Whole, vars, Fresh, Careful, Made
  <2>2. QED
    BY <1>1, <2>1 DEF Whole
<1>5. CASE Next
  <2>1. Fresh' /\ Careful'
    BY <1>2, <1>3, <1>5, DeleteWhole, InsertWhole, RecountWhole, TouchWhole, CreateWhole,
       CommitWhole DEF Next
  <2>2. QED
    BY <1>1, <2>1 DEF Whole
<1>6. QED
  BY <1>4, <1>5

(* A commit that nobody has overtaken leaves the tables as whole as it has *)
(* found them.                                                             *)
LEMMA CommitKeeps ==
    ASSUME Whole, NEW r \in Request, Commit(r), ~overtaken[r]
    PROVE  /\ Orphans(db') \subseteq Orphans(db)
           /\ cmd[r].op # "delete_contacts" => Miscounted(db') \subseteq Miscounted(db)
<1> DEFINE c == cmd[r]
           v == view[r]
           w == written[r]
           e == Applied(r)
<1>1. /\ pc[r] = "open" /\ todo[r] = <<>> /\ db' = e
      /\ c \in Commands /\ DOMAIN w \subseteq Row /\ db \in Directory
  BY DEF Commit, Whole, Inv, TypeOK, Serving
<1>2. /\ v \in Directory /\ Sound(c, v, <<>>, w) /\ Agrees(c, v, db)
      /\ Removed(c, v, <<>>, w) /\ Counted(c, v, <<>>, w)
  BY <1>1 DEF Whole, Careful
<1>3. \A x \in Row : e[x] = IF x \in DOMAIN w THEN w[x] ELSE db[x]
  BY AppliedTyped DEF Whole
<1>4. c.op = "create_group" => \A g \in Group : GroupRow(g) \in DOMAIN w => MembersOf(db, g) = {}
  BY <1>1 DEF Whole, Fresh, Made
<1> HIDE DEF c, v, w, e
<1>5. Orphans(e) \subseteq Orphans(db)
  BY <1>1, <1>2, <1>3, OrphansKept
<1>6. c.op # "delete_contacts" => Miscounted(e) \subseteq Miscounted(db)
  BY <1>1, <1>2, <1>3, <1>4, CountsKept
<1>7. QED
  BY <1>1, <1>5, <1>6 DEF c

(* Each use case is a read, a plan and a recount over three tables: it     *)
(* leaves no orphan and no wrong count behind unless another transaction   *)
(* has changed, since its first read, the rows it is about.                *)
THEOREM UndisturbedIsSafe == Spec => UndisturbedKeepsWhole
<1> DEFINE Kept ==
        \A r \in Request : Closes(r) /\ ~overtaken[r] =>
           /\ Orphans(db') \subseteq Orphans(db)
           /\ cmd[r].op # "delete_contacts" => Miscounted(db') \subseteq Miscounted(db)
<1>1. Whole /\ [Next]_vars => Kept
  <2> SUFFICES ASSUME Whole, [Next]_vars, NEW r \in Request, Closes(r), ~overtaken[r]
               PROVE  /\ Orphans(db') \subseteq Orphans(db)
                      /\ cmd[r].op # "delete_contacts" => Miscounted(db') \subseteq Miscounted(db)
    BY DEF Kept
  <2>1. CASE db' = db
    <3>1. Orphans(db') = Orphans(db) /\ Miscounted(db') = Miscounted(db)
      BY <2>1
    <3>2. QED
      BY <3>1
  <2>2. CASE db' # db
    <3>1. PICK q \in Request :
              \/ \E c \in Commands : Ask(q, c)
              \/ DeleteRows(q) \/ InsertRow(q) \/ UpsertRow(q) \/ RecountGroup(q)
              \/ TouchGroup(q) \/ CreateRow(q) \/ Commit(q) \/ RollBack(q)
      BY <2>2 DEF Next, vars
    <3>2. Commit(q)
      BY <2>2, <3>1, AskWritesNothing, StatementWritesNothing
    <3>3. q = r
      BY <3>2 DEF Commit, Close, Closes, Whole, Inv, TypeOK
    <3>4. QED
      BY <3>2, <3>3, CommitKeeps
  <2>3. QED
    BY <2>1, <2>2
<1>2. QED
  BY <1>1, WholeInit, WholeNext, PTL DEF Spec, UndisturbedKeepsWhole
=============================================================================
