---------------------- MODULE OAuthAuthorizationProofs ----------------------
(***************************************************************************)
(* Proofs about OAuthAuthorization, for every number of tabs, users,       *)
(* versions, applications, sessions and tokens, and any number of requests *)
(* and changes.                                                            *)
(***************************************************************************)
EXTENDS OAuthAuthorization, TLAPS

USE DistinctAssumption

Forms == {"none", "get", "login", "approve", "deny", "logout", "cancel"}
Answers == {"none", "cancelled", "login_page", "refused", "logged_in", "logged_out", "invalid",
            "consent_page", "denied", "granted", "failed"}
Jar == [session : SessionId \cup {None}, persistent : Credential \cup {None},
        csrf : Csrf \cup {None}]
Shown == {p \in [kind : {"blank", "login", "consent"}, csrf : Csrf \cup {None}] :
             p.kind # "blank" => p.csrf # None}
Disposition == [session : SessionId \cup {Keep, Clear},
                persistent : Credential \cup {Keep, Clear}]
Local == [pc : Points, form : Forms, token : Csrf \cup {None}, typed : Credential \cup {None},
          remember : BOOLEAN, carried : Jar, subject : User \cup {None},
          fresh : SessionId \cup {None}, first : Disposition, second : Disposition,
          left : SUBSET App, scope : SUBSET App, page : Shown, csrf : Csrf \cup {None},
          answer : Answers]

TypeOK ==
    /\ contact \in [User -> [enabled : BOOLEAN, version : Version]]
    /\ access \in [User -> SUBSET App]
    /\ session \in [SessionId -> Credential \cup {None}]
    /\ cookies \in Jar
    /\ page \in [Tab -> Shown]
    /\ http \in [Tab -> Local]
    /\ overlap \in BOOLEAN
    /\ out \in BOOLEAN
    /\ held \in [Tab -> SUBSET App]

-----------------------------------------------------------------------------
(* The inductive invariant: what is so of the request h of a tab.          *)

Keeps(d) == d.session = Keep /\ d.persistent = Keep
Clears(d) == d.session = Clear /\ d.persistent = Clear

(* The locals of the handler that its point relies on. *)
Known(h) ==
    /\ h.form = "login" /\ h.pc # "answered" => h.typed \in Credential
    /\ h.pc \in {"credential", "restore"} => h.carried.persistent # None
    /\ h.pc \in {"identify", "open", "remember"} => h.form = "login"
    /\ h.pc \in {"signed_in", "logout", "scope", "issue"} => h.subject \in User
    /\ h.pc # "idle" => h.form # "none"
    /\ h.form = "cancel" => h.pc \in {"received", "answered"}

(* A session opened for a request is the one its answer leaves behind.     *)
Delivers(h) ==
    /\ h.pc = "received" => Keeps(h.first)
    /\ h.pc \in {"received", "credential", "restore", "anonymous", "identify", "open"} =>
          h.fresh = None /\ Keeps(h.second)
    /\ h.pc \in {"signed_in", "logout", "scope", "issue"} =>
          Keeps(h.second) /\ (h.fresh # None => h.first.session = h.fresh)
    /\ h.pc = "remember" =>
          h.fresh \in SessionId /\ h.second.session = h.fresh /\ h.second.persistent = Keep
    /\ h.pc = "answered" =>
          IF h.answer = "logged_out" THEN Clears(h.second)
          ELSE h.fresh # None =>
                  \/ h.second.session = h.fresh
                  \/ h.first.session = h.fresh /\ h.second.session = Keep

(* The scope grows out of k, what the subject could open meanwhile.        *)
Consented(h, k) ==
    /\ h.pc # "answered" => h.answer = "none"
    /\ h.pc \notin {"scope", "issue", "answered"} => h.scope = {}
    /\ h.pc \in {"scope", "issue"} => h.scope \subseteq k
    /\ h.pc = "scope" => MayOpen(h.subject) \subseteq k
    /\ h.pc = "issue" => h.form = "approve" /\ h.scope # {}
    /\ h.answer = "granted" =>
          h.pc = "answered" /\ h.form = "approve" /\ h.scope # {} /\ h.scope \subseteq k

(* After signing out no request has a cookie, and none sets one.           *)
KeptOut(h) ==
    out /\ h.pc # "idle" =>
        /\ h.pc \in {"received", "anonymous", "answered"}
        /\ Keeps(h.first) /\ Keeps(h.second)
        /\ h.pc # "answered" => /\ h.form # "login"
                                /\ h.carried.session = None
                                /\ h.carried.persistent = None

(* A request that is alone carries the browser's cookies still, and the    *)
(* token of its form is the one among them.                                *)
Fits(h) ==
    ~overlap /\ h.pc # "idle" =>
        /\ h.pc # "answered" =>
              /\ h.carried = cookies
              /\ h.token \in {None, cookies.csrf}
              /\ h.form \in {"login", "approve", "deny", "logout"} => h.token # None
        /\ h.pc = "answered" =>
              /\ h.answer # "refused"
              /\ h.csrf # None => cookies.csrf = None /\ h.page.csrf \in {None, h.csrf}
              /\ h.csrf = None => h.page.csrf \in {None, cookies.csrf}

(* A session s and a credential p that may stand side by side.             *)
Agree(s, p) ==
    s # None /\ p # None => session[s] \in {None} \cup {<<p[1], v>> : v \in Version}

(* The cookies as the answer will have left them. *)
SessionAfter(h) == Changed(Changed(cookies.session, h.first.session), h.second.session)
PersistentAfter(h) ==
    Changed(Changed(cookies.persistent, h.first.persistent), h.second.persistent)

Paired(h) ==
    Persistent /\ ~overlap /\ h.pc # "idle" =>
        /\ Agree(SessionAfter(h), PersistentAfter(h))
        /\ h.pc \in {"credential", "restore", "anonymous", "identify", "open"} =>
              SessionAfter(h) = None
        /\ h.pc \in {"anonymous", "identify", "open", "remember"} => PersistentAfter(h) = None
        /\ h.pc = "remember" => session[h.fresh] \in {None, h.typed}

TabOK(h, k) ==
    Known(h) /\ Delivers(h) /\ Consented(h, k) /\ KeptOut(h) /\ Fits(h) /\ Paired(h)

BrowserOK ==
    /\ ~overlap => \A t, q \in Tab : InFlight(t) /\ InFlight(q) => t = q
    /\ ~overlap => \A t \in Tab : page[t].csrf \in {None, cookies.csrf}
    /\ Persistent /\ ~overlap => Agree(cookies.session, cookies.persistent)
    /\ out => cookies.session = None /\ cookies.persistent = None

Inv == TypeOK /\ BrowserOK /\ \A t \in Tab : TabOK(http[t], held[t])

-----------------------------------------------------------------------------
LEMMA IdleTyped == /\ Idle \in Local /\ Idle.pc = "idle" /\ Idle.scope = {}
                   /\ Idle.answer = "none" /\ Idle.form = "none" /\ Idle.page = Blank
<1>1. Blank \in Shown
  BY DEF Blank, Shown
<1>2. NoCookies \in Jar
  BY DEF NoCookies, Jar
<1>3. KeepBoth \in Disposition
  BY DEF KeepBoth, Disposition
<1> DEFINE b == Blank
           n == NoCookies
           d == KeepBoth
<1> HIDE DEF b, n, d
<1>4. [pc |-> "idle", form |-> "none", token |-> None, typed |-> None,
         remember |-> FALSE, carried |-> n, subject |-> None, fresh |-> None,
         first |-> d, second |-> d, left |-> {}, scope |-> {},
         page |-> b, csrf |-> None, answer |-> "none"] \in Local
  BY <1>1, <1>2, <1>3 DEF Local, Points, Forms, Answers, b, n, d
<1>5. Idle \in Local
  BY <1>4 DEF Idle, b, n, d
<1>6. QED
  BY <1>5 DEF Idle

LEMMA BlankShown == Blank \in Shown /\ Blank.csrf = None
BY DEF Blank, Shown

LEMMA IdleOK == \A k : TabOK(Idle, k)
BY IdleTyped DEF TabOK, Known, Delivers, Consented, KeptOut, Fits, Paired

LEMMA AfterIs ==
    ASSUME Inv, NEW h \in Local
    PROVE  /\ Disposed(Disposed(cookies, h.first), h.second).session = SessionAfter(h)
           /\ Disposed(Disposed(cookies, h.first), h.second).persistent = PersistentAfter(h)
           /\ Disposed(Disposed(cookies, h.first), h.second).csrf = cookies.csrf
           /\ Disposed(Disposed(cookies, h.first), h.second) \in Jar
           /\ SessionAfter(h) \in SessionId \cup {None}
           /\ PersistentAfter(h) \in Credential \cup {None}
<1>1. \A jar \in Jar, d \in Disposition :
         /\ Disposed(jar, d) \in Jar /\ Disposed(jar, d).csrf = jar.csrf
         /\ Disposed(jar, d).session = Changed(jar.session, d.session)
         /\ Disposed(jar, d).persistent = Changed(jar.persistent, d.persistent)
  <2> TAKE jar \in Jar, d \in Disposition
  <2>1. /\ Changed(jar.session, d.session) \in SessionId \cup {None}
        /\ Changed(jar.persistent, d.persistent) \in Credential \cup {None}
    <3>1. /\ jar.session \in SessionId \cup {None} /\ jar.persistent \in Credential \cup {None}
          /\ d.session \in SessionId \cup {Keep, Clear}
          /\ d.persistent \in Credential \cup {Keep, Clear}
      BY DEF Jar, Disposition
    <3> HIDE DEF Credential
    <3>2. QED
      BY <3>1 DEF Changed
  <2> HIDE DEF Changed, Credential
  <2>2. QED
    BY <2>1 DEF Disposed, Jar
<1>2. cookies \in Jar /\ h.first \in Disposition /\ h.second \in Disposition
  BY DEF Inv, TypeOK, Local
<1> HIDE DEF Disposed
<1>3. QED
  BY <1>1, <1>2 DEF SessionAfter, PersistentAfter, Jar

-----------------------------------------------------------------------------
(* Steps of the handler.                                                   *)

(* What the steps of other requests leave as it is, while there are any.   *)
LEMMA OtherTab ==
    ASSUME Inv, NEW q \in Tab, http'[q] = http[q], held'[q] = held[q],
           UNCHANGED <<contact, access>>,
           out' /\ http[q].pc # "idle" => out,
           ~overlap' => http[q].pc = "idle"
    PROVE  TabOK(http[q], held[q])'
<1>1. PICK h, k : h = http[q] /\ k = held[q]
  OBVIOUS
<1>2. TabOK(h, k) /\ http'[q] = h /\ held'[q] = k
  BY <1>1 DEF Inv
<1>3. Known(h)' /\ Delivers(h)'
  BY <1>2 DEF TabOK, Known, Delivers
<1>4. Consented(h, k)'
  BY <1>2 DEF TabOK, Consented, MayOpen
<1>5. KeptOut(h)'
  BY <1>1, <1>2 DEF TabOK, KeptOut
<1>6. Fits(h)' /\ Paired(h)'
  BY <1>1 DEF Fits, Paired
<1>7. TabOK(h, k)'
  BY <1>3, <1>4, <1>5, <1>6 DEF TabOK
<1>8. QED
  BY <1>2, <1>7

(* A step for one request leaves the others, and the browser, as they are: *)
(* the session cookie's session may end, and does not become another.      *)
LEMMA TabStep ==
    ASSUME Inv, NEW t \in Tab, InFlight(t), NEW g \in Local, NEW k \in SUBSET App,
           http' = [http EXCEPT ![t] = g], held' = [held EXCEPT ![t] = k],
           g.pc # "idle", TabOK(g, k)',
           UNCHANGED <<contact, access, cookies, page, out>>,
           session' \in [SessionId -> Credential \cup {None}],
           cookies.session # None => session'[cookies.session] \in {session[cookies.session], None},
           overlap' \in {overlap, TRUE}
    PROVE  Inv'
<1>1. /\ http'[t] = g /\ held'[t] = k
      /\ \A q \in Tab \ {t} : http'[q] = http[q] /\ held'[q] = held[q]
  BY DEF Inv, TypeOK
<1>2. TypeOK'
  BY DEF Inv, TypeOK
<1>3. ~overlap' => ~overlap
  BY DEF Inv, TypeOK
<1>4. \A q \in Tab : InFlight(q)' <=> InFlight(q)
  BY <1>1 DEF InFlight
<1>5. BrowserOK'
  <2>1. ~overlap' => \A p, q \in Tab : InFlight(p)' /\ InFlight(q)' => p = q
    BY <1>3, <1>4 DEF Inv, BrowserOK
  <2>2. Persistent /\ ~overlap' => Agree(cookies.session, cookies.persistent)'
    BY <1>3 DEF Inv, BrowserOK, Agree
  <2>3. QED
    BY <1>3, <2>1, <2>2 DEF Inv, BrowserOK
<1>6. ASSUME NEW q \in Tab, q # t
      PROVE  TabOK(http[q], held[q])'
  <2>1. ~overlap => http[q].pc = "idle"
    BY <1>6 DEF Inv, BrowserOK, InFlight
  <2>2. QED
    BY <1>1, <1>3, <1>6, <2>1, OtherTab
<1>7. TabOK(http[t], held[t])'
  BY <1>1
<1>8. QED
  BY <1>2, <1>5, <1>6, <1>7 DEF Inv

(* The locals an unfinished request keeps, and those an answer keeps.      *)
Same(h, g) ==
    /\ g.form = h.form /\ g.token = h.token /\ g.typed = h.typed /\ g.remember = h.remember
    /\ g.carried = h.carried /\ g.page = h.page /\ g.csrf = h.csrf /\ g.answer = h.answer
Ended(h, g, a) ==
    /\ g.pc = "answered" /\ g.answer = a /\ g.form = h.form
    /\ g.fresh = h.fresh /\ g.first = h.first /\ g.second = h.second

(* The page of an answer has the token of the request, or a new one.       *)
TokenOf(h, g) ==
    \/ g.csrf = None /\ g.page.csrf = None
    \/ h.carried.csrf # None /\ g.csrf = None /\ g.page.csrf = h.carried.csrf
    \/ h.carried.csrf = None /\ g.csrf # None /\ g.page.csrf = g.csrf

LEMMA MovedIs ==
    ASSUME NEW h \in Local, NEW p \in Points, NEW g, g = [h EXCEPT !.pc = p]
    PROVE  /\ g \in Local /\ g.pc = p /\ Same(h, g)
           /\ g.subject = h.subject /\ g.fresh = h.fresh /\ g.first = h.first
           /\ g.second = h.second /\ g.left = h.left /\ g.scope = h.scope
BY DEF Local, Same

LEMMA AnsweredIs ==
    ASSUME Inv, NEW t \in Tab, NEW a \in Answers, NEW g, g = Answered(t, a)
    PROVE  /\ g \in Local /\ Ended(http[t], g, a)
           /\ g.csrf = None /\ g.page = Blank /\ g.page.csrf = None
<1> DEFINE i == Idle
           h == http[t]
<1>1. i \in Local /\ i.page = Blank
  BY IdleTyped
<1>2. i.csrf = None /\ i.page.csrf = None
  BY DEF Idle, Blank
<1>3. h \in Local
  BY DEF Inv, TypeOK
<1>4. g = [i EXCEPT !.pc = "answered", !.form = h.form, !.fresh = h.fresh,
                    !.first = h.first, !.second = h.second, !.answer = a]
  BY DEF Answered
<1> HIDE DEF i, h
<1>5. /\ g \in Local /\ Ended(h, g, a) /\ g.csrf = i.csrf /\ g.page = i.page
  BY <1>1, <1>3, <1>4, ZenonT(40) DEF Local, Ended, Points
<1>6. QED
  BY <1>1, <1>2, <1>5 DEF h

LEMMA RenderIs ==
    ASSUME Inv, NEW t \in Tab, NEW kind \in {"login", "consent"}, NEW a \in Answers,
           Render(t, kind, a)
    PROVE  \E g \in Local : /\ http' = [http EXCEPT ![t] = g]
                            /\ Ended(http[t], g, a) /\ TokenOf(http[t], g)
<1>1. PICK j : j = Answered(t, a)
  OBVIOUS
<1>2. j \in Local /\ Ended(http[t], j, a)
  BY <1>1, AnsweredIs
<1> DEFINE own == http[t].carried.csrf
           token == IF own # None THEN own ELSE NewToken
           set == IF own = None THEN token ELSE None
           shown == [kind |-> kind, csrf |-> token]
           g == [j EXCEPT !.csrf = set, !.page = shown]
<1>3. http' = [http EXCEPT ![t] = g]
  BY <1>1 DEF Render
<1>4. own \in Csrf \cup {None}
  BY DEF Inv, TypeOK, Local, Jar
<1>5. own = None => NewToken \in Csrf
  BY DEF Render, NewToken, FreeTokens
<1>6. token \in Csrf /\ set \in Csrf \cup {None}
  BY <1>4, <1>5
<1>7. shown \in Shown /\ shown.csrf = token
  BY <1>6 DEF Shown
<1> HIDE DEF shown, token
<1>8. /\ g \in Local /\ g.csrf = set /\ g.page = shown
      /\ g.pc = j.pc /\ g.answer = j.answer /\ g.form = j.form
      /\ g.fresh = j.fresh /\ g.first = j.first /\ g.second = j.second
  <2> HIDE DEF set
  <2>1. QED
    BY <1>2, <1>6, <1>7 DEF Local
<1>9. Ended(http[t], g, a)
  BY <1>2, <1>8 DEF Ended
<1>10. TokenOf(http[t], g)
  BY <1>6, <1>7, <1>8 DEF TokenOf, token
<1>11. QED
  BY <1>3, <1>8, <1>9, <1>10

(* An answer that neither grants nor signs out.                            *)
LEMMA EndStep ==
    ASSUME Inv, NEW t \in Tab, http[t].pc \notin {"idle", "answered"},
           NEW a \in Answers \ {"none", "granted", "logged_out"}, NEW g \in Local,
           http' = [http EXCEPT ![t] = g], Ended(http[t], g, a), TokenOf(http[t], g),
           a = "refused" => overlap,
           UNCHANGED <<contact, access, session, cookies, page, out, held>>,
           overlap' \in {overlap, TRUE}
    PROVE  Inv'
<1>1. PICK h \in Local : h = http[t]
  BY DEF Inv, TypeOK
<1>2. PICK k \in SUBSET App : k = held[t]
  BY DEF Inv, TypeOK
<1>3. TabOK(h, k) /\ h.pc \notin {"idle", "answered"} /\ Ended(h, g, a) /\ TokenOf(h, g)
  BY <1>1, <1>2 DEF Inv
<1>4. ~overlap' => ~overlap
  BY DEF Inv, TypeOK
<1>5. Known(g)' /\ Delivers(g)'
  <2>1. h.pc \in Points
    BY DEF Local
  <2>2. QED
    BY <1>3, <2>1 DEF TabOK, Known, Delivers, Ended, Points, Keeps
<1>6. Consented(g, k)'
  BY <1>3 DEF Consented, Ended
<1>7. KeptOut(g)'
  BY <1>3 DEF TabOK, KeptOut, Ended, Keeps
<1>8. Fits(g)'
  BY <1>3, <1>4 DEF TabOK, Fits, Ended, TokenOf
<1>9. Paired(g)'
  <2>1. SessionAfter(g)' = SessionAfter(h) /\ PersistentAfter(g)' = PersistentAfter(h)
    BY <1>3 DEF SessionAfter, PersistentAfter, Ended
  <2>2. QED
    BY <1>3, <1>4, <2>1 DEF TabOK, Paired, Ended, Agree
<1>10. held' = [held EXCEPT ![t] = k]
  BY <1>2 DEF Inv, TypeOK
<1>11. TabOK(g, k)' /\ g.pc # "idle" /\ InFlight(t)
  BY <1>1, <1>3, <1>5, <1>6, <1>7, <1>8, <1>9 DEF TabOK, Ended, InFlight
<1>12. /\ session' \in [SessionId -> Credential \cup {None}]
       /\ cookies.session # None => session'[cookies.session] \in {session[cookies.session], None}
  BY DEF Inv, TypeOK
<1>13. QED
  BY <1>10, <1>11, <1>12, TabStep

LEMMA AnswerStep ==
    ASSUME Inv, NEW t \in Tab, http[t].pc \notin {"idle", "answered"},
           NEW a \in Answers \ {"none", "granted", "logged_out"}, Answer(t, a),
           a = "refused" => overlap,
           UNCHANGED <<contact, access, session, cookies, page, overlap, out, held>>
    PROVE  Inv'
<1>1. PICK g : g = Answered(t, a)
  OBVIOUS
<1>2. g \in Local /\ Ended(http[t], g, a) /\ TokenOf(http[t], g)
  BY <1>1, AnsweredIs DEF TokenOf
<1>3. http' = [http EXCEPT ![t] = g]
  BY <1>1 DEF Answer
<1>4. QED
  BY <1>2, <1>3, EndStep

LEMMA RenderStep ==
    ASSUME Inv, NEW t \in Tab, http[t].pc \notin {"idle", "answered"},
           NEW kind \in {"login", "consent"},
           NEW a \in Answers \ {"none", "granted", "logged_out"}, Render(t, kind, a),
           a = "refused" => overlap,
           UNCHANGED <<contact, access, session, cookies, page, out, held>>,
           overlap' \in {overlap, TRUE}
    PROVE  Inv'
<1>1. PICK g \in Local : /\ http' = [http EXCEPT ![t] = g]
                         /\ Ended(http[t], g, a) /\ TokenOf(http[t], g)
  BY RenderIs
<1>2. QED
  BY <1>1, EndStep

(* A request that goes on.                                                 *)
LEMMA GoStep ==
    ASSUME Inv, NEW t \in Tab, http[t].pc \notin {"idle", "answered"},
           NEW g \in Local, NEW k \in SUBSET App,
           http' = [http EXCEPT ![t] = g], held' = [held EXCEPT ![t] = k],
           Same(http[t], g), g.pc \notin {"idle", "answered"},
           UNCHANGED <<contact, access, cookies, page, out>>,
           session' \in [SessionId -> Credential \cup {None}],
           cookies.session # None => session'[cookies.session] \in {session[cookies.session], None},
           overlap' \in {overlap, TRUE},
           Known(g), Delivers(g), Consented(g, k), KeptOut(g), Paired(g)'
    PROVE  Inv'
<1>1. PICK h \in Local : h = http[t]
  BY DEF Inv, TypeOK
<1>2. TabOK(h, held[t]) /\ h.pc \notin {"idle", "answered"} /\ Same(h, g)
  BY <1>1 DEF Inv
<1>3. ~overlap' => ~overlap
  BY DEF Inv, TypeOK
<1>4. Known(g)' /\ Delivers(g)'
  BY DEF Known, Delivers, Keeps, Clears
<1>5. Consented(g, k)'
  BY DEF Consented, MayOpen
<1>6. KeptOut(g)'
  BY DEF KeptOut, Keeps
<1>7. Fits(g)'
  BY <1>2, <1>3 DEF TabOK, Fits, Same
<1>8. TabOK(g, k)' /\ g.pc # "idle" /\ InFlight(t)
  BY <1>1, <1>2, <1>4, <1>5, <1>6, <1>7 DEF TabOK, InFlight
<1>9. QED
  BY <1>8, TabStep

LEMMA GotoStep ==
    ASSUME Inv, NEW t \in Tab, NEW p \in Points, Goto(t, p),
           \/ /\ http[t].pc = "received" /\ http[t].form # "cancel"
              /\ http[t].carried.session = None /\ p = Unauthenticated(t)
           \/ http[t].pc = "credential" /\ p = "restore"
           \/ http[t].pc = "restore" /\ p = "anonymous" /\ overlap'
           \/ http[t].pc = "anonymous" /\ p = "identify" /\ http[t].form = "login"
           \/ http[t].pc = "identify" /\ p = "open"
           \/ http[t].pc = "signed_in" /\ p = "logout"
           \/ /\ http[t].pc = "scope" /\ p = "issue"
              /\ http[t].form = "approve" /\ http[t].scope # {},
           UNCHANGED <<contact, access, session, cookies, page, out, held>>,
           overlap' \in {overlap, TRUE}
    PROVE  Inv'
<1>1. PICK h \in Local : h = http[t]
  BY DEF Inv, TypeOK
<1>2. PICK k \in SUBSET App : k = held[t]
  BY DEF Inv, TypeOK
<1>3. PICK g : g = [h EXCEPT !.pc = p]
  OBVIOUS
<1>4. http' = [http EXCEPT ![t] = g] /\ held' = [held EXCEPT ![t] = k]
  BY <1>1, <1>2, <1>3 DEF Goto, Inv, TypeOK
<1>5. /\ g \in Local /\ g.pc = p /\ Same(h, g)
      /\ g.subject = h.subject /\ g.fresh = h.fresh /\ g.first = h.first
      /\ g.second = h.second /\ g.left = h.left /\ g.scope = h.scope
  BY <1>3, MovedIs
<1>6. TabOK(h, k)
  BY <1>1, <1>2 DEF Inv
<1>7. \/ /\ h.pc = "received" /\ h.form # "cancel" /\ h.carried.session = None
         /\ p = IF Persistent /\ h.carried.persistent # None THEN "credential" ELSE "anonymous"
      \/ h.pc = "credential" /\ p = "restore"
      \/ h.pc = "restore" /\ p = "anonymous" /\ overlap'
      \/ h.pc = "anonymous" /\ p = "identify" /\ h.form = "login"
      \/ h.pc = "identify" /\ p = "open"
      \/ h.pc = "signed_in" /\ p = "logout"
      \/ h.pc = "scope" /\ p = "issue" /\ h.form = "approve" /\ h.scope # {}
  BY <1>1 DEF Unauthenticated
<1>8. Known(g)
  BY <1>5, <1>6, <1>7 DEF TabOK, Known, Same
<1>9. Delivers(g)
  BY <1>5, <1>6, <1>7 DEF TabOK, Delivers
<1>10. Consented(g, k)
  BY <1>5, <1>6, <1>7 DEF TabOK, Consented, Same
<1>11. KeptOut(g)
  BY <1>5, <1>6, <1>7 DEF TabOK, KeptOut, Same
<1>12. Paired(g)'
  <2> SUFFICES ASSUME Persistent, ~overlap'
               PROVE  /\ Agree(SessionAfter(g), PersistentAfter(g))'
                      /\ g.pc \in {"credential", "restore", "anonymous", "identify", "open"} =>
                            SessionAfter(g)' = None
                      /\ g.pc \in {"anonymous", "identify", "open"} => PersistentAfter(g)' = None
    BY <1>5, <1>7 DEF Paired
  <2>1. ~overlap
    BY DEF Inv, TypeOK
  <2>2. SessionAfter(g)' = SessionAfter(h) /\ PersistentAfter(g)' = PersistentAfter(h)
    BY <1>5 DEF SessionAfter, PersistentAfter
  <2>3. Agree(SessionAfter(g), PersistentAfter(g))' 
    BY <1>6, <1>7, <2>1, <2>2 DEF TabOK, Paired, Agree
  <2>4. CASE h.pc = "received"
    <3>1. h.carried = cookies
      BY <1>6, <2>1, <2>4 DEF TabOK, Fits
    <3>2. SessionAfter(h) = cookies.session /\ PersistentAfter(h) = cookies.persistent
      BY <1>6, <2>4 DEF TabOK, Delivers, Keeps, SessionAfter, PersistentAfter, Changed
    <3>3. QED
      BY <1>5, <1>7, <2>2, <2>3, <2>4, <3>1, <3>2
  <2>5. CASE h.pc # "received"
    BY <1>5, <1>6, <1>7, <2>1, <2>2, <2>3, <2>5 DEF TabOK, Paired
  <2>6. QED
    BY <2>4, <2>5
<1>13. /\ http[t].pc \notin {"idle", "answered"} /\ Same(http[t], g)
       /\ g.pc \notin {"idle", "answered"}
  BY <1>1, <1>5, <1>7
<1>14. /\ session' \in [SessionId -> Credential \cup {None}]
       /\ cookies.session # None => session'[cookies.session] \in {session[cookies.session], None}
  BY DEF Inv, TypeOK
<1>15. QED
  BY <1>4, <1>5, <1>8, <1>9, <1>10, <1>11, <1>12, <1>13, <1>14, GoStep

-----------------------------------------------------------------------------
(* The handler, one action after the other.                                *)

LEMMA ResolveSessionStep ==
    ASSUME Inv, NEW t \in Tab, ResolveSession(t)
    PROVE  Inv'
<1>1. PICK h \in Local : h = http[t]
  BY DEF Inv, TypeOK
<1>2. PICK k \in SUBSET App : k = held[t]
  BY DEF Inv, TypeOK
<1>3. PICK s \in SessionId \cup {None} : s = h.carried.session
  BY DEF Local, Jar
<1>4. /\ TabOK(h, k) /\ h.pc = "received" /\ h.form # "cancel"
      /\ held' = [held EXCEPT ![t] = k]
      /\ UNCHANGED <<contact, access, cookies, page, out, overlap>>
      /\ overlap' \in {overlap, TRUE}
  BY <1>1, <1>2 DEF Inv, TypeOK, ResolveSession
<1>5. h.carried \in Jar /\ h.first \in Disposition
  BY DEF Local
<1>6. ~overlap => /\ SessionAfter(h) = cookies.session /\ PersistentAfter(h) = cookies.persistent
                  /\ h.carried = cookies
  BY <1>4 DEF TabOK, Delivers, Fits, Keeps, SessionAfter, PersistentAfter, Changed
<1>7. CASE s = None /\ Goto(t, Unauthenticated(t)) /\ UNCHANGED session
  <2>1. Unauthenticated(t) \in Points
    BY DEF Unauthenticated, Points
  <2>2. PICK p \in Points : p = Unauthenticated(t)
    BY <2>1
  <2>3. UNCHANGED held
    BY DEF ResolveSession
  <2>4. /\ http[t].pc = "received" /\ http[t].form # "cancel"
        /\ http[t].carried.session = None /\ Goto(t, p)
    BY <1>1, <1>3, <1>4, <1>7, <2>2
  <2>5. QED
    BY <1>4, <1>7, <2>2, <2>3, <2>4, GotoStep
<1>8. CASE /\ s # None /\ Honoured(s) /\ UNCHANGED session
           /\ http' = [http EXCEPT ![t].pc = "signed_in", ![t].subject = session[s][1]]
  <2>1. session[s] \in Credential
    BY <1>8 DEF Honoured, Inv, TypeOK
  <2>2. PICK u \in User : u = session[s][1]
    BY <2>1 DEF Credential
  <2>3. PICK g : g = [h EXCEPT !.pc = "signed_in", !.subject = u]
    OBVIOUS
  <2>4. http' = [http EXCEPT ![t] = g]
    BY <1>1, <1>8, <2>2, <2>3 DEF Inv, TypeOK
  <2>5. /\ g \in Local /\ g.pc = "signed_in" /\ g.subject = u /\ Same(h, g)
        /\ g.fresh = h.fresh /\ g.first = h.first /\ g.second = h.second /\ g.scope = h.scope
    BY <2>3 DEF Local, Same, Points
  <2>6. Known(g) /\ Delivers(g) /\ Consented(g, k)
    BY <1>4, <2>5 DEF TabOK, Known, Delivers, Consented, Same
  <2>7. KeptOut(g)
    BY <1>3, <1>4, <1>8 DEF TabOK, KeptOut
  <2>8. Paired(g)'
    <3>1. SessionAfter(g)' = SessionAfter(h) /\ PersistentAfter(g)' = PersistentAfter(h)
      BY <1>4, <2>5 DEF SessionAfter, PersistentAfter
    <3>2. QED
      BY <1>4, <1>8, <2>5, <3>1 DEF TabOK, Paired, Agree
  <2>9. /\ session' \in [SessionId -> Credential \cup {None}]
        /\ cookies.session # None => session'[cookies.session] \in {session[cookies.session], None}
    BY <1>8 DEF Inv, TypeOK
  <2>10. /\ http[t].pc \notin {"idle", "answered"} /\ Same(http[t], g)
         /\ g.pc \notin {"idle", "answered"}
    BY <1>1, <1>4, <2>5
  <2>11. QED
    BY <1>4, <2>4, <2>5, <2>6, <2>7, <2>8, <2>9, <2>10, GoStep
<1>9. CASE /\ s # None /\ ~Honoured(s) /\ session' = [session EXCEPT ![s] = None]
           /\ http' = [http EXCEPT ![t].pc = Unauthenticated(t),
                                   ![t].first = [@ EXCEPT !.session = Clear]]
  <2>1. PICK p \in {"credential", "anonymous"} :
            p = IF Persistent /\ h.carried.persistent # None THEN "credential" ELSE "anonymous"
    OBVIOUS
  <2>2. PICK d : d = [h.first EXCEPT !.session = Clear]
    OBVIOUS
  <2>3. PICK g : g = [h EXCEPT !.pc = p, !.first = d]
    OBVIOUS
  <2>4. d \in Disposition /\ d.session = Clear /\ d.persistent = h.first.persistent
    BY <1>5, <2>2 DEF Disposition
  <2>5. http' = [http EXCEPT ![t] = g]
    BY <1>1, <1>9, <2>1, <2>2, <2>3 DEF Inv, TypeOK, Unauthenticated
  <2>6. /\ g \in Local /\ g.pc = p /\ Same(h, g) /\ g.first = d
        /\ g.fresh = h.fresh /\ g.second = h.second /\ g.scope = h.scope
    BY <2>3, <2>4 DEF Local, Same, Points
  <2>7. Known(g) /\ Delivers(g) /\ Consented(g, k)
    BY <1>4, <2>1, <2>6 DEF TabOK, Known, Delivers, Consented, Same
  <2>8. KeptOut(g)
    BY <1>3, <1>4, <1>9 DEF TabOK, KeptOut
  <2>9. Paired(g)'
    <3>1. SessionAfter(g)' = None
      BY <1>4, <2>4, <2>6 DEF TabOK, Delivers, Keeps, SessionAfter, Changed
    <3>2. PersistentAfter(g)' = PersistentAfter(h)
      BY <1>4, <2>4, <2>6 DEF PersistentAfter
    <3>3. ~overlap /\ Persistent /\ p = "anonymous" => PersistentAfter(h) = None
      BY <1>6, <2>1
    <3>4. QED
      BY <1>4, <2>1, <2>6, <3>1, <3>2, <3>3 DEF Paired, Agree
  <2>10. /\ session' \in [SessionId -> Credential \cup {None}]
         /\ cookies.session # None => session'[cookies.session] \in {session[cookies.session], None}
    BY <1>9 DEF Inv, TypeOK, Jar
  <2>11. /\ http[t].pc \notin {"idle", "answered"} /\ Same(http[t], g)
         /\ g.pc \notin {"idle", "answered"}
    BY <1>1, <1>4, <2>1, <2>6
  <2>12. QED
    BY <1>4, <2>5, <2>6, <2>7, <2>8, <2>9, <2>10, <2>11, GoStep
<1>10. QED
  BY <1>1, <1>3, <1>7, <1>8, <1>9 DEF ResolveSession

LEMMA ReadCredentialStep ==
    ASSUME Inv, NEW t \in Tab, ReadCredential(t)
    PROVE  Inv'
<1>1. PICK h \in Local : h = http[t]
  BY DEF Inv, TypeOK
<1>2. PICK k \in SUBSET App : k = held[t]
  BY DEF Inv, TypeOK
<1>3. /\ TabOK(h, k) /\ h.pc = "credential" /\ held' = [held EXCEPT ![t] = k]
      /\ UNCHANGED <<contact, access, session, cookies, page, out, overlap, held>>
      /\ overlap' \in {overlap, TRUE}
  BY <1>1, <1>2 DEF Inv, TypeOK, ReadCredential
<1>4. CASE http' = [http EXCEPT ![t].pc = "restore"]
  <2>1. Goto(t, "restore") /\ "restore" \in Points
    BY <1>4 DEF Goto, Points
  <2>2. http[t].pc = "credential"
    BY <1>1, <1>3
  <2>3. QED
    BY <1>3, <2>1, <2>2, GotoStep
<1>5. CASE http' = [http EXCEPT ![t].pc = "anonymous",
                                ![t].first = [@ EXCEPT !.persistent = Clear]]
  <2>1. PICK d : d = [h.first EXCEPT !.persistent = Clear]
    OBVIOUS
  <2>2. PICK g : g = [h EXCEPT !.pc = "anonymous", !.first = d]
    OBVIOUS
  <2>3. d \in Disposition /\ d.session = h.first.session /\ d.persistent = Clear
    BY <2>1 DEF Local, Disposition
  <2>4. http' = [http EXCEPT ![t] = g]
    BY <1>1, <1>5, <2>1, <2>2 DEF Inv, TypeOK
  <2>5. /\ g \in Local /\ g.pc = "anonymous" /\ Same(h, g) /\ g.first = d
        /\ g.fresh = h.fresh /\ g.second = h.second /\ g.scope = h.scope
    BY <2>2, <2>3 DEF Local, Same, Points
  <2>6. Known(g) /\ Delivers(g) /\ Consented(g, k)
    BY <1>3, <2>5 DEF TabOK, Known, Delivers, Consented, Same
  <2>7. KeptOut(g)
    BY <1>3 DEF TabOK, KeptOut
  <2>8. Paired(g)'
    <3>1. SessionAfter(g)' = SessionAfter(h)
      BY <1>3, <2>3, <2>5 DEF SessionAfter
    <3>2. PersistentAfter(g)' = None
      BY <1>3, <2>3, <2>5 DEF TabOK, Delivers, Keeps, PersistentAfter, Changed
    <3>3. QED
      BY <1>3, <2>5, <3>1, <3>2 DEF TabOK, Paired, Agree
  <2>9. /\ session' \in [SessionId -> Credential \cup {None}]
        /\ cookies.session # None => session'[cookies.session] \in {session[cookies.session], None}
    BY <1>3 DEF Inv, TypeOK
  <2>10. /\ http[t].pc \notin {"idle", "answered"} /\ Same(http[t], g)
         /\ g.pc \notin {"idle", "answered"}
    BY <1>1, <1>3, <2>5
  <2>11. QED
    BY <1>3, <2>4, <2>5, <2>6, <2>7, <2>8, <2>9, <2>10, GoStep
<1>6. QED
  BY <1>4, <1>5 DEF ReadCredential

(* A new session: nobody knows its id, and nothing is open under it.       *)
LEMMA NewSessionIs ==
    ASSUME Inv, FreeSessions # {}
    PROVE  /\ NewSession \in SessionId /\ NewSession # None /\ NewSession \notin {Keep, Clear}
           /\ session[NewSession] = None /\ NewSession # cookies.session
<1>1. NewSession \in FreeSessions
  BY DEF NewSession
<1>2. QED
  BY <1>1 DEF FreeSessions, SessionsInUse

LEMMA RestoreStep ==
    ASSUME Inv, NEW t \in Tab, Restore(t)
    PROVE  Inv'
<1>1. PICK h \in Local : h = http[t]
  BY DEF Inv, TypeOK
<1>2. PICK k \in SUBSET App : k = held[t]
  BY DEF Inv, TypeOK
<1>3. /\ TabOK(h, k) /\ h.pc = "restore" /\ held' = [held EXCEPT ![t] = k]
      /\ UNCHANGED <<contact, access, cookies, page, out, overlap>>
      /\ overlap' \in {overlap, TRUE}
  BY <1>1, <1>2 DEF Inv, TypeOK, Restore
<1>4. PICK c \in Credential : c = h.carried.persistent
  BY <1>3 DEF TabOK, Known, Local, Jar
<1>5. PICK u \in User, v \in Version : c = <<u, v>>
  BY DEF Credential
<1>6. PICK s \in SessionId : s = NewSession /\ s # None /\ s # cookies.session
                             /\ s \notin {Keep, Clear}
  BY NewSessionIs DEF Restore
<1>7. PICK d : d = [session |-> s, persistent |-> c]
  OBVIOUS
<1>8. PICK g : g = [h EXCEPT !.pc = "signed_in", !.subject = u, !.fresh = s, !.first = d]
  OBVIOUS
<1>9. d \in Disposition /\ d.session = s /\ d.persistent = c
  BY <1>7 DEF Disposition
<1>10. session' = [session EXCEPT ![s] = c] /\ http' = [http EXCEPT ![t] = g]
  <2>1. http[t].carried.persistent = c /\ c[1] = u /\ NewSession = s
    BY <1>1, <1>4, <1>5, <1>6
  <2>2. /\ session' = [session EXCEPT ![s] = c]
        /\ http' = [http EXCEPT ![t].pc = "signed_in", ![t].subject = u, ![t].fresh = s,
                                ![t].first = [session |-> s, persistent |-> c]]
    BY <2>1 DEF Restore
  <2>3. [session |-> s, persistent |-> c] = d
    BY <1>7
  <2>4. http' = [http EXCEPT ![t].pc = "signed_in", ![t].subject = u, ![t].fresh = s,
                             ![t].first = d]
    BY <2>2, <2>3
  <2>5. http' = [http EXCEPT ![t] = g]
    BY <1>1, <1>8, <2>4 DEF Inv, TypeOK
  <2>6. QED
    BY <2>2, <2>5
<1>11. /\ g \in Local /\ g.pc = "signed_in" /\ Same(h, g) /\ g.first = d
       /\ g.subject = u /\ g.fresh = s /\ g.second = h.second /\ g.scope = h.scope
  BY <1>8, <1>9 DEF Local, Same, Points
<1>12. Known(g) /\ Delivers(g) /\ Consented(g, k)
  BY <1>3, <1>9, <1>11 DEF TabOK, Known, Delivers, Consented, Same
<1>13. KeptOut(g)
  BY <1>3 DEF TabOK, KeptOut
<1>14. Paired(g)'
  <2>1. Keeps(h.second)
    BY <1>3 DEF TabOK, Delivers
  <2>2. SessionAfter(g)' = s
    BY <1>3, <1>6, <1>9, <1>11, <2>1 DEF Keeps, SessionAfter, Changed
  <2>3. PersistentAfter(g)' = c
    BY <1>3, <1>9, <1>11, <2>1 DEF Keeps, PersistentAfter, Changed
  <2>4. session'[s] = c
    BY <1>10 DEF Inv, TypeOK
  <2>5. c = <<c[1], v>>
    BY <1>5
  <2>6. Agree(SessionAfter(g), PersistentAfter(g))'
    BY <2>2, <2>3, <2>4, <2>5 DEF Agree
  <2>7. QED
    BY <1>11, <2>6 DEF Paired
<1>15. /\ session' \in [SessionId -> Credential \cup {None}]
       /\ cookies.session # None => session'[cookies.session] \in {session[cookies.session], None}
  BY <1>6, <1>10 DEF Inv, TypeOK, Jar
<1>16. /\ http[t].pc \notin {"idle", "answered"} /\ Same(http[t], g)
       /\ g.pc \notin {"idle", "answered"}
  BY <1>1, <1>3, <1>11
<1>17. QED
  BY <1>3, <1>10, <1>11, <1>12, <1>13, <1>14, <1>15, <1>16, GoStep

LEMMA UnavailableStep ==
    ASSUME Inv, NEW t \in Tab, Unavailable(t)
    PROVE  Inv'
<1>1. /\ UNCHANGED <<contact, access, session, cookies, page, out, held>> /\ overlap'
      /\ overlap' \in {overlap, TRUE}
  BY DEF Unavailable
<1>2. CASE http[t].pc = "restore" /\ Goto(t, "anonymous")
  BY <1>1, <1>2, GotoStep DEF Points
<1>3. CASE http[t].pc = "open" /\ Render(t, "login", "login_page")
  BY <1>1, <1>3, RenderStep DEF Answers
<1>4. QED
  BY <1>2, <1>3 DEF Unavailable

(* A form is accepted while nothing overlaps.                              *)
LEMMA Accepted ==
    ASSUME Inv, NEW t \in Tab, http[t].pc \in {"anonymous", "signed_in"}, IsPost(t),
           ~CsrfAccepted(t)
    PROVE  overlap
<1> SUFFICES ASSUME ~overlap
             PROVE  FALSE
  OBVIOUS
<1>1. PICK h \in Local : h = http[t]
  BY DEF Inv, TypeOK
<1>2. TabOK(h, held[t]) /\ h.pc \in {"anonymous", "signed_in"} /\ h.form # "get"
  BY <1>1 DEF Inv, IsPost
<1>3. h.form \in {"login", "approve", "deny", "logout"}
  BY <1>2 DEF TabOK, Known, Local, Forms
<1>4. h.token # None /\ h.token = cookies.csrf /\ h.carried = cookies
  BY <1>2, <1>3 DEF TabOK, Fits
<1>5. QED
  BY <1>1, <1>4 DEF CsrfAccepted

LEMMA AnonymousStep ==
    ASSUME Inv, NEW t \in Tab, Anonymous(t)
    PROVE  Inv'
<1>1. /\ http[t].pc = "anonymous"
      /\ UNCHANGED <<contact, access, session, cookies, page, out, overlap, held>>
      /\ overlap' \in {overlap, TRUE}
  BY DEF Anonymous
<1>2. CASE Render(t, "login", "login_page")
  BY <1>1, <1>2, RenderStep DEF Answers
<1>3. CASE IsPost(t) /\ ~CsrfAccepted(t) /\ Render(t, "login", "refused")
  BY <1>1, <1>3, RenderStep, Accepted DEF Answers
<1>4. CASE http[t].form = "login" /\ Goto(t, "identify")
  BY <1>1, <1>4, GotoStep DEF Points
<1>5. QED
  BY <1>2, <1>3, <1>4 DEF Anonymous

LEMMA IdentifyStep ==
    ASSUME Inv, NEW t \in Tab, Identify(t)
    PROVE  Inv'
<1>1. /\ http[t].pc = "identify"
      /\ UNCHANGED <<contact, access, session, cookies, page, out, overlap, held>>
      /\ overlap' \in {overlap, TRUE}
  BY DEF Identify
<1>2. CASE Goto(t, "open")
  BY <1>1, <1>2, GotoStep DEF Points
<1>3. CASE Render(t, "login", "login_page")
  BY <1>1, <1>3, RenderStep DEF Answers
<1>4. QED
  BY <1>2, <1>3 DEF Identify

(* An answer without a page.                                               *)
LEMMA FinishStep ==
    ASSUME Inv, NEW t \in Tab, http[t].pc \notin {"idle", "answered"},
           NEW g \in Local, NEW k \in SUBSET App,
           http' = [http EXCEPT ![t] = g], held' = [held EXCEPT ![t] = k],
           g.pc = "answered", g.form = http[t].form, g.csrf = None, g.page.csrf = None,
           g.answer # "refused",
           UNCHANGED <<contact, access, cookies, page, out, overlap>>,
           session' \in [SessionId -> Credential \cup {None}],
           cookies.session # None => session'[cookies.session] \in {session[cookies.session], None},
           Delivers(g), Consented(g, k), KeptOut(g), Paired(g)'
    PROVE  Inv'
<1>1. PICK h \in Local : h = http[t]
  BY DEF Inv, TypeOK
<1>2. TabOK(h, held[t]) /\ h.pc \notin {"idle", "answered"} /\ g.form = h.form
  BY <1>1 DEF Inv
<1>3. Known(g)' /\ Delivers(g)'
  BY <1>2 DEF Known, Delivers, Keeps, Clears, TabOK
<1>4. Consented(g, k)'
  BY DEF Consented, MayOpen
<1>5. KeptOut(g)'
  BY DEF KeptOut, Keeps
<1>6. Fits(g)'
  BY DEF Fits
<1>7. TabOK(g, k)' /\ g.pc # "idle" /\ InFlight(t) /\ overlap' \in {overlap, TRUE}
  BY <1>1, <1>2, <1>3, <1>4, <1>5, <1>6 DEF TabOK, InFlight
<1>8. QED
  BY <1>7, TabStep

LEMMA OpenStep ==
    ASSUME Inv, NEW t \in Tab, Open(t)
    PROVE  Inv'
<1>1. PICK h \in Local : h = http[t]
  BY DEF Inv, TypeOK
<1>2. PICK k \in SUBSET App : k = held[t]
  BY DEF Inv, TypeOK
<1>3. /\ TabOK(h, k) /\ h.pc = "open" /\ held' = [held EXCEPT ![t] = k]
      /\ UNCHANGED <<contact, access, cookies, page, out, overlap>>
      /\ overlap' \in {overlap, TRUE}
  BY <1>1, <1>2 DEF Inv, TypeOK, Open
<1>4. PICK c \in Credential : c = h.typed
  BY <1>3 DEF TabOK, Known
<1>5. PICK s \in SessionId : s = NewSession /\ s # None /\ s # cookies.session
                             /\ s \notin {Keep, Clear}
  BY NewSessionIs DEF Open
<1>6. PICK d : d = [h.second EXCEPT !.session = s]
  OBVIOUS
<1>7. d \in Disposition /\ d.session = s /\ d.persistent = h.second.persistent
  BY <1>6 DEF Local, Disposition
<1>8. h.second.persistent = Keep /\ h.fresh = None
  BY <1>3 DEF TabOK, Delivers, Keeps
<1>9. session' = [session EXCEPT ![s] = c]
  BY <1>1, <1>4, <1>5 DEF Open
<1>10. /\ session' \in [SessionId -> Credential \cup {None}] /\ session'[s] = c
       /\ cookies.session # None => session'[cookies.session] \in {session[cookies.session], None}
  BY <1>5, <1>9 DEF Inv, TypeOK, Jar
<1>11. ~out
  BY <1>3 DEF TabOK, KeptOut
<1>12. ASSUME NEW g \in Local, g.first = h.first, g.second = d
       PROVE  /\ SessionAfter(g)' = s
              /\ PersistentAfter(g)' = PersistentAfter(h)
  BY <1>3, <1>5, <1>7, <1>8, <1>12 DEF SessionAfter, PersistentAfter, Changed
<1>13. Persistent /\ ~overlap => PersistentAfter(h) = None
  BY <1>3 DEF TabOK, Paired
<1>14. CASE h.remember /\ Persistent
  <2>1. PICK j : j = [h EXCEPT !.pc = "remember"]
    OBVIOUS
  <2>2. PICK g : g = [j EXCEPT !.fresh = s, !.second = d]
    OBVIOUS
  <2>3. http' = [http EXCEPT ![t] = g]
    BY <1>1, <1>5, <1>6, <1>14, <2>1, <2>2 DEF Open
  <2>4. /\ g \in Local /\ g.pc = "remember" /\ Same(h, g) /\ g.fresh = s
        /\ g.first = h.first /\ g.second = d /\ g.scope = h.scope
    BY <1>7, <2>1, <2>2 DEF Local, Same, Points
  <2>5. Known(g) /\ Delivers(g) /\ Consented(g, k)
    BY <1>3, <1>7, <1>8, <2>4 DEF TabOK, Known, Delivers, Consented, Same
  <2>6. KeptOut(g)
    BY <1>11 DEF KeptOut
  <2>7. Paired(g)'
    <3>1. SessionAfter(g)' = s /\ (Persistent /\ ~overlap => PersistentAfter(g)' = None)
      BY <1>12, <1>13, <2>4
    <3>2. session'[g.fresh] = g.typed
      BY <1>4, <1>10, <2>4 DEF Same
    <3>3. QED
      BY <1>3, <2>4, <3>1, <3>2 DEF Paired, Agree
  <2>8. /\ http[t].pc \notin {"idle", "answered"} /\ Same(http[t], g)
        /\ g.pc \notin {"idle", "answered"}
    BY <1>1, <1>3, <2>4
  <2>9. QED
    BY <1>3, <1>10, <2>3, <2>4, <2>5, <2>6, <2>7, <2>8, GoStep
<1>15. CASE ~(h.remember /\ Persistent)
  <2>1. PICK j : j = Answered(t, "logged_in")
    OBVIOUS
  <2>2. "logged_in" \in Answers
    BY DEF Answers
  <2>3. /\ j \in Local /\ Ended(h, j, "logged_in") /\ j.csrf = None /\ j.page.csrf = None
    BY <1>1, <2>1, <2>2, AnsweredIs
  <2>4. PICK g : g = [j EXCEPT !.fresh = s, !.second = d]
    OBVIOUS
  <2>5. http' = [http EXCEPT ![t] = g]
    BY <1>1, <1>5, <1>6, <1>15, <2>1, <2>4 DEF Open
  <2>6. /\ g \in Local /\ g.pc = "answered" /\ g.answer = "logged_in" /\ g.form = h.form
        /\ g.fresh = s /\ g.first = h.first /\ g.second = d
        /\ g.csrf = None /\ g.page.csrf = None
    BY <1>7, <2>3, <2>4, ZenonT(40) DEF Local, Ended
  <2>7. Delivers(g) /\ Consented(g, k)
    BY <1>7, <2>6 DEF Delivers, Consented
  <2>8. KeptOut(g)
    BY <1>11 DEF KeptOut
  <2>9. Paired(g)'
    <3>1. SessionAfter(g)' = s /\ (Persistent /\ ~overlap => PersistentAfter(g)' = None)
      BY <1>12, <1>13, <2>6
    <3>2. QED
      BY <1>3, <2>6, <3>1 DEF Paired, Agree
  <2>10. http[t].pc \notin {"idle", "answered"} /\ g.form = http[t].form
    BY <1>1, <1>3, <2>6
  <2>11. QED
    BY <1>3, <1>10, <2>5, <2>6, <2>7, <2>8, <2>9, <2>10, FinishStep
<1>16. QED
  BY <1>14, <1>15

LEMMA RememberStep ==
    ASSUME Inv, NEW t \in Tab, Remember(t)
    PROVE  Inv'
<1>1. PICK h \in Local : h = http[t]
  BY DEF Inv, TypeOK
<1>2. PICK k \in SUBSET App : k = held[t]
  BY DEF Inv, TypeOK
<1>3. /\ TabOK(h, k) /\ h.pc = "remember" /\ held' = [held EXCEPT ![t] = k]
      /\ UNCHANGED <<contact, access, session, cookies, page, out, overlap>>
      /\ overlap' \in {overlap, TRUE}
  BY <1>1, <1>2 DEF Inv, TypeOK, Remember
<1>4. PICK u \in User, v \in Version : h.typed = <<u, v>>
  BY <1>3 DEF TabOK, Known, Credential
<1>5. PICK w \in Version : contact[u].version = w
  BY DEF Inv, TypeOK
<1>6. PICK e \in {<<u, w>>, Keep} :
          e = IF contact[u].enabled THEN CurrentCredential(u) ELSE Keep
  BY <1>5 DEF CurrentCredential
<1>7. PICK d : d = [h.second EXCEPT !.persistent = e]
  OBVIOUS
<1>8. e \in Credential \cup {Keep}
  BY <1>6 DEF Credential
<1>9. /\ d \in Disposition /\ d.session = h.second.session /\ d.persistent = e
  BY <1>7, <1>8 DEF Local, Disposition
<1>10. PICK j : j = Answered(t, "logged_in")
  OBVIOUS
<1>11. "logged_in" \in Answers
  BY DEF Answers
<1>12. /\ j \in Local /\ Ended(h, j, "logged_in") /\ j.csrf = None /\ j.page.csrf = None
  BY <1>1, <1>10, <1>11, AnsweredIs
<1>13. PICK g : g = [j EXCEPT !.second = d]
  OBVIOUS
<1>14. http' = [http EXCEPT ![t] = g]
  <2>1. http[t].typed[1] = u
    BY <1>1, <1>4
  <2>2. QED
    BY <1>1, <1>6, <1>7, <1>10, <1>13, <2>1 DEF Remember
<1>15. /\ g \in Local /\ g.pc = "answered" /\ g.answer = "logged_in" /\ g.form = h.form
       /\ g.fresh = h.fresh /\ g.first = h.first /\ g.second = d
       /\ g.csrf = None /\ g.page.csrf = None
  BY <1>9, <1>12, <1>13 DEF Local, Ended
<1>16. Delivers(g) /\ Consented(g, k)
  BY <1>3, <1>9, <1>15 DEF TabOK, Delivers, Consented
<1>17. KeptOut(g)
  BY <1>3 DEF TabOK, KeptOut
<1>18. Paired(g)'
  <2> SUFFICES ASSUME Persistent, ~overlap'
               PROVE  Agree(SessionAfter(g), PersistentAfter(g))'
    BY <1>15 DEF Paired
  <2>1. /\ PersistentAfter(h) = None
        /\ session[h.fresh] \in {None, h.typed} /\ h.fresh \in SessionId
        /\ h.second.session = h.fresh /\ h.second.persistent = Keep
    BY <1>3 DEF TabOK, Paired, Delivers
  <2>2. SessionAfter(g)' = h.fresh
    BY <1>9, <1>15, <2>1 DEF SessionAfter, Changed
  <2>3. PersistentAfter(g)' = IF e = Keep THEN None ELSE e
    <3>1. Changed(cookies.persistent, h.first.persistent) = None
      BY <2>1 DEF PersistentAfter, Changed
    <3>2. e # Clear
      BY <1>8
    <3>3. QED
      BY <1>3, <1>9, <1>15, <3>1, <3>2 DEF PersistentAfter, Changed
  <2>4. session'[h.fresh] \in {None, <<u, v>>}
    BY <1>3, <1>4, <2>1
  <2>5. e = Keep \/ e = <<u, w>>
    BY <1>6
  <2>6. e = <<u, w>> => e[1] = u
    OBVIOUS
  <2>7. QED
    BY <2>2, <2>3, <2>4, <2>5, <2>6 DEF Agree
<1>19. /\ session' \in [SessionId -> Credential \cup {None}]
       /\ cookies.session # None => session'[cookies.session] \in {session[cookies.session], None}
  BY <1>3 DEF Inv, TypeOK
<1>20. http[t].pc \notin {"idle", "answered"} /\ g.form = http[t].form
  BY <1>1, <1>3, <1>15
<1>21. QED
  BY <1>3, <1>14, <1>15, <1>16, <1>17, <1>18, <1>19, <1>20, FinishStep

LEMMA SignedInStep ==
    ASSUME Inv, NEW t \in Tab, SignedIn(t)
    PROVE  Inv'
<1>1. PICK h \in Local : h = http[t]
  BY DEF Inv, TypeOK
<1>2. /\ TabOK(h, held[t]) /\ h.pc = "signed_in"
      /\ UNCHANGED <<contact, access, session, cookies, page, out, overlap>>
      /\ overlap' \in {overlap, TRUE}
  BY <1>1 DEF Inv, TypeOK, SignedIn
<1>3. http[t].pc = "signed_in"
  BY DEF SignedIn
<1>4. CASE Answer(t, "invalid") /\ UNCHANGED held
  BY <1>2, <1>3, <1>4, AnswerStep DEF Answers
<1>5. CASE IsPost(t) /\ ~CsrfAccepted(t) /\ Answer(t, "refused") /\ UNCHANGED held
  BY <1>2, <1>3, <1>5, AnswerStep, Accepted DEF Answers
<1>6. CASE Goto(t, "logout") /\ UNCHANGED held
  BY <1>2, <1>3, <1>6, GotoStep DEF Points
<1>7. CASE /\ http' = [http EXCEPT ![t].pc = "scope", ![t].left = App]
           /\ held' = [held EXCEPT ![t] = MayOpen(http[t].subject)]
  <2>1. h.subject \in User
    BY <1>2 DEF TabOK, Known
  <2>2. MayOpen(h.subject) \in SUBSET App
    BY <2>1 DEF MayOpen, Inv, TypeOK
  <2>3. PICK k \in SUBSET App : k = MayOpen(h.subject)
    BY <2>2
  <2>4. PICK g : g = [h EXCEPT !.pc = "scope", !.left = App]
    OBVIOUS
  <2>5. http' = [http EXCEPT ![t] = g] /\ held' = [held EXCEPT ![t] = k]
    BY <1>1, <1>7, <2>3, <2>4 DEF Inv, TypeOK
  <2>6. /\ g \in Local /\ g.pc = "scope" /\ Same(h, g) /\ g.subject = h.subject
        /\ g.fresh = h.fresh /\ g.first = h.first /\ g.second = h.second /\ g.scope = h.scope
    BY <2>4 DEF Local, Same, Points
  <2>7. Known(g) /\ Delivers(g)
    BY <1>2, <2>6 DEF TabOK, Known, Delivers, Same
  <2>8. Consented(g, k)
    BY <1>2, <2>3, <2>6 DEF TabOK, Consented, Same
  <2>9. KeptOut(g)
    BY <1>2 DEF TabOK, KeptOut
  <2>10. Paired(g)'
    <3>1. SessionAfter(g)' = SessionAfter(h) /\ PersistentAfter(g)' = PersistentAfter(h)
      BY <1>2, <2>6 DEF SessionAfter, PersistentAfter
    <3>2. QED
      BY <1>2, <2>6, <3>1 DEF TabOK, Paired, Agree
  <2>11. /\ session' \in [SessionId -> Credential \cup {None}]
         /\ cookies.session # None =>
               session'[cookies.session] \in {session[cookies.session], None}
    BY <1>2 DEF Inv, TypeOK
  <2>12. /\ http[t].pc \notin {"idle", "answered"} /\ Same(http[t], g)
         /\ g.pc \notin {"idle", "answered"}
    BY <1>1, <1>2, <2>6
  <2>13. QED
    BY <1>2, <2>5, <2>6, <2>7, <2>8, <2>9, <2>10, <2>11, <2>12, GoStep
<1>8. QED
  BY <1>4, <1>5, <1>6, <1>7 DEF SignedIn

LEMMA LogOutStep ==
    ASSUME Inv, NEW t \in Tab, LogOut(t)
    PROVE  Inv'
<1>1. PICK h \in Local : h = http[t]
  BY DEF Inv, TypeOK
<1>2. PICK k \in SUBSET App : k = held[t]
  BY DEF Inv, TypeOK
<1>3. /\ TabOK(h, k) /\ h.pc = "logout" /\ held' = [held EXCEPT ![t] = k]
      /\ UNCHANGED <<contact, access, cookies, page, out, overlap>>
      /\ overlap' \in {overlap, TRUE}
  BY <1>1, <1>2 DEF Inv, TypeOK, LogOut
<1>4. /\ session' \in [SessionId -> Credential \cup {None}]
      /\ cookies.session # None => session'[cookies.session] \in {session[cookies.session], None}
  BY DEF LogOut, Inv, TypeOK, Jar
<1>5. PICK d : d = ClearBoth
  OBVIOUS
<1>6. d \in Disposition /\ Clears(d)
  BY <1>5 DEF ClearBoth, Disposition, Clears
<1>7. PICK j : j = Answered(t, "logged_out")
  OBVIOUS
<1>8. "logged_out" \in Answers
  BY DEF Answers
<1>9. /\ j \in Local /\ Ended(h, j, "logged_out") /\ j.csrf = None /\ j.page.csrf = None
  BY <1>1, <1>7, <1>8, AnsweredIs
<1>10. PICK g : g = [j EXCEPT !.second = d]
  OBVIOUS
<1>11. http' = [http EXCEPT ![t] = g]
  BY <1>5, <1>7, <1>10 DEF LogOut
<1>12. /\ g \in Local /\ g.pc = "answered" /\ g.answer = "logged_out" /\ g.form = h.form
       /\ g.second = d /\ g.csrf = None /\ g.page.csrf = None
  BY <1>6, <1>9, <1>10 DEF Local, Ended
<1>13. Delivers(g) /\ Consented(g, k)
  BY <1>6, <1>12 DEF Delivers, Consented
<1>14. KeptOut(g)
  BY <1>3 DEF TabOK, KeptOut
<1>15. Paired(g)'
  <2>1. SessionAfter(g)' = None
    BY <1>6, <1>12 DEF SessionAfter, Changed, Clears
  <2>2. QED
    BY <1>12, <2>1 DEF Paired, Agree
<1>16. http[t].pc \notin {"idle", "answered"} /\ g.form = http[t].form
  BY <1>1, <1>3, <1>12
<1>17. QED
  BY <1>3, <1>4, <1>11, <1>12, <1>13, <1>14, <1>15, <1>16, FinishStep

LEMMA CheckAppStep ==
    ASSUME Inv, NEW t \in Tab, CheckApp(t)
    PROVE  Inv'
<1>1. PICK h \in Local : h = http[t]
  BY DEF Inv, TypeOK
<1>2. PICK k \in SUBSET App : k = held[t]
  BY DEF Inv, TypeOK
<1>3. /\ TabOK(h, k) /\ h.pc = "scope" /\ held' = [held EXCEPT ![t] = k]
      /\ UNCHANGED <<contact, access, session, cookies, page, out, overlap>>
      /\ overlap' \in {overlap, TRUE} /\ h.left # {}
  BY <1>1, <1>2 DEF Inv, TypeOK, CheckApp
<1>4. PICK a \in h.left : a = NextApp(t)
  BY <1>1, <1>3 DEF NextApp
<1>5. PICK left \in SUBSET App : left = h.left \ {a}
  BY DEF Local
<1>6. PICK m \in SUBSET App : m = MayOpen(h.subject) \cap {a}
  BY DEF Local
<1>7. PICK scope \in SUBSET App : scope = h.scope \cup m
  BY DEF Local
<1>8. PICK g : g = [h EXCEPT !.left = left, !.scope = scope]
  OBVIOUS
<1>9. http' = [http EXCEPT ![t] = g]
  BY <1>1, <1>4, <1>5, <1>6, <1>7, <1>8 DEF CheckApp, Inv, TypeOK
<1>10. /\ g \in Local /\ g.pc = "scope" /\ Same(h, g) /\ g.subject = h.subject
       /\ g.fresh = h.fresh /\ g.first = h.first /\ g.second = h.second /\ g.scope = scope
  BY <1>3, <1>8 DEF Local, Same
<1>11. Known(g) /\ Delivers(g)
  BY <1>3, <1>10 DEF TabOK, Known, Delivers, Same
<1>12. Consented(g, k)
  BY <1>3, <1>6, <1>7, <1>10 DEF TabOK, Consented, Same
<1>13. KeptOut(g)
  BY <1>3 DEF TabOK, KeptOut
<1>14. Paired(g)'
  <2>1. SessionAfter(g)' = SessionAfter(h) /\ PersistentAfter(g)' = PersistentAfter(h)
    BY <1>3, <1>10 DEF SessionAfter, PersistentAfter
  <2>2. QED
    BY <1>3, <1>10, <2>1 DEF TabOK, Paired, Agree
<1>15. /\ session' \in [SessionId -> Credential \cup {None}]
       /\ cookies.session # None => session'[cookies.session] \in {session[cookies.session], None}
  BY <1>3 DEF Inv, TypeOK
<1>16. /\ http[t].pc \notin {"idle", "answered"} /\ Same(http[t], g)
       /\ g.pc \notin {"idle", "answered"}
  BY <1>1, <1>3, <1>10
<1>17. QED
  BY <1>3, <1>9, <1>10, <1>11, <1>12, <1>13, <1>14, <1>15, <1>16, GoStep

LEMMA DecideStep ==
    ASSUME Inv, NEW t \in Tab, Decide(t)
    PROVE  Inv'
<1>1. /\ http[t].pc = "scope"
      /\ UNCHANGED <<contact, access, session, cookies, page, out, overlap, held>>
      /\ overlap' \in {overlap, TRUE}
  BY DEF Decide
<1>2. CASE Answer(t, "invalid")
  BY <1>1, <1>2, AnswerStep DEF Answers
<1>3. CASE Render(t, "consent", "consent_page")
  BY <1>1, <1>3, RenderStep DEF Answers
<1>4. CASE http[t].scope # {} /\ http[t].form = "approve" /\ Goto(t, "issue")
  BY <1>1, <1>4, GotoStep DEF Points
<1>5. CASE Answer(t, "denied")
  BY <1>1, <1>5, AnswerStep DEF Answers
<1>6. QED
  BY <1>2, <1>3, <1>4, <1>5 DEF Decide

LEMMA IssueStep ==
    ASSUME Inv, NEW t \in Tab, Issue(t)
    PROVE  Inv'
<1>1. PICK h \in Local : h = http[t]
  BY DEF Inv, TypeOK
<1>2. PICK k \in SUBSET App : k = held[t]
  BY DEF Inv, TypeOK
<1>3. /\ TabOK(h, k) /\ h.pc = "issue" /\ held' = [held EXCEPT ![t] = k]
      /\ UNCHANGED <<contact, access, session, cookies, page, out, overlap, held>>
      /\ overlap' \in {overlap, TRUE}
  BY <1>1, <1>2 DEF Inv, TypeOK, Issue
<1>4. http[t].pc = "issue"
  BY <1>1, <1>3
<1>5. CASE Answer(t, "invalid")
  BY <1>3, <1>4, <1>5, AnswerStep DEF Answers
<1>6. CASE http' = [http EXCEPT ![t] = [Answered(t, "granted") EXCEPT !.scope = http[t].scope]]
  <2>1. PICK j : j = Answered(t, "granted")
    OBVIOUS
  <2>2. "granted" \in Answers
    BY DEF Answers
  <2>3. /\ j \in Local /\ Ended(h, j, "granted") /\ j.csrf = None /\ j.page.csrf = None
    BY <1>1, <2>1, <2>2, AnsweredIs
  <2>4. PICK g : g = [j EXCEPT !.scope = h.scope]
    OBVIOUS
  <2>5. http' = [http EXCEPT ![t] = g]
    BY <1>1, <1>6, <2>1, <2>4
  <2>6. /\ g \in Local /\ g.pc = "answered" /\ g.answer = "granted" /\ g.form = h.form
        /\ g.fresh = h.fresh /\ g.first = h.first /\ g.second = h.second /\ g.scope = h.scope
        /\ g.csrf = None /\ g.page.csrf = None
    BY <2>3, <2>4 DEF Local, Ended
  <2>7. Delivers(g) /\ Consented(g, k)
    BY <1>3, <2>6 DEF TabOK, Delivers, Consented, Keeps
  <2>8. KeptOut(g)
    BY <1>3 DEF TabOK, KeptOut
  <2>9. Paired(g)'
    <3>1. SessionAfter(g)' = SessionAfter(h) /\ PersistentAfter(g)' = PersistentAfter(h)
      BY <1>3, <2>6 DEF SessionAfter, PersistentAfter
    <3>2. QED
      BY <1>3, <2>6, <3>1 DEF TabOK, Paired, Agree
  <2>10. /\ session' \in [SessionId -> Credential \cup {None}]
         /\ cookies.session # None =>
               session'[cookies.session] \in {session[cookies.session], None}
    BY <1>3 DEF Inv, TypeOK
  <2>11. http[t].pc \notin {"idle", "answered"} /\ g.form = http[t].form
    BY <1>1, <1>3, <2>6
  <2>12. QED
    BY <1>3, <2>5, <2>6, <2>7, <2>8, <2>9, <2>10, <2>11, FinishStep
<1>7. QED
  BY <1>5, <1>6 DEF Issue

LEMMA FailStep ==
    ASSUME Inv, NEW t \in Tab, Fail(t)
    PROVE  Inv'
<1>1. PICK h \in Local : h = http[t]
  BY DEF Inv, TypeOK
<1>2. PICK k \in SUBSET App : k = held[t]
  BY DEF Inv, TypeOK
<1>3. /\ TabOK(h, k) /\ h.pc \notin {"idle", "answered"} /\ held' = [held EXCEPT ![t] = k]
      /\ UNCHANGED <<contact, access, cookies, page, out, overlap>>
      /\ overlap' \in {overlap, TRUE}
  BY <1>1, <1>2 DEF Inv, TypeOK, Fail
<1>4. /\ session' \in [SessionId -> Credential \cup {None}]
      /\ cookies.session # None => session'[cookies.session] \in {session[cookies.session], None}
  BY DEF Fail, Inv, TypeOK, Jar
<1>5. PICK d : d = KeepBoth
  OBVIOUS
<1>6. d \in Disposition /\ Keeps(d)
  BY <1>5 DEF KeepBoth, Disposition, Keeps
<1>7. PICK j : j = Answered(t, "failed")
  OBVIOUS
<1>8. "failed" \in Answers
  BY DEF Answers
<1>9. /\ j \in Local /\ Ended(h, j, "failed") /\ j.csrf = None /\ j.page.csrf = None
  BY <1>1, <1>7, <1>8, AnsweredIs
<1>10. PICK g : g = [j EXCEPT !.first = d, !.second = d, !.fresh = None]
  OBVIOUS
<1>11. http' = [http EXCEPT ![t] = g]
  BY <1>5, <1>7, <1>10 DEF Fail
<1>12. /\ g \in Local /\ g.pc = "answered" /\ g.answer = "failed" /\ g.form = h.form
       /\ g.fresh = None /\ g.first = d /\ g.second = d /\ g.csrf = None /\ g.page.csrf = None
  BY <1>6, <1>9, <1>10 DEF Local, Ended
<1>13. Delivers(g) /\ Consented(g, k)
  BY <1>12 DEF Delivers, Consented
<1>14. KeptOut(g)
  BY <1>3, <1>6, <1>12 DEF TabOK, KeptOut
<1>15. Paired(g)'
  <2>1. SessionAfter(g)' = cookies.session /\ PersistentAfter(g)' = cookies.persistent
    BY <1>3, <1>6, <1>12 DEF Keeps, SessionAfter, PersistentAfter, Changed
  <2>2. Persistent /\ ~overlap => Agree(cookies.session, cookies.persistent)
    BY DEF Inv, BrowserOK
  <2>3. QED
    BY <1>3, <1>4, <1>12, <2>1, <2>2 DEF Paired, Agree
<1>16. http[t].pc \notin {"idle", "answered"} /\ g.form = http[t].form
  BY <1>1, <1>3, <1>12
<1>17. QED
  BY <1>3, <1>4, <1>11, <1>12, <1>13, <1>14, <1>15, <1>16, FinishStep

LEMMA ServeStep ==
    ASSUME Inv, NEW t \in Tab, Serve(t)
    PROVE  Inv'
<1>1. CASE Cancel(t)
  BY <1>1, AnswerStep DEF Cancel, Answers
<1>2. QED
  BY <1>1, ResolveSessionStep, ReadCredentialStep, RestoreStep, UnavailableStep, AnonymousStep,
     IdentifyStep, OpenStep, RememberStep, SignedInStep, LogOutStep, CheckAppStep, DecideStep,
     IssueStep, FailStep DEF Serve

-----------------------------------------------------------------------------
(* The browser, and what happens meanwhile.                                *)

Sends(t, form, token, typed) ==
    \E remember \in BOOLEAN : Send(t, form, token, typed, remember)

(* A request is sent: it carries what the browser has, and is alone unless *)
(* the history says otherwise from now on.                                 *)
LEMMA SendStep ==
    ASSUME Inv, NEW t \in Tab, NEW form \in Forms \ {"none"}, NEW token \in Csrf \cup {None},
           NEW typed \in Credential \cup {None}, Sends(t, form, token, typed),
           form = "login" => typed \in Credential /\ ~out',
           token \in {None, page[t].csrf},
           form \in {"login", "approve", "deny", "logout"} => token # None,
           out' \in {out, FALSE}
    PROVE  Inv'
<1>0. PICK remember \in BOOLEAN : Send(t, form, token, typed, remember)
  BY DEF Sends
<1>1. PICK i \in Local : i = Idle /\ i.scope = {} /\ i.answer = "none"
  BY IdleTyped
<1>2. Keeps(i.first) /\ Keeps(i.second) /\ i.fresh = None
  BY <1>1 DEF Idle, Keeps, KeepBoth
<1>3. PICK jar \in Jar : jar = cookies
  BY DEF Inv, TypeOK
<1>4. PICK g : g = [i EXCEPT !.pc = "received", !.form = form, !.token = token, !.typed = typed,
                             !.remember = remember, !.carried = jar]
  OBVIOUS
<1>5. /\ g \in Local /\ g.pc = "received" /\ g.form = form /\ g.token = token
      /\ g.typed = typed /\ g.carried = jar /\ g.scope = {} /\ g.answer = "none"
      /\ Keeps(g.first) /\ Keeps(g.second) /\ g.fresh = None
  <2>1. g \in Local
    <3> DEFINE p == "received"
    <3>0. p \in Points
      BY DEF Points
    <3> HIDE DEF p
    <3>1. PICK a \in Local : a = [i EXCEPT !.pc = p, !.form = form]
      BY <3>0, ZenonT(40) DEF Local
    <3>2. PICK b \in Local : b = [a EXCEPT !.token = token, !.typed = typed]
      BY ZenonT(40) DEF Local
    <3>3. PICK c \in Local : c = [b EXCEPT !.remember = remember]
      BY ZenonT(40) DEF Local
    <3>4. PICK d \in Local : d = [c EXCEPT !.carried = jar]
      BY ZenonT(40) DEF Local
    <3>5. d = g
      BY <1>4, <3>1, <3>2, <3>3, <3>4 DEF p
    <3>6. QED
      BY <3>4, <3>5
  <2>2. g.pc = "received" /\ g.form = form /\ g.token = token /\ g.typed = typed
    BY <1>1, <1>4 DEF Local
  <2>3. g.carried = jar /\ g.scope = i.scope /\ g.answer = i.answer
    BY <1>1, <1>4 DEF Local
  <2>4. g.first = i.first /\ g.second = i.second /\ g.fresh = i.fresh
    BY <1>1, <1>4 DEF Local
  <2>5. QED
    BY <1>1, <1>2, <2>1, <2>2, <2>3, <2>4
<1>6. /\ http' = [http EXCEPT ![t] = g]
      /\ UNCHANGED <<contact, access, session, cookies, page, held>>
      /\ overlap' = (overlap \/ ~QuietBut(t)) /\ ~InFlight(t)
  BY <1>0, <1>1, <1>3, <1>4 DEF Send
<1>7. /\ http'[t] = g /\ \A q \in Tab \ {t} : http'[q] = http[q]
  BY <1>6 DEF Inv, TypeOK
<1>8. overlap' \in BOOLEAN /\ (~overlap' => ~overlap /\ QuietBut(t))
  BY <1>6 DEF Inv, TypeOK, QuietBut
<1>9. TypeOK'
  BY <1>5, <1>6, <1>8 DEF Inv, TypeOK
<1>10. BrowserOK'
  <2>1. ~overlap' => \A p, q \in Tab : InFlight(p)' /\ InFlight(q)' => p = q
    BY <1>7, <1>8 DEF QuietBut, InFlight
  <2>2. Persistent /\ ~overlap' => Agree(cookies.session, cookies.persistent)'
    BY <1>6, <1>8 DEF Inv, BrowserOK, Agree
  <2>3. out' => cookies'.session = None /\ cookies'.persistent = None
    BY <1>6 DEF Inv, BrowserOK
  <2>4. QED
    BY <1>6, <1>8, <2>1, <2>2, <2>3 DEF Inv, BrowserOK
<1>11. ASSUME NEW q \in Tab, q # t
       PROVE  TabOK(http[q], held[q])'
  <2>1. ~overlap' => http[q].pc = "idle"
    BY <1>8, <1>11 DEF QuietBut, InFlight
  <2>2. http'[q] = http[q] /\ held'[q] = held[q]
    BY <1>6, <1>7, <1>11
  <2>3. out' => out
    OBVIOUS
  <2>4. QED
    BY <1>6, <2>1, <2>2, <2>3, OtherTab
<1>12. TabOK(http[t], held[t])'
  <2>1. PICK k : k = held[t]
    OBVIOUS
  <2>2. http'[t] = g /\ held'[t] = k
    BY <1>6, <1>7, <2>1
  <2>3. Known(g)' /\ Delivers(g)'
    BY <1>5 DEF Known, Delivers
  <2>4. Consented(g, k)'
    BY <1>5 DEF Consented
  <2>5. KeptOut(g)'
    BY <1>3, <1>5 DEF KeptOut, Inv, BrowserOK
  <2>6. Fits(g)'
    BY <1>3, <1>5, <1>6, <1>8 DEF Fits, Inv, BrowserOK
  <2>7. Paired(g)'
    <3>1. SessionAfter(g)' = cookies.session /\ PersistentAfter(g)' = cookies.persistent
      BY <1>5, <1>6 DEF Keeps, SessionAfter, PersistentAfter, Changed
    <3>2. Persistent /\ ~overlap => Agree(cookies.session, cookies.persistent)
      BY DEF Inv, BrowserOK
    <3>3. QED
      BY <1>5, <1>6, <1>8, <3>1, <3>2 DEF Paired, Agree
  <2>8. TabOK(g, k)'
    BY <2>3, <2>4, <2>5, <2>6, <2>7 DEF TabOK
  <2>9. QED
    BY <2>2, <2>8
<1>13. QED
  BY <1>9, <1>10, <1>11, <1>12 DEF Inv

(* A tab that has its answer, or has lost it, waits for nothing.           *)
LEMMA Settled ==
    ASSUME Inv, NEW t \in Tab, http[t].pc = "answered",
           http' = [http EXCEPT ![t] = Idle], held' = [held EXCEPT ![t] = {}],
           UNCHANGED <<contact, access, session, overlap>>,
           \A q \in Tab \ {t} : out' /\ http[q].pc # "idle" => out
    PROVE  /\ http' \in [Tab -> Local] /\ held' \in [Tab -> SUBSET App]
           /\ ~overlap' => \A p, q \in Tab : InFlight(p)' /\ InFlight(q)' => p = q
           /\ \A q \in Tab : TabOK(http[q], held[q])'
<1>1. PICK i \in Local : i = Idle /\ i.pc = "idle"
  BY IdleTyped
<1>2. /\ http' = [http EXCEPT ![t] = i] /\ http'[t] = i /\ held'[t] = {}
      /\ \A q \in Tab \ {t} : http'[q] = http[q] /\ held'[q] = held[q]
  BY <1>1 DEF Inv, TypeOK
<1>3. http' \in [Tab -> Local] /\ held' \in [Tab -> SUBSET App]
  BY <1>2 DEF Inv, TypeOK
<1>4. ~overlap' => \A p, q \in Tab : InFlight(p)' /\ InFlight(q)' => p = q
  BY <1>1, <1>2 DEF Inv, BrowserOK, InFlight
<1>5. ASSUME NEW q \in Tab, q # t
      PROVE  TabOK(http[q], held[q])'
  <2>1. ~overlap => http[q].pc = "idle"
    BY <1>5 DEF Inv, BrowserOK, InFlight
  <2>2. QED
    BY <1>2, <1>5, <2>1, OtherTab
<1>6. TabOK(http[t], held[t])'
  <2>1. TabOK(i, {})'
    BY <1>1, IdleOK DEF TabOK, Known, Delivers, Consented, KeptOut, Fits, Paired
  <2>2. QED
    BY <1>2, <2>1
<1>7. QED
  BY <1>3, <1>4, <1>5, <1>6

(* The cookies once the answer has arrived.                                *)
LEMMA ReceivedIs ==
    ASSUME Inv, NEW t \in Tab, Receive(t)
    PROVE  /\ cookies' \in Jar
           /\ cookies'.session = SessionAfter(http[t])
           /\ cookies'.persistent = PersistentAfter(http[t])
           /\ cookies'.csrf = IF http[t].csrf = None THEN cookies.csrf ELSE http[t].csrf
<1>1. PICK h \in Local : h = http[t]
  BY DEF Inv, TypeOK
<1>2. PICK jar \in Jar : jar = Disposed(Disposed(cookies, h.first), h.second)
  BY AfterIs
<1>3. jar.session = SessionAfter(h) /\ jar.persistent = PersistentAfter(h) /\ jar.csrf = cookies.csrf
  BY <1>2, AfterIs
<1>4. PICK c \in Csrf \cup {None} : c = IF h.csrf = None THEN cookies.csrf ELSE h.csrf
  BY DEF Local, Inv, TypeOK, Jar
<1>5. h.csrf \in Csrf \cup {None}
  BY DEF Local
<1>6. cookies' = [jar EXCEPT !.csrf = Changed(jar.csrf, IF h.csrf = None THEN Keep ELSE h.csrf)]
  BY <1>1, <1>2 DEF Receive, Jar
<1>7. Changed(jar.csrf, IF h.csrf = None THEN Keep ELSE h.csrf) = c
  BY <1>3, <1>4, <1>5 DEF Changed
<1>8. cookies' = [jar EXCEPT !.csrf = c]
  BY <1>6, <1>7
<1>9. /\ cookies' \in Jar /\ cookies'.session = jar.session
      /\ cookies'.persistent = jar.persistent /\ cookies'.csrf = c
  BY <1>8 DEF Jar
<1>10. QED
  BY <1>1, <1>3, <1>4, <1>9

LEMMA ReceiveStep ==
    ASSUME Inv, NEW t \in Tab, Receive(t)
    PROVE  Inv'
<1>1. PICK h \in Local : h = http[t]
  BY DEF Inv, TypeOK
<1>2. /\ TabOK(h, held[t]) /\ h.pc = "answered" /\ h.page \in Shown
      /\ page' = [page EXCEPT ![t] = h.page]
      /\ out' = (out \/ (h.answer = "logged_out" /\ QuietBut(t)))
      /\ http' = [http EXCEPT ![t] = Idle] /\ held' = [held EXCEPT ![t] = {}]
      /\ UNCHANGED <<contact, access, session, overlap>>
  BY <1>1 DEF Inv, Receive, Local
<1>3. /\ cookies' \in Jar
      /\ cookies'.session = SessionAfter(h)
      /\ cookies'.persistent = PersistentAfter(h)
      /\ cookies'.csrf = IF h.csrf = None THEN cookies.csrf ELSE h.csrf
  BY <1>1, ReceivedIs
<1>4. \A q \in Tab \ {t} : out' /\ http[q].pc # "idle" => out
  BY <1>2 DEF QuietBut, InFlight
<1>5. /\ http' \in [Tab -> Local] /\ held' \in [Tab -> SUBSET App]
      /\ ~overlap' => \A p, q \in Tab : InFlight(p)' /\ InFlight(q)' => p = q
      /\ \A q \in Tab : TabOK(http[q], held[q])'
  BY <1>1, <1>2, <1>4, Settled
<1>6. TypeOK'
  BY <1>2, <1>3, <1>5 DEF Inv, TypeOK
<1>7. BrowserOK'
  <2>1. ~overlap' => \A q \in Tab : page'[q].csrf \in {None, cookies'.csrf}
    <3> SUFFICES ASSUME ~overlap', NEW q \in Tab
                 PROVE  page'[q].csrf \in {None, cookies'.csrf}
      OBVIOUS
    <3>1. ~overlap /\ page[q].csrf \in {None, cookies.csrf}
      BY <1>2 DEF Inv, BrowserOK
    <3>2. /\ h.csrf # None => cookies.csrf = None /\ h.page.csrf \in {None, h.csrf}
          /\ h.csrf = None => h.page.csrf \in {None, cookies.csrf}
      BY <1>2, <3>1 DEF TabOK, Fits
    <3>3. page'[q] = IF q = t THEN h.page ELSE page[q]
      BY <1>2 DEF Inv, TypeOK
    <3>4. QED
      BY <1>3, <3>1, <3>2, <3>3
  <2>2. Persistent /\ ~overlap' => Agree(cookies.session, cookies.persistent)'
    BY <1>2, <1>3 DEF TabOK, Paired, Agree
  <2>3. out' => cookies'.session = None /\ cookies'.persistent = None
    <3>1. CASE out
      <4>1. Keeps(h.first) /\ Keeps(h.second)
        BY <1>2, <3>1 DEF TabOK, KeptOut
      <4>2. SessionAfter(h) = cookies.session /\ PersistentAfter(h) = cookies.persistent
        BY <4>1 DEF Keeps, SessionAfter, PersistentAfter, Changed
      <4>3. QED
        BY <1>3, <3>1, <4>2 DEF Inv, BrowserOK
    <3>2. CASE h.answer = "logged_out"
      <4>1. Clears(h.second)
        BY <1>2, <3>2 DEF TabOK, Delivers
      <4>2. QED
        BY <1>3, <4>1 DEF Clears, SessionAfter, PersistentAfter, Changed
    <3>3. QED
      BY <1>2, <3>1, <3>2
  <2>4. QED
    BY <1>5, <2>1, <2>2, <2>3 DEF BrowserOK
<1>8. QED
  BY <1>5, <1>6, <1>7 DEF Inv

LEMMA LoseStep ==
    ASSUME Inv, NEW t \in Tab, Lose(t)
    PROVE  Inv'
<1>1. /\ http[t].pc = "answered" /\ page' = [page EXCEPT ![t] = Blank]
      /\ http' = [http EXCEPT ![t] = Idle] /\ held' = [held EXCEPT ![t] = {}]
      /\ UNCHANGED <<contact, access, session, cookies, overlap, out>>
  BY DEF Lose
<1>2. /\ http' \in [Tab -> Local] /\ held' \in [Tab -> SUBSET App]
      /\ ~overlap' => \A p, q \in Tab : InFlight(p)' /\ InFlight(q)' => p = q
      /\ \A q \in Tab : TabOK(http[q], held[q])'
  BY <1>1, Settled
<1>3. PICK b \in Shown : b = Blank /\ b.csrf = None
  BY BlankShown
<1>4. TypeOK'
  BY <1>1, <1>2, <1>3 DEF Inv, TypeOK
<1>5. BrowserOK'
  <2>1. \A q \in Tab : page'[q] = IF q = t THEN b ELSE page[q]
    BY <1>1, <1>3 DEF Inv, TypeOK
  <2>2. ~overlap' => \A q \in Tab : page'[q].csrf \in {None, cookies'.csrf}
    BY <1>1, <1>3, <2>1 DEF Inv, BrowserOK
  <2>3. QED
    BY <1>1, <1>2, <2>2 DEF Inv, BrowserOK, Agree
<1>6. QED
  BY <1>2, <1>4, <1>5 DEF Inv

LEMMA ReopenStep ==
    ASSUME Inv, Reopen
    PROVE  Inv'
<1>1. PICK jar \in Jar : /\ jar = [NoCookies EXCEPT !.persistent = cookies.persistent]
                         /\ jar.session = None /\ jar.persistent = cookies.persistent
  <2>1. PICK c \in Credential \cup {None} : c = cookies.persistent
    BY DEF Inv, TypeOK, Jar
  <2>2. PICK jar : jar = [NoCookies EXCEPT !.persistent = c]
    OBVIOUS
  <2>3. jar = [session |-> None, persistent |-> c, csrf |-> None]
    BY <2>2 DEF NoCookies
  <2>4. jar \in Jar /\ jar.session = None /\ jar.persistent = c
    BY <2>3 DEF Jar
  <2>5. QED
    BY <2>1, <2>2, <2>4
<1>2. PICK b \in Shown : b = Blank /\ b.csrf = None
  BY BlankShown
<1>3. /\ cookies' = jar /\ page' = [q \in Tab |-> b] /\ ~overlap' /\ overlap' \in BOOLEAN
      /\ UNCHANGED <<contact, access, session, http, out, held>>
      /\ \A q \in Tab : http[q].pc = "idle"
  BY <1>1, <1>2 DEF Reopen, InFlight
<1>4. TypeOK'
  BY <1>3 DEF Inv, TypeOK
<1>5. BrowserOK'
  BY <1>1, <1>2, <1>3 DEF Inv, BrowserOK, InFlight, Agree
<1>6. \A q \in Tab : TabOK(http[q], held[q])'
  BY <1>3, OtherTab
<1>7. QED
  BY <1>4, <1>5, <1>6 DEF Inv

(* What a subject may open from now on is added to what it could open.     *)
LEMMA MeanwhileStep ==
    ASSUME Inv, HeldNow, contact' \in [User -> [enabled : BOOLEAN, version : Version]],
           access' \in [User -> SUBSET App],
           UNCHANGED <<session, cookies, page, http, overlap, out>>
    PROVE  Inv'
<1>1. ASSUME NEW q \in Tab
      PROVE  held'[q] \in SUBSET App /\ TabOK(http[q], held[q])'
  <2>1. PICK h \in Local, k \in SUBSET App : h = http[q] /\ k = held[q]
    BY DEF Inv, TypeOK
  <2>2. TabOK(h, k) /\ http'[q] = h
    BY <2>1 DEF Inv
  <2>3. PICK m : m = IF Granting(q) THEN k \cup MayOpen(h.subject)' ELSE k
    OBVIOUS
  <2>4. held'[q] = m
    BY <2>1, <2>2, <2>3 DEF HeldNow
  <2>5. Granting(q) => MayOpen(h.subject)' \in SUBSET App
    BY <2>1, <2>2 DEF TabOK, Known, Granting, MayOpen
  <2>6. m \in SUBSET App
    BY <2>3, <2>5
  <2>7. Consented(h, m)'
    BY <2>1, <2>2, <2>3 DEF TabOK, Consented, Granting
  <2>8. Known(h)' /\ Delivers(h)' /\ KeptOut(h)' /\ Fits(h)'
    BY <2>2 DEF TabOK, Known, Delivers, KeptOut, Fits
  <2>9. Paired(h)'
    <3>1. SessionAfter(h)' = SessionAfter(h) /\ PersistentAfter(h)' = PersistentAfter(h)
      BY DEF SessionAfter, PersistentAfter
    <3>2. QED
      BY <2>2, <3>1 DEF TabOK, Paired, Agree
  <2>10. TabOK(h, m)'
    BY <2>7, <2>8, <2>9 DEF TabOK
  <2>11. QED
    BY <2>2, <2>4, <2>6, <2>10
<1>2. held' \in [Tab -> SUBSET App]
  <2>1. held' = [q \in Tab |-> held'[q]]
    BY DEF HeldNow
  <2>2. QED
    BY <1>1, <2>1
<1>3. TypeOK'
  BY <1>2 DEF Inv, TypeOK
<1>4. BrowserOK'
  BY DEF Inv, BrowserOK, InFlight, Agree
<1>5. QED
  BY <1>1, <1>3, <1>4 DEF Inv

LEMMA EndSessionStep ==
    ASSUME Inv, NEW s \in SessionId, EndSession(s)
    PROVE  Inv'
<1>1. /\ session' = [session EXCEPT ![s] = None]
      /\ UNCHANGED <<contact, access, cookies, page, http, overlap, out, held>>
  BY DEF EndSession
<1>2. \A x \in SessionId : session'[x] \in {session[x], None}
  BY <1>1 DEF Inv, TypeOK
<1>3. TypeOK'
  BY <1>1 DEF Inv, TypeOK
<1>4. ASSUME NEW x \in SessionId \cup {None}, NEW p, Agree(x, p)
      PROVE  Agree(x, p)'
  BY <1>2, <1>4 DEF Agree
<1>5. BrowserOK'
  <2>1. cookies.session \in SessionId \cup {None}
    BY DEF Inv, TypeOK, Jar
  <2>2. QED
    BY <1>1, <1>2, <2>1 DEF Inv, BrowserOK, InFlight, Agree
<1>6. ASSUME NEW q \in Tab
      PROVE  TabOK(http[q], held[q])'
  <2>1. PICK h \in Local, k \in SUBSET App : h = http[q] /\ k = held[q]
    BY DEF Inv, TypeOK
  <2>2. TabOK(h, k) /\ http'[q] = h /\ held'[q] = k
    BY <1>1, <2>1 DEF Inv
  <2>3. Known(h)' /\ Delivers(h)' /\ KeptOut(h)' /\ Fits(h)'
    BY <1>1, <2>2 DEF TabOK, Known, Delivers, KeptOut, Fits
  <2>4. Consented(h, k)'
    BY <1>1, <2>2 DEF TabOK, Consented, MayOpen
  <2>5. Paired(h)'
    <3>1. PICK x \in SessionId \cup {None}, p \in Credential \cup {None} :
             x = SessionAfter(h) /\ p = PersistentAfter(h)
      BY AfterIs
    <3>2. SessionAfter(h)' = x /\ PersistentAfter(h)' = p
      BY <1>1, <3>1 DEF SessionAfter, PersistentAfter
    <3>3. Agree(x, p) => Agree(x, p)'
      BY <1>4
    <3>4. h.pc = "remember" => h.fresh \in SessionId
      BY <2>2 DEF TabOK, Delivers
    <3>5. h.pc = "remember" /\ session[h.fresh] \in {None, h.typed}
              => session'[h.fresh] \in {None, h.typed}
      BY <1>2, <3>4
    <3> HIDE DEF SessionAfter, PersistentAfter, Agree
    <3>6. QED
      <4>1. Agree(SessionAfter(h), PersistentAfter(h))' <=> Agree(x, p)'
        BY <3>2 DEF Agree
      <4>2. QED
        BY <1>1, <2>2, <3>1, <3>2, <3>3, <3>5, <4>1 DEF TabOK, Paired
  <2>6. TabOK(h, k)'
    BY <2>3, <2>4, <2>5 DEF TabOK
  <2>7. QED
    BY <2>2, <2>6
<1>7. QED
  BY <1>3, <1>5, <1>6 DEF Inv

LEMMA BrowseStep ==
    ASSUME Inv, NEW t \in Tab, Browse(t)
    PROVE  Inv'
<1>1. PICK p \in Shown : p = page[t] /\ (p.kind # "blank" => p.csrf # None)
  BY DEF Inv, TypeOK, Shown
<1>2. p.csrf \in Csrf \cup {None}
  BY DEF Shown
<1>3. CASE Visit(t)
  <2>1. Sends(t, "get", None, None) /\ out' = out
    BY <1>3 DEF Visit, Sends
  <2>2. QED
    BY <2>1, SendStep DEF Forms
<1>4. CASE SubmitCancel(t)
  <2>1. Sends(t, "cancel", None, None) /\ out' = out
    BY <1>4 DEF SubmitCancel, Sends
  <2>2. QED
    BY <2>1, SendStep DEF Forms
<1>5. ASSUME NEW u \in User, NEW v \in Version, NEW remember \in BOOLEAN,
             SubmitLogin(t, u, v, remember)
      PROVE  Inv'
  <2>1. PICK c \in Credential : c = <<u, v>>
    BY DEF Credential
  <2>2. Send(t, "login", page[t].csrf, c, remember)
    BY <1>5, <2>1, Zenon DEF SubmitLogin
  <2>3. Sends(t, "login", p.csrf, c)
    BY <1>1, <2>2, Zenon DEF Sends
  <2>4. p.csrf # None /\ out' = FALSE
    BY <1>1, <1>5 DEF SubmitLogin
  <2>5. QED
    BY <1>1, <1>2, <2>3, <2>4, SendStep DEF Forms
<1>6. ASSUME NEW button \in {"approve", "deny", "logout"}, SubmitDecision(t, button)
      PROVE  Inv'
  <2>1. Sends(t, button, p.csrf, None) /\ p.csrf # None /\ out' = out
    BY <1>1, <1>6 DEF SubmitDecision, Sends
  <2>2. button \in Forms \ {"none"} /\ button # "login"
    BY DEF Forms
  <2>3. QED
    BY <1>1, <1>2, <2>1, <2>2, SendStep
<1>7. QED
  BY <1>3, <1>4, <1>5, <1>6, ReceiveStep, LoseStep DEF Browse

LEMMA InvInit == Init => Inv
<1> SUFFICES ASSUME Init
             PROVE  Inv
  OBVIOUS
<1>1. /\ contact \in [User -> [enabled : BOOLEAN, version : Version]]
      /\ access \in [User -> SUBSET App]
      /\ page = [t \in Tab |-> Blank] /\ http = [t \in Tab |-> Idle]
      /\ overlap = FALSE /\ out = FALSE /\ held = [t \in Tab |-> {}]
  BY ZenonT(40) DEF Init
<1>2. /\ session \in [SessionId -> Credential \cup {None}] /\ cookies \in Jar
      /\ Agree(cookies.session, cookies.persistent)
  <2>1. CASE /\ session = [s \in SessionId |-> None]
             /\ cookies \in [session : {None}, persistent : Credential \cup {None}, csrf : {None}]
    BY <2>1 DEF Jar, Agree
  <2>2. CASE \E u \in User :
                LET s == CHOOSE s \in SessionId : TRUE
                    c == <<u, contact[u].version>>
                IN  /\ session = [x \in SessionId |-> IF x = s THEN c ELSE None]
                    /\ cookies \in [session : {s}, persistent : {None, c},
                                    csrf : {CHOOSE k \in Csrf : TRUE}]
    <3>1. PICK s \in SessionId : s = CHOOSE x \in SessionId : TRUE
      BY SomeAssumption
    <3>2. PICK j \in Csrf : j = CHOOSE k \in Csrf : TRUE
      BY SomeAssumption
    <3>3. PICK u \in User :
              /\ session = [x \in SessionId |-> IF x = s THEN <<u, contact[u].version>> ELSE None]
              /\ cookies \in [session : {s}, persistent : {None, <<u, contact[u].version>>},
                              csrf : {j}]
      <4>1. PICK u \in User :
                LET o == CHOOSE x \in SessionId : TRUE
                    c == <<u, contact[u].version>>
                IN  /\ session = [x \in SessionId |-> IF x = o THEN c ELSE None]
                    /\ cookies \in [session : {o}, persistent : {None, c},
                                    csrf : {CHOOSE k \in Csrf : TRUE}]
        BY <2>2, Zenon
      <4>2. /\ session = [x \in SessionId |-> IF x = s THEN <<u, contact[u].version>> ELSE None]
            /\ cookies \in [session : {s}, persistent : {None, <<u, contact[u].version>>},
                            csrf : {j}]
        BY <3>1, <3>2, <4>1, Zenon
      <4>3. QED
        BY <4>2
    <3>4. PICK v \in Version : v = contact[u].version
      BY <1>1
    <3>5. <<u, v>> \in Credential
      BY DEF Credential
    <3>6. PICK c \in Credential : c = <<u, v>>
      BY <3>5
    <3>7. c[1] = u
      BY <3>6
    <3>8. /\ session = [x \in SessionId |-> IF x = s THEN c ELSE None]
          /\ cookies \in [session : {s}, persistent : {None, c}, csrf : {j}]
      BY <3>3, <3>4, <3>6
    <3>9. session \in [SessionId -> Credential \cup {None}] /\ session[s] = c
      BY <3>6, <3>8
    <3>10. cookies \in Jar /\ cookies.session = s /\ cookies.persistent \in {None, c}
      BY <3>6, <3>8 DEF Jar
    <3>11. Agree(cookies.session, cookies.persistent)
      BY <3>6, <3>7, <3>9, <3>10 DEF Agree
    <3>12. QED
      BY <3>9, <3>10, <3>11
  <2>3. QED
    BY <2>1, <2>2 DEF Init
<1>3. TypeOK
  BY <1>1, <1>2, IdleTyped, BlankShown DEF TypeOK
<1>4. BrowserOK
  BY <1>1, <1>2, IdleTyped, BlankShown DEF BrowserOK, InFlight
<1>5. QED
  BY <1>1, <1>3, <1>4, IdleOK DEF Inv

LEMMA InvNext == Inv /\ [Next]_vars => Inv'
<1> SUFFICES ASSUME Inv, [Next]_vars
             PROVE  Inv'
  OBVIOUS
<1>1. ASSUME NEW u \in User, ChangeContact(u)
      PROVE  Inv'
  BY <1>1, MeanwhileStep DEF ChangeContact, Inv, TypeOK
<1>2. ASSUME NEW u \in User, ChangeAccess(u)
      PROVE  Inv'
  <2>1. access' \in [User -> SUBSET App]
    BY <1>2 DEF ChangeAccess, Inv, TypeOK
  <2>2. QED
    BY <1>2, <2>1, MeanwhileStep DEF ChangeAccess, Inv, TypeOK
<1>3. CASE UNCHANGED vars
  <2>1. UNCHANGED <<contact, access, session, cookies, page, http, overlap, out, held>>
    BY <1>3 DEF vars
  <2>2. \A h, k : TabOK(h, k) => TabOK(h, k)'
    BY <2>1 DEF TabOK, Known, Delivers, Consented, MayOpen, KeptOut, Fits, Paired, Agree,
                SessionAfter, PersistentAfter
  <2>3. TypeOK'
    BY <2>1 DEF Inv, TypeOK
  <2>4. BrowserOK'
    BY <2>1 DEF Inv, BrowserOK, InFlight, Agree
  <2>5. QED
    BY <2>1, <2>2, <2>3, <2>4 DEF Inv
<1>4. QED
  BY <1>1, <1>2, <1>3, BrowseStep, ServeStep, ReopenStep, EndSessionStep DEF Next

LEMMA Invariance == Spec => []Inv
BY InvInit, InvNext, PTL DEF Spec

-----------------------------------------------------------------------------
(* A grant follows a press of Approve, and is for no application that its  *)
(* subject could not open at some moment of the scope check before it.     *)
THEOREM NothingGrantedUnasked == Spec => []GrantsWithinConsent
<1>1. Inv => GrantsWithinConsent
  BY DEF Inv, TabOK, Consented, GrantsWithinConsent
<1>2. QED
  BY <1>1, Invariance, PTL

(* After a logout that nothing overlapped, the browser holds neither cookie *)
(* until it sends a password.                                              *)
THEOREM LogoutLasts == Spec => []SignedOutStaysOut
<1>1. Inv => SignedOutStaysOut
  BY DEF Inv, BrowserOK, SignedOutStaysOut
<1>2. QED
  BY <1>1, Invariance, PTL

(* With persistent login, a browser whose requests do not overlap never has *)
(* one user's session beside another user's credential.  Without it, the   *)
(* credential of an earlier visit is neither read nor cleared, and stays   *)
(* beside whatever session the next login opens.                           *)
THEOREM OneAccountAtATime == ASSUME Persistent PROVE Spec => []AccountsDoNotMix
<1>1. Inv => AccountsDoNotMix
  BY DEF Inv, BrowserOK, Agree, AccountsDoNotMix
<1>2. QED
  BY <1>1, Invariance, PTL

(* A form is refused only in a browser that had two requests under way.    *)
THEOREM FormsStayGood == Spec => []RefusedOnlyAfterOverlap
<1>1. Inv => RefusedOnlyAfterOverlap
  <2> SUFFICES ASSUME Inv, NEW t \in Tab, http[t].answer = "refused"
               PROVE  overlap
    BY DEF RefusedOnlyAfterOverlap
  <2>1. TabOK(http[t], held[t])
    BY DEF Inv
  <2>2. http[t].pc = "answered"
    BY <2>1 DEF TabOK, Consented
  <2>3. QED
    BY <2>1, <2>2 DEF TabOK, Fits
<1>2. QED
  BY <1>1, Invariance, PTL

(* The session a request established is the one its answer leaves in the   *)
(* browser, unless the request signed out.                                 *)
THEOREM SessionArrives == Spec => SessionDelivered
<1> DEFINE Delivered ==
        \A t \in Tab :
            Receive(t) /\ http[t].fresh # None
                => cookies'.session = IF http[t].answer = "logged_out" THEN None
                                      ELSE http[t].fresh
<1>1. Inv => Delivered
  <2> SUFFICES ASSUME Inv, NEW t \in Tab, Receive(t), http[t].fresh # None
               PROVE  cookies'.session = IF http[t].answer = "logged_out" THEN None
                                         ELSE http[t].fresh
    OBVIOUS
  <2>1. PICK h \in Local : h = http[t]
    BY DEF Inv, TypeOK
  <2>2. TabOK(h, held[t]) /\ h.pc = "answered" /\ h.fresh \in SessionId
    BY <2>1 DEF Inv, Receive, Local
  <2>3. cookies'.session = SessionAfter(h)
    BY <2>1, ReceivedIs
  <2>4. QED
    BY <2>1, <2>2, <2>3 DEF TabOK, Delivers, Clears, SessionAfter, Changed
<1>2. QED
  BY <1>1, Invariance, PTL DEF SessionDelivered
=============================================================================
