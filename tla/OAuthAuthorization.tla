------------------------- MODULE OAuthAuthorization -------------------------
(***************************************************************************)
(* One browser at /api.php/auth: the OAuth authorization page of           *)
(* gomazon_webasyst (presentation/http/legacy_oauth.py) on top of the      *)
(* backend session bridge, which turns the session cookie and the          *)
(* persistent cookie into a subject and a subject's fate into cookies.     *)
(*                                                                         *)
(* The tabs of the browser share its cookies.  A request carries a copy of *)
(* them as they were when it was sent, every awaited call of the handler   *)
(* is a step, and the answers come back in any order or not at all.        *)
(* Accounts and rights change under it.  A backend session is what module  *)
(* SessionAuthority promises: it is live or it is not, and it is honoured  *)
(* only for an enabled user whose credentials have not changed since.      *)
(***************************************************************************)
EXTENDS Naturals

CONSTANTS
    Tab,         \* tabs of the browser
    User,        \* backend users
    Version,     \* versions of the login and password of a user
    App,         \* the installed applications the authorization asks for
    SessionId,   \* session ids; an id nobody holds any more is used again
    Csrf,        \* CSRF tokens; likewise
    Persistent,  \* TRUE: persistent_login_mode is ENABLED
    Keep, Clear, \* what an answer does to a cookie it does not set
    None,
    MaxSent,     \* bound: requests the browser sends
    MaxChanges   \* bound: changes to accounts and rights

ASSUME PersistentAssumption == Persistent \in BOOLEAN
ASSUME BoundsAssumption == MaxSent \in Nat /\ MaxChanges \in Nat

(* The persistent credential embeds the user and a digest of the version.  *)
Credential == User \X Version
Points == {"idle", "received", "credential", "restore", "anonymous", "identify", "open",
           "remember", "signed_in", "logout", "scope", "issue", "answered"}

ASSUME DistinctAssumption ==
    /\ None \notin SessionId \cup Csrf \cup User \cup Credential
    /\ {Keep, Clear} \cap (SessionId \cup Csrf \cup Credential \cup {None}) = {}
    /\ Keep # Clear
ASSUME SomeAssumption == SessionId # {} /\ Csrf # {}

VARIABLES
    contact,   \* the wa_contact rows of the users
    access,    \* the applications the rights of a user open to it
    session,   \* the live backend sessions
    cookies,   \* the cookies of the browser
    page,      \* the page each tab shows
    http,      \* the request of each tab: where it is, its locals, its answer
    sent,      \* requests sent
    changes,   \* changes made to accounts and rights
    overlap,   \* history: two requests were under way at one time, or a
               \* session was refused, since the browser was opened
    out,       \* history: signed out, and no password sent since
    held       \* history: what the subject could open since the scope check began

vars == <<contact, access, session, cookies, page, http, sent, changes,
          overlap, out, held>>

Blank == [kind |-> "blank", csrf |-> None]
NoCookies == [session |-> None, persistent |-> None, csrf |-> None]
KeepBoth == [session |-> Keep, persistent |-> Keep]
ClearBoth == [session |-> Clear, persistent |-> Clear]

Idle == [pc |-> "idle", form |-> "none", token |-> None, typed |-> None,
         remember |-> FALSE, carried |-> NoCookies, subject |-> None, fresh |-> None,
         first |-> KeepBoth, second |-> KeepBoth, left |-> {}, scope |-> {},
         page |-> Blank, csrf |-> None, answer |-> "none"]

(* A browser new to the site, or one with the cookies of an earlier visit: *)
(* a persistent credential, or a session as well or alone.                 *)
Init ==
    /\ contact \in [User -> [enabled : {TRUE}, version : Version]]
    /\ access = [u \in User |-> App]
    /\ \/ /\ session = [s \in SessionId |-> None]
          /\ cookies \in [session : {None}, persistent : Credential \cup {None}, csrf : {None}]
       \/ \E u \in User :
             LET s == CHOOSE s \in SessionId : TRUE
                 c == <<u, contact[u].version>>
             IN  /\ session = [x \in SessionId |-> IF x = s THEN c ELSE None]
                 /\ cookies \in [session : {s}, persistent : {None, c},
                                 csrf : {CHOOSE k \in Csrf : TRUE}]
    /\ page = [t \in Tab |-> Blank]
    /\ http = [t \in Tab |-> Idle]
    /\ sent = 0
    /\ changes = 0
    /\ overlap = FALSE
    /\ out = FALSE
    /\ held = [t \in Tab |-> {}]

-----------------------------------------------------------------------------
(* Operators. *)

(* LegacyCredentialVersionTokenFactory.create, and what accepts it. *)
CurrentCredential(u) == <<u, contact[u].version>>
Valid(c) == contact[c[1]].enabled /\ c = CurrentCredential(c[1])

(* ResolveBackendSession, as SessionAuthority has it: live, and its subject *)
(* still the one it was opened for.                                        *)
Honoured(s) == IF session[s] = None THEN FALSE ELSE Valid(session[s])

(* LegacyOAuthConsentAccessService.authorize: a user, some access to the app. *)
MayOpen(u) == {a \in access[u] : contact[u].enabled}

InFlight(t) == http[t].pc # "idle"
QuietBut(t) == \A q \in Tab \ {t} : ~InFlight(q)
IsPost(t) == http[t].form # "get"

(* Ids and tokens some cookie, page or request still knows. *)
SessionsInUse ==
    {cookies.session} \cup UNION {{http[t].carried.session, http[t].fresh} : t \in Tab}
TokensInUse ==
    {cookies.csrf} \cup {page[t].csrf : t \in Tab}
                   \cup UNION {{http[t].carried.csrf, http[t].csrf} : t \in Tab}

(* A new id, a new token: which of the free ones does not matter. *)
FreeSessions == {s \in SessionId \ SessionsInUse : session[s] = None}
NewSession == CHOOSE s \in FreeSessions : TRUE
FreeTokens == Csrf \ TokensInUse
NewToken == CHOOSE c \in FreeTokens : TRUE

(* LegacyOAuthCsrfService.validate. *)
CsrfAccepted(t) == http[t].carried.csrf # None /\ http[t].token = http[t].carried.csrf

(* BackendAuthCookieMutationService.plan and its application to a response. *)
Changed(cookie, disposition) ==
    IF disposition = Keep THEN cookie ELSE IF disposition = Clear THEN None ELSE disposition

Disposed(jar, d) ==
    [jar EXCEPT !.session = Changed(jar.session, d.session),
                !.persistent = Changed(jar.persistent, d.persistent)]

Goto(t, p) == http' = [http EXCEPT ![t].pc = p]

(* An answered request: the locals of the handler are gone.                *)
Answered(t, a) ==
    [Idle EXCEPT !.pc = "answered", !.form = http[t].form, !.fresh = http[t].fresh,
                 !.first = http[t].first, !.second = http[t].second, !.answer = a]

Answer(t, a) == http' = [http EXCEPT ![t] = Answered(t, a)]

(* Fault: every page gets a token of its own. *)
RenderFresh(t, kind, a) ==
    /\ FreeTokens # {}
    /\ http' = [http EXCEPT ![t] = [Answered(t, a) EXCEPT
                    !.csrf = NewToken, !.page = [kind |-> kind, csrf |-> NewToken]]]

(* A page with a form: its CSRF token is the one of the cookie the request *)
(* carried, or a new one that the answer sets.                             *)
Render(t, kind, a) ==
    LET token == IF http[t].carried.csrf # None THEN http[t].carried.csrf ELSE NewToken
    IN  /\ http[t].carried.csrf = None => FreeTokens # {}
        /\ http' = [http EXCEPT ![t] = [Answered(t, a) EXCEPT
                        !.csrf = IF http[t].carried.csrf = None THEN token ELSE None,
                        !.page = [kind |-> kind, csrf |-> token]]]

-----------------------------------------------------------------------------
(* The browser. *)

Send(t, form, token, typed, remember) ==
    /\ ~InFlight(t)
    /\ sent < MaxSent
    /\ http' = [http EXCEPT ![t] = [Idle EXCEPT
                  !.pc = "received", !.form = form, !.token = token, !.typed = typed,
                  !.remember = remember, !.carried = cookies]]
    /\ sent' = sent + 1
    /\ overlap' = (overlap \/ ~QuietBut(t))
    /\ UNCHANGED <<contact, access, session, cookies, page, changes, held>>

Visit(t) == Send(t, "get", None, None, FALSE) /\ UNCHANGED out

SubmitLogin(t, u, v, remember) ==
    /\ page[t].kind = "login"
    /\ Send(t, "login", page[t].csrf, <<u, v>>, remember)
    /\ out' = FALSE

SubmitDecision(t, button) ==
    /\ page[t].kind = "consent"
    /\ Send(t, button, page[t].csrf, None, FALSE)
    /\ UNCHANGED out

(* The cancel form is not rendered here: a client's page posts it. *)
SubmitCancel(t) == Send(t, "cancel", None, None, FALSE) /\ UNCHANGED out

(* Fault: what login or logout decided is applied before what the current  *)
(* subject was.                                                            *)
ReceiveSwapped(t) ==
    /\ http[t].pc = "answered"
    /\ LET jar == Disposed(Disposed(cookies, http[t].second), http[t].first)
       IN  cookies' = [jar EXCEPT !.csrf = Changed(@, IF http[t].csrf = None THEN Keep
                                                      ELSE http[t].csrf)]
    /\ page' = [page EXCEPT ![t] = http[t].page]
    /\ out' = (out \/ (http[t].answer = "logged_out" /\ QuietBut(t)))
    /\ http' = [http EXCEPT ![t] = Idle]
    /\ held' = [held EXCEPT ![t] = {}]
    /\ UNCHANGED <<contact, access, session, sent, changes, overlap>>

(* The answer arrives: what the current subject did to the cookies is      *)
(* applied first, then what login or logout did.                           *)
Receive(t) ==
    /\ http[t].pc = "answered"
    /\ LET jar == Disposed(Disposed(cookies, http[t].first), http[t].second)
       IN  cookies' = [jar EXCEPT !.csrf = Changed(@, IF http[t].csrf = None THEN Keep
                                                      ELSE http[t].csrf)]
    /\ page' = [page EXCEPT ![t] = http[t].page]
    /\ out' = (out \/ (http[t].answer = "logged_out" /\ QuietBut(t)))
    /\ http' = [http EXCEPT ![t] = Idle]
    /\ held' = [held EXCEPT ![t] = {}]
    /\ UNCHANGED <<contact, access, session, sent, changes, overlap>>

(* The connection breaks before the answer arrives. *)
Lose(t) ==
    /\ http[t].pc = "answered"
    /\ http' = [http EXCEPT ![t] = Idle]
    /\ page' = [page EXCEPT ![t] = Blank]
    /\ held' = [held EXCEPT ![t] = {}]
    /\ UNCHANGED <<contact, access, session, cookies, sent, changes, overlap, out>>

(* The browser is closed and opened again: the persistent cookie stays. *)
Reopen ==
    /\ \A t \in Tab : ~InFlight(t)
    /\ cookies # [NoCookies EXCEPT !.persistent = cookies.persistent]
    /\ cookies' = [NoCookies EXCEPT !.persistent = cookies.persistent]
    /\ page' = [t \in Tab |-> Blank]
    /\ overlap' = FALSE
    /\ UNCHANGED <<contact, access, session, http, sent, changes, out, held>>

-----------------------------------------------------------------------------
(* Who is it?  BackendCurrentSubjectFlow, on the cookies of the request.   *)

Unauthenticated(t) ==
    IF Persistent /\ http[t].carried.persistent # None THEN "credential" ELSE "anonymous"

(* The outer cancel: answered before anything is asked about the subject.  *)
Cancel(t) ==
    /\ http[t].pc = "received"
    /\ http[t].form = "cancel"
    /\ Answer(t, "cancelled")
    /\ UNCHANGED <<contact, access, session, cookies, page, sent, changes, overlap,
                   out, held>>

(* ResolveBackendSession: a session that is not honoured is revoked, and   *)
(* its cookie is to be cleared.                                            *)
ResolveSession(t) ==
    /\ http[t].pc = "received"
    /\ http[t].form # "cancel"
    /\ LET s == http[t].carried.session
       IN  \/ /\ s = None
              /\ Goto(t, Unauthenticated(t))
              /\ UNCHANGED session
           \/ /\ s # None
              /\ Honoured(s)
              /\ http' = [http EXCEPT ![t].pc = "signed_in", ![t].subject = session[s][1]]
              /\ UNCHANGED session
           \/ /\ s # None
              /\ ~Honoured(s)
              /\ http' = [http EXCEPT ![t].pc = Unauthenticated(t),
                                      ![t].first = [@ EXCEPT !.session = Clear]]
              /\ session' = [session EXCEPT ![s] = None]
    /\ UNCHANGED <<contact, access, cookies, page, sent, changes, overlap, out, held>>

(* Fault: a credential that is rejected stays where it is. *)
ReadCredentialKept(t) ==
    /\ http[t].pc = "credential"
    /\ LET c == http[t].carried.persistent
       IN  http' = IF Valid(c)
                   THEN [http EXCEPT ![t].pc = "restore"]
                   ELSE [http EXCEPT ![t].pc = "anonymous"]
    /\ UNCHANGED <<contact, access, session, cookies, page, sent, changes, overlap,
                   out, held>>

(* LegacyAuthTokenStrategy.resolve: a credential that is not the current   *)
(* one of an enabled user is to be cleared.                                *)
ReadCredential(t) ==
    /\ http[t].pc = "credential"
    /\ LET c == http[t].carried.persistent
       IN  http' = IF Valid(c)
                   THEN [http EXCEPT ![t].pc = "restore"]
                   ELSE [http EXCEPT ![t].pc = "anonymous",
                                     ![t].first = [@ EXCEPT !.persistent = Clear]]
    /\ UNCHANGED <<contact, access, session, cookies, page, sent, changes, overlap,
                   out, held>>

(* BackendSessionEstablisher.establish, for the credential that was read:  *)
(* both cookies are to be set.                                             *)
Restore(t) ==
    /\ http[t].pc = "restore"
    /\ FreeSessions # {}
    /\ LET c == http[t].carried.persistent
       IN  /\ session' = [session EXCEPT ![NewSession] = c]
           /\ http' = [http EXCEPT
                         ![t].pc = "signed_in", ![t].subject = c[1], ![t].fresh = NewSession,
                         ![t].first = [session |-> NewSession, persistent |-> c]]
    /\ UNCHANGED <<contact, access, cookies, page, sent, changes, overlap, out, held>>

(* SESSION_UNAVAILABLE: the session state store had the new id already.    *)
Unavailable(t) ==
    /\ \/ http[t].pc = "restore" /\ Goto(t, "anonymous")
       \/ http[t].pc = "open" /\ Render(t, "login", "login_page")
    /\ overlap' = TRUE
    /\ UNCHANGED <<contact, access, session, cookies, page, sent, changes, out, held>>

-----------------------------------------------------------------------------
(* Nobody yet: the login page, and the password it posts. *)

(* Any form is taken for a login here; one without an identifier, like the *)
(* ones of a consent page, is rejected and gets the login page.            *)
Anonymous(t) ==
    /\ http[t].pc = "anonymous"
    /\ \/ /\ ~IsPost(t)
          /\ Render(t, "login", "login_page")
       \/ /\ IsPost(t)
          /\ ~CsrfAccepted(t)
          /\ Render(t, "login", "refused")
       \/ /\ IsPost(t)
          /\ CsrfAccepted(t)
          /\ http[t].form # "login"
          /\ Render(t, "login", "login_page")
       \/ /\ IsPost(t)
          /\ CsrfAccepted(t)
          /\ http[t].form = "login"
          /\ Goto(t, "identify")
    /\ UNCHANGED <<contact, access, session, cookies, page, sent, changes, overlap,
                   out, held>>

(* The identity directory finds the user, and the password is verified.    *)
Identify(t) ==
    /\ http[t].pc = "identify"
    /\ IF Valid(http[t].typed)
       THEN Goto(t, "open")
       ELSE Render(t, "login", "login_page")
    /\ UNCHANGED <<contact, access, session, cookies, page, sent, changes, overlap,
                   out, held>>

(* The session of a login; the answer sends the browser back here.         *)
Open(t) ==
    /\ http[t].pc = "open"
    /\ FreeSessions # {}
    /\ session' = [session EXCEPT ![NewSession] = http[t].typed]
    /\ LET second == [http[t].second EXCEPT !.session = NewSession]
           next == IF http[t].remember /\ Persistent
                   THEN [http[t] EXCEPT !.pc = "remember"]
                   ELSE Answered(t, "logged_in")
       IN  http' = [http EXCEPT ![t] = [next EXCEPT !.fresh = NewSession, !.second = second]]
    /\ UNCHANGED <<contact, access, cookies, page, sent, changes, overlap, out, held>>

(* IssuePersistentCredential reads the user again.                         *)
Remember(t) ==
    /\ http[t].pc = "remember"
    /\ LET u == http[t].typed[1]
           credential == IF contact[u].enabled THEN CurrentCredential(u) ELSE Keep
           second == [http[t].second EXCEPT !.persistent = credential]
       IN  http' = [http EXCEPT ![t] = [Answered(t, "logged_in") EXCEPT !.second = second]]
    /\ UNCHANGED <<contact, access, session, cookies, page, sent, changes, overlap,
                   out, held>>

-----------------------------------------------------------------------------
(* Somebody: OAuthAuthorizationFlow. *)

(* Fault: logging out leaves the persistent cookie alone. *)
LogOutSessionOnly(t) ==
    /\ http[t].pc = "logout"
    /\ session' = IF http[t].carried.session = None THEN session
                  ELSE [session EXCEPT ![http[t].carried.session] = None]
    /\ http' = [http EXCEPT ![t] = [Answered(t, "logged_out") EXCEPT
                    !.second = [session |-> Clear, persistent |-> Keep]]]
    /\ UNCHANGED <<contact, access, cookies, page, sent, changes, overlap, out, held>>

(* BackendLogoutFlow, for the session the request carried: a session that  *)
(* was restored for this very request stays.                               *)
LogOut(t) ==
    /\ http[t].pc = "logout"
    /\ session' = IF http[t].carried.session = None THEN session
                  ELSE [session EXCEPT ![http[t].carried.session] = None]
    /\ http' = [http EXCEPT ![t] = [Answered(t, "logged_out") EXCEPT !.second = ClearBoth]]
    /\ UNCHANGED <<contact, access, cookies, page, sent, changes, overlap, out, held>>

(* The request is parsed, a post has its CSRF token checked; then a logout *)
(* or the scope.  A form of a consent page goes to an address that parses. *)
SignedIn(t) ==
    /\ http[t].pc = "signed_in"
    /\ \/ /\ http[t].form \in {"get", "login"}
          /\ Answer(t, "invalid")
          /\ UNCHANGED held
       \/ /\ IsPost(t)
          /\ ~CsrfAccepted(t)
          /\ Answer(t, "refused")
          /\ UNCHANGED held
       \/ /\ http[t].form = "logout"
          /\ CsrfAccepted(t)
          /\ Goto(t, "logout")
          /\ UNCHANGED held
       \/ /\ http[t].form # "logout"
          /\ IsPost(t) => CsrfAccepted(t)
          /\ http' = [http EXCEPT ![t].pc = "scope", ![t].left = App]
          /\ held' = [held EXCEPT ![t] = MayOpen(http[t].subject)]
    /\ UNCHANGED <<contact, access, session, cookies, page, sent, changes, overlap, out>>

(* The applications are taken in the order of the request, whatever it is. *)
NextApp(t) == CHOOSE a \in http[t].left : TRUE

(* Fault: that the application is installed is enough. *)
CheckAppInstalled(t) ==
    /\ http[t].pc = "scope"
    /\ http[t].left # {}
    /\ http' = [http EXCEPT ![t].left = @ \ {NextApp(t)}, ![t].scope = @ \cup {NextApp(t)}]
    /\ UNCHANGED <<contact, access, session, cookies, page, sent, changes, overlap,
                   out, held>>

(* OAuthConsentScopeService.filter, one application. *)
CheckApp(t) ==
    /\ http[t].pc = "scope"
    /\ http[t].left # {}
    /\ http' = [http EXCEPT
                  ![t].left = @ \ {NextApp(t)},
                  ![t].scope = @ \cup ({NextApp(t)} \cap MayOpen(http[t].subject))]
    /\ UNCHANGED <<contact, access, session, cookies, page, sent, changes, overlap,
                   out, held>>

(* Fault: a post approves unless it denies. *)
DecideUnlessDenied(t) ==
    /\ http[t].pc = "scope"
    /\ http[t].left = {}
    /\ \/ http[t].scope = {} /\ Answer(t, "invalid")
       \/ http[t].scope # {} /\ ~IsPost(t) /\ Render(t, "consent", "consent_page")
       \/ http[t].scope # {} /\ IsPost(t) /\ http[t].form # "deny" /\ Goto(t, "issue")
       \/ http[t].scope # {} /\ http[t].form = "deny" /\ Answer(t, "denied")
    /\ UNCHANGED <<contact, access, session, cookies, page, sent, changes, overlap,
                   out, held>>

(* prepare shows the consent page, decide grants what was approved.        *)
Decide(t) ==
    /\ http[t].pc = "scope"
    /\ http[t].left = {}
    /\ \/ http[t].scope = {} /\ Answer(t, "invalid")
       \/ http[t].scope # {} /\ ~IsPost(t) /\ Render(t, "consent", "consent_page")
       \/ http[t].scope # {} /\ http[t].form = "approve" /\ Goto(t, "issue")
       \/ http[t].scope # {} /\ IsPost(t) /\ http[t].form # "approve" /\ Answer(t, "denied")
    /\ UNCHANGED <<contact, access, session, cookies, page, sent, changes, overlap,
                   out, held>>

(* IssueAuthorizationCode or IssueImplicitApiAccessToken (ApiCredentials): *)
(* a grant to the subject, or none.                                        *)
Issue(t) ==
    /\ http[t].pc = "issue"
    /\ \/ http' = [http EXCEPT ![t] = [Answered(t, "granted") EXCEPT !.scope = http[t].scope]]
       \/ Answer(t, "invalid")
    /\ UNCHANGED <<contact, access, session, cookies, page, sent, changes, overlap,
                   out, held>>

(* A store raises: an answer without cookies.  A logout may have revoked   *)
(* the session before.                                                     *)
Fail(t) ==
    /\ \/ http[t].pc \in Points \ {"idle", "received", "anonymous", "signed_in", "answered"}
       \/ http[t].pc = "received" /\ http[t].form # "cancel" /\ http[t].carried.session # None
    /\ http' = [http EXCEPT ![t] = [Answered(t, "failed") EXCEPT
                    !.first = KeepBoth, !.second = KeepBoth, !.fresh = None]]
    /\ \/ UNCHANGED session
       \/ /\ http[t].pc = "logout"
          /\ http[t].carried.session # None
          /\ session' = [session EXCEPT ![http[t].carried.session] = None]
    /\ UNCHANGED <<contact, access, cookies, page, sent, changes, overlap, out, held>>

-----------------------------------------------------------------------------
(* What happens meanwhile. *)

Granting(t) == http[t].pc \in {"scope", "issue"}

HeldNow == held' = [t \in Tab |-> IF Granting(t) THEN held[t] \cup MayOpen(http[t].subject)'
                                  ELSE held[t]]

(* An account is disabled or enabled, or gets another login or password.   *)
ChangeContact(u) ==
    /\ changes < MaxChanges
    /\ \E new \in [enabled : BOOLEAN, version : Version] :
          /\ new # contact[u]
          /\ contact' = [contact EXCEPT ![u] = new]
    /\ changes' = changes + 1
    /\ UNCHANGED <<access, session, cookies, page, http, sent, overlap, out>>
    /\ HeldNow

(* The rights of a user change (AccessControl). *)
ChangeAccess(u) ==
    /\ changes < MaxChanges
    /\ \E a \in App : access' = [access EXCEPT ![u] = (@ \cup {a}) \ (@ \cap {a})]
    /\ changes' = changes + 1
    /\ UNCHANGED <<contact, session, cookies, page, http, sent, overlap, out>>
    /\ HeldNow

(* A session expires, or is revoked from elsewhere. *)
EndSession(s) ==
    /\ session[s] # None
    /\ session' = [session EXCEPT ![s] = None]
    /\ UNCHANGED <<contact, access, cookies, page, http, sent, changes, overlap, out, held>>

Browse(t) ==
    \/ Visit(t)
    \/ \E u \in User, v \in Version, remember \in BOOLEAN : SubmitLogin(t, u, v, remember)
    \/ \E button \in {"approve", "deny", "logout"} : SubmitDecision(t, button)
    \/ SubmitCancel(t)
    \/ Receive(t)
    \/ Lose(t)

Serve(t) ==
    \/ Cancel(t) \/ ResolveSession(t) \/ ReadCredential(t) \/ Restore(t) \/ Unavailable(t)
    \/ Anonymous(t) \/ Identify(t) \/ Open(t) \/ Remember(t)
    \/ SignedIn(t) \/ LogOut(t) \/ CheckApp(t) \/ Decide(t) \/ Issue(t)
    \/ Fail(t)

Next ==
    \/ \E t \in Tab : Browse(t) \/ Serve(t)
    \/ Reopen
    \/ \E u \in User : ChangeContact(u) \/ ChangeAccess(u)
    \/ \E s \in SessionId : EndSession(s)

Spec == Init /\ [][Next]_vars

-----------------------------------------------------------------------------
(* Properties. *)

(* A grant follows a press of Approve on a consent page, whatever another  *)
(* tab did to the cookies meanwhile, and covers only applications its      *)
(* subject could open at some moment of the scope check that precedes it.  *)
GrantsWithinConsent ==
    \A t \in Tab : http[t].answer = "granted" =>
        /\ http[t].form = "approve"
        /\ http[t].scope # {}
        /\ http[t].scope \subseteq held[t]

(* Once the answer to a logout arrived with no other request under way,    *)
(* the browser holds neither cookie until it sends a password again: not   *)
(* even the ones the same request restored before it logged out.           *)
SignedOutStaysOut == out => cookies.session = None /\ cookies.persistent = None

(* While its requests do not overlap, a browser never holds a live session *)
(* of one user beside the persistent credential of another: a session that *)
(* ends could otherwise be silently replaced by one of another account.    *)
AccountsDoNotMix ==
    ~overlap /\ cookies.session # None /\ cookies.persistent # None
        => session[cookies.session] \in {None} \cup {<<cookies.persistent[1], v>> : v \in Version}

(* A form is refused for its CSRF token only in a browser that had two     *)
(* requests under way at one time: a page does not wear out by reloading   *)
(* another one.                                                            *)
RefusedOnlyAfterOverlap == \A t \in Tab : http[t].answer = "refused" => overlap

(* When the answer to a request that established a session arrives, the    *)
(* browser holds that session, whatever became of the one it sent; unless  *)
(* the request logged out, which leaves none.                              *)
SessionDelivered ==
    [][\A t \in Tab :
        Receive(t) /\ http[t].fresh # None
            => cookies'.session = IF http[t].answer = "logged_out" THEN None
                                  ELSE http[t].fresh]_vars
=============================================================================
