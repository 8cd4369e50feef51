---------------------------- MODULE LegacyRouting ----------------------------
(***************************************************************************)
(* From an address to a handler: the routes of routing.php as they are     *)
(* written, the system resolver that settles an address in an application  *)
(* or redirects it, the application's own routes, the routes of a backend, *)
(* and the dispatch resolver that looks the handler up in the registry the *)
(* linker has filled.  No step of it awaits anything: one request is one   *)
(* step.  A path is a sequence of segments and slashes; the letters of a   *)
(* segment, and their case, are left out.                                  *)
(***************************************************************************)
EXTENDS RuntimeLinker

CONSTANTS
    Slash,
    Dotted,     \* segments with a dot among their last letters
    Word,       \* segments that may name a module, an action or a plugin
    Star        \* a star, and the name of a wildcard

Controls == {"module", "action", "plugin"}
NoControls == <<>>

-----------------------------------------------------------------------------
(* Patterns: sequences of elements, each with what it may take: a literal  *)
(* one segment or a slash, a placeholder one of some segments, or (`of` is *)
(* None) anything, as little of it as possible.                            *)

Literal(token) == [capture |-> None, of |-> {token}]
Capture(name, of) == [capture |-> name, of |-> of]
Wildcard == Capture(Star, None)

Takes(element, piece) == element.of # None => Len(piece) = 1 /\ piece[1] \in element.of

(* re.fullmatch of the compiled pattern: the pieces its elements take, the *)
(* first in the order in which lazy groups are tried, or None.             *)
Fit(pattern, path) ==
    LET ends == 0..Len(path)
        \* `rest[n]` is how the later elements take the path after n.
        Prepend(element, rest) ==
            [n \in ends |->
                LET stops == {m \in n..Len(path) :
                                 Takes(element, SubSeq(path, n + 1, m)) /\ rest[m] # None}
                IN  IF stops = {} THEN None
                    ELSE <<SubSeq(path, n + 1, Min(stops))>> \o rest[Min(stops)]]
    IN  FoldRight(Prepend, pattern, [n \in ends |-> IF n = Len(path) THEN <<>> ELSE None])[0]

Named(pattern, name) == {i \in DOMAIN pattern : pattern[i].capture = name}
HasWildcard(pattern) == Named(pattern, Star) # {}
Piece(pattern, fit, name) == fit[Min(Named(pattern, name))]

Captures(pattern, fit) ==
    [name \in {pattern[i].capture : i \in DOMAIN pattern} \ {Star, None} |-> Piece(pattern, fit, name)]

(* What f says, and what g says of the rest. *)
Overlaid(f, g) == [x \in DOMAIN f \cup DOMAIN g |-> IF x \in DOMAIN f THEN f[x] ELSE g[x]]
Only(name, value) == [x \in {name} |-> value]

Restricted(f, names) == [name \in DOMAIN f \cap names |-> f[name]]
Without(f, names) == [name \in DOMAIN f \ names |-> f[name]]

(* merge_seed: what is configured, over what was settled, over captures.   *)
MergedSeed(base, captures, explicit) == Overlaid(explicit, Overlaid(base, Restricted(captures, Controls)))

-----------------------------------------------------------------------------
(* legacy_parser: an entry of a table has an id, the url it stands for or  *)
(* None in a list, and a value: a shorthand, the segments of a text, or a  *)
(* mapping.  `fields` holds the control fields that are given and not      *)
(* empty; `data` holds the others.                                         *)

EntryMapped(entry) ==
    IF entry.shorthand # None THEN entry.id # None /\ entry.shorthand[1] # None
    ELSE "url" \in DOMAIN entry.fields \/ entry.id # None

(* The shorthand of a system route is an application and its module, that  *)
(* of an application's route a module and its action.                      *)
AsFields(entry, first, second) ==
    LET url == Only("url", entry.id)
        short == entry.shorthand
        rest == IF Len(short) > 1 /\ short[2] # None THEN Only(second, short[2]) ELSE NoControls
    IN  IF short = None THEN Overlaid(entry.fields, url)
        ELSE Overlaid(url, Overlaid(Only(first, short[1]), rest))

Supported(fields) == "static_content" \notin DOMAIN fields /\ "priority_settlement" \notin DOMAIN fields

(* The fields of a route are given with a value that is not empty, but for *)
(* "url", "redirect" and "static_content", which count when they are there.*)
SystemEntryAccepted(entry) ==
    /\ EntryMapped(entry)
    /\ LET fields == AsFields(entry, "app", "module")
       IN  Supported(fields) /\ ("redirect" \in DOMAIN fields \/ "app" \in DOMAIN fields)

SystemRule(entry) ==
    LET fields == AsFields(entry, "app", "module")
        is(name) == name \in DOMAIN fields
    IN  [kind |-> IF is("redirect") THEN "redirect" ELSE "app",
         pattern |-> fields["url"],
         off |-> is("temporarily_off") \/ (is("redirect") /\ is("disabled")),
         location |-> IF is("redirect") THEN fields["redirect"] ELSE None,
         code |-> IF is("code") /\ fields["code"] = 302 THEN 302 ELSE 301,
         app |-> IF is("redirect") THEN None ELSE fields["app"],
         seed |-> Restricted(fields, Controls),
         data |-> entry.data]

AppEntryAccepted(entry) ==
    /\ EntryMapped(entry)
    /\ LET fields == AsFields(entry, "module", "action")
       IN  Supported(fields) /\ "redirect" \notin DOMAIN fields

AppRule(entry) ==
    LET fields == AsFields(entry, "module", "action")
    IN  [pattern |-> fields["url"],
         off |-> "temporarily_off" \in DOMAIN fields,
         seed |-> Restricted(fields, Controls),
         data |-> entry.data]

SystemRules(entries) == [i \in DOMAIN entries |-> SystemRule(entries[i])]
AppRules(entries) == [i \in DOMAIN entries |-> AppRule(entries[i])]

(* parse_system_routes: a domain has routes, or is an alias of another; an *)
(* alias that names a later alias names nothing yet.                       *)
TableAccepted(raw) ==
    \A i \in DOMAIN raw : raw[i].alias = None => \A e \in Range(raw[i].entries) : SystemEntryAccepted(e)

SystemTable(raw) ==
    LET own == {i \in DOMAIN raw : raw[i].alias = None}
        routes == [name \in {raw[i].domain : i \in own} |->
                      SystemRules(raw[CHOOSE i \in own : raw[i].domain = name].entries)]
        AliasOf(d, table) == IF d.alias \in DOMAIN table THEN table[d.alias] ELSE <<>>
        table[n \in 0..Len(raw)] ==
            IF n = 0 THEN routes
            ELSE IF n \in own THEN table[n - 1]
            ELSE Overlaid(Only(raw[n].domain, AliasOf(raw[n], table[n - 1])), table[n - 1])
    IN  table[Len(raw)]

-----------------------------------------------------------------------------
(* SystemRouteResolver. *)

Rulebook(table, domain) ==
    IF domain \in DOMAIN table THEN table[domain]
    ELSE IF "default" \in DOMAIN table THEN table["default"] ELSE <<>>

(* The first rule that is on and fits: its number, or 0. *)
FirstRule(rules, path) ==
    LET fitting == {i \in DOMAIN rules : ~rules[i].off /\ Fit(rules[i].pattern, path) # None}
    IN  IF fitting = {} THEN 0 ELSE Min(fitting)

EndsInSlash(path) == path # <<>> /\ Last(path) = Slash

RetriesWithSlash(rules, first, path) ==
    /\ ~EndsInSlash(path)
    /\ \/ first = 0
       \/ rules[first].pattern = <<Wildcard>> /\ path # <<>> /\ Last(path) \notin Dotted

(* _redirect: what the wildcard took goes where the location has a star;   *)
(* the query goes along if there was a wildcard.                           *)
Redirected(rule, path) ==
    LET fit == Fit(rule.pattern, path)
        taken == Piece(rule.pattern, fit, Star)
        Put(at, t) == at \o IF t = Star /\ HasWildcard(rule.pattern) THEN taken ELSE <<t>>
    IN  [kind |-> "redirect", slash |-> FALSE, code |-> rule.code, withQuery |-> HasWildcard(rule.pattern),
         location |-> FoldLeft(Put, <<>>, rule.location)]

SlashAdded(path) ==
    [kind |-> "redirect", slash |-> TRUE, code |-> 301, withQuery |-> FALSE,
     location |-> Append(path, Slash)]

(* _app_settlement: what is left for the application's routes is as much   *)
(* of the END of the path as "url" or the first wildcard has taken.        *)
Settlement(rule, path) ==
    LET fit == Fit(rule.pattern, path)
        captures == Captures(rule.pattern, fit)
        rest == IF "url" \in DOMAIN captures THEN captures["url"]
                ELSE IF HasWildcard(rule.pattern) THEN Piece(rule.pattern, fit, Star) ELSE <<>>
    IN  [kind |-> "app", app |-> rule.app,
         remaining |-> SubSeq(path, Len(path) - Len(rest) + 1, Len(path)),
         seed |-> MergedSeed(NoControls, captures, rule.seed),
         constraint |-> IF "module" \in DOMAIN rule.seed THEN rule.seed["module"] ELSE None,
         data |-> Overlaid(rule.data, Without(captures, Controls))]

NotFound == [kind |-> "none"]

Settle(rules, path) ==
    LET first == FirstRule(rules, path)
        second == FirstRule(rules, Append(path, Slash))
        redirects(n) == n # 0 /\ rules[n].kind = "redirect"
    IN  IF redirects(first) THEN Redirected(rules[first], path)
        ELSE IF RetriesWithSlash(rules, first, path) /\ redirects(second)
        THEN Redirected(rules[second], Append(path, Slash))
        ELSE IF /\ RetriesWithSlash(rules, first, path)
                /\ second # 0
                /\ first = 0 \/ rules[second].pattern # <<Wildcard>>
        THEN SlashAdded(path)
        ELSE IF first = 0 THEN NotFound ELSE Settlement(rules[first], path)

-----------------------------------------------------------------------------
(* AppRouteResolver, BackendAppRouteResolver and BackendRouteResolver. *)

(* A dispatch: the application, its controls, and the data of the route.   *)
ResolvedDispatch(app, seed, data, default) ==
    [app |-> app,
     plugin |-> IF "plugin" \in DOMAIN seed THEN seed["plugin"] ELSE None,
     module |-> IF "module" \in DOMAIN seed THEN seed["module"] ELSE default,
     action |-> IF "action" \in DOMAIN seed THEN seed["action"] ELSE None,
     data |-> data]

(* Fault: the module a settlement is confined to is not asked for. *)
AdmitsAny(settlement, rule) == TRUE

(* A settlement whose rule names a module is confined to routes of it. *)
Admits(settlement, rule) ==
    settlement.constraint # None =>
        "module" \in DOMAIN rule.seed /\ rule.seed["module"] = settlement.constraint

FrontendDispatch(settlement, rules) ==
    LET path == settlement.remaining
        admitted == [i \in DOMAIN rules |->
                        [rules[i] EXCEPT !.off = @ \/ ~Admits(settlement, rules[i])]]
        n == FirstRule(admitted, path)
        captures == Captures(rules[n].pattern, Fit(rules[n].pattern, path))
    IN  IF n = 0
        THEN ResolvedDispatch(settlement.app, settlement.seed, settlement.data, <<"frontend">>)
        ELSE ResolvedDispatch(settlement.app,
                 MergedSeed(settlement.seed, captures, rules[n].seed),
                 Overlaid(rules[n].data, Overlaid(settlement.data, Without(captures, Controls))),
                 <<"frontend">>)

(* An empty control in a query is no control to the backend's routes. *)
QueryEmpty(query) ==
    \A name \in {"module", "plugin"} : name \in DOMAIN query => query[name] \in {<<>>, <<"0">>}

WellNamed(controls) ==
    \A name \in DOMAIN controls :
        controls[name] # <<>> => Len(controls[name]) = 1 /\ controls[name][1] \in Word

(* The controls of a backend request, or None if its application has       *)
(* routes, the query does not decide and no route fits.                    *)
BackendControls(request, rules) ==
    LET asked == Overlaid(Restricted(request.query, Controls), Only("module", <<"backend">>))
        n == FirstRule(rules, request.path)
        captures == Captures(rules[n].pattern, Fit(rules[n].pattern, request.path))
    IN  IF rules = None \/ ~QueryEmpty(request.query) THEN asked
        ELSE IF n = 0 THEN None
        ELSE Overlaid(MergedSeed(NoControls, captures, rules[n].seed), asked)

-----------------------------------------------------------------------------
(* DispatchResolver: which definition in the registry handles a dispatch.  *)
(* Dispatch keys are module keys <<m>> and action keys <<m, a>>.           *)

PluginName(d) == IF d.plugin = None THEN None ELSE d.plugin[1]
Holding(kind, d, key) == {e \in Range(registered) : Slot(e) = <<kind, d.app, PluginName(d), key>>}

(* A plugin is named by a word of the path. *)
PluginAvailable(d) == Len(d.plugin) = 1 /\ Holding("plugin", d, None) # {}

TargetOf(d) ==
    LET moduleKey == <<d.module>>
        key == IF d.action = None THEN moduleKey ELSE <<d.module, d.action>>
        wanted == <<<<"controller", key>>, <<"action", key>>, <<"multi_action", moduleKey>>>>
        found == {i \in 1..3 : Holding(wanted[i][1], d, wanted[i][2]) # {}}
    IN  IF d.plugin # None /\ ~PluginAvailable(d) THEN None
        ELSE IF found = {} THEN None
        ELSE CHOOSE e \in Holding(wanted[Min(found)][1], d, wanted[Min(found)][2]) : TRUE

-----------------------------------------------------------------------------
(* The HTTP router. *)

VARIABLE routed   \* the last request and its answer

Routed(raw, request, answer, dispatch, target, settled) ==
    [raw |-> raw, request |-> request, answer |-> answer,
     dispatch |-> dispatch, target |-> target, settled |-> settled]

NothingRouted == Routed(None, None, "none", None, None, None)
RoutingInit == routed = NothingRouted

(* A target whose id the router knows no handler for is not found either.  *)
Dispatched(raw, request, d, settled) ==
    LET target == TargetOf(d)
        answer == IF target # None /\ target \in raw.handled THEN "handler" ELSE "404"
    IN  Routed(raw, request, answer, d, target, settled)

(* LegacyCompatibilityService.resolve_frontend. *)
FrontendOutcome(raw, request) ==
    LET settled == Settle(Rulebook(SystemTable(raw.system), request.domain), request.path)
        rules == IF settled.app \in DOMAIN raw.apps THEN AppRules(raw.apps[settled.app]) ELSE <<>>
    IN  CASE settled.kind = "none" -> Routed(raw, request, "404", None, None, settled)
          [] settled.kind = "redirect" -> Routed(raw, request, "redirect", None, None, settled)
          [] settled.kind = "app" ->
                 Dispatched(raw, request, FrontendDispatch(settled, rules), settled)

(* resolve_backend: that no route fits is an error its router leaves to    *)
(* the server.                                                             *)
BackendOutcome(raw, request) ==
    LET rules == IF request.app \in DOMAIN raw.backends
                 THEN AppRules(raw.backends[request.app]) ELSE None
        controls == BackendControls(request, rules)
    IN  IF controls = None THEN Routed(raw, request, "500", None, None, NotFound)
        ELSE IF ~WellNamed(controls) THEN Routed(raw, request, "400", None, None, NotFound)
        ELSE Dispatched(raw, request,
                 ResolvedDispatch(request.app, controls, NoControls, <<"backend">>), NotFound)

(* Route tables are parsed when a router is built; if that fails there is  *)
(* no router.  `raw` is what the files say, and the handlers of the router.*)
Routable(raw) ==
    /\ TableAccepted(raw.system)
    /\ \A a \in DOMAIN raw.apps : \A e \in Range(raw.apps[a]) : AppEntryAccepted(e)
    /\ \A a \in DOMAIN raw.backends : \A e \in Range(raw.backends[a]) : AppEntryAccepted(e)

RouteRequest(raw, request) ==
    /\ routed = NothingRouted
    /\ Routable(raw)
    /\ routed' = IF request.backend THEN BackendOutcome(raw, request) ELSE FrontendOutcome(raw, request)
    /\ UNCHANGED linkerVars

AnswerRequest ==
    /\ routed # NothingRouted
    /\ routed' = NothingRouted
    /\ UNCHANGED linkerVars

-----------------------------------------------------------------------------
(* Properties. *)

(* A request that reaches a handler reaches one of an installed            *)
(* application, registered for the application and the plugin its address  *)
(* was settled in, the plugin being installed too; if the rule that        *)
(* settled it names a module, of that module, whatever the application's   *)
(* own routes and the address itself say.  And an address that is sent on  *)
(* to its slash is settled there, and not sent on again.                   *)
RoutedAsConfigured ==
    /\ routed.answer = "handler" =>
        /\ routed.target.app \in Range(apps)
        /\ routed.target.app = routed.dispatch.app
        /\ routed.target.plugin = PluginName(routed.dispatch)
        /\ routed.dispatch.plugin # None => <<routed.target.app, routed.target.plugin>> \in plugins
        /\ ~routed.request.backend =>
              LET rules == Rulebook(SystemTable(routed.raw.system), routed.request.domain)
                  rule == rules[FirstRule(rules, routed.request.path)]
              IN  /\ rule.app = routed.target.app
                  /\ "module" \in DOMAIN rule.seed => routed.dispatch.module = rule.seed["module"]
    /\ routed.answer = "redirect" /\ routed.settled.slash =>
        LET rules == Rulebook(SystemTable(routed.raw.system), routed.request.domain)
        IN  Settle(rules, routed.settled.location).kind = "app"
=============================================================================
