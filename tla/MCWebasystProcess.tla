--------------------------- MODULE MCWebasystProcess ---------------------------
(* WebasystProcess on small instances: the Contacts and Team applications as  *)
(* the code wires them, and packages of modules that meet in every way the    *)
(* linker tells apart.                                                       *)
EXTENDS WebasystProcess, PhpWriting

CONSTANTS ann, bob, cyd, staff, temps, t1, t2, t3, t4

(* apps.php and the manifests. *)
TextToken(t) == [kind |-> "text", value |-> t]
IntToken(n) == [kind |-> "int", value |-> n]
MCToken ==
    {TextToken("team"), TextToken("contacts"), Mark("true"), Mark("null")}
    \cup {Mark(k) : k \in {"return", "[", "]", "=>", ",", ";", "eof", "bad"}}

MCText == {"team", "contacts", "webasyst", "installer", "name", "icon", "img", "version",
           "header_items", "handlers", "*", "event", "method", "Old", "New", "mail", "x.png"}

Pairs(s) == Array([i \in DOMAIN s |-> Entry(TextToken(s[i][1]), s[i][2])])
Plain == Pairs(<<<<"name", TextToken("New")>>>>)
Twice == Pairs(<<<<"name", TextToken("Old")>>, <<"name", TextToken("New")>>,
                 <<"icon", Array(<<Entry(IntToken("48"), TextToken("x.png"))>>)>>,
                 <<"header_items", Pairs(<<<<"team", Plain>>,
                                           <<"mail", Pairs(<<<<"icon", Mark("true")>>>>)>>>>)>>>>)
Nameless_ == Pairs(<<<<"img", TextToken("x.png")>>>>)

Manifests(team, contacts, installer) ==
    ("team" :> team) @@ ("contacts" :> contacts) @@ ("installer" :> installer) @@ ("webasyst" :> Plain)
    @@ [t \in MCText |-> Absent]
Files_(configured, installer, manifests) ==
    [configured |-> configured, installer |-> installer, manifests |-> manifests]

MCDisk ==
    {Files_(TRUE, FALSE, Manifests(Twice, Plain, Absent)),
     Files_(TRUE, TRUE, Manifests(Absent, Twice, Plain)),
     Files_(TRUE, FALSE, Manifests(Nameless_, Plain, Absent)),
     Files_(FALSE, FALSE, Manifests(Plain, Plain, Plain))}

NoPlugins == [config |-> Absent, manifests |-> [t \in MCText |-> Absent]]
PluginsOf(config, manifest) ==
    [config |-> config, manifests |-> ("mail" :> manifest) @@ NoPlugins.manifests]
MailOn == Pairs(<<<<"mail", Mark("true")>>>>)
Hearing == Pairs(<<<<"name", TextToken("New")>>,
                   <<"handlers", Pairs(<<<<"event", TextToken("method")>>,
                       <<"*", Array(<<Entry(AutoKey, Pairs(<<<<"event", TextToken("event")>>,
                                                          <<"method", TextToken("method")>>>>))>>)>>>>)>>>>)
MCPluginFiles ==
    {[a \in MCText |-> IF a = "contacts" THEN f ELSE NoPlugins] :
        f \in {NoPlugins, PluginsOf(MailOn, Hearing), PluginsOf(MailOn, Broken)}}

(* Definitions and modules. *)
Api(name, verb, handler) ==
    [kind |-> "api", app |-> "team", plugin |-> None, name |-> name, verbs |-> {verb}, handler |-> handler]
Heeds(app, plugin, name, from, pattern, handler) ==
    [kind |-> "event", app |-> app, plugin |-> plugin, name |-> <<name>>,
     source |-> from, pattern |-> pattern, handler |-> handler]
Dispatches(kind, app, plugin, name) == [kind |-> kind, app |-> app, plugin |-> plugin, name |-> name]
Exact(name) == [kind |-> "exact", name |-> name]
Prefix(name) == [kind |-> "prefix", name |-> name]

GroupsList == Api(<<"groups", "getList">>, "GET", "groups")
UsersList == Api(<<"users", "getList">>, "GET", "users")
UsersInvite == Api(<<"users", "invite">>, "POST", "own")
RelayDelete == Heeds("team", None, "relay-delete", "contacts", Exact(<<"delete">>), "relay_delete")
RelayCollection == Heeds("team", None, "relay-collection", "contacts",
                         Exact(<<"contacts", "collection">>), "relay_collection")
PrivateRights == Heeds("contacts", None, "private-rights", "contacts", Exact(<<"delete">>), "private_rights")

AnyDelete == Heeds("contacts", None, "any-delete", None, Exact(<<"delete">>), "own")
MailDelete == Heeds("contacts", "mail", "mail-delete", "contacts", Prefix(<<"delete">>), "own")
MailAny == Heeds("contacts", "mail", "mail-any", None, Prefix(<<>>), "own")
MailStolen == Heeds("contacts", "mail", "relay-delete", None, Prefix(<<>>), "own")
TeamAny == Heeds("team", None, "team-any", "team", Prefix(<<"contacts">>), "own")
Regex == Heeds("contacts", None, "regex", "contacts", [kind |-> "regex", name |-> <<>>], "own")

Backend_ == Dispatches("controller", "contacts", None, <<<<"backend">>>>)
FrontendLists == Dispatches("action", "contacts", None, <<<<"frontend">>, <<"list">>>>)
Lists_ == Dispatches("multi_action", "contacts", None, <<<<"lists">>>>)
Mail_ == Dispatches("plugin", "contacts", "mail", None)
MailBackend == Dispatches("controller", "contacts", "mail", <<<<"backend">>>>)
MailForeign == Dispatches("controller", "contacts", None, <<<<"mail">>>>)

Module(app, own, others) ==
    [app |-> app, parts |-> <<[plugin |-> None, defs |-> own]>> \o others]
TeamModule == Module("team", <<GroupsList, UsersList, UsersInvite, RelayDelete, RelayCollection>>, <<>>)
ContactsModule == Module("contacts", <<PrivateRights>>, <<>>)
Package(own, mail) == Module("contacts", own, <<[plugin |-> "mail", defs |-> mail]>>)
RoutedPackage == Package(<<Backend_, FrontendLists, Lists_, AnyDelete, PrivateRights>>,
                         <<Mail_, MailBackend, MailDelete, MailAny>>)

Known(app, module) == [app |-> app, module |-> module]
From(kind, modules) == [kind |-> kind, modules |-> modules]
Provided(modules) == From("provided", [i \in DOMAIN modules |-> Known(modules[i].app, modules[i])])

MCSource ==
    {From("known", <<Known("contacts", ContactsModule), Known("team", TeamModule)>>),
     From("known", <<Known("contacts", TeamModule)>>),
     Provided(<<RoutedPackage, Module("team", <<RelayDelete, RelayCollection, TeamAny>>, <<>>)>>),
     Provided(<<ContactsModule, ContactsModule>>),
     Provided(<<Module("team", <<RelayDelete>>, <<>>), Package(<<>>, <<MailStolen>>)>>),
     Provided(<<Package(<<Backend_>>, <<MailForeign>>)>>),
     Provided(<<Module("contacts", <<Regex, PrivateRights>>, <<>>)>>)}

MCDefinition ==
    {GroupsList, UsersList, UsersInvite, RelayDelete, RelayCollection, PrivateRights, AnyDelete,
     MailDelete, MailAny, MailStolen, TeamAny, Regex, Backend_, FrontendLists, Lists_, Mail_,
     MailBackend, MailForeign}
MCEventKey ==
    {[app |-> "contacts", name |-> <<"delete">>],
     [app |-> "contacts", name |-> <<"contacts", "collection">>],
     [app |-> "team", name |-> <<"contacts", "delete">>]}

(* Routes: "site" has one of each kind, "alias" is another name for it, and  *)
(* any other host has the default.                                          *)
Lit(s) == [i \in DOMAIN s |-> Literal(s[i])]
Line(pattern, fields) ==
    [id |-> pattern, shorthand |-> None, fields |-> fields, data |-> <<>>]
Short(pattern, first, second) ==
    [id |-> pattern, shorthand |-> <<first, second>>, fields |-> <<>>, data |-> <<>>]
Host(domain, alias, entries) == [domain |-> domain, alias |-> alias, entries |-> entries]

SiteRoutes ==
    <<Line(Lit(<<"off">>), ("app" :> "team") @@ ("temporarily_off" :> TRUE)),
      Line(Lit(<<"old", "/">>) \o <<Wildcard>>,
           ("redirect" :> <<"new", "/", Star>>) @@ ("code" :> 302)),
      Short(Lit(<<"shop", "/">>) \o <<Wildcard>>, "contacts", <<"frontend">>),
      Line(Lit(<<"lists", "/">>) \o <<Wildcard>>, "app" :> "contacts"),
      Line(Lit(<<"mail", "/">>),
           ("app" :> "contacts") @@ ("plugin" :> <<"mail">>) @@ ("module" :> <<"backend">>))>>
SystemRoutes ==
    <<Host("site", None, SiteRoutes), Host("alias", "site", <<>>),
      Host("default", None, <<Short(<<Wildcard>>, "contacts", None)>>)>>
AppRoutes ==
    <<Line(<<Capture("module", {"lists", "frontend"}), Literal("/"), Capture("action", {"list"})>>, <<>>),
      Short(Lit(<<"list">>), <<"frontend">>, <<"list">>),
      Short(Lit(<<"mail">>), <<"lists">>, <<"list">>)>>
BackendRoutes ==
    <<Line(Lit(<<"mail", "/">>), "plugin" :> <<"mail">>),
      Line(Lit(<<"lists">>), "module" :> <<"lists">>)>>

Raw(handled) ==
    [system |-> SystemRoutes, apps |-> "contacts" :> AppRoutes,
     backends |-> "contacts" :> BackendRoutes, handled |-> handled]
MCRouteFiles ==
    {Raw({Backend_, FrontendLists, Lists_, MailBackend}),
     [Raw({Backend_}) EXCEPT !.backends = <<>>],
     [Raw({}) EXCEPT !.system = <<Host("default", None, <<Line(<<Wildcard>>, "static_content" :> "x")>>)>>]}

Visit_(domain_, path) ==
    [backend |-> FALSE, domain |-> domain_, app |-> None, path |-> path, query |-> <<>>]
Back(path, query) ==
    [backend |-> TRUE, domain |-> "site", app |-> "contacts", path |-> path, query |-> query]
MCRouteRequest ==
    {Visit_(h, p) : h \in {"alias", "other"},
                   p \in {<<>>, <<"off">>, <<"old">>, <<"old", "/", "x">>, <<"shop">>,
                          <<"shop", "/", "list">>, <<"shop", "/", "mail">>, <<"shop", "/", "lists", "/", "list">>,
                          <<"lists", "/", "lists", "/", "list">>, <<"lists", "/", "list">>, <<"mail", "/">>}}
    \cup {Back(p, q) : p \in {<<>>, <<"mail", "/">>, <<"lists">>},
                       q \in {<<>>, "module" :> <<"lists">>, "module" :> <<>>,
                              "plugin" :> <<"mail">>, "plugin" :> <<"?">>}}

(* The API. *)
Asks(path, verb, token) ==
    [https |-> TRUE, format |-> None, path |-> path, app |-> None, method |-> None, verb |-> verb,
     form |-> None, query |-> token, header |-> None, server |-> None,
     groups |-> {}, access |-> {}, types |-> {}]
AsksUsers(token) == Asks(<<<<"team", "users", "getList">>>>, "GET", token)
Level(app, level) == {[app |-> app, level |-> level]}

MCCallRequest ==
    {[AsksUsers(t1) EXCEPT !.https = FALSE],
     [AsksUsers(t1) EXCEPT !.format = "other"],
     Asks(<<<<"token">>>>, "POST", t1),
     Asks(<<<<"cron">>, <<"team">>>>, "GET", t1),
     Asks(<<>>, "GET", t1),
     Asks(<<<<"team">>, Nameless>>, "GET", t1),
     AsksUsers(""),
     [AsksUsers(None) EXCEPT !.form = "", !.query = t1, !.header = t4],
     AsksUsers(t1),
     [AsksUsers(t1) EXCEPT !.groups = {staff, temps}],
     [AsksUsers(t1) EXCEPT !.access = Level("team", "limited")],
     [AsksUsers(t1) EXCEPT !.access = Level("contacts", "full")],
     AsksUsers(t2), AsksUsers(t3),
     [Asks(<<<<"team">>, <<"groups", "getList">>>>, "GET", t1) EXCEPT !.types = {"group"}],
     [Asks(<<>>, "GET", t1) EXCEPT !.app = <<"team">>, !.method = <<"users", "none">>],
     [Asks(<<<<"contacts">>, <<"users", "getList">>>>, "GET", None) EXCEPT !.server = t1],
     Asks(<<<<"team">>, <<"users", "invite">>>>, "POST", t1),
     Asks(<<<<"team">>, <<"users", "invite">>>>, "GET", t1)}

MCReserved == {<<<<"token">>>>}
On(ahead) == [enabled |-> TRUE, forceHttps |-> TRUE, ahead |-> ahead]
Off == [enabled |-> FALSE, forceHttps |-> FALSE, ahead |-> 0]
MCSettings == {On(0), On(-269), Off}

User(isUser, login, last, idle) ==
    [isUser |-> isUser, login |-> login, active |-> TRUE, last |-> last, loggedIn |-> idle, idle |-> idle]
NeverActive(user) == [user EXCEPT !.active = FALSE, !.last = 0]
Token_(c, scope, expired) == [contact |-> c, scope |-> scope, expired |-> expired]
TeamRight(target, value) == <<target, TeamApp, Backend>> :> value
GroupRight(target, group, value) == <<target, TeamApp, ManageUsers(group)>> :> value

(* Ann has limited access, the staff is kept from her; Bob is barred and    *)
(* Cyd a user without a login.                                             *)
OneLimited ==
    [user |-> (ann :> User(1, TRUE, 300, FALSE)) @@ (bob :> User(1, TRUE, 299, TRUE))
              @@ (cyd :> NeverActive(User(-1, TRUE, 0, FALSE))),
     members |-> {<<bob, staff>>, <<ann, temps>>},
     groups |-> {[id |-> staff, type |-> "group"], [id |-> temps, type |-> "location"]},
     rights |-> TeamRight(ann, 1) @@ GroupRight(ann, staff, -1) @@ TeamRight(cyd, 2)
                @@ GroupRight(temps, AllGroups, -1) @@ TeamRight(bob, 1),
     tokens |-> (t1 :> Token_(ann, {"team"}, FALSE)) @@ (t2 :> Token_(cyd, {"team"}, FALSE))
                @@ (t3 :> Token_(ann, {"team"}, TRUE)) @@ (t4 :> Token_(bob, {"team", "contacts"}, FALSE))]

(* Her group makes Ann an administrator of Team, and the guests may use it. *)
ByGroup ==
    [OneLimited EXCEPT
        !.rights = TeamRight(temps, 2) @@ TeamRight(Guests, 1)
                   @@ GroupRight(Guests, staff, -1) @@ GroupRight(ann, staff, -2)
                   @@ (<<staff, ControlApp, Backend>> :> 1),
        !.user[ann] = User(1, TRUE, 299, FALSE),
        !.user[cyd] = User(1, FALSE, 300, FALSE),
        !.members = @ \cup {<<cyd, staff>>}]
MCDirectory == {OneLimited, ByGroup}

MCChange ==
    {[op |-> "revoke", token |-> t1],
     [op |-> "right", right |-> <<ann, TeamApp, Backend>>, value |-> 0],
     [op |-> "right", right |-> <<ann, TeamApp, ManageUsers(staff)>>, value |-> 1],
     [op |-> "leave", member |-> <<ann, temps>>],
     [op |-> "join", member |-> <<bob, temps>>],
     [op |-> "bar", contact |-> ann],
     [op |-> "delete", contact |-> ann]}
=============================================================================
