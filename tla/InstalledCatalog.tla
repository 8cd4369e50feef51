-------------------------- MODULE InstalledCatalog --------------------------
(***************************************************************************)
(* What is installed: the applications that wa-config/apps.php enables and *)
(* whose manifests are there, and their plugins, as the catalogs that are  *)
(* built from the parsed files.  Where the code raises while it builds a   *)
(* catalog, the operator Acceptable... of the file is FALSE here.          *)
(***************************************************************************)
EXTENDS PhpConfig, Selection

CONSTANT Id   \* the texts that are ids of applications or plugins

ASSUME IdAssumption == Id \subseteq Text /\ {"webasyst", "installer"} \subseteq Id

(* A file: absent, there but such that it cannot be parsed, or what it     *)
(* returns.                                                                *)
Absent == Mark("absent")
Broken == Mark("broken")

-----------------------------------------------------------------------------
(* Arrays as mappings. *)

IsMapping(v) == v.kind = "array" /\ \A i \in DOMAIN v.entries : v.entries[i].key.kind = "text"
IsList(v) == v.kind = "array" /\ \A i \in DOMAIN v.entries : v.entries[i].key.kind # "text"

KeyAt(v, i) == v.entries[i].key.value
Has(v, key) == \E i \in DOMAIN v.entries : KeyAt(v, i) = key

(* Fault: the first of several entries with one key counts. *)
AtFirst(v, key) == v.entries[Min({i \in DOMAIN v.entries : KeyAt(v, i) = key})].value

(* Of several entries with one key the last one counts ... *)
At(v, key) == v.entries[Max({i \in DOMAIN v.entries : KeyAt(v, i) = key})].value

(* ... in the place of the first one. *)
Keys(v) ==
    LET keys == [i \in DOMAIN v.entries |-> KeyAt(v, i)]
    IN  Picked(keys, {i \in DOMAIN keys : \A j \in 1..(i - 1) : keys[j] # keys[i]})

(* php_truthy *)
Truthy(v) ==
    CASE v.kind \in {"null", "false"} -> FALSE
      [] v.kind = "true" -> TRUE
      [] v.kind = "text" -> v.value \notin {"", "0"}
      [] v.kind \in {"int", "float"} -> v.value # "0"
      [] v.kind = "array" -> v.entries # <<>>

IsText(v) == v.kind = "text" /\ v.value # ""
Missing(m, key) == ~Has(m, key) \/ At(m, key).kind = "null"

(* _required_string and _optional_string *)
Required(m, key) == Has(m, key) /\ IsText(At(m, key))
Optional(m, key) == Missing(m, key) \/ IsText(At(m, key))
TextOr(m, key, default) == IF Missing(m, key) THEN default ELSE At(m, key).value

(* What a manifest turns on: its entries that are exactly true. *)
Capabilities(m) == {k \in Range(Keys(m)) : At(m, k).kind = "true"}

(* normalize_configured_app_mapping and normalize_configured_plugin_ids *)
Enabled(m) ==
    LET keys == Keys(m)
    IN  Picked(keys, {i \in DOMAIN keys : Truthy(At(m, keys[i]))})

-----------------------------------------------------------------------------
(* The manifest of an application. *)

Sizes == Number \ {"0"}
NoIcons == <<>>
Under(place, name) == <<place, name>>

AcceptableIcons(m) ==
    LET icon == At(m, "icon")
    IN  \/ Missing(m, "icon")
        \/ IsText(icon)
        \/ /\ icon.kind = "array"
           /\ \A i \in DOMAIN icon.entries :
                 /\ icon.entries[i].key.kind \in {"int", "text"}
                 /\ KeyAt(icon, i) \in Sizes
                 /\ IsText(icon.entries[i].value)

(* _read_icon_value: a picture for each size. *)
IconsRead(m, place) ==
    IF Missing(m, "icon") THEN NoIcons
    ELSE LET icon == At(m, "icon")
         IN  IF icon.kind = "text"
             THEN "48" :> Under(place, icon.value)
             ELSE [size \in {KeyAt(icon, i) : i \in DOMAIN icon.entries} |->
                      Under(place, At(icon, size).value)]

(* _normalize_app_icons: one picture is enough for the three usual sizes. *)
AppIcons(m, place) ==
    LET icons == IconsRead(m, place)
        img == IF ~Missing(m, "img") THEN Under(place, At(m, "img").value)
               ELSE IF "48" \in DOMAIN icons THEN icons["48"] ELSE Nil
        with48 == icons @@ "48" :> img
        with24 == with48 @@ "24" :> with48["48"]
    IN  IF img = Nil THEN icons ELSE with24 @@ "16" :> with24["24"]

HeaderEntries(m) == At(m, "header_items").entries

(* An item without a name is left out before its icons are looked at. *)
Shown(item) == Required(item, "name")

AcceptableHeader(m) ==
    \/ Missing(m, "header_items")
    \/ /\ IsMapping(At(m, "header_items"))
       /\ Len(Keys(At(m, "header_items"))) = Len(HeaderEntries(m))
       /\ \A i \in DOMAIN HeaderEntries(m) :
             LET item == HeaderEntries(m)[i].value
             IN  /\ IsMapping(item)
                 /\ Shown(item) => /\ AcceptableIcons(item)
                                   /\ IconsRead(item, Nil) = NoIcons => Optional(item, "img")

(* _read_header_icons *)
HeaderIcons(item, place) ==
    LET icons == IconsRead(item, place)
    IN  IF icons # NoIcons \/ Missing(item, "img")
        THEN icons
        ELSE "48" :> Under(place, At(item, "img").value)

HeaderItems(app, m) ==
    IF Missing(m, "header_items") THEN <<>>
    ELSE LET shown == SelectSeq(HeaderEntries(m), LAMBDA e : Shown(e.value))
             place == IF app = "webasyst" THEN "wa-content" ELSE app
         IN  [i \in DOMAIN shown |->
                 [id |-> shown[i].key.value,
                  name |-> At(shown[i].value, "name").value,
                  icons |-> HeaderIcons(shown[i].value, place)]]

(* normalize_application_manifest *)
AcceptableManifest(m) ==
    /\ m # Broken
    /\ IsMapping(m)
    /\ Required(m, "name")
    /\ Optional(m, "vendor") /\ Optional(m, "version")
    /\ AcceptableIcons(m) /\ Optional(m, "img")
    /\ AcceptableHeader(m)

Application(app, m) ==
    [app |-> app,
     name |-> At(m, "name").value,
     vendor |-> TextOr(m, "vendor", "local"),
     version |-> TextOr(m, "version", "0.0.1"),
     icons |-> AppIcons(m, app),
     capabilities |-> Capabilities(m),
     headerItems |-> HeaderItems(app, m)]

-----------------------------------------------------------------------------
(* FilesystemInstalledApplicationCatalog. *)

(* apps.php with webasyst added, and Installer if the policy asks for it.  *)
Configured(file, installerForced) ==
    LET forced == <<"webasyst">> \o IF installerForced THEN <<"installer">> ELSE <<>>
        keys == Keys(file) \o Picked(forced, {i \in DOMAIN forced : ~Has(file, forced[i])})
    IN  Picked(keys, {i \in DOMAIN keys : keys[i] \in Range(forced) \/ Truthy(At(file, keys[i]))})

Present(ids, manifests) == Picked(ids, {i \in DOMAIN ids : manifests[ids[i]] # Absent})

AcceptableApps(file, manifests, installerForced) ==
    /\ file \notin {Absent, Broken}
    /\ IsMapping(file)
    /\ LET ids == Configured(file, installerForced)
       IN  /\ Range(ids) \subseteq Id
           /\ \A a \in Range(Present(ids, manifests)) : AcceptableManifest(manifests[a])

InstalledApps(file, manifests, installerForced) ==
    LET ids == Present(Configured(file, installerForced), manifests)
    IN  [i \in DOMAIN ids |-> Application(ids[i], manifests[ids[i]])]

VARIABLE catalog   \* the catalog as it is built, and from which files

NoCatalog == [status |-> "none", disk |-> Nil, apps |-> <<>>]
CatalogInit == catalog = NoCatalog

(* The container builds its catalog from apps.php, that the parser has     *)
(* read if it is there, and the manifests on the disk; these are not read  *)
(* if apps.php itself cannot be.                                           *)
BuildCatalog(disk) ==
    /\ catalog = NoCatalog
    /\ IF disk.configured THEN ~Reading ELSE parser = NewParser
    /\ LET file == IF ~disk.configured THEN Absent
                   ELSE IF parser.mode = "done" THEN parser.value ELSE Broken
       IN  catalog' = IF AcceptableApps(file, disk.manifests, disk.installer)
                      THEN [status |-> "built", disk |-> disk,
                            apps |-> InstalledApps(file, disk.manifests, disk.installer)]
                      ELSE [NoCatalog EXCEPT !.status = "failed",
                                             !.disk = IF file \in {Absent, Broken} THEN Nil ELSE disk]
    /\ UNCHANGED parser

-----------------------------------------------------------------------------
(* FilesystemInstalledPluginCatalog. *)

(* php_method_names: one name, or a list of them that is not empty. *)
AcceptableMethods(v) ==
    \/ IsText(v)
    \/ /\ IsList(v)
       /\ v.entries # <<>>
       /\ \A i \in DOMAIN v.entries : IsText(v.entries[i].value)

(* A handler for events of any application names the event, and may name   *)
(* the application.                                                        *)
AcceptableWildcard(v) ==
    /\ IsList(v)
    /\ \A i \in DOMAIN v.entries :
          LET item == v.entries[i].value
          IN  /\ IsMapping(item)
              /\ Required(item, "event")
              /\ Has(item, "event_app_id") => IsText(At(item, "event_app_id"))
                                              /\ At(item, "event_app_id").value \in Id
              /\ Has(item, "method") /\ AcceptableMethods(At(item, "method"))

(* _normalize_handlers: a handler that is not truthy is no handler, the    *)
(* list under "*" is looked into even when it is empty.                    *)
AcceptableHandlers(m) ==
    \/ Missing(m, "handlers")
    \/ LET handlers == At(m, "handlers")
       IN  /\ IsMapping(handlers)
           /\ \A event \in Range(Keys(handlers)) :
                 LET handler == At(handlers, event)
                 IN  IF event = "*" /\ handler.kind = "array"
                     THEN AcceptableWildcard(handler)
                     ELSE Truthy(handler) => event # "" /\ AcceptableMethods(handler)

AcceptablePluginManifest(m) ==
    /\ m # Broken
    /\ IsMapping(m)
    /\ Required(m, "name")
    /\ Optional(m, "vendor") /\ Optional(m, "version") /\ Optional(m, "img")
    /\ AcceptableHandlers(m)

(* The files of the plugins of one application: plugins.php and manifests. *)
AcceptablePlugins(files) ==
    files.config # Absent =>
        /\ files.config # Broken
        /\ IsMapping(files.config)
        /\ Range(Enabled(files.config)) \subseteq Id
        /\ \A p \in Range(Present(Enabled(files.config), files.manifests)) :
              AcceptablePluginManifest(files.manifests[p])

InstalledPlugins(app, files) ==
    IF files.config = Absent THEN {}
    ELSE {<<app, p>> : p \in Range(Present(Enabled(files.config), files.manifests))}

(* webasyst has no plugins. *)
PluginApps(apps) == {a \in Range(apps) : a # "webasyst"}

PluginsReadable(apps, disk) == \A a \in PluginApps(apps) : AcceptablePlugins(disk[a])
PluginsFound(apps, disk) == UNION {InstalledPlugins(a, disk[a]) : a \in PluginApps(apps)}
-----------------------------------------------------------------------------
(* Properties. *)

(* The tokens of apps.php, without the parser: where the array at the top  *)
(* names an application, and whether what it says there is true to PHP.    *)
Count(kinds, k) == Cardinality({i \in 1..k : parser.read[i].kind \in kinds})
Mentions(a) ==
    {k \in 1..(Len(parser.read) - 2) :
        /\ parser.read[k] = [kind |-> "text", value |-> a]
        /\ parser.read[k + 1] = Mark("=>")
        /\ Count({"[", "("}, k) - Count({"]", ")"}, k) = 1}

SaysYes(k) ==
    LET t(n) == parser.read[k + n]
    IN  \/ t(2).kind = "true"
        \/ t(2).kind = "text" /\ t(2).value \notin {"", "0"}
        \/ t(2).kind \in {"int", "float"} /\ t(2).value # "0"
        \/ t(2).kind = "[" /\ t(3).kind # "]"
        \/ t(2).kind = "array" /\ t(4).kind # ")"

Forced == {"webasyst"} \cup {a \in {"installer"} : catalog.disk.installer}
TurnedOn(a) == a \in Forced \/ (Mentions(a) # {} /\ SaysYes(Max(Mentions(a))))

InstalledIds == {catalog.apps[i].app : i \in DOMAIN catalog.apps}

(* The applications of the catalog are those the file turns on, by what it *)
(* says of them last, and those that are always on, if their manifests are *)
(* there; each once, and by the name its own manifest says last, if it is  *)
(* written more than once.  The process fails to start for its files only  *)
(* if apps.php cannot be read, or names what is no id or has a manifest    *)
(* that cannot be used, and has it turned on: an application that is off   *)
(* stops nothing.                                                          *)
InstalledAsWritten ==
    LET manifests == catalog.disk.manifests
    IN  /\ catalog.status = "built" =>
              /\ Cardinality(InstalledIds) = Len(catalog.apps)
              /\ InstalledIds = {a \in Id : TurnedOn(a) /\ manifests[a] # Absent}
              /\ \A i \in DOMAIN catalog.apps :
                    LET m == manifests[catalog.apps[i].app]
                        key(k) == m.entries[k].key.value
                    IN  \E k \in DOMAIN m.entries :
                            /\ key(k) = "name"
                            /\ \A l \in DOMAIN m.entries : l > k => key(l) # "name"
                            /\ catalog.apps[i].name = m.entries[k].value.value
        /\ catalog.status = "failed" /\ parser.mode = "done" =>
              \/ ~IsMapping(parser.value)
              \/ \E a \in Text : TurnedOn(a) /\ (a \notin Id \/ ~(manifests[a] = Absent \/ AcceptableManifest(manifests[a])))
=============================================================================
