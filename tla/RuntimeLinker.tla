---------------------------- MODULE RuntimeLinker ----------------------------
(***************************************************************************)
(* The start of the application runtime: ApplicationRuntimeBootstrap       *)
(* collects the runtime modules of the installed applications and          *)
(* ApplicationRuntimeLinker first validates everything they contribute and *)
(* then registers it, one definition after another, in the registries of   *)
(* API methods, dispatch handlers and event handlers.                      *)
(*                                                                         *)
(* The catalogs answer from memory, so that one attempt runs undisturbed;  *)
(* but it may raise at each step, the lifespan of the application may be   *)
(* entered again in the same process, and what the next attempt finds in   *)
(* the plugin files need not be what this one found.                       *)
(***************************************************************************)
EXTENDS Naturals, FiniteSets, Sequences, SequencesExt, Selection

CONSTANTS
    App,         \* application ids
    Plugin,      \* plugin ids
    Definition,  \* what a runtime module may contribute
    Source,      \* where an attempt may take its runtime modules from
    None         \* no plugin, no name

Kinds == {"api", "controller", "action", "multi_action", "plugin", "event"}
DispatchKinds == {"controller", "action", "multi_action", "plugin"}

(* The part of a definition the linker looks at: an event definition has   *)
(* more (module EventDispatch).  The `app` and `plugin` of an API method   *)
(* are those of its target, of a dispatch definition those of its          *)
(* namespace, of an event handler those of its owner.                      *)
ASSUME DefinitionAssumption ==
    \A d \in Definition :
        /\ d.kind \in Kinds
        /\ d.app \in App
        /\ d.plugin \in Plugin \cup {None}
        /\ d # None

(* One application module, or one of the plugins in it: API methods, then  *)
(* dispatch definitions, then event handlers.                              *)
Rank(d) == IF d.kind = "api" THEN 1 ELSE IF d.kind = "event" THEN 3 ELSE 2
Part(app, plugin, defs) ==
    /\ defs \in Seq(Definition)
    /\ \A i \in DOMAIN defs : defs[i].kind = "api" => defs[i].app = app
    /\ \A i, j \in DOMAIN defs : i < j => Rank(defs[i]) <= Rank(defs[j])
    /\ plugin \in Plugin \cup {None}

(* What the constructors of the two kinds of module let pass: API methods  *)
(* of the application only, its own plugins, none of them twice.           *)
Constructible(module) ==
    /\ module.app \in App
    /\ module.parts \in Seq(Range(module.parts)) /\ Len(module.parts) > 0
    /\ \A i \in DOMAIN module.parts :
          /\ Part(module.app, module.parts[i].plugin, module.parts[i].defs)
          /\ (module.parts[i].plugin = None) <=> (i = 1)
          /\ \A j \in DOMAIN module.parts :
                module.parts[i].plugin = module.parts[j].plugin => i = j

(* Modules handed over as they are, or factories of known applications.    *)
ASSUME SourceAssumption ==
    \A s \in Source :
        /\ s.kind \in {"provided", "known"}
        /\ s.modules \in Seq(Range(s.modules))
        /\ \A i \in DOMAIN s.modules : Constructible(s.modules[i].module)
                                       /\ s.modules[i].app \in App

VARIABLES
    apps,        \* the snapshot of the installed applications, in its order
    plugins,     \* the plugin catalog of the last attempt: installed plugin keys
    source,      \* where the modules come from
    registered,  \* the definitions the registries hold, in order of registration
    state,       \* ApplicationRuntimeBootstrap._state
    boot         \* the attempt in progress or the last one

linkerVars == <<apps, plugins, source, registered, state, boot>>

(* An attempt that is over keeps its modules and its issues. *)
Boot(pc, modules, todo, issues, answer) ==
    [pc |-> pc, modules |-> modules, todo |-> todo, issues |-> issues, answer |-> answer]

LinkerInit ==
    /\ apps = <<>>
    /\ plugins = {}
    /\ source = None
    /\ registered = <<>>
    /\ state = "pending"
    /\ boot = Boot("idle", <<>>, <<>>, {}, "none")

(* create_container: the catalog is built, the registries are empty. *)
CreateContainer(installed, from) ==
    /\ source = None
    /\ apps' = installed
    /\ source' = from
    /\ UNCHANGED <<plugins, registered, state, boot>>

-----------------------------------------------------------------------------
(* What is checked before anything is registered. *)

(* The place of a definition in its registry: two definitions of one slot  *)
(* exclude each other.  An event handler's is its id, whoever owns it.     *)
Slot(d) ==
    IF d.kind = "api" THEN <<"api", d.app, None, d.name>>
    ELSE IF d.kind = "event" THEN <<"event", None, None, d.name>>
    ELSE <<d.kind, d.app, d.plugin, d.name>>

(* The key a check looks up, in what is planned and in the registries. *)
CheckedSlot(d) == Slot(d)

(* register of the three registries: a slot is taken once. *)
Taken(s) == \E i \in DOMAIN registered : Slot(registered[i]) = s

(* The contributions of a module in the order they are validated and       *)
(* applied: its own, then those of its plugins; each with its contributor. *)
Contributions(module) ==
    FlattenSeq([i \in DOMAIN module.parts |->
        [k \in DOMAIN module.parts[i].defs |->
            [app |-> module.app, plugin |-> module.parts[i].plugin,
             def |-> module.parts[i].defs[k]]]])

AllContributions(modules) == FlattenSeq([i \in DOMAIN modules |-> Contributions(modules[i])])

Duplicate(modules, i) == \E j \in 1..(i - 1) : modules[j].app = modules[i].app

(* A second module of an application is reported and not examined. *)
Examined(modules) ==
    Picked(modules, {i \in DOMAIN modules : ~Duplicate(modules, i)})

(* _dispatch_owned_by, and the comparison of event owners. *)
OwnedBy(c) ==
    \/ c.def.kind = "api"
    \/ /\ c.def.app = c.app
       /\ c.def.plugin = c.plugin
       /\ c.def.kind = "plugin" => c.plugin # None

(* Fault: what the modules before this one plan is forgotten. *)
ConflictsWithinModule(cs, i) ==
    \/ \E j \in 1..(i - 1) : cs[j].app = cs[i].app /\ CheckedSlot(cs[j].def) = CheckedSlot(cs[i].def)
    \/ Taken(CheckedSlot(cs[i].def))

(* A contribution conflicts with one planned before it or registered. *)
Conflicts(cs, i) ==
    \/ \E j \in 1..(i - 1) : CheckedSlot(cs[j].def) = CheckedSlot(cs[i].def)
    \/ Taken(CheckedSlot(cs[i].def))

ForeignReason(d) == IF d.kind = "event" THEN "FOREIGN_EVENT_OWNER" ELSE "FOREIGN_DISPATCH_TARGET"

ConflictReason(d) ==
    IF d.kind = "api" THEN "API_TARGET_CONFLICT"
    ELSE IF d.kind = "event" THEN "EVENT_HANDLER_CONFLICT"
    ELSE "DISPATCH_TARGET_CONFLICT"

PluginIssues(modules) ==
    LET keys == UNION {{<<m.app, p.plugin>> : p \in Range(m.parts)} : m \in Range(modules)}
    IN  {<<"PLUGIN_NOT_INSTALLED", key>> : key \in {k \in keys : k[2] # None} \ plugins}

(* ApplicationRuntimeLinker._validate. *)
Issues(modules) ==
    LET some == Examined(modules)
        cs == AllContributions(some)
    IN  {<<"DUPLICATE_APP_MODULE", modules[i].app>> :
            i \in {j \in DOMAIN modules : Duplicate(modules, j)}}
        \cup {<<"APP_NOT_INSTALLED", a>> : a \in {some[i].app : i \in DOMAIN some} \ Range(apps)}
        \cup PluginIssues(some)
        \cup {<<ForeignReason(cs[i].def), Slot(cs[i].def)>> :
                i \in {j \in DOMAIN cs : ~OwnedBy(cs[j])}}
        \cup {<<ConflictReason(cs[i].def), Slot(cs[i].def)>> :
                i \in {j \in DOMAIN cs : Conflicts(cs, j)}}

-----------------------------------------------------------------------------
(* One attempt. *)

Answered(answer) == [boot EXCEPT !.pc = "idle", !.todo = <<>>, !.answer = answer]

(* ApplicationRuntimeBootstrap.initialize: done if it was done before. *)
Initialize ==
    /\ source # None
    /\ boot.pc = "idle"
    /\ boot' = IF state = "ready"
               THEN Answered("ready")
               ELSE Boot("plugins", <<>>, <<>>, {}, "none")
    /\ UNCHANGED <<apps, plugins, source, registered, state>>

(* The plugin catalog of the attempt: `found` are the plugins its files    *)
(* describe; they may be unreadable.                                       *)
ReadPlugins(found, readable) ==
    /\ boot.pc = "plugins"
    /\ IF readable
       THEN plugins' = found /\ boot' = [boot EXCEPT !.pc = "build"]
       ELSE plugins' = plugins /\ boot' = Answered("unreadable")
    /\ UNCHANGED <<apps, source, registered, state>>

(* The factories that know an installed application, in the order of the   *)
(* applications, then of the factories.                                    *)
Chosen ==
    IF source.kind = "provided"
    THEN source.modules
    ELSE FlattenSeq([i \in DOMAIN apps |->
             Picked(source.modules, {k \in DOMAIN source.modules : source.modules[k].app = apps[i]})])

(* _runtime_modules: a factory must build a module of its application. *)
BuildModules ==
    /\ boot.pc = "build"
    /\ IF source.kind = "known" /\ \E i \in DOMAIN Chosen : Chosen[i].module.app # Chosen[i].app
       THEN boot' = Answered("mismatch")
       ELSE boot' = [boot EXCEPT !.pc = "link",
                                 !.modules = [i \in DOMAIN Chosen |-> Chosen[i].module]]
    /\ UNCHANGED <<apps, plugins, source, registered, state>>

(* ApplicationRuntimeLinker.link up to its first registration. *)
Link ==
    /\ boot.pc = "link"
    /\ LET issues == Issues(boot.modules)
       IN  IF issues # {}
           THEN boot' = [Answered("rejected") EXCEPT !.issues = issues]
           ELSE boot' = [boot EXCEPT !.pc = "apply", !.todo = AllContributions(boot.modules)]
    /\ UNCHANGED <<apps, plugins, source, registered, state>>

(* One registration of _apply_module or _apply_plugin: a registry that     *)
(* rejects what was validated is an assertion error.                       *)
Register ==
    /\ boot.pc = "apply"
    /\ boot.todo # <<>>
    /\ LET d == Head(boot.todo).def
       IN  IF Taken(Slot(d))
           THEN /\ boot' = Answered("assertion")
                /\ UNCHANGED registered
           ELSE /\ boot' = [boot EXCEPT !.todo = Tail(boot.todo)]
                /\ registered' = Append(registered, d)
    /\ UNCHANGED <<apps, plugins, source, state>>

(* Fault: an attempt ends with a registration, so that one with nothing to *)
(* register never ends.                                                    *)
FinishRegistered ==
    /\ boot.pc = "apply"
    /\ boot.todo = <<>>
    /\ registered # <<>>
    /\ boot' = Answered("ready")
    /\ state' = "ready"
    /\ UNCHANGED <<apps, plugins, source, registered>>

Finish ==
    /\ boot.pc = "apply"
    /\ boot.todo = <<>>
    /\ boot' = Answered("ready")
    /\ state' = "ready"
    /\ UNCHANGED <<apps, plugins, source, registered>>

LinkerStep == Initialize \/ BuildModules \/ Link \/ Register \/ Finish

-----------------------------------------------------------------------------
(* Properties. *)

(* What a program that may start looks like, said without an order of      *)
(* checks: the applications are installed and have one module each, the    *)
(* plugins are installed, every contribution is its contributor's own, and *)
(* no two are for one place.                                               *)
WellFormed(modules) ==
    LET cs == AllContributions(modules)
    IN  /\ Cardinality({modules[i].app : i \in DOMAIN modules}) = Len(modules)
        /\ \A i \in DOMAIN modules :
              /\ modules[i].app \in Range(apps)
              /\ \A k \in DOMAIN modules[i].parts :
                    modules[i].parts[k].plugin # None =>
                        <<modules[i].app, modules[i].parts[k].plugin>> \in plugins
        /\ \A i \in DOMAIN cs :
              cs[i].def.kind # "api" => cs[i].def.app = cs[i].app /\ cs[i].def.plugin = cs[i].plugin
        /\ \A i \in DOMAIN cs : cs[i].def.kind = "plugin" => cs[i].plugin # None
        /\ Cardinality({Slot(cs[i].def) : i \in DOMAIN cs}) = Len(cs)

(* The linker validates everything and then registers it, and an attempt   *)
(* changes all or nothing.  One that got as far as the linker succeeds     *)
(* exactly if its modules are well formed, whatever was tried before it,   *)
(* and no registry rejects what the checks let pass.  A process that is    *)
(* not ready has nothing registered once the attempt is over: a rejected   *)
(* or failed start leaves no handler behind that could serve a request or  *)
(* stand in the way of the next attempt; one that is ready has registered  *)
(* all its modules contribute, once, in their order.                       *)
LinkedAllOrNothing ==
    boot.pc = "idle" =>
        /\ boot.answer # "assertion"
        /\ boot.answer \in {"ready", "rejected"} => ((boot.answer = "ready") <=> WellFormed(boot.modules))
        /\ IF state = "pending"
           THEN registered = <<>>
           ELSE LET cs == AllContributions(boot.modules)
                IN  registered = [i \in DOMAIN cs |-> cs[i].def]
=============================================================================
