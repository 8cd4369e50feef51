---------------------------- MODULE WebasystProcess ----------------------------
(***************************************************************************)
(* A process of the application from its start on: apps.php is read token  *)
(* by token, the catalog of installed applications is built, the runtime   *)
(* is linked when the lifespan of the application is entered, as often as  *)
(* that is tried, and what is linked serves calls of the API, requests     *)
(* that are routed and events that are published.  Of these one at a time: *)
(* they share the registries, which a started process only reads.          *)
(*                                                                         *)
(* main.py makes the router of the API only: that of the legacy addresses  *)
(* is there for a program that embeds the application and builds one over  *)
(* the same registries, as modules other than those of known applications  *)
(* come from a program that hands them to the container.                   *)
(***************************************************************************)
EXTENDS InstalledCatalog, EventDispatch, LegacyRouting, ApiExecution

CONSTANTS
    Disk,          \* what the files may hold when the container is created
    PluginFiles,   \* what the files of plugins may hold at an attempt to start
    RouteFiles,    \* what routing files and the handlers of a router may be
    RouteRequest_, \* requests to a router
    CallRequest,   \* requests to the API
    Settings,      \* settings of the API, and of the machine's clock
    Directory,     \* what the database may hold when a call arrives
    Change         \* what others may change in it

(* The manifests that are parsed are values: the entries of an array are a *)
(* sequence.                                                               *)
ASSUME DiskAssumption ==
    \A disk \in Disk, a \in Id :
        LET manifest == disk.manifests[a]
        IN  manifest.kind = "array" => manifest.entries \in Seq(Range(manifest.entries))

(* What a call may ask and meet. *)
ASSUME CallAssumption ==
    /\ Settings \subseteq [enabled : BOOLEAN, forceHttps : BOOLEAN, ahead : Int]
    /\ \A request \in CallRequest : request.https \in BOOLEAN
    /\ \A d \in Directory : IsDirectory(d)
    /\ \A change \in Change :
          /\ change.op \in {"revoke", "right", "leave", "join", "bar", "delete"}
          /\ change.op = "right" => change.value \in Int

(* What a router may be built from and asked: paths, tables and entries    *)
(* are sequences, and a field that is given has a value.                   *)
ASSUME RoutingAssumption ==
    /\ \A request \in RouteRequest_ : request.path \in Seq(Range(request.path))
    /\ \A files \in RouteFiles :
          /\ files.system \in Seq(Range(files.system))
          /\ \A i \in DOMAIN files.system :
                LET entries == files.system[i].entries
                IN  /\ entries \in Seq(Range(entries))
                    /\ \A e \in Range(entries) : \A name \in DOMAIN e.fields : e.fields[name] # None
          /\ \A a \in DOMAIN files.apps : files.apps[a] \in Seq(Range(files.apps[a]))

fileVars == <<parser, catalog>>
vars == <<fileVars, linkerVars, eventVars, routed, apiVars>>

Init ==
    /\ ParserInit
    /\ CatalogInit
    /\ LinkerInit
    /\ EventInit
    /\ RoutingInit
    /\ ApiInit

-----------------------------------------------------------------------------
(* The start.  What was read is forgotten once the container is there. *)

ReadFile(t) ==
    /\ catalog = NoCatalog
    /\ source = None
    /\ ReadToken(t)
    /\ UNCHANGED <<catalog, linkerVars, eventVars, routed, apiVars>>

Build(disk) ==
    /\ source = None
    /\ BuildCatalog(disk)
    /\ UNCHANGED <<linkerVars, eventVars, routed, apiVars>>

Create(from) ==
    /\ catalog.status = "built"
    /\ CreateContainer([i \in DOMAIN catalog.apps |-> catalog.apps[i].app], from)
    /\ parser' = NewParser
    /\ catalog' = NoCatalog
    /\ UNCHANGED <<eventVars, routed, apiVars>>

Idle == dispatches = <<>> /\ report = NoReport /\ routed = NothingRouted /\ call = NoCall

Enter ==
    /\ Idle
    /\ Initialize
    /\ UNCHANGED <<fileVars, eventVars, routed, apiVars>>

Boots ==
    /\ \/ \E files \in PluginFiles : ReadPlugins(PluginsFound(apps, files), PluginsReadable(apps, files))
       \/ BuildModules
       \/ Link
       \/ Register
       \/ Finish
    /\ UNCHANGED <<fileVars, eventVars, routed, apiVars>>

(* The process is stopped, in whatever it does, and started again. *)
Restart ==
    /\ catalog.status = "failed" \/ source # None
    /\ parser' = NewParser /\ catalog' = NoCatalog
    /\ apps' = <<>> /\ plugins' = {} /\ source' = None /\ registered' = <<>>
    /\ state' = "pending" /\ boot' = Boot("idle", <<>>, <<>>, {}, "none")
    /\ dispatches' = <<>> /\ report' = NoReport /\ routed' = NothingRouted
    /\ directory' = None /\ call' = NoCall

-----------------------------------------------------------------------------
(* What a started process does. *)

Serving == state = "ready" /\ boot.pc = "idle"

Events ==
    /\ Serving
    /\ \/ Idle /\ \E event \in EventKey : Publish(event)
       \/ EventStep
       \/ CancelDispatch
    /\ UNCHANGED <<fileVars, routed, apiVars>>

Route ==
    /\ Serving
    /\ Idle
    /\ \E files \in RouteFiles, request \in RouteRequest_ : RouteRequest(files, request)
    /\ UNCHANGED <<fileVars, eventVars, apiVars>>

AnswerRouted ==
    /\ AnswerRequest
    /\ UNCHANGED <<fileVars, eventVars, apiVars>>

Receive ==
    /\ Serving
    /\ Idle
    /\ \E request \in CallRequest, settings \in Settings, d \in Directory :
          ReceiveCall(request, settings, d)
    /\ UNCHANGED <<fileVars, eventVars, routed>>

Call ==
    /\ ApiStep
    /\ UNCHANGED <<fileVars, eventVars, routed>>

Disturb ==
    /\ \E change \in Change : Interfere(change)
    /\ UNCHANGED <<fileVars, eventVars, routed>>

Next ==
    \/ \E t \in Token : ReadFile(t)
    \/ \E disk \in Disk : Build(disk)
    \/ \E from \in Source : Create(from)
    \/ Enter \/ Boots \/ Restart
    \/ Events \/ Route \/ AnswerRouted
    \/ Receive \/ Call \/ Disturb

(* What is begun goes on: no step waits for anything but itself, if the    *)
(* database answers and every handler of a package returns in the end.     *)
Work ==
    \/ \E t \in Token : ReadFile(t)
    \/ \E disk \in Disk : Build(disk)
    \/ Boots
    \/ EventStep /\ UNCHANGED <<fileVars, routed, apiVars>>
    \/ AnswerRouted
    \/ Call

Spec == Init /\ [][Next]_vars /\ WF_vars(Work)

(* Whatever the process has begun ends: the reading of its files in a      *)
(* catalog or a failure, an attempt to start in an answer, an event and    *)
(* those its relays publish in a report, a call of the API in an answer,   *)
(* whatever the handlers do and whoever changes the database meanwhile.    *)
AtRest == catalog.status # "none" \/ (source # None /\ boot.pc = "idle" /\ Idle)
EverythingEnds == []<>AtRest
=============================================================================
