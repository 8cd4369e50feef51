SPECIFICATION Spec
CONSTANTS
    ann = ann
    bob = bob
    cyd = cyd
    staff = staff
    temps = temps
    t1 = t1
    t2 = t2
    t3 = t3
    t4 = t4
    Nil = Nil
    None = None
    Guests = Guests
    AllGroups = AllGroups
    Token <- MCToken
    Text <- MCText
    Number = {"0", "48"}
    Id = {"team", "contacts", "webasyst", "installer", "mail"}
    MaxTokens = 12
    MaxDepth = 2
    MaxEntries = 2
    App = {"team", "contacts", "webasyst"}
    Plugin = {"mail"}
    Definition <- MCDefinition
    Source <- MCSource
    EventKey <- MCEventKey
    Slash = "/"
    Dotted = {}
    Word = {"backend", "frontend", "lists", "list", "mail"}
    Star = Star
    Contact = {ann, bob, cyd}
    Group = {staff, temps}
    Reserved <- MCReserved
    MaxSeen = 3
    Disk <- MCDisk
    PluginFiles <- MCPluginFiles
    RouteFiles <- MCRouteFiles
    RouteRequest_ <- MCRouteRequest
    CallRequest <- MCCallRequest
    Settings <- MCSettings
    Directory <- MCDirectory
    Change <- MCChange
INVARIANTS
    ReadsWhatIsWritten
    InstalledAsWritten
    LinkedAllOrNothing
    AnsweredOncePerOwner
    RoutedAsConfigured
    ExecutedOnAuthority
    ListedWithinRights
    CallerSeenOnline
PROPERTIES
    EverythingEnds
