------------------------------ MODULE Session ------------------------------
(***************************************************************************)
(* The kernel extension (UserClient_kext, Config, RemapClassManager's      *)
(* loading, Core and Driver) and the Karabiner servers of the users who    *)
(* are logged in (ClientForKernelspace, UserClient_userspace, AppDelegate, *)
(* SessionObserver, PreferencesManager, XMLCompiler, Relauncher).  Only    *)
(* one server at a time has the kernel extension open.  A server polls     *)
(* whether its user is at the console; when he is, it connects, retrying   *)
(* by a timer, and sends everything the kernel extension needs.            *)
(*                                                                         *)
(* A server's main thread runs the blocks of the main queue one by one; a  *)
(* block makes its calls into the kernel extension one after the other     *)
(* (todo), and anything that is not the main thread of this server may     *)
(* happen between two of them.  In the kernel extension every call is one  *)
(* step, under the global lock.                                            *)
(*                                                                         *)
(* A remapclasses_initialize_vector is the sequence of the names of its    *)
(* classes: the position of a name is its config index.  A setting is on   *)
(* or off.  The workspace ids depend on what has the focus and on the      *)
(* vector, whose compilation numbers the applications.                     *)
(***************************************************************************)
EXTENDS HookedDevices, Sequences, SequencesExt

CONSTANTS
    Servers,         \* one per user
    Nobody,
    Vectors, InitialVector,  \* what XMLCompiler may make of the XML files
    MaxConfigCount,  \* RemapClass::MAX_CONFIG_COUNT
    Essential,       \* general.dont_remap_* settings
    ConfigLists,     \* the sets of settings that a user may select
    Excluded,        \* the devices each of them leaves alone
    AutoEnable,      \* notsave.automatically_enable_*: the device classes in use
    MaxRetry,        \* 120 in the code
    MaxVersion,      \* how often Karabiner is upgraded, plus one
    Scenarios        \* how often which event from outside may happen in a behaviour

ASSUME SessionAssumption ==
    /\ Servers # {} /\ Nobody \notin Servers
    /\ MaxConfigCount \in Nat /\ MaxRetry \in Nat /\ MaxVersion \in Nat \ {0}
    /\ AutoEnable \subseteq {"keyboard", "pointing"}
    /\ Excluded \in [Essential -> SUBSET Devices]

VARIABLES
    kext,      \* the kernel extension
    waiting,   \* its callbacks have been called with events that it has not remapped yet
    server,    \* the servers
    console,   \* whose session is on the console
    disk,      \* the version of Karabiner that is installed
    budget     \* the events from outside that are still to come

vars == <<kext, waiting, server, console, disk, budget, dev, progressTimer>>

ClassNames == UNION {Range(v) : v \in Vectors}
Names      == ClassNames \cup Essential
Focus      == {0, 1}
Ids        == Focus \X Vectors

\* A duplicated identifier is an error of xml_compiler, and it gives the
\* essential settings no config index.
ASSUME VectorsAssumption ==
    /\ InitialVector \in Vectors /\ Vectors \subseteq Seq(ClassNames)
    /\ \A v \in Vectors : IsInjective(v)
    /\ ClassNames \cap (Essential \cup AutoEnable) = {}
    /\ ConfigLists \subseteq SUBSET Names

\* What a user may leave behind at the keyboard.
Traces == {"lock", "sticky", "button lock", "repeat", "scroll", "negative lock"}

-----------------------------------------------------------------------------
(* The kernel extension: its state, and what the calls make of it *)

Kext == [loaded : BOOLEAN, version : 1..MaxVersion, owner : Servers \cup {Nobody},
         initialized : BOOLEAN, notification : BOOLEAN,
         classes : Vectors \cup {<<>>}, enabled : SUBSET Nat,
         essential : SUBSET (Essential \cup AutoEnable),
         workspace : Ids \cup {<<>>}, traces : SUBSET Traces]

NewKext == [loaded |-> TRUE, version |-> disk, owner |-> Nobody,
            initialized |-> FALSE, notification |-> FALSE, classes |-> <<>>, enabled |-> {},
            essential |-> {}, workspace |-> <<>>, traces |-> {}]

\* The conditions of the refresh methods.
Wanted(k) ==
    {d \in Devices :
        /\ k.initialized
        /\ (IF d \in Keyboards THEN "keyboard" ELSE "pointing") \in k.essential
        /\ \A e \in k.essential \cap Essential : d \notin Excluded[e]}

\* Mutant: the keyboard state is left as it is.
SetInitializedFlag(k, value) ==
    [k EXCEPT !.initialized = value, !.essential = IF value THEN @ ELSE {}]

\* Config::set_initialized; lock_clear does not clear negative locks.
SetInitialized(k, value) ==
    [k EXCEPT !.initialized = value,
              !.traces = @ \cap {"negative lock"},
              !.essential = IF value THEN @ ELSE {}]

\* callback_close, when the client is the one that has the provider open.
CallbackClose(k) == [SetInitialized(k, FALSE) EXCEPT !.notification = FALSE, !.owner = Nobody]

\* load_remapclasses_initialize_vector: a vector that is refused leaves no class.
LoadVector(k, v) ==
    [SetInitialized(k, FALSE) EXCEPT
        !.classes = IF Len(v) <= MaxConfigCount THEN v ELSE <<>>, !.enabled = {}]

\* set_config: nothing happens unless there is a value for each class.
SetConfig(k, v, on) ==
    IF Len(v) # Len(k.classes) THEN k
    ELSE [k EXCEPT !.essential = on \cap (Essential \cup AutoEnable),
                   !.enabled = {i \in DOMAIN v : v[i] \in on}]

\* config_index, the set of none or one
Indexes(v, name) == {i \in DOMAIN v : v[i] = name}

\* set_config_one, for the name as v numbers it.
SetConfigOne(k, v, name, on) ==
    IF name \in Essential \cup AutoEnable
    THEN [k EXCEPT !.essential = IF on THEN @ \cup {name} ELSE @ \ {name}]
    ELSE LET known == Indexes(v, name) \cap DOMAIN k.classes
         IN  [k EXCEPT !.enabled = IF on THEN @ \cup known ELSE @ \ known]

\* The extension becomes k, and the devices are refreshed.
Becomes(k) == kext' = k /\ RefreshAll(Wanted(k)) /\ UNCHANGED waiting

\* The extension becomes k, no device is refreshed.
BecomesQuietly(k) == kext' = k /\ RefreshNone /\ UNCHANGED waiting

\* clientClose when a process ends: its connection is closed.
ClientDies(s) == IF kext.owner = s THEN Becomes(CallbackClose(kext)) ELSE BecomesQuietly(kext)

-----------------------------------------------------------------------------
(* The servers *)

Block(op, arg) == [op |-> op, arg |-> arg]
Blocks == {Block(op, 0) : op \in {"io", "reloaded", "workspace", "listChanged", "wake"}}
            \cup {Block("notify", i) : i \in UNION {DOMAIN v : v \in Vectors}}

Call(op)      == [op |-> op, name |-> "", index |-> 0]
SetOne(n)     == [op |-> "one", name |-> n, index |-> 0]
GetEnabled(i) == [op |-> "get", name |-> "", index |-> i]

Calls == {Call(op) : op \in {"close", "open", "vector", "config", "initialized", "workspace"}}
            \cup {SetOne(n) : n \in Names \cup AutoEnable}
            \cup {GetEnabled(i) : i \in UNION {DOMAIN v : v \in Vectors}}

Server == [proc : {"down", "relaunching", "up"}, version : 1..MaxVersion,
           previous : 0..MaxVersion, active : BOOLEAN, connect : BOOLEAN,
           timer : BOOLEAN, retry : 0..MaxRetry + 1, alert : BOOLEAN,
           prefs : SUBSET Names, auto : BOOLEAN, xml : Vectors, focus : Focus, ids : Ids,
           queue : Seq(Blocks), todo : Seq(Calls)]

\* applicationDidFinishLaunching: the preferences and the XML files are loaded
\* (which posts ConfigXMLReloaded, before AppDelegate observes it), the session
\* is observed, the workspace is looked at.  The preferences stay on disk when
\* a server ends, the relaunched one inherits the environment.
Launched(x) ==
    [x EXCEPT !.proc = "up", !.version = disk, !.active = FALSE, !.connect = FALSE,
              !.timer = FALSE, !.retry = 0, !.alert = FALSE, !.focus = 0, !.ids = <<0, x.xml>>,
              !.queue = <<Block("reloaded", 0), Block("workspace", 0)>>,
              !.todo = <<>>]

Ended(x, proc, previous) ==
    [x EXCEPT !.proc = proc, !.previous = previous, !.active = FALSE, !.connect = FALSE,
              !.timer = FALSE, !.retry = 0, !.alert = FALSE, !.queue = <<>>, !.todo = <<>>]

\* kConfigXMLReloadedNotification: ClientForKernelspace and AppDelegate
PostReloaded(x) == [x EXCEPT !.queue = @ \o <<Block("reloaded", 0), Block("workspace", 0)>>]

\* [timer_ invalidate]
Invalidate(x) == [x EXCEPT !.timer = FALSE]

\* refresh_connection_with_retry
RefreshConnection(x) == [x EXCEPT !.timer = TRUE, !.retry = 0, !.alert = FALSE]

SetAuto == SetToSeq({SetOne(n) : n \in AutoEnable})

\* send_config_to_kext sets notsave.automatically_enable_* first.
SendConfig(x) == (IF x.auto THEN <<>> ELSE SetAuto) \o <<Call("config")>>

\* clearNotSave removes the settings and, if there were any, sends the rest:
\* they are set again before it returns.
ClearNotSave(x) == IF x.auto THEN SendConfig([x EXCEPT !.auto = FALSE]) ELSE <<>>

\* observer_ConfigListChanged, and the end of observer_ConfigXMLReloaded
SendSettings(x) == ClearNotSave(x) \o SendConfig(x) \o <<Call("initialized")>>

\* What is on for the server, with the settings that are not saved.
On(x) == x.prefs \cup (IF x.auto THEN AutoEnable ELSE {})

MainThread(s) == server[s].proc = "up" /\ server[s].todo = <<>>

\* The server becomes x, and then makes the calls.
Continue(s, x, calls) == server' = [server EXCEPT ![s] = [x EXCEPT !.todo = calls]]

\* The server becomes x, and sends; synchronized_communication does nothing
\* without a connection.
Send(s, x, calls) == Continue(s, x, IF x.connect THEN calls ELSE <<>>)

InsideOnly == UNCHANGED <<console, disk, budget>>
ServersOnly == InsideOnly /\ BecomesQuietly(kext)

-----------------------------------------------------------------------------
(* The main queue *)

\* SessionObserver's timerFireMethod and its block, with the blocks that
\* AppDelegate gives it: an active session registers for the kernel extension
\* to appear (and looks for it at once), an inactive one disconnects.  The
\* timer is periodic: there may be a block of it before any other block.
Poll(s) ==
    /\ MainThread(s)
    /\ LET x == [server[s] EXCEPT !.active = (console = s)]
       IN  CASE x.active = server[s].active -> Continue(s, x, <<>>)
             [] x.active /\ ~server[s].active ->
                  Continue(s, [x EXCEPT !.queue = Append(@, Block("io", 0))], <<>>)
             [] ~x.active /\ server[s].active -> Continue(s, Invalidate(x), <<Call("close")>>)
    /\ ServersOnly

\* timerFireMethod and its block, while the timer is valid: refresh_connection
\* closes, then opens.  This timer is periodic, too.
Retry(s) ==
    /\ MainThread(s) /\ server[s].timer
    /\ Continue(s, server[s], <<Call("close"), Call("open")>>)
    /\ ServersOnly

\* The main thread takes the next block, of the kind op.
Takes(s, op) ==
    /\ MainThread(s)
    /\ server[s].queue # <<>> /\ Head(server[s].queue).op = op
    /\ ServersOnly

Rest(s) == [server[s] EXCEPT !.queue = Tail(@)]

\* observer_IONotification's block
RunIONotification(s) ==
    /\ Takes(s, "io")
    /\ Send(s, RefreshConnection(Rest(s)), <<Call("workspace")>>)

\* Mutant: the settings are sent without the vector.
RunReloadedOnce(s) ==
    /\ Takes(s, "reloaded")
    /\ Send(s, [Rest(s) EXCEPT !.auto = TRUE], SendSettings(server[s]))

\* ClientForKernelspace's observer_ConfigXMLReloaded
RunReloaded(s) ==
    /\ Takes(s, "reloaded")
    /\ Send(s, [Rest(s) EXCEPT !.auto = TRUE],
            <<Call("vector")>> \o SendSettings(server[s]))

\* observer_ConfigListChanged
RunListChanged(s) ==
    /\ Takes(s, "listChanged")
    /\ Send(s, [Rest(s) EXCEPT !.auto = TRUE], SendSettings(server[s]))

\* AppDelegate's observer_ConfigXMLReloaded and its input source observer: the
\* ids are looked up again.
RunWorkspace(s) ==
    /\ Takes(s, "workspace")
    /\ Send(s, [Rest(s) EXCEPT !.ids = <<server[s].focus, server[s].xml>>], <<Call("workspace")>>)

\* callClearNotSave after wake, without general.keep_notsave_at_wake
RunWake(s) ==
    /\ Takes(s, "wake")
    /\ Send(s, Rest(s), ClearNotSave(server[s]))

\* callback_NotificationFromKext, CONFIG_ENABLED_UPDATED
RunNotification(s) ==
    /\ Takes(s, "notify")
    /\ Send(s, Rest(s), <<GetEnabled(Head(server[s].queue).arg)>>)

-----------------------------------------------------------------------------
(* The calls *)

\* The next call of the server is op, and the server goes on as Then says.
Makes(s, op, x) ==
    /\ server[s].proc = "up"
    /\ server[s].todo # <<>> /\ Head(server[s].todo).op = op
    /\ Continue(s, x, Tail(server[s].todo))
    /\ InsideOnly

\* synchronized_communication fails without a connection, in the kernel
\* extension when the client has not opened its provider.
Refused(s) ==
    /\ kext.owner # s
    /\ \E op \in {"vector", "config", "one", "initialized", "workspace", "get"} :
          Makes(s, op, server[s])
    /\ BecomesQuietly(kext)

\* closeUserClient; for IOServiceClose alone clientClose does the same.
Close(s) ==
    /\ Makes(s, "close", [server[s] EXCEPT !.connect = FALSE])
    /\ IF kext.owner = s THEN Becomes(CallbackClose(kext)) ELSE BecomesQuietly(kext)

\* openUserClient succeeds: the notifications are enabled, everything is sent.
OpenSucceeds(s) ==
    /\ kext.loaded /\ kext.owner = Nobody /\ kext.version = server[s].version
    /\ Makes(s, "open", PostReloaded(Invalidate([server[s] EXCEPT !.connect = TRUE])))
    /\ BecomesQuietly([kext EXCEPT !.owner = s, !.notification = TRUE])

\* openUserClient fails, since the service is not there or another client has it.
Fails(s, x, gaveUp) ==
    /\ ~kext.loaded \/ kext.owner # Nobody
    /\ Makes(s, "open", IF gaveUp THEN Invalidate([x EXCEPT !.alert = TRUE]) ELSE x)
    /\ BecomesQuietly(kext)

\* Mutant: the failures are not counted.
OpenFailsUncounted(s) == Fails(s, server[s], FALSE)

\* Mutant: the count is compared before it is increased.
OpenFailsOnceMore(s) == Fails(s, [server[s] EXCEPT !.retry = @ + 1], server[s].retry > MaxRetry)

\* It fails, to be retried; after MaxRetry times an alert is shown.
OpenFails(s) == Fails(s, [server[s] EXCEPT !.retry = @ + 1], server[s].retry + 1 > MaxRetry)

\* The versions do not match, and did not in the process that launched this
\* one: an exception, caught in timerFireMethod.  The connection stays open.
OpenThrows(s) ==
    /\ kext.loaded /\ kext.owner = Nobody /\ kext.version # server[s].version
    /\ server[s].previous = server[s].version
    /\ Makes(s, "open", Invalidate([server[s] EXCEPT !.connect = TRUE, !.alert = TRUE]))
    /\ BecomesQuietly([kext EXCEPT !.owner = s])

\* The versions do not match: the process launches the server anew and ends.
OpenRelaunches(s) ==
    /\ kext.loaded /\ kext.owner = Nobody /\ kext.version # server[s].version
    /\ server[s].previous # server[s].version
    /\ server[s].todo # <<>> /\ Head(server[s].todo).op = "open"
    /\ server' = [server EXCEPT ![s] = Ended(@, "relaunching", @.version)]
    /\ BecomesQuietly([kext EXCEPT !.owner = s])
    /\ InsideOnly

\* send_remapclasses_initialize_vector_to_kext
SendVector(s) ==
    /\ kext.owner = s
    /\ Makes(s, "vector", server[s])
    /\ Becomes(LoadVector(kext, server[s].xml))

\* send_config_to_kext: the devices are refreshed when the kernel extension takes it.
SendConfigAll(s) ==
    /\ kext.owner = s
    /\ Makes(s, "config", server[s])
    /\ IF Len(server[s].xml) = Len(kext.classes)
       THEN Becomes(SetConfig(kext, server[s].xml, On(server[s])))
       ELSE BecomesQuietly(kext)

\* Mutant: the devices are not refreshed.
SendConfigOneOnly(s) ==
    /\ kext.owner = s
    /\ Makes(s, "one", server[s])
    /\ LET n == Head(server[s].todo).name
       IN  BecomesQuietly(SetConfigOne(kext, server[s].xml, n, n \in On(server[s])))

\* callSetConfigOne: an index beyond the classes is refused.
SendConfigOne(s) ==
    /\ kext.owner = s
    /\ Makes(s, "one", server[s])
    /\ LET n == Head(server[s].todo).name
       IN  IF n \in Essential \cup AutoEnable \/ Indexes(server[s].xml, n) \cap DOMAIN kext.classes # {}
           THEN Becomes(SetConfigOne(kext, server[s].xml, n, n \in On(server[s])))
           ELSE BecomesQuietly(kext)

\* set_initialized
SendInitialized(s) ==
    /\ kext.owner = s
    /\ Makes(s, "initialized", server[s])
    /\ Becomes(SetInitialized(kext, TRUE))

\* send_workspacedata_to_kext
SendWorkspace(s) ==
    /\ kext.owner = s
    /\ Makes(s, "workspace", server[s])
    /\ BecomesQuietly([kext EXCEPT !.workspace = server[s].ids])

\* GET_CONFIG_ENABLED: the setting that has this index now becomes what the
\* kernel extension has, without telling it.
GetConfigEnabled(s) ==
    /\ kext.owner = s
    /\ LET i == Head(server[s].todo).index
           x == server[s]
       IN  Makes(s, "get", IF i \notin DOMAIN x.xml THEN x
                           ELSE [x EXCEPT !.prefs = IF i \in kext.enabled THEN @ \cup {x.xml[i]}
                                                    ELSE @ \ {x.xml[i]}])
    /\ BecomesQuietly(kext)

CallStep(s) ==
    \/ Refused(s) \/ Close(s)
    \/ OpenSucceeds(s) \/ OpenFails(s) \/ OpenThrows(s) \/ OpenRelaunches(s)
    \/ SendVector(s) \/ SendConfigAll(s) \/ SendConfigOne(s)
    \/ SendInitialized(s) \/ SendWorkspace(s) \/ GetConfigEnabled(s)

BlockStep(s) ==
    \/ RunIONotification(s) \/ RunReloaded(s)
    \/ RunListChanged(s) \/ RunWorkspace(s) \/ RunWake(s) \/ RunNotification(s)

-----------------------------------------------------------------------------
(* Events from outside *)

Kinds == {"switch", "reload", "select", "set", "wake", "focus", "toggle", "end", "upgrade",
          "unload", "plug", "unplug", "overwrite", "take"}

ASSUME ScenariosAssumption == Scenarios \subseteq [Kinds -> Nat]

Event(kind) == budget[kind] > 0 /\ budget' = [budget EXCEPT ![kind] = @ - 1]

\* Fast user switching, or the login window.
SwitchUser ==
    /\ Event("switch")
    /\ \E c \in (Servers \cup {Nobody}) \ {console} : console' = c
    /\ BecomesQuietly(kext) /\ UNCHANGED <<server, disk>>

\* XMLCompiler's reload, by the user or a command line tool.
ReloadXML(s) ==
    /\ Event("reload") /\ MainThread(s)
    /\ \E v \in Vectors : Continue(s, PostReloaded([server[s] EXCEPT !.xml = v]), <<>>)
    /\ BecomesQuietly(kext) /\ UNCHANGED <<console, disk>>

\* The preferences become those of x, and send_config_to_kext.
SendPreferences(s, x) == Send(s, [x EXCEPT !.auto = TRUE], SendConfig(x))

\* configlist_select: another set of preferences.
SelectConfig(s) ==
    /\ Event("select") /\ MainThread(s)
    /\ \E on \in ConfigLists, auto \in BOOLEAN :
          SendPreferences(s, [server[s] EXCEPT !.prefs = on, !.auto = auto,
                                               !.queue = Append(@, Block("listChanged", 0))])
    /\ BecomesQuietly(kext) /\ UNCHANGED <<console, disk>>

\* configlist_append, _setName and _delete, for a set that is not the selected one.
EditConfigList(s) ==
    /\ Event("select") /\ MainThread(s)
    /\ Continue(s, [server[s] EXCEPT !.queue = Append(@, Block("listChanged", 0))], <<>>)
    /\ BecomesQuietly(kext) /\ UNCHANGED <<console, disk>>

\* configlist_clear_all_values, for the selected set
ClearAllValues(s) ==
    /\ Event("select") /\ MainThread(s)
    /\ SendPreferences(s, [server[s] EXCEPT !.prefs = {}, !.auto = FALSE])
    /\ BecomesQuietly(kext) /\ UNCHANGED <<console, disk>>

\* setValue, for a setting that changes.
SetValue(s) ==
    /\ Event("set") /\ MainThread(s)
    /\ \E n \in Names :
          Send(s, [server[s] EXCEPT !.prefs = IF n \in @ THEN @ \ {n} ELSE @ \cup {n}],
               <<SetOne(n)>>)
    /\ BecomesQuietly(kext) /\ UNCHANGED <<console, disk>>

\* The computer wakes up: an active session has registered for it.
Wake(s) ==
    /\ Event("wake") /\ MainThread(s) /\ server[s].active
    /\ Continue(s, [server[s] EXCEPT !.queue = Append(@, Block("wake", 0))], <<>>)
    /\ BecomesQuietly(kext) /\ UNCHANGED <<console, disk>>

\* updateFocusedUIElementInformation
ChangeFocus(s) ==
    /\ Event("focus") /\ MainThread(s)
    /\ Send(s, [server[s] EXCEPT !.focus = 1 - @, !.ids = <<1 - server[s].focus, server[s].xml>>],
            <<Call("workspace")>>)
    /\ BecomesQuietly(kext) /\ UNCHANGED <<console, disk>>

\* The driver of a hooked device calls Karabiner's callback, which puts the event
\* into EventInputQueue once it has the lock.
Take ==
    /\ Event("take") /\ Hooked # {} /\ ~waiting
    /\ waiting' = TRUE
    /\ RefreshNone /\ UNCHANGED <<kext, server, console, disk>>

\* An event is remapped, that of a queue or of a timer: a modifier or a button
\* is locked, or a key repeats.  Nobody asks whether the device is still
\* hooked or who has the extension open.
Use ==
    /\ waiting
    /\ BecomesQuietly([kext EXCEPT !.traces = Traces])
    /\ UNCHANGED server /\ InsideOnly

\* Such an event, of a key that toggles a class (VK_CONFIG): the owner is notified.
ToggleByKey ==
    /\ Event("toggle") /\ waiting
    /\ \E i \in DOMAIN kext.classes :
          /\ BecomesQuietly([kext EXCEPT !.enabled = IF i \in @ THEN @ \ {i} ELSE @ \cup {i}])
          /\ server' = IF kext.notification
                       THEN [server EXCEPT ![kext.owner].queue = Append(@, Block("notify", i))]
                       ELSE server
    /\ UNCHANGED <<console, disk>>

\* No callback is running, the queues of EventInputQueue are empty, its timer and
\* those of the remap functions have expired.
Drain ==
    /\ waiting
    /\ waiting' = FALSE
    /\ RefreshNone /\ UNCHANGED <<kext, server>> /\ InsideOnly

\* A server is quit, or crashes.
End(s) ==
    /\ Event("end") /\ server[s].proc = "up"
    /\ server' = [server EXCEPT ![s] = Ended(@, "down", 0)]
    /\ ClientDies(s)
    /\ UNCHANGED <<console, disk>>

\* A server is started, perhaps by the one that relaunches it.
Launch(s) ==
    /\ server[s].proc # "up"
    /\ server' = [server EXCEPT ![s] = Launched(@)]
    /\ ClientDies(s) /\ InsideOnly

\* A new version of Karabiner is installed.
Upgrade ==
    /\ Event("upgrade") /\ disk < MaxVersion
    /\ disk' = disk + 1
    /\ BecomesQuietly(kext) /\ UNCHANGED <<server, console>>

\* The kernel extension is unloaded: didTerminate, Driver::stop, Core::stop.
Unload ==
    /\ Event("unload") /\ kext.loaded
    /\ kext' = [NewKext EXCEPT !.loaded = FALSE, !.version = kext.version]
    /\ waiting' = FALSE
    /\ TerminateAll
    /\ UNCHANGED <<server, console, disk>>

\* Driver::start; a session that has registered hears of it.
Load ==
    /\ ~kext.loaded
    /\ kext' = NewKext
    /\ InitializeAll({}) /\ UNCHANGED waiting
    /\ server' = [s \in Servers |->
                    IF server[s].active THEN [server[s] EXCEPT !.queue = Append(@, Block("io", 0))]
                    ELSE server[s]]
    /\ InsideOnly

Connect(d) ==
    /\ Event("plug") /\ PushBack(d, kext.loaded, Wanted(kext))
    /\ UNCHANGED <<kext, waiting, server, console, disk>>

Disconnect(d) ==
    /\ Event("unplug") /\ Erase(d, kext.loaded, Wanted(kext))
    /\ UNCHANGED <<kext, waiting, server, console, disk>>

Overwrite(d) ==
    /\ Event("overwrite") /\ \E i \in 1..ActionCount[d] : OverwriteAction(d, i)
    /\ UNCHANGED <<kext, waiting, server, console, disk>>

DriverSets(d) ==
    /\ \E i \in 1..ActionCount[d] : SetAction(d, i)
    /\ UNCHANGED <<kext, waiting, server>> /\ InsideOnly

ProgressTimer ==
    /\ RefreshInProgressDevices(Wanted(kext))
    /\ UNCHANGED <<kext, waiting, server>> /\ InsideOnly

-----------------------------------------------------------------------------
(* The specification *)

\* The users' servers have been launched while the login window was there, and
\* have worked off what that put into their queues; no mouse is connected yet.
Init ==
    /\ disk = 1 /\ budget \in Scenarios
    /\ kext = NewKext /\ waiting = FALSE
    /\ console = CHOOSE s \in Servers : TRUE
    /\ server = [s \in Servers |->
                    [proc |-> "up", version |-> 1, previous |-> 0, active |-> FALSE,
                     connect |-> FALSE, timer |-> FALSE, retry |-> 0, alert |-> FALSE,
                     prefs |-> {}, auto |-> TRUE, xml |-> InitialVector, focus |-> 0,
                     ids |-> <<0, InitialVector>>, queue |-> <<>>, todo |-> <<>>]]
    /\ dev = [d \in Devices |->
                 IF d \in Keyboards
                 THEN Plugged(d, TRUE, [i \in 1..ActionCount[d] |-> "driver"])
                 ELSE Unplugged(d)]
    /\ progressTimer = FALSE

ServerStep(s) ==
    Poll(s) \/ Retry(s) \/ BlockStep(s) \/ CallStep(s) \/ Launch(s)

UserStep(s) ==
    \/ ReloadXML(s) \/ SelectConfig(s) \/ EditConfigList(s) \/ ClearAllValues(s)
    \/ SetValue(s) \/ Wake(s) \/ ChangeFocus(s) \/ End(s)

DeviceStep(d) == Connect(d) \/ Disconnect(d) \/ Overwrite(d) \/ DriverSets(d)

Next ==
    \/ \E s \in Servers : ServerStep(s) \/ UserStep(s)
    \/ \E d \in Devices : DeviceStep(d)
    \/ SwitchUser \/ Take \/ Use \/ ToggleByKey \/ Drain \/ Upgrade \/ Unload \/ Load \/ ProgressTimer

\* The timers of a server are periodic and its main thread runs what is
\* queued; a process that relaunches itself is started by the system.
Fairness ==
    \A s \in Servers :
        /\ WF_vars(Poll(s)) /\ WF_vars(Retry(s))
        /\ WF_vars(BlockStep(s)) /\ WF_vars(CallStep(s))
        /\ WF_vars(server[s].proc = "relaunching" /\ Launch(s))

Spec == Init /\ [][Next]_vars /\ Fairness

-----------------------------------------------------------------------------
(* Properties *)

TypeOK ==
    /\ kext \in Kext /\ waiting \in BOOLEAN /\ server \in [Servers -> Server]
    /\ console \in Servers \cup {Nobody} /\ disk \in 1..MaxVersion /\ budget \in [Kinds -> Nat]
    /\ \A d \in Devices : dev[d] \in Item(d)
    /\ progressTimer \in BOOLEAN

\* What the kernel extension has is what the server has.  A vector that is
\* too large leaves it without classes, so that the settings are refused too.
InSync(s) ==
    LET x == server[s]
    IN  /\ kext.initialized /\ kext.notification
        /\ kext.workspace = <<x.focus, x.xml>>
        /\ IF Len(x.xml) > MaxConfigCount THEN kext.classes = <<>>
           ELSE /\ kext.classes = x.xml
                /\ kext.enabled = {i \in DOMAIN x.xml : x.xml[i] \in x.prefs}
                /\ kext.essential = AutoEnable \cup (x.prefs \cap Essential)

\* Nothing is left to do for the server, and it has shown no alert.
Idle(s) == MainThread(s) /\ server[s].queue = <<>> /\ ~server[s].timer /\ ~server[s].alert

\* Once the server that owns the kernel extension has worked off its queue, the
\* kernel extension remaps, with the vector, the settings and the workspace of
\* this server, and not with those of a former owner, of an older compilation
\* or of the time before a key switched a class: whatever was changed, lost
\* or queued while the connection was made.
SettledInSync == \A s \in Servers : kext.owner = s /\ Idle(s) => InSync(s)

\* A device is left alone as soon as the configuration says so: a change of the
\* settings, of the owner or of the devices is followed by the refresh in the
\* same step.
HookedAreWanted == Hooked \subseteq Wanted(kext)

Own == INSTANCE Ownership WITH
         Users <- Servers, Things <- Devices, Traces <- Traces \ {"negative lock"},
         owner <- kext.owner, initialized <- kext.initialized, hooked <- Hooked,
         waiting <- waiting, traces <- kext.traces \ {"negative lock"}

\* Session implements Ownership: one owner at a time, no event is taken without
\* one, and whether he disconnects, is switched away, is quit or crashes, the
\* devices are given back and locks and repetitions end in the same step; a
\* later one comes from an event that was taken before, and ends when the next
\* owner switches remapping on.
OwnershipRefined == Own!Spec

\* The session on the console is served in the end, with all its settings, or
\* its user has seen an alert: no sequence of user switches, crashes, upgrades
\* and reloads leaves it waiting for ever.
Handover ==
    \A s \in Servers :
        (console = s /\ server[s].proc = "up")
            ~> \/ kext.owner = s /\ InSync(s)
               \/ server[s].alert
               \/ console # s \/ server[s].proc = "down" \/ ~kext.loaded

\* ListHookedDevice.hpp: a device whose event action is null "will be updated
\* after few seconds.  We mark such device by inProgress_ flag and run timer".
MissingActionsInProgress ==
    \A d \in Wanted(kext) :
        dev[d].listed /\ (\E i \in 1..ActionCount[d] : dev[d].action[i] = "null")
            => dev[d].inProgress /\ progressTimer
=============================================================================
