# A TLA+ model of the AirDC++ web API server

This directory holds a TLA+ development for the web API of AirDC++ (`src/web-server`, `src/api`): models
of its concurrent components, the TLC runs that check them on small instances, and TLAPS proofs of the
properties that hold for every instance. `PROJECT.json` lists the runs, the theorems, the source lines
every definition stands for, and the hazards the properties are aimed at.

## The system

The program is a plug-in of the AirDC++ core: an HTTP and websocket server through which web user
interfaces and extensions drive a file sharing client. About 22 600 lines of first-party C++ in two trees;
`src/nlohmann` and `src/microtar` are vendored, and the core (`airdcpp/`) is external.

Three kinds of threads run the code:

* the threads of the `ios` service (`SERVER_THREADS`, 1 or more): accept connections, authenticate HTTP
  requests, deliver socket events;
* the threads of the `tasks` service (`max(SERVER_THREADS / 2, 1)`): API requests and timers. Every message
  of a socket and every HTTP API request is posted there, so even the messages of one socket may be handled
  by several threads at once;
* the threads of the core: fire events and hooks into the API modules.

| Component | State | Operations | Interacts with |
|---|---|---|---|
| `WebUserManager` | users, refresh tokens, sessions by token and by local id | log in (password, refresh token, basic auth), log out, expire, add, update and remove users | sockets, throttle, settings |
| `Session`, `SessionApi` | user, token, last activity, lazily constructed API modules | connect and disconnect a socket, route a request to a module | `WebUserManager`, modules |
| `WebServerManager`, `WebSocket`, `ApiRouter` | sockets and their sessions, timers, dirty flag | listen, stop, add, close and drop sockets, ping, post tasks | everything |
| `FloodCounter` | failed attempts by address | check, record, prune | `WebUserManager` |
| `SubscribableApiModule`, `HookApiModule` | the session's socket, subscriptions, hooks, pending actions | subscribe, enable a hook, fire, resolve, reject | core threads, session events |
| `ListViewController`, `ViewTasks` | source items, matching items, view range, pending tasks | set range, sort and filter, item added, updated, removed, timer | core events, timer |
| `Extension`, `ExtensionManager` | process, log, settings, registered extensions | download, install, start, stop, restart after failure, remove | sessions, timers |
| settings | values, dirty flag, the XML file | load, save every 30 s, set, reset | `WebServerManager`, `WebUserManager` |
| search, filelist, hub, chat and share root modules | submodules by id, queued tasks | create, remove, forward events | sessions, list views |
| remaining request handlers, serialization, file server | none or the core's | convert and forward | core |

What is hard in this code: objects shared by several threads without a lock around the whole operation
(look up, then act), state kept twice (two session maps, a socket's session and a module's socket), callbacks
that block (hooks, shutdown polling), timers racing requests, and retries. `PROJECT.json` lists the hazards
by source line with the properties that cover them.

## The modules

**`WebSessions`** is the core: what a logged-in client is. Its variables are the maps of `WebUserManager` (`users`,
`refreshTokens`, `remoteId` = `sessionsRemoteId`, `localId` = `sessionsLocalId`), the `password` of an account, the fields
of a `Session` (`owner`, `authToken`, `expired` for its activity), the sockets of `WebServerManager` and their sessions
(`sockState`, `sockSession`), the socket a module of the session sends to (`modSocket`, once the module has been
constructed: `loaded`), and what every thread is doing (`task`). A call of the code is a start action and one action per
lock it takes, so all interleavings of look-up and use are there: `handleLogin` is `PasswordLogin` (or `RefreshLogin`,
`ConsumeToken`), `EmplaceSession`, `FindOldSocket`, `DetachOldSocket`, `ConnectModules`, `BindSocket`, `IssueToken`; the
timer is `CollectExpired`, `NextExpired`, `EraseSession`; `logout` is `Logout`, `EraseSession`, `FindLogoutSocket`,
`CheckSession`, `ReadSession`, `NotifyDisconnected`, `ClearSession`. The position `crashed` is the null dereference in
`resetSocketSession`: the second read of the socket's session may find none. A session opened by basic auth carries the
credential it was opened with, user and password (`Credentials`), and is looked up by it; a bearer session carries a token
of its own. `UpdateUser` may set a password, and keeps or removes the sessions of the account, as a user's update of
itself and an administrator's do. Data that the properties do not tell apart is abstracted: a login by password succeeds
or is not modelled, a token is a value. `WebUserManager::replaceWebUsers` (`:551`), which clears the refresh tokens and
replaces all users, is not modelled: nothing under `src/` calls it.

**`FloodCounter`** is the login throttle with the password check around it: the check takes one lock, the
recording another, and the password is compared in between. Entries carry their age up to "older than the
period"; the timer's `prune` is split where the code reads the clock before it locks.

**`HookModule`** is `HookApiModule`: core threads that ask an extension a question and block, the requests that
answer, and the disconnect handler that waits until no question is pending. **`HookPromise`** is what it promises
to the core thread, a private one-shot question; `HookModule` implements it under the mapping `Promise`.

**`ListView`** is the view of a list that a client scrolls, sorts and filters (`ListViewController`, `ItemTasks`),
with the web users as its items: `users` and `key` are what `WebUserManager` keeps, `tasks` and `resort` what its events
queue, `source`, `matching` and `viewport` the lists of the view, `values` and `flags` the posted settings and what
announces changes to the timer, `prev` what it sorted by and counted last. `req` is the thread that serves requests (one
at a time), `run` the timer thread with the locals of `runTasks`; both take one action per lock. A timer run is
`TakeTasks`, `ReadValues`, `MaybeSort`, `HandleTask` for each item, `UpdateViewItems`, `Publish`, `Send`; `client` is the
list that a client puts together from the messages, as the message format has it: the items with their positions, and
properties for those that are new or updated. A property value is a number and a filter the set of values it matches.
Two assumptions are constants. `Overlap`: may a request of the view arrive during a timer run? It may, with two task
threads, and `ListView_overlap.cfg` has it; the run and the theorems exclude it, while *users* change at any
point of a timer run everywhere.
`EarlyFilter`: may a filter be set on an inactive view? The two reads of `itemListChanged` (in `runTasks` and in `maybeSort`)
and `getAll` are one step, `ReadValues`. Two history variables (`history`) record what happened since the view was reset:
`filtered`, the filters changed; `dropped`, a run without a sort property dropped tasks.

**`SettingsFile`** is what survives a restart: `save` every 30 s, `load` at the next start, and everything that happens in
between. `web`, `users`, `perm`, `password` and `owner` (the refresh tokens) are the memory, `file` the file, `saver` the
running `save` with the XML tree it is building, `dirty` the flag, `op` the request each thread is handling. `save` is
`SaveBegin` (clears `isDirty`), `SaveWeb`, `SaveUsers`, `SaveTokens` (one lock each) and `WriteFile`, which may fail; a
request changes the memory in one step per lock and calls `SetDirty` in a step of its own. An update of an account is
`UpdateUser` (assigns the password), `ParsePermissions` (there are none, or the request fails here), `ClearPermissions`
and `FillPermissions`. An account is an object, so two accounts may carry one name and a request keeps the one it has
found. `Restart` ends the process at any point and loads the file. `mix` says which requests occur in a behaviour and only
keeps the instance small; one behaviour changes passwords or permissions, not both. Three history variables name exceptions: `lost` (the last write failed), `silent` (the setting
was changed by a request that does not report it) and `unsaid` (the accounts whose password was set by a request that
failed afterwards). Not tried is an update whose permissions name none that exists: it leaves the account without any, as
in the finding about `setPermissions` below.

**`Extensions`** is one managed extension between the manager that installs, updates, removes and restarts it, the
requests that start and stop it, the timer that watches its process, and the server's own start and stop. `running`,
`session`, `pid` and `timer` are plain members of `Extension` that all of these use without a lock: every access and every
system call is an action (`BeginStart`, `Refuse`, `CreateSession`, `Fork`, `Mark`, `Monitor`; `BeginStop`, `Kill`,
`CallWaitpid`, `Wait`, `Logout`, `Clear`; `Tick`, `Check`, `Cancel`). A start may fail before it has done anything
(`Refuse`), or when the session exists already: a log file cannot be opened, or there is no process (`Fork`).
`terminateProcess` reads `pid` twice, for `kill` and for `waitpid` (`CallWaitpid`), and anything may happen to it in
between. `alive` and `exited` are the children as the operating system has them: an exited child stays until somebody has
waited for it; `signalled` are those that were sent SIGTERM. `server = "gone"` ends a behaviour where the code
dereferences a null timer or sends SIGTERM to its own process group (pid 0) or to every process (pid -1). Two history
variables: `raced` records that one of the overlaps listed at `Agrees` has happened, `left` has the sessions that failed
starts have left behind.

**`EntityModules`** is how a session mirrors entities of the application, with the differences between the modules as the
variable `kind`: search instances (copied before the module listens), hubs (the manager's list stays locked while the
constructor adds them, events become tasks), chats and filelists (copied after it listens, keyed by the user's CID), share
roots (a plain list, shown in a list view). The application changes its list first and fires the event later
(`HostCreate`, `HostRemove`, `Fire`); a submodule is added by `Emplace`, `InitModule`, `Announce` and removed by `Erase`,
`Retract`, in the thread that fires or in a task. The client subscribes (`Subscribe`), then asks for the list, which is
copied (`GetList`) and arrives some time later (`Deliver`), or opens the view of the share roots (`OpenView`); `client` is
the list it puts together from that and from the messages. `missed` records that an event was lost, ignored or overtaken,
in one of the ways listed at `Mirrors`; `overtaken` has the entities whose removal was sent while the list that names them
was on its way. Assumed of the core: a speaker fires one event at a time, in order, and adding or removing a listener
waits for the event that is being fired. Assumed of the client: it asks for the list after it has subscribed, once.

The `MC...` modules give TLC its symmetry sets and enumerated inputs. The definitions commented as mutants are faulty
variants of an operator: with one of them in place of the definition that follows, the property named in `PROJECT.json` is
violated, which shows that the property says something about the code.

## The runs

| Run | Question | Result | Bounds |
|---|---|---|---|
| `flood` | what does the throttle bound, does it forget too early, does it lock anyone out | holds | 2 addresses, 2 threads, limit 2, period 1, 4 entries; the bound is 3 entries per address |
| `hooks` | do answers reach the call they were given to, does every call and every disconnect end | holds | 2 core threads, 1 request thread, ids 0..2 so that they wrap, 2 answers |
| `sessions_sequential` | do modules follow their session's socket through calls that do not overlap | holds | 2 sessions, 2 sockets, 1 user, 1 password, 1 refresh token, one thread |
| `sessions_concurrent` | what still holds when the task thread and the I/O thread of the smallest server interleave | holds | 2 sessions, 2 sockets, 1 user, 2 passwords, one thread of each kind |
| `sessions_live` | is an idle session removed in the end, is a user that was removed out | holds | 2 sessions, 1 socket, 1 user, 1 password, 1 refresh token, one thread of each kind |
| `list_view` | does the view follow the users, does the client show what it asked for, with current properties | holds | 2 items (each added once), 2 values, 1 filter beside none, 3 posts |
| `settings` | is what the file lacks always due to be written, does a spent token leave it | holds | 1 name, 2 accounts, 2 passwords, 2 tokens, 2 values, 2 threads, 7 mixes of requests |
| `extensions` | do extension, session, timer and process agree, is a running one watched, does stop return, is an exit noticed | holds | 1 thread for requests and tasks beside the timer's and the server's, 2 processes, 2 sessions |
| `entities` | do module and client have the entities there are, is nothing left behind at the end | holds | 2 entities of one user, 2 task threads, 4 kinds, 2 events under way |
| `list_view_filter` | is `matchingItems` what its description says | violated | as `list_view`, with `EarlyFilter` |
| `settings_admin` | is an account loaded without permissions one of an old version | violated | as `settings`, 1 thread |
| `entity_task` | does a submodule's task run only as long as the submodule exists | violated | as `entities`, chats and filelists only |

Two sessions and two sockets are what the session properties need: a socket replaced by another, a session next to another
one with the same user; a password and its successor are what a credential needs to become stale. For the list view two
items are enough to be in either order, in and out of a range of one, in and out of the filter; the posts are a range that
holds the whole list, a range of one behind the first item in the opposite order (which also resumes a paused timer), and
settings without a range or a sort property (which pause it): posted alone they leave a view that drops its tasks. Two
accounts of one name are an account and its successor, two tokens a spent one and its replacement; each mix has the
requests that touch the same state, and all of them meet the save, the failed write and the restart. Two processes are one
that is started while another has not been waited for; three actors (a request, the timer, the server) reach every race of
two of them. Two entities of one user are a chat or filelist that was closed and opened again, and enough for one to be
copied and the other not.

The violated runs are described under "findings" in `PROJECT.json` with the comment each contradicts:

* a filter set before a view is activated is not applied (`ListViewController.h:781`);
* a save that reads permissions while they are replaced makes the account an administrator at the next start, and so is an
  account that was created without permissions (`WebUserManager.cpp:340`);
* a task of a closed filelist runs on the destroyed submodule when the same user's filelist was opened again
  (`HierarchicalApiModule.h:234`).

Other behaviour met while modelling, which contradicts nothing the repository says and so has no run. An item that leaves
and re-enters the matching list by filter changes within one interval loses a queued update (`HandleUpdate` reports only
items that stay), hence the premise `~filtered` of `ShownAreFresh`. A range that begins behind the last matching item but
not behind the last source item sends no items (`:562`), hence the premise of `ClientShowsRange`. Without a sort property
the queued tasks are lost and no counts are sent (`:478`, although `:521` wants counts without valid settings); the lists
are then filled by activation only, hence the premise `~dropped` of `ViewMatchesUsers`. An added item in front of the range
moves it, a removed one behind it does (`:740`).
The matchers keep the filters' locks shared while `cs` is taken (`:247`, `:691`) and `getFilterMatcherList` takes them in
the opposite order, which together with a waiting writer of a filter is a possible cycle. An `ADD` of an item that
`initItems` has already listed inserts it twice; it needs the owner to list an item before it fires, with the activation
in between, on two request threads, and the model has one.

Five more claims of the code fail. They are stated in the modules, each with a configuration in which TLC refutes it within
seconds; the passing runs exclude what they need, or leave them out:

| Configuration | Property | Claim | What happens |
|---|---|---|---|
| `WebSessions_password.cfg` | `SingleBasicSession` | the assertion under "Single session per user when using basic auth" (`WebUserManager.cpp:152`) | a user that changes its own password keeps its session (`WebUserApi.cpp:130`), which the next request does not find: its token is another one |
| `WebSessions_race.cfg` | `SingleBasicSession` | the same | two first requests on two I/O threads both find no session |
| `WebSessions_expiry.cfg` | `ExpirySparesActive` | "Don't remove sessions with active socket" (`WebUserManager.cpp:245`) | with two task threads, a socket connects between the timer's check and the removal |
| `WebSessions_binding.cfg` | `SocketsServeRegistered` | "websockets are closed when session is removed" (`Session.h:36`) | with two task threads, a session is logged out while a socket is being connected to it; the socket stays open (`SessionApi.cpp:179`) |
| `ListView_overlap.cfg` | `ViewportHasItems` | the assertion at `ListViewController.h:518` | with two task threads, a filter empties the list while a timer run is between building its viewport and publishing it |
| `Extensions_stop.cfg` | `StopEnds` | "Stop the extension and wait until it's not running anymore" (`Extension.h:52`) | the timer and a start replace `pid` between `kill` and `waitpid`, and `stop` waits for a child that nobody has told to exit; `StopReturns` is what is left |

The default, `SERVER_THREADS` 4, has two task threads and four I/O threads. The passing session runs have one of each, and the
run `list_view` has no request of the view during a timer run. With two task threads, two connects of one session at once may
also leave it with two open sockets (`Session.cpp:107`). A hook enabled while its socket disconnects stays active without a
socket (`HookApiModule.cpp:103`).

*Sessions.* A login by basic auth that was checked before the removal of its user may be registered after it; so may, with
two task threads, a bearer session and a refresh token (`WebUserManager.cpp:523`).

*Settings.* A failed write leaves `isDirty` cleared, so it is repeated only after the next change; `stop` does not save,
only the timer (`WebServerManager.cpp:264`) and the application do. A reset of settings (`SettingApi.cpp:93`) and a
request whose later key does not exist (`:112`) change settings that are saved by accident only. The password of an update
whose permissions have the wrong type is valid from then on, while the request is answered with an error, the sessions
stay and nothing is saved (`WebUserApi.cpp:80`, `:86`). Expired tokens are taken out of the memory and stay in the file;
an exchange does not look at a token's age (`WebUserManager.cpp:102`). A login that races the removal of its user issues a
token which, after a restart, belongs to a new user of that name. A crash within 30 s brings back a removed user or a
spent token. Without a user the server does not start (`WebServerManager.cpp:515`), so after removing the last one the
next start fails. `default_idle_timeout`, `ping_interval` and `ping_timeout` can be set (`WebServerSettings.cpp:39`) and
are never written (`WebServerManager.cpp:583`).

*Extensions.* `stop` before the timer exists dereferences a null pointer (`Extension.cpp:265`, `:327`). Between the resets
in `onStopped` pid is 0 and `running` still set: a `stop` then signals the application's own process group (`:362`,
`:580`). When a log file cannot be opened (`:530`) or fork fails, the session stays registered, and the assertion of
`ExtensionManager.cpp:67` fails at shutdown; after a failed fork pid is -1. Two starts run two processes, of which one is
never stopped; an update, a restart task or a request that starts while the server stops leaves a process behind. `stop`
and the report of an exit may both run `onStopped`, against the assertion at `Extension.cpp:365`. A `stop` that fails
leaves `running` set with a cancelled timer, which is why `Watched` needs somebody else to clear it. `Timer.h:91`
schedules through a pointer to a timer that a new `start` may have replaced. The restart task uses the raw pointer it was
given (`ExtensionManager.cpp:368`). `ExtensionManager.cpp:285` goes on after it reported a failed installation, and the
result of the start at `:324` is ignored.

*Entity modules.* A list is copied under the lock of the map and sent later (`HierarchicalApiModule.h:149`): a removal
that another thread sends in between reaches the client before the list, which still has the entity. A search instance
that appears between the constructor's copy and its registration gets no submodule (`SearchApi.cpp:59`); a chat or
filelist that is closed between being copied and added keeps one for ever (`PrivateChatApi.cpp:86`). Hub tasks of one hub
may be overtaken on another thread (`HubApi.cpp:203`). A share root that is removed while nobody follows stays in the list
(`ShareRootApi.cpp:166`), the message of a removal is built from a null pointer (`:184`, the model's position `crashed`),
and so is the entry of a root that is gone when its creation is told (`:112`). `~SearchApi` compares owners by prefix
(`SearchApi.cpp:74`), so session 1 takes the instances of session 12 along, and a missing `break` (`:118`) makes a
basic-auth session's owner an ordinary one.

`CHECK_DEADLOCK FALSE` is set for the session runs: a `Session` object is used once and a socket that is gone does
not come back, so a finite instance really does come to an end. `SessionsLeft` (a login starts only if an object is
left for it) and the use of each refresh token once are the bounds of that module; `MaxAge` and `Nodes` bound
`FloodCounter`; `MaxInt` bounds the ids of `HookModule`, whose guard `IdFresh` says that 2^31 - 1 ids are not used up
within one timeout. `EntityModules` may stop once the session has ended and no entity is left, and after a crash;
`MaxEvents` bounds the changes not fired yet, and each entity exists once. `Extensions` stops where the process is gone;
a new package is installed only while nothing else goes on with the extension.

**Fairness.** A call that has begun runs on (weak fairness of a thread's steps). The expiration timer gets its turn
(strong fairness of `CollectExpired`): the timer re-arms itself and the task queue is served in order. Clients are
never fair: nobody has to answer a hook, disconnect or log out. In `FloodCounter` the timer and the clock are fair, no
thread is. In `HookModule` a firing thread's wait has a timeout, so its steps are weakly fair, and so is the polling of
the disconnect handler. In `SettingsFile` the minute timer keeps calling `save` while the server runs and a request that has
begun is finished; requests themselves, writes that succeed and restarts are not fair. In `Extensions` the timer fires as long
as it is armed and threads carry on; a child exits in the end once it was sent SIGTERM, and need not otherwise
(that the extension obeys is the code's own assumption: `stop` waits without a limit). In `EntityModules` events are fired,
queued tasks run, and steps go on; neither the application nor the client has to do anything.

## The proofs

`FloodCounterProofs`, `HookModuleProofs`, `WebSessionsProofs`, `ListViewProofs`, `WebSessionsOneWorker`,
`SettingsFileProofs`, `ExtensionsProofs` and `EntityModulesProofs` hold for every value of the constants that satisfies
the named assumptions (marker values are not in the sets they mark, finite sets of threads, entries and items, users and
sessions are disjoint, property values are natural numbers).

* `WebSessionsProofs`: `TypeCorrect` and `RegistriesAgreeHolds`. The inductive invariant `IInv` adds two things to
  the two properties. `OperandsSet`: at each position of a call the operands used there have been set (a thread that
  erases has a session, one that creates a basic-auth session has its credential). `Owned`: registered sessions, basic-auth
  sessions and refresh tokens have a user; with it a basic-auth key is never another session's token, so erasing one session
  frees no other session's entry. Lemmas `RegistryAdd` and `RegistryErase` carry the argument, `RegistryFrame` says that no
  other step touches the maps.
* `WebSessionsOneWorker`: the other session properties, under `OneWorker`: one thread in the tasks service, any number of
  io threads, users, passwords, sessions and sockets. The server starts `SERVER_THREADS` io threads (1 to 100, by default
  4) and half as many task threads, at least one (`src/web-server/WebServerManager.cpp:253`), so that is what the settings
  1 to 3 give; the default of 4 has two. `OneSocketHolds` and `ServeRegisteredHolds` follow from `InOrder`, which says
  what the worker knows of its session's sockets at each step (`Stage`), that two connected sockets never share a session
  (`Distinct`) and that an open socket of a removed session is being reset (`Served`). `RemovedUserHolds`: `OwnersIn` says
  that a call's user exists and that what was collected is all there is, although io threads create and drop sessions
  meanwhile. `ModulesSendHolds`: outside of the worker's own connect or reset, a module's open socket serves the module's
  session; the io threads' resets only take sockets away. With more task threads none of these properties holds
  (`WebSessions_binding.cfg` shows it for one).
* `FloodCounterProofs`: `FloodBoundHolds` by counting (an accepted check adds a thread to `Authenticating`, a recorded
  attempt moves it over to `AttemptsOf`), `DoomedHolds` and `NoEarlyForgivenessHolds` from the fact that entries only get
  older and only `prune` removes them.
* `HookModuleProofs`: `PendingOwnedHolds` (an entry and a call own each other) is the invariant that makes
  `PromiseKept` provable: each step of the module maps to a step of `HookPromise` or to a stutter.
* `ListViewProofs`: `TypeCorrect`; `Described` with `~Overlap`; `ViewMatchesUsersHolds`, `ClientShowsRangeHolds` and
  `ShownAreFreshHolds` with `~Overlap` and `~EarlyFilter` (what happens without these is told above). Lemmas say what
  insertion, removal, `upper_bound`, `stable_sort` and a range return: which items, each once, and that an ordered list
  stays ordered. `Described` (the client never shows an item it has no properties of) follows the list of a timer run to
  the client: outside of the sending the client knows the viewport (`ViewportKnown`), the list of the run is local until
  it is published (`NextIsLocal`), what the message leaves out the client knows (`NextDescribed`), and the viewport is
  empty before the client forgets (`ClearedFirst`). The other three are about a system at rest and say nothing about the
  steps on the way, so none is inductive. Their invariant `ViewInv` says for every difference between users, view and
  client what is going to remove it: `Listed` (a user that is not a source item has an `add` task, a source item that is
  not a user a `remove` task, in the event, the queue or the run), `Filtered` (so for items that should or should not
  match, with an `update`), `Ordered` (the list is in order, or a flag makes the next run sort it), `Ranged` (so for the
  range the client shows), `Fresh` (so for its properties). It needs to know that the tasks of an item come in the order
  of its life, so that `Merge` keeps the one that matters (`InTurn`), what the run knows of the settings (`Settled`),
  where the threads can be (`Positions`) and that an inactive view is empty (`Blank`).
* `SettingsFileProofs`: `AccountsAreDueHolds`, `TokensAreDueHolds`, `SettingsAreDueHolds`. Each follows the parts of a
  save: a part that was copied equals the memory or somebody is going to set the flag, and the write turns the copy into
  the file. The password of an account is excepted from the moment a request assigns it until the request reports it or
  the next save reads it. The strengthening `Known` says what a request in progress knows (it has an account, a registered
  account carries its name). `LoadedAccountsSame` and `LoadedTokensSame` say that a restart agrees with the file it has
  read, up to the permissions it grants to accounts without any.
* `ExtensionsProofs`: `WatchedHolds`, whatever overlaps. The strengthening `Accounted` says that the recorded process id
  belongs to a child nobody has waited for, unless the thread that did is about to forget it: a thread whose `kill` or
  `waitpid` fails therefore never is the last one to watch. `AgreesHolds`: until two operations overlap only one actor
  works on the extension (`OneAtATime`). `Stage` says what flag, process, session and timer are at each position of that
  actor, `AtRest` what they are when nobody works, which includes what a failed start has left (`left`), and `Unlisting`,
  `Ticks` and `Closing` say that no start is under way during a removal, during the timer's callback and once the server
  stops.
* `EntityModulesProofs`: `RegisteredLiveHolds` and `NobodyInsideHolds`, with `Busy`: who can be inside a module at which
  time of its life, and that a submodule which is being initialised and kept is in the map. `MirrorsHolds` and
  `ClientKnowsHolds`: until an event is missed, `Conveyed` follows each change of an entity from the application through
  the event, the task and the thread that carries it out. `InTurn` and `Once`: it is in exactly one of these places, and a
  creation before the removal; `Replaced`: an entity that took the key of another one is created behind that one's
  removal. `NoneLost` and `NoneLeft` say it of the map, `ClientAdds`, `ClientDrops` and `ClientRoots` of the client, and
  `Stages` says which positions each kind of module can be at. Of the client they speak about what it believes once the
  list that is on its way has arrived (`Believed`), and `Heard` says what it has been told until then.

Every invariant and every action property of a passing run is proved, except `ModulesFollowSocket`: it needs requests that
do not overlap, which no configuration of the server guarantees, and is model-checked for them; what is left of it with
one task thread is `ModulesSendToOwn`. The strengthenings were checked by TLC on the instance of the run (`ViewInv` and
`CInv` as its only invariant) before they were proved.

Three properties hold up to exceptions that history variables name, and say nothing once these have happened: `Agrees`
after an overlap (`raced`), `Mirrors` and `ClientKnows` after a missed event (`missed`). What they show is that there is
no other way; the hazards that consist of such an overlap are covered by `Watched`, `StopReturns`, `RegisteredLive` and
`GetsModule` as far as "hazards" says, and otherwise told above.

Model-checked only: `ModulesFollowSocket`, what needs fairness (`AlwaysAdmittedAgain`, `CallsReturn`, `DisconnectEnds`,
`ExpiredAreRemoved`, `SpentTokenLeavesFile`, `StopReturns`, `ExitNoticed`, `GetsModule`; liveness is out of the prover's
reach), and the runs and configurations that refute a claim of the repository.

Where a step changes several fields of one function entry, the models write one record for the entry
(`[task EXCEPT ![t] = [@ EXCEPT !.pc = .., !.user = ..]]`) and not several updates of the same index: tlapm 1.4.5 encodes the
latter for the SMT solver in a way that makes the step contradictory, and a proof about it would be vacuous.

## What is not modelled, and the plan

Not modelled for good: serialization, file serving, request handlers that only forward to the core, the unpacking of
extension archives. The vendored `src/nlohmann` and `src/microtar` are more than half of the lines under `src/` and are
nobody's component here, so the share of all lines that the map covers stays small. `PROJECT.json` gives the reason for each
component. What would come next, in this order:

1. `ServerLifecycle`: listen, stop, timers and the polling of `WebUserManager` on shutdown, composed with `WebSessions`
   (a reference held by a queued task or a dead binding keeps the shutdown waiting).
2. The rest of `ListView`: the source filter, `resetItems`, two timer runs at once after a quick pause and resume, two
   request threads, and the locks of the filters in a module of their own.
3. Unmanaged extensions (`registerRemoteExtension`, `SocketDisconnected`), composed with the sessions; updates of share
   roots and their hash progress; loading of filelist directories against their view.
4. Request dispatch with its access checks, and property filters as pure operators against a reference definition.

Theorems planned: with `EarlyFilter`, that activation is the only step that brings an item into `matching` which the filters
do not match; safety of the modules above as they are written.
