# CuTeDriver Qt agent: TLA+ models, model checking and proofs

This directory is a formal model of the Qt agent of CuTeDriver (formerly
TDriver / qttas): the server `qttasserver`, the plugin that it loads into
applications under test (`tascore`, the *plugin*), and the Cucumber wire
protocol front end, and the window that looks after the server. Every module is
written from the C++ source; comments name the functions, `PROJECT.json` maps
each definition to its lines.

    tlc -config RelaySafety.cfg ServerServiceManager     # one run
    tlapm ServerServiceManager_proofs.tla                # one proof module

## 1. The system

A test framework (the *requester*) connects to `qttasserver` over TCP and sends
XML requests. The server answers some of them itself and relays the others to
the plugin of the application they are for, over a local socket that the plugin
opened when it registered. Cucumber may drive the same server over its wire
protocol.

    requester --TCP--> TasServer/TasSocket --> TasServerServiceManager --> TasClient --local socket--> plugin
                                                  |  ResponseWaiter  <------------- response ----------'
    Cucumber --TCP--> CucumberWireprotocolServer --> CucumberApplicationManager --> services / TasClientManager

Server, plugin and window have one thread each with a Qt event loop; shell tasks
have threads of their own, and any thread of an application may write to the log. One thread does not make handlers atomic: a write
ends in `waitForBytesWritten`, which may read what has arrived meanwhile and
run another handler inside, `processEvents` and nested event loops run
anything, and `deleteLater`/`QueuedConnection` postpone things. Most of the
hazards are of that kind, and the models represent these interleavings
explicitly (a stack of handlers in progress, a queue of posted calls).

### Inventory

| Component (source) | State | Operations | What is hard | What makes it correct |
|---|---|---|---|---|
| Server relay (`qttasserver/corelib/tasserverservicemanager`) | `mResponseQueue`, one `ResponseWaiter` with timer, `okToRespond`, response and filter per relayed request | handle a request, relay, answer, time out, native UI traversal, close filter, loss of a socket | handlers nested in writes and traversals; ids chosen by requesters; timer against response | one answer per request, the right one, complete; no dangling waiter; every request ends |
| Client registry (`tasclientmanager`, `tasclient`) | `mClients`, their sockets, `mStartedPids` | register, remove, look up, kill, lost connection | a client hears of sockets it no longer uses; pids without processes | the socket of a client exists; a registered plugin is known; ended processes are forgotten |
| Plugin registration (`tascore/corelib/testabilityservice`) | socket, `mRegistered`, message id, three timers | connect, register, time out, reconnect, close | server crashes, late responses, closing while lost | never gives up; never returns while closing |
| Message transport (`tassocket`, `tasmessages`) | partial frame, current reader, request in progress | frame, check, compress, dispatch, `syncRequest` | partial reads, nested reads, a reply confused with a request | messages come whole, in order, once |
| TCP and local servers (`tasserver`) | listening sockets, connections | accept, shut down, restart | | covered with registration |
| UI commands (`tascore/services/uicommandservice`) | `mCommandQueue`, `mMultiTouchCommands`, timer | queue a request, execute next | `executeNextCommand` nests in itself through `processEvents` | all commands performed, once, in order |
| Interaction handlers (`interactionhandlers`, `eventgenerator`, `gestures`) | id per touched item, id counter, gesture runners | tap, press, move, release, gestures, keys | ids shared by nested interactions; many runners at once | a finger is left only where items are shared across calls; every gesture ends |
| Cucumber wire protocol server (`cucumber_wireprotocol`) | one pending response, its connection and timer | connect, request, answer, time out, disconnect | an answer does not name its step | every request ends; a step gets its own answer |
| Cucumber application manager | `mPidMap`, current id, retry data, pending sender | start, attach, select, fixture, end scenario | retries against time out; results through the event loop | retried only while awaited; started applications known |
| Shell commands (`shellcommandservice`, `shelltask`) | `mTasks`: pid to task; thread, process and status of each | run, detach, start, status, kill | two threads; status taken before the process has started | no process or task is leaked or used after deletion |
| Starting applications (`startappservice`, `tasdatashare`) | a shared memory segment for the pid, one per application name | launch, store and load startup data | fork twice, polling, a segment that outlives its user | the pid is the application's; data are loaded by the application they were for |
| Resource logging (`memlogsrv`, `resourceloggingservice`) | loggers by process, timers, files | start, stop, load | start of the logger races its registration | a request is passed on once, or refused |
| Event recording and recorder (`eventservice`, `recorderservice`) | filters by the address of their object, what they are to listen for, recorded events | enable, disable, start, stop | objects that die while listened to, addresses used again | the record is what was asked for |
| Fixtures (`fixtureservice`, `fixtures/*`) | queue and timer of delayed fixtures; spies, property files, frame counters, awaited popups, by address | enable, record, collect, disable | objects that die, menus that run an event loop, timers of what was stopped | what is recorded goes where it can be collected, and is collected once |
| Log writing (`taslogger`, `infologger`) | file, size, level, interception; files and one timer for four resources | configure, write, roll, start, stop, load | rolling in the middle of a write of another thread; messages that come back | of the lines that reached the files the newest are there, in order; the timer runs while there is a file |
| Object search and traversal (`objectservice`, `findobjectservice`, `uistateservice`, `tasuitraverser`, `tastraverseutils`, `taspointercache`) | the pointers that ids were made of | traverse, find, look up the target of a command, call a method | ids are addresses; methods destroy objects, also their own | an id leads to its object or to none; what is in a UI state is found |
| Server window (`qttasserver_ui`) | buttons, state of the monitor, a client with one message in flight, status timers | status, start, stop, restart, rebind | errors reported inside the call that caused them; a server that has answered and not yet quit; an end that is not heard of | a restart replaces the server; the buttons come back |
| Web pages (`webkittraverser`, `webkitcommandservice`) | the message of the latest failure | tell of the elements of pages, scroll a frame, run a script on a frame or an element | elements are found again by a hash of what they are; frames below frames, views that are listed twice | what is told is found; a query counts over all frames; an error is of its own command |
| Command and data models, painters, loaders, native calls | little or none | conversions and calls into Qt | | not planned |

`PROJECT.json` lists each of these with its status, and under `hazards` every
place at which something can go wrong that a test would hardly reach.

## 2. Modules

| Module | Models |
|---|---|
| `ServerServiceManager` | the relay: requests, waiters, timers, nested handlers, lost sockets |
| `RequestReply` | abstract: a request is answered once, or its requester has left |
| `Connections`, `ClientManager` | sockets and their owners; the registry of clients |
| `TestabilityService` | one plugin's registration: its timers, messages and links |
| `Registration` | composes plugins, registry, framework and a server that restarts |
| `TouchPoints` | the ids of the touch event generator |
| `UiCommandService` | the command queues, the timer, nested `executeNextCommand` and touches |
| `CucumberApplicationManager` | steps, retries, posted calls and results, the table of processes |
| `CucumberWireprotocolServer` | connections, requests, the pending response, time; composes the former |
| `GesturePaths` | the gesture recognizers: which points a gesture passes |
| `GestureRunner` | runners of one and of several gestures and the taps at an interval, nested in each other's events |
| `Widgets` | the objects of an application: they close, and their addresses are used again |
| `EventRecording` | event filters, tracked objects, the recorder |
| `SignalFixture`, `PropertyLogger`, `FpsFixture`, `PopupFixture` | the fixtures that keep something between requests |
| `FixtureService` | the queue of delayed fixtures and its timer; composes the four |
| `InfoLogger`, `TasLogger` | the resource logs and the log of a process |
| `BackgroundWork` | composes what goes on after a command has returned |
| `ObjectTree` | objects of nine kinds of toolkit, their ids and the pointer cache |
| `UiTraverser` | which objects a traversal reports, and the filters |
| `ObjectServices` | UI states, find_object, commands and methods of objects |
| `StartAppService` | the double fork, the shared memory for the pid, startup data |
| `ShellCommandService` | tasks, their threads and processes |
| `ResourceLogging` | requests that start a logger and wait for it; the loggers |
| `ServerProcesses` | composes the three on the server's one thread |
| `ServerMonitor` | the window of the server, its client and timers |
| `WebKit` | telling of the elements of web pages, and finding them again |
| `TasSocket` | both ends of a connection: writing, reading in pieces, `syncRequest` |
| `MC*` | instances for TLC, of the modules whose constants a configuration cannot write down |
| `*_proofs` | theorems |

### ServerServiceManager

One action per handler. A handler that writes to a socket, or lets an extension
traverse, is split where control may go elsewhere: the first action ends with a
frame on `stack`, the `Finish...` action continues from it. `CanRead(s)` says
when the readyRead of `s` may run: in the event loop, or inside the write to `s`
itself, unless the handler of `s` is on the stack (its signal is disconnected
until it returns). `EventLoopRuns` says when timers and the ends of sockets are
seen. `queue` is `mResponseQueue` with a request for the waiter; `waiter[r]` is
the state of the waiter of `r`, which stays in the model as "done" after
`deleteLater` so that a dangling pointer is visible. `answers[r]` is what the
requester was sent under the name of `r`. The requesters choose the ids, and may
collide. The native part of a UI state is counted as "none", "part", "full".

A request to close (`close`) may name in its Close command the `uid` of an
application, which need not be the one the request is for: `CloseFilter` then
removes that client from the registry before the answer goes on (`Closes`).
Without a `uid` (`mPassThrough`) it removes nobody.

Left out: which of several candidate clients a request without pid reaches (any
may), message bodies, and the event loop of an extension that traverses for a
request without a client.

### ClientManager, TestabilityService, Registration

`ClientManager` has one action per method of `TasClientManager`; all of them run
without waiting. `live` are the server's sockets, `listens` those a client is
connected to the signals of: the code connects on `setSocket` and disconnects
only when the client is deleted. `TestabilityService` has the three timers
(paint tracker, register time, watch dog) and what each callback does; message
ids count modulo `MaxId + 1`. `Registration` puts them together: every action is
one handler on one side; messages on a connection are in order, and the server
reads its connections in any order. `overtaken` is history: the sockets whose
registration was read while the server still held an older connection of the
same process. The two sides learn of an end differently. `TasSocket` reports
`aboutToClose` only (`tassocket.cpp:111`), which Qt emits when this side closes
or destroys the device. The server destroys the local socket of a peer that has
gone, so `Eof` comes in the end; the plugin keeps its socket, so `LinkLost` may
come or not, and a plugin may take itself for registered for good on a
connection that is gone. The server may crash and start again.

Left out: a register message whose write fails, the operating system's reuse of
pids, and the services that a registered plugin performs.

### TouchPoints, UiCommandService

`frames` holds the calls of `executeNextCommand` in progress, outermost first;
each knows what it has still to send. Between two touches of the innermost call
`processEvents` may read a request or let the timer fire, so that another call
begins inside. `touch` is the generator (its counter and the id that is kept for
each item as a property of the application), `down` the points that the
application has been told of. Looking up a target's object is the constant
`Missing`. A multi-touch interaction makes its points item by item in the order
of a hash table, so `PressAll` and `ReleaseAll` allow any order of the items.
Single and multi-touch targets share items. Only two multi-touch targets that
both press or both release one item are left out (`UiAssumption`): they would be
two points under one identifier, for which the generator keeps a list of ids.

A multi-touch interaction makes the points of its release before it sends its
press. A press of one of its items in between gets another id, so that the item
has two points, of which the release takes back one: `crossed` is history and
holds these items, `NoFingerLeft` says that a finger is left on no other.

Left out: keys, item views, and commands that do not return because a modal
dialog is open. Gestures and taps at an interval are in `GestureRunner`.

### CucumberApplicationManager, CucumberWireprotocolServer

`posted` is the event loop's queue of `QueuedConnection` calls. An action takes
its head and does what the slot does, with everything that slot calls. Time is
counted in half seconds: a call may take no time, up to the start of a process
(`LaunchTime`), or the length of a fixture that does not answer (`SyncTime`);
`Tick` lets time pass when nothing is due.

A timing assumption is built into `Read`: the server reads a request when
nothing is posted. A request follows the answer to the one before; the answer
and the request travel to Cucumber and back, which is slower than the loop that
is emptying its queue. A second Cucumber that connects while the first is
served may be read earlier; with it a late result can be taken for another
step's, which the hazard at `cucumberwireprotocolserver.cpp:441` records.

The front end is switched off in the build (`qttasserver.pro:54` has its sources
in a comment), and `cucumberapplicationmanager.cpp:430` passes a `QString` to
`removeClient`, which takes a `quint64`. It is modelled as it is written, with
the process id that is meant. `EndScenario` kills every running process of the
table, whether or not it has registered.

Left out: messages that arrive in pieces, starting and closing the listener, the
registration of step files, assertions of a debug build on a write to a dead
connection, and replies of fixtures that come after their time.

### TasSocket

A header is `Header` parts, a body `Body` parts of a stream; `arrived` and
`taken` are positions in it, so that parts arrive and are read in every possible
cut. `stack[e]` holds what an end is in the middle of, innermost first: a write,
a body, a message that is handled, `syncRequest`. Whether `readMessageData` is
connected to readyRead is `listening`; `ReadMessageData` is called with what has
arrived, at once from readyRead and again when a message has been dealt with.
A part is a message's number and a place in it, which is all that a header or a
checksum can tell: a header that is none still yields *some* size, and a body is
good if its parts are those the header is of. A timeout inside a body may happen
`MaxTimeouts` times, or whenever nothing more can arrive.

The relay's model works on whole messages instead: what an end reads are the
messages it was sent, in order and once, which `NothingGarbled` and `NothingLost`
say of this one.

Left out: compression, the bytes of checksums (two different bodies never have
the same), sizes below one in a garbled header, a request whose write fails, and
several connections whose `syncRequest`s wait inside one another.

### GesturePaths, GestureRunner

Places are those of a line (angles for a rotation) and a time line has `Steps`
steps, so that the path of every recognizer is a function of its command and of
a step. `frames` holds what each call on the stack has still to send, as in
`UiCommandService`; a timer does not fire inside its own handler. `down` is what
the application has been told is pressed, by widget and kind of pointer, `told`
what each gesture has told it last. A gesture of points reads beyond the end of
a list of intervals that is too short, as the code does (`Beyond`).

Left out: what is not initialised, and in the runs speeds of 0, see the hazards. A script
(`ScriptFits`) performs a command once and several gestures at once one time: the
runners are kept by command, and there is one `pair`.

### Widgets, EventRecording, the fixtures, the logs, BackgroundWork

Every widget is an address with a number of lives: `Close` ends a life, `Open`
gives the address to a new object. Filters, spies, files and counters are kept
by address in the code, and so they are here. Where the code uses a freed object
the action crashes the application (`CrashIf`); which cases these are is in the
hazards, and the properties hold until then. A graphics item that is not found is
cast from null, in the signal fixture and in the property logger alike
(`CastCrashes`). `due` in `EventRecording` and `shown` in `FpsFixture` are
history: what a correct record would have. `kept` in `TasLogger` is history too,
of the lines that reached a file; `TasLogger` rolls in two steps (`RollOff`,
`RollOn`) between which other threads write, and a line they write to the closed
file is lost and not in `kept`. A configuration is one step. Removing and
renaming log files succeed in the model; the code ignores their results.
`DisableEvents` takes the id and the pid of the application as one, as a UI state
gives them.

Two cases in which the code goes on using what it has deleted are part of the
model and named by `NothingDangles` as its only exceptions: a spy that was
forgotten when its signal was enabled a second time (`Forgotten`), and a file
that was deleted when one of several logged properties was stopped. A behaviour of
`BackgroundWork` uses one of the `Suites` of services that touch each other; all
of them share the application.

Left out: what a record says of an event, the thread that renders windows, the
contents of logs, plugins that call into Qt once (files, scripts, clipboard).

### ObjectTree, UiTraverser, ObjectServices

An object is an address with a kind, a parent, a name and whether it is shown;
the kinds are those the code distinguishes by casts. The application creates,
reparents, hides and destroys objects between requests, and methods that are
called destroy them inside of one. `cache` is `TasPointerCache`, `known[a]` what
the tester believes of the id `a`: that it is this object, or one that is gone.
What a function that calls itself comes to is `Reached`, the least set that is
closed under what it goes on to. `UiTraverser` has the roots, which objects each traverser adds below an object,
and the black and white lists; `ObjectServices` the order in which an object is
searched for and by what it matches. A request has up to `MaxTargets` targets,
each looked up once and given several commands on the same pointer. A method may
destroy the very object it is called on: `lost` says so, and a further command of
that target uses a freed object, after which nothing is said (`ObjectCrash`).

What the model shows of the code: the black list alone never excludes an
attribute, lists of plugins stay from one request to the next, a dialog with a
hidden parent is in no UI state, actions and layouts are in it twice, and the
hit of a window's content item is dropped (`findobjectservice.cpp:367`). Left
out: attributes but for the filters, coordinates, a child of a child as a target
(the code goes on to it in the same way), and requests without the command or
object element that the code takes for granted.

### WebKit

Both classes walk through pages by functions that call themselves, always in
document order; so a tree is the sequence of its nodes with their depths, and a
walk is a sequence as well. `Reported` is what the traverser tells of, with its
rules for elements that have no width, no height, or are outside of the window;
`MainFrameLists` are the orders in which the service may list the main frames,
the widgets of an application being in no order. A `QWebView` inside another
widget is listed for either of them (`ReachedFrom(0)` are those reached from the
widget around), and so is a graphics view inside of another widget that shows
one, for the web view in its scene (`GraphicsHolders`, `NestedHolders`). An id is the element's content and its frame, of which the code
has a hash. A command is answered in one step: nothing of the application runs
while the service searches, and the script comes after.

What the model shows of the code: only the first command of a request is
performed; a command for an element without any page fails with the message of
the failure before; views that are nested are walked through twice, so that their elements
count twice for an index; the element of the document itself and the items of
WebChrome are told of and never found. Left out: coordinates, the values of
attributes, how a selector is written from a query, and what a script does.

### StartAppService, ShellCommandService, ResourceLogging, ServerProcesses

The server has one thread: while an application is launched (`at`) or a task is
started, nothing else of the server happens, but the processes go on. A shared
memory segment is a value and the set of those attached; it goes when the last
one leaves. A fork inherits the attachments of the server: those to the stored
startup data (`inherited`) are the child's until it ends and the grandchild's
until it executes the application, and neither detaches from them. So the
server's own detachment may not be the last: `abandoned` are the data that it
gave up while another process held them, and which nobody may ever delete. A task's signals are queued and handled by the server later. A
logger that has nothing to log quits a moment after its answer. Polls of the
segment are `MaxPolls` in place of ten.

Left out: processes that Qt forks (shell tasks, loggers), which inherit the same
attachments for the moment until they execute their program, reading /proc, the
layout of reports, and a reader that comes between
the creation of a data segment and the copy into it.

### ServerMonitor

An operation of the monitor is a function from what the window, the monitor and
the client are to what they become (`ui`), since errors are handled inside of
the calls that cause them and may start a server. `wire` is the one message or
answer on the connection, `left` that the server's end is gone. The server may
be slow, hang, crash, quit after its answer, and be started. That the client
hears of the end of its connection is possible and not promised, for the reason
given with registration.

Left out: the list of plugins, and the text that is shown.

## 3. Runs

Each run checks one set of questions. The passing ones reach every action of
their next-state relation. `CHECK_DEADLOCK FALSE` is in every configuration: all of
these systems may really stop, when requests, disturbances or processes have
come to their bounds, or before that, when everyone has left.

| Run | Configuration | Properties | Shows |
|---|---|---|---|
| `relay_safety` | `RelaySafety.cfg` | `QueueHoldsLiveWaiters`, `AtMostOneAnswer`, `AnswerIsForTheRequest`, `NativeStateComplete`, `CloseAnsweredClientGone` | with colliding ids, nested handlers, timeouts and lost connections no waiter dangles in the queue; nobody is answered twice, with another's answer, or with half a UI state; who is told of a close finds the client gone that its `uid` named |
| `relay_liveness` | `RelayLiveness.cfg` | `EveryRequestEnds`, `ImplementsRequestReply` | every request ends; the relay implements `RequestReply` |
| `relay_screenshot` | `RelayScreenShot.cfg` | `ScreenShotAnswered` | *violated*: a screen shot taken by the utility application is never sent on |
| `registration_safety` | `MCRegistration.cfg` | `NoDanglingSocket`, `NeverForgotten`, `ClosingNeverReturns` | no client's socket dangles, nobody gives up registering, a closing application stays closed |
| `registration_liveness` | `RegistrationLiveness.cfg` | `RegisteredMeansKnown`, `EventuallyRegistered` | who takes itself for registered, on a connection the server holds, is known by it, unless its registration overtook an older connection; every running application takes itself for registered in the end |
| `interaction` | `MCUiCommandService.cfg` | `NoStall`, `StartedInOrder`, `NoFingerLeft`, `EveryTargetPerformed` | however `executeNextCommand` nests: single targets in order, all of them, once; a finger is left only on an item that was pressed between the events of a multi-touch tap of it |
| `cucumber` | `MCCucumberWireprotocolServer.cfg` | `RetriedIsAwaited`, `AnswersItsOwnStep`, `EveryRequestAnswered` | retries end in time, answers are not mixed up, every request ends |
| `transport` | `TasSocket.cfg` | `NothingGarbled`, `NothingLost`, `ReplyIsOwn`, `EveryMessageIsRead` | messages come whole, in order and once, torn ones excepted; a synchronous request returns its own reply |
| `server_processes` | `ServerProcesses.cfg` | `PidIsOfItsLaunch`, `NoSegmentLeft`, `TasksAreAlive`, `ReportedOnce`, `PassedOnce` | a launch is answered with its own process; the segment for the pid has somebody who will leave it, the server holds startup data no longer than until an application that was started since registers, and data stay behind only where a forked process had inherited them; no task is used after its end, output is told once, a logging request is passed on once |
| `objects` | `MCObjectServices.cfg` | `IdIsGood`, `ActsOnLive`, `NameFound`, `PagesServed` | ids lead to their objects however addresses are used again; a command acts on a live object, unless an earlier command of its own target destroyed it; what a UI state names is found; what is told of web pages is found, an index counts over all frames, an error is about the command that failed, but for a command for an element where there is no page (a behaviour asks for objects or for pages) |
| `background` | `MCBackgroundWork.cfg` | `GesturesAreTrue`, `NothingMissed`, `NothingDangles`, `FramesAddUp`, `FixturesFit`, `LogsGoOn` | gestures release what they press and do not rest on their way; a filter that still waits has recorded what it should; of what is deleted only forgotten spies and the files of properties kept beside a stopped one are used; no empty queue is taken from; the logs have the last of the lines that reached them |
| `server_monitor` | `ServerMonitor.cfg` | `NoneBesides`, `ButtonsComeBack` | a restart that has reached the server starts no other beside it; the buttons come back, unless the client waits for an end that it may never hear of |

### Bounds, and why they are enough

*Relay.* Two requesters, two applications, two requests, two ids, one request of
a requester outstanding (`MaxOutstanding`: the requesters of this protocol wait
for their answers). Two requests are what a collision of ids, a nested handler
and a timer that fires inside another's write need; a third would only be nested
once more in the same way. The sets are interchangeable, which makes symmetry
sound; the liveness run uses none, and one application with the two services
that have more than one step (`ui_state`, `close`).

*Registration.* Two processes with two connections each and four disturbances
(a start, a crash, a late answer, a request to close or kill): enough for one
process to lose its connection, register again and be found in the place of the
other. The liveness run has one process with three connections and six
disturbances, so that a reconnection can be disturbed by a reconnection.
Message ids count to `MaxId` 2 and wrap, as `qint32` does later.

*Interaction.* A tap of two targets of which one is missing, a press and a move
on the item that is tapped, a multi-touch tap of the same item together with a
release of another, a multi-touch press of that other one, and a tap of it, in
any order and inside each other: the smallest set in which a finger's id can be
taken by a nested call, a queue can be left behind, a multi-touch list can grow
while it is being performed, and an item can be pressed across a multi-touch tap.

*Cucumber.* The eight retries are two and the response timeout of twenty half
seconds is four; what the code relies on is kept, that the retries and the start
of one process fit into the timeout (`ServerAssumption`). A fixture that does
not answer takes as long as the response timeout. One connection at a time, two
ids, two processes.

*Processes.* Two launches of one application, two tasks, two logging requests and
two loggers, two requests in all: a second launch while the first one is on its
way, a kill against an end, a logger that quits as the next one starts. Tasks,
requests and loggers are alike, which makes symmetry sound.

*Objects.* Three addresses, three creations, two requests of up to two targets
with up to two commands each, in each of nine toolkits: a parent, a child, and a
third that gets the address of either; a target that the command of the one
before destroys, and one that its own command destroys.

*Web pages.* Two frames, three elements of two texts, one of which is drawn
without a width and the other outside of the window: an element below an element
in a frame below a frame, two elements alike in one frame or in two, a view (of
widgets or of graphics) that is nested, hidden, or of WebChrome, or none. Frames are alike, which makes symmetry sound.

*Background.* Two widgets of two lives, thirteen scripts of gestures that nest,
follow or accompany each other, three requests and three events, frames, ticks or
time-outs: enable, disable and enable again around the end of an object. The log
has a size of 0 or 1 line, so that three lines roll it twice.

*Window.* Two status timers and three servers: a timer of an earlier start can
come in the middle of a restart, and a restart can follow one that timed out.

*Transport.* A header of two parts and a body of one are the least that can be
cut inside the header, behind it and between two messages, and that can be taken
for one another. Two requests of either end give four messages, one torn.

### Fairness, and why the code justifies it

- Relay: the event loop reads what has arrived (`HandleServiceRequest`,
  `ReadReply`), writes and extensions return, timers fire, and the utility
  application answers. Nothing is assumed of plugins: they may never answer.
- Registration: `QTimer`s fire, both event loops run, the server reads what has
  come and destroys a local socket whose peer has gone (`Eof`), a process that
  was told to quit does, and the server is started again. Nothing says that a
  registration succeeds at the first try, and nothing says that a plugin hears
  of the end of its connection: `LinkLost` has no fairness.
- Interaction: the timer fires while it is active (`WF_mTimer`), and touches are
  sent.
- Cucumber: posted calls are delivered and timers fire. Strong fairness of
  `Tick` says that time passes although things keep happening, and of
  `HandleRequest` that a request waiting on a connection is read although
  the loop keeps being busy in between.
- Window: timers fire, and an answer that has been sent is read. The end of the
  connection may never be noticed (`ConnectionClosed` has no fairness), nor does
  a server that has said that it will quit have to: `ButtonsComeBack` leaves that
  one wait out by name (`WaitsForTheEnd`).
- Transport: what was written arrives, or its writer has died; whoever waits goes
  on when there is something, or after READ_TIME_OUT; handlers return.
  `SyncTimeout` is fair because `waitForReadyRead` ends.

### Findings

`relay_screenshot` shows the code at odds with what a comment says of it, quoted
under `findings` of `PROJECT.json`: `handleClientLess` never allows the waiter of
a screen shot to respond.

What else was met while modelling is among the hazards, where the property that
comes closest leaves it out by name:

1. `TasClient::setSocket` does not disconnect the old socket's signals, so that
   its end removes a client that has registered again on another; or a late
   registration from the old one takes the new one's place. These are the
   registrations `overtaken`, without which `RegisteredMeansKnown` is violated.
2. `removeMe` takes a process out of `mStartedPids` when only its connection has
   ended; `KillService` does not kill it afterwards.
3. `executeNextCommand` deletes all multi-touch commands after an interaction,
   the ones included that came during it.
4. `callStepInPlugin` inserts an empty process id with `QMap::operator[]`.
5. `syncRequest` connects readyRead again without looking whether more has
   arrived with its reply (as `readMessageData` does). Such a message stays
   unread until another one comes; `EveryMessageIsRead` excludes an end that has
   made a synchronous request.
6. Stopping one of several logged properties deletes its file and leaves it in
   the table (`taspropertylogger.cpp:170` copies the map); enabling a signal
   twice leaves a spy that writes to a deleted container.
7. Enabling or disabling events for an object that is gone uses the freed object.
8. A logger that intercepts Qt's messages and writes to qDebug, or to a file that
   cannot be opened, ends in itself (`taslogger.cpp:333`).
9. A restart that is clicked while an answer is awaited starts a second server
   (`servermonitor.cpp:354`); a status request between the answer to a restart
   and the end of the server makes the monitor forget the restart.
10. The plugin and the monitor hear of an end by `aboutToClose` only
    (`tassocket.cpp:111`). A plugin whose server has gone may take itself for
    registered for good; a monitor whose server has quit may wait for that end
    with its buttons disabled.
11. A process that is forked while startup data of another application are stored
    inherits their attachment (`startappservice.cpp:348`); if the server leaves
    them meanwhile, nobody deletes them.
12. `ObjectService` performs the commands of a target on one pointer
    (`objectservice.cpp:103`), also after a method has destroyed the object.
13. A press of an item between the making and the sending of the release of a
    multi-touch tap of it leaves a finger on the item.
14. `WebkitCommandService::executeService` returns inside the loop over the
    commands, after the first; `mErrorMessage` is kept from request to request
    and not set when a command for an element meets no page (see WebKit above).

## 4. Proofs

All theorems hold for every value of the constants, under the named assumptions
of the modules (`SocketAssumption`, `ServerAssumption`, `FindAssumption` and
their like), which TLC evaluates in the runs, and under the hypotheses their
statements name, which are explained below.

| Module | Theorems | Argument |
|---|---|---|
| `ServerServiceManager_proofs` | `RelayInvariant`, `TypeCorrect`, `QueueIsLive`, `ClosedIsGone`, `NoSecondAnswer`, `RelayKeepsPromise`, `AnswersAreTheirOwn`, `NativeIsComplete` | `RelayInv` adds to the types where requests may be: whatever is queued, waited for, or on the stack has been sent. Without it a handler could continue for a request that does not exist. The queue is live because `removeWaiter` comes before `deleteLater` in every handler, and a waiter whose id is taken by another request leaves the queue by that. A request that was answered is nowhere in the server any more: not read, not in a handler, without a waiter that could still answer (`FreshInv`, `OneInv`). From that follow the single answer and the refinement of `RequestReply`, one operation of which every answering step is. `CloseInv` ties the filter of a closing application to the answer it will give, `OwnInv` the bytes a waiter has collected to the request it stands for. |
| `Registration_proofs` | `SocketsDoNotDangle`, `ImplementsRegistry`, `RegisteredSocketsDoNotDangle`, `NobodyIsForgotten`, `ClosingStaysAway`, `RegistrationTypes`, `RegisteredIsKnown` | `NoDanglingSocket` is inductive together with the types of the registry. Every step of the composition is an operation of the registry or leaves it alone (the same variables, so the refinement mapping is the identity), and the invariant of the registry carries over. `NeverForgotten` is inductive with the types of the flags it reads: each handler that gives an attempt up starts a timer for the next. `RegisteredIsKnown` needs where each registration message and each link of a plugin is, and that a registered link which overtook nothing is the only connection the server holds of its process (`LinksInv`, `KnownInv`): no older end is left that could take the client away. |
| `ServerProcesses_proofs` | `PidsAreOfTheirLaunch`, `NoSegmentStays`, `TasksStayAlive`, `OutputIsReportedOnce`, `RequestsArePassedOnce`, `ProcessTypes` | The server is blocked by at most one launch, and the users of its segment are exactly those that will still detach (`LaunchInv`, `BlocksInv`), so what is read from the segment is of the launch that reads, and the last one deletes it. The users of startup data are the server and who has inherited them; when the server leaves data that nobody inherited, they are gone, and otherwise they are in `abandoned`. A task is in the table exactly while it lives, and the signals that are queued are of tasks whose part of the report is still to come (`TableInv`, `QueueInv`, `ReportsInv`). |
| `ServerProcesses_proofs`, of `ServerMonitor` | `WindowTypes`, `NoServerBesides` | `NoneBesides` alone says nothing of the moment a server has been asked to end; the invariant adds that an answer is awaited only before it was left. |
| `ObjectServices_proofs` | `ObjectsHold`, `IdsAreGood`, `CommandsActOnLive`, `NamesAreFound` | `TreeInv` is what no step of an application breaks: what is gone is under nothing, what is there is under what is there, a window has its content, an entry of the cache that is not null is of an object that is there, and an id that the tester believes in is of one that is there and stored. That destroying an object leaves nothing below it (`BelowOrNot`) and that no more is reached than a closed set holds are the two facts about paths it takes. A traversal stays among what is there (`TraversedLive`), and a search finds only what matches: each step of it stays in every set that has all matches (`HasSought`), a lemma that is used for what is there and, for `NameFound`, for what has the name. `PendingHeld` says of a request in work that its object is there, or lost by a command of its own, and what it has found is stored; nothing of the application comes between two commands but the methods that are called. |
| `ObjectServices_proofs`, of `WebKit` | `PagesAreServed` | `PagesInv`: the tree of frames starts with a main frame, no frame is in it twice, and a page has one element at depth 0, its first. What is below a node is then an interval after it (`BelowIs`), so that each frame has one main frame (`MainIs`) and a walk over a list of main frames visits whole intervals. What `FlattenSeq` makes of such a list is described without computing it: an order-preserving numbering of all pairs of a part and a place in it (`PutTogether`), which has only one reading because a numbering without gaps is unique. So the first visit of the frame that is named, or the first listing of the only view, comes first among what matches and is all that is asked for, in document order (`FirstPart`, `NthOfFirst`); without nested views, of widgets or of graphics (`NestedHolders`), nothing matches twice (`MatchedOnce`). `ResponseInv` ties a response to the pages and the list of main frames it was made of. |
| `BackgroundWork_proofs`, of `GestureRunner` | `GesturesStayTrue` | `NothingLeftDown` speaks of the end only. On the way there, what is pressed was pressed by a gesture that is still to go on (`Owed`), or its release is in a call that has still to send it (`IsSent`). What a runner compares the next point with is what the application was told last, or is about to be told (`RestFits`), so no move it sends is a rest. The calls are nested in any order, but a step is the turn of one owner, a command or the pair, and touches the runners and the calls of no other (`TurnOf`). Of several gestures one lasts to the end of the time line (`PairInv`), which therefore goes on until each has been released. |
| `BackgroundWork_proofs` | `FixturesAlwaysFit`, `NothingEverDangles`, `FramesAlwaysAddUp`, `NothingIsMissed`, `LogsAlwaysGoOn`, `BackgroundTypes` | The services share nothing but the widgets. For each a lemma says which steps change it, and its invariant has to stand these steps and the ends and new lives of widgets, of which `Lives` gives the types. `NeverEmptyDequeue` and `NothingStalls` need the types of the queue, and that a timer which waits for a menu waits for one that is open (`QueueInv`), `AwaitedIsWatched` and `TicksWhileLogging` are inductive. `SpiesInv`: a spy is never of a life still to come, and the last one that was enabled for a signal is the one in the table, so that every other of the signal is `Forgotten`. `LogsInv`: every logged property has its file open, but one that was kept when another of its object was stopped. `FpsInv` adds up what was told, what is kept and what is counted of the life that is measured. `RecordingInv` gives each filter the request that enabled it last and the life it was for. `LoggerInv`: in each folder the old file and the new one are, in this order, the end of what was written, with the logger's folder among them, which `LoggerAssumption` says of the configurations. |
| `UiCommandService_proofs` | `QueuesNeverStall`, `SinglesInOrder`, `ReleasesFindTheirPoints`, `InteractionTypes` | `NoStall` alone is not inductive: any call in progress would do for it, but the timer is started again only for single targets. The invariant says that while multi-touch targets are listed without a timer, one of the calls is a multi-touch interaction, which will delete them. What was accepted is what was started and then what is queued (`OrderInv`). The lemmas about the generator say that an id, once kept for an item, stays until the item is released, and that the counter never passes the number of items that have one. Items are shared by all interactions. For an item that nothing has crossed, either a release of it is still to come from some call in progress, and then every point of it that is down is among those that will be released, or none is, and then a point that is down has the id that is kept for the item (`PointsInv`). `BeginInv` says that a press which is still to be sent is the next thing its call sends, and that its points are to be released by it or have the kept ids; `HeldInv` that each item pressed and not released has a point down. |
| `CucumberWireprotocolServer_proofs` | `RetriesEndInTime`, `AnswersAreNotMixedUp`, `NoRequestIsForgotten`, `ServerTypes` | `StepInv`: of the pending step there is at most one trace (a posted call, a result, a retry or a response), none of any other step, and the time left is enough for the retries left and one process start. `WireInv`: a connection that asked is in the queue of requests once, or a response is pending for it; a connection that ended is in neither, but for who asked last, which is remembered until the device is deleted, and its deletion is posted once. |
| `TasSocket_proofs` | `SocketInvariant`, `SocketTypes`, `NothingIsGarbled`, `NothingIsLost`, `RepliesAreOwn` | The parts of a stream are in order. For each end the first parts of messages that were delivered lie behind the reader, and so does that of the message being read. A reader that has lost its place cannot go back, and accepts nothing that does not start with a first part. While both ends are there a stream is a row of whole messages and the reader is between two of them or inside the next (`LostInv`); each response carries the id of the request it answers, and who waits for one waits for its own (`OwnInv`). |

The hypotheses are part of the statements:

- `MaxOutstanding = 1` (`NoSecondAnswer`, `RelayKeepsPromise`): a requester of
  this protocol waits for the answer before it asks again. With two requests
  outstanding the statement is false: a response that comes late can be read
  inside the handler of the next request while the error of a timeout is being
  written;
- unique ids are part of the properties `AnswerIsForTheRequest`,
  `NativeStateComplete` and `ReplyIsOwn` themselves: while no two requests have
  had the same id. What is needed along the way (`HandledOnce`) is proved without.

Only model-checked:

- liveness under fairness and all that speaks of ENABLED (`EveryRequestEnds`,
  `EventuallyRegistered`, `EveryTargetPerformed`, `EveryRequestAnswered`,
  `EveryMessageIsRead`, `ButtonsComeBack`): out of the prover's reach.

Every safety invariant and every action property that a passing run checks is
stated by a theorem.

The types of the variables are proved for every component: as `TypeOK` (of the
objects `TreeTypes` and `PendingTypes`, of the pages `PagesInv`). That of
`BackgroundWork` rests on what the code takes for granted of a request, which
`EventAssumption`, `FixtureAssumption` and `LoggerAssumption` say.

## 5. Not modelled

Every component that is not in section 2 has its reason in `PROJECT.json`.
Command and data models, screen shots, the file and script fixtures, the loaders
and native calls convert data or call into
Qt, the file system or the operating system, and keep nothing between two calls;
there is no behaviour of this program in them that a model could say more about
than the lines do. Keys, taps of item views and the remaining fixtures of
`tasfixtureplugin` are single calls as well. Of the modelled components, what is
left out is named in section 2.

## 6. Plan

The system's components that keep state are modelled, and every safety property
and action property that the runs check is proved. What would come next:

1. An abstract channel of messages, which `TasSocket` would be shown to
   implement: `NothingIsGarbled` and `NothingIsLost` are its two halves.
2. The liveness properties, once a prover can argue about ENABLED.
