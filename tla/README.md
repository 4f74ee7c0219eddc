# GeoServer ENT: a TLA+ model

The repository is a GeoServer distribution. Its own logic is in three places, and
this directory holds TLA+ modules for them, the TLC configurations that check the
modules, and proofs checked by TLAPS:

* the JMS modules under `src/modules/jms`, which replicate the catalog and the
  configuration of one GeoServer (a *master*) to others (*slaves*) through ActiveMQ;
* the date and time picker of the web application
  (`web-app/.../jquery-ui-timepicker-addon.js`);
* the map pages under `data/release/www`, with the OpenLayers they load.

## The system

| component | state | operations | depends on |
|---|---|---|---|
| `JMSCatalogListener`, `JMSConfigurationListener` (jms-server-impl) | the flag `producerEnabled`; the shared `JMSProperties` | `handleAdd/Remove/ModifyEvent`, `handleGlobal/Logging/ServiceChange`, `onApplicationEvent`, `setProducerEnabled` | called back by catalog, configuration and Spring; call `JMSPublisher` |
| `JMSPublisher`, `JMSObjectMessageCreator`, `JMSProperties` (jms-commons) | the `Properties` of the instance | `publish`, `createMessage`, `clone`, `put` | `JMSManager` for the handler, `JmsTemplate` for the topic |
| `JMSManager`, `*HandlerSPI` | the map of SPI beans | `getHandler`, `getHandlerByClassName` | Spring context |
| `JMSQueueListener` (jms-client) | none; one container thread | `onMessage` | the queue `Consumer.<instance.name>.VirtualTopic...`, `JMSManager` |
| catalog handlers (jms-commons-impl) | the local catalog and the files of styles | `synchronize` of add, modify, remove, post-modify, style file | `ToggleProducer`, `CatalogUtils`, `BeanUtils`, `DocumentFile` |
| configuration handlers | the local configuration | `synchronize` of global, service, logging | `ToggleProducer`, `BeanUtils.smartUpdate` |
| `ToggleProducer` | none of interest | `enable`, `disable` (a Spring event, delivered in the calling thread) | both listeners |
| `RestDispatcherCallback` | a thread local with the request parameters | `init`, `finished` (empty) | read by `JMSCatalogListener.updateProperties` |
| `JMXAsyncStarter`, `MainJMXClient` (activemqBroker) | a broker service, a thread pool | `asyncStart`, `asyncStop` | a database lock decides which broker is master |
| date and time picker | an input field, a `Timepicker` object, three sliders in an element all pickers share | keys, clicks, slides, `setTime`, `setDate`, `disableTimepicker`, ... | overrides functions of the jQuery UI calendar |
| map pages | a `Map`, its layers, their grids of tiles, an animation, a drag | `setCenter`, `panTo`, layers, resize; events of images and of a timer | mouse, timer and images of the browser |
| turboJPEG, packaging, sample data, watchdog | none of interest | | |

What is hard in it:

* Three kinds of threads share an instance: request threads, the single thread of
  the listener container, and the start-up thread that ends with the
  `ContextLoadedEvent`. They meet in the flag `producerEnabled` and in the shared
  `Properties`.
* A handler calls the same catalog code a user calls, so it raises the same events.
  The flag is the only protection against publishing them again.
* `Catalog.save()` raises its event before the change is committed, `add()` and
  `remove()` after it; the configuration raises it before, except that the listener
  itself changes the logging settings first.
* The container acknowledges a message when it is taken. An exception or a crash
  loses it.
* A style is two things, an object and a file, and is replicated by two messages.
* A message about the settings carries names and values, and the settings as they
  are when it is serialized; what the slave takes from where differs by kind.
* The picker keeps the same time in four places (text, object, sliders, formatted
  text), and its handlers copy one to another in different orders.
* The images of a map arrive in any order while tiles move and layers change.

## Modules

| module | models | checked by | proofs |
|---|---|---|---|
| `CatalogEvents` | a catalog, its events and what handlers make of them (operators) | through the others | in `ReplicaStreamProofs` |
| `ReplicaStream` | the promise: slaves make the changes of the master, in order (abstract) | `stream` | `ReplicaStreamProofs` |
| `CatalogReplication` | listener, publisher, queues, `onMessage`, handlers, flag, start-up, failures | `peers`, `peers_skip` | in `MasterSlavesProofs` |
| `MasterSlaves` | `CatalogReplication` as one master and pure slaves; implements `ReplicaStream` | `master_slaves` | `MasterSlavesProofs` |
| `AtomicFlag` | a flag that is set atomically (abstract) | through `producer_flag` | |
| `ProducerFlag` | `setProducerEnabled` step by step; implements `AtomicFlag` | `producer_flag` | `ProducerFlagProofs` |
| `MessageProperties` | the properties of a message: SPI name, REST options, shared `Properties` | `message_*` | `MessagePropertiesProofs` |
| `StyleReplication` | styles and their files | `styles` | `StyleReplicationProofs` |
| `ConfigurationSync` | global, service and logging settings | `configuration` | `ConfigurationSyncProofs` |
| `TimeText` | texts of a day and a time, limits, steps of a slider (operators) | through `TimePicker` | |
| `TimePicker` | the date and time picker | `time_picker` | `TimePickerProofs` |
| `MapTiles` | grids of tiles and their images (operators) | through `MapView` | in `MapViewProofs` |
| `MapView` | map, layers, drag, animation, layer switcher | `map_view` | `MapViewProofs` |

The `MC` modules give TLC the constants. Operators marked "Mutant" are wrong
versions of the definition below them; they belong to no specification and serve to
see that a property notices the mistake.

### CatalogReplication

`catalog[i]` maps the names of the objects to a value or `Absent`;
`producerEnabled[i]` is the flag of the catalog listener; `phase[i]` says whether the
`ContextLoadedEvent` has come; `pc[i][t]` and `event[i][t]` are the control point and
the event of thread `t`; `queue[n]` is the queue of consumer name `n`. `overtaken[i]`
is a history variable: the `ContextLoadedEvent` came while the handler was between
`disable()` and `enable()`.

| action | code |
|---|---|
| `Request` | a user or REST client creates, saves or removes an object |
| `Notify` | the test of `isProducerEnabled()` in the three `handle...Event` methods |
| `Publish`, `PublishFails`, `MessageLost` | `JMSPublisher.publish`; its exception becomes a `CatalogException`, which keeps a modification from being committed; an asynchronous send that fails unnoticed |
| `Commit` | `DefaultCatalogFacade.saved` after the event |
| `Discard`, `Receive`, `HandlerUnavailable` | the exits of `JMSQueueListener.onMessage` |
| `Disable`, `AddOrRemove`, `Modify`, `SynchronizeFails`, `Enable` | `synchronize()`; `Enable` is its `finally` clause |
| `ContextLoaded`, `Crash` | end of the start-up; kill and restart on the data directory |

A message is taken as soon as the container runs, which is before the
`ContextLoadedEvent`. GeoServer 2.1 does not lock the catalog for the length of a
request, so several users are several threads. An object is its name, the other
properties are one value. A modification committed after its object was removed and
created again changes the new object, where GeoServer would change the detached one.

`MasterSlaves` maps to `ReplicaStream`: `primary` is the catalog of the master, with a
published but not yet committed modification applied; `pending[s]` is what the
handler of `s` has taken and not written, then its queue, then what the master has
written and not published. `ImplementsStream` says that every step up to the first
failure is a step of the stream or a stutter; after a failure it promises nothing.

### ProducerFlag

The field is volatile, the block is synchronized on the Boolean it refers to, and
auto-boxing leaves two such objects, so `owner` has two monitors. A call takes effect
when it writes, or when it finds the value it wants; in the mapping the abstract call
is done at `release` and `return`.

### MessageProperties

`properties` is the one `Properties` object; `parameters[t]` the thread local of the
REST callback; `todo[t]` the handlers of the messages a change needs (two for a
style). `asked[t]` is a history variable: what the request itself said about `purge`.
Replacing an entry while another thread iterates over the properties is not modelled
as a failure.

### StyleReplication

`style` and `file` are the master (the file of each style, the content of each file),
`replica` and `copy` the slave; `job[t]` is the event a request thread carries and
what it has read; `hand` the message the slave works on. `properties` and
`parameters[t]` are those of `MessageProperties`: the option `purge` in the `Properties`
all threads share, and in the thread local of the REST callback. A file that is opened
and not yet written is `Torn`: `FileWriter` empties it first.

| action | code |
|---|---|
| `RequestAdd`, `RequestEdit`, `RequestFilename`, `RequestRemove` | the user, by the REST service, which leaves its parameters with the thread, or by the pages, which leave those of an earlier request; a style may be created before its file |
| `UpdateProperties` | `updateProperties`, whose copy of the `JMSProperties` shares the `Properties`: what a request says about `purge` stays there |
| `Notify` | the style branches of `handleAdd/ModifyEvent`, with the `DocumentFile` that is read there and throws if there is none |
| `PublishFile`, `PublishEvent` | the two calls of `publish`; the event goes out with whatever option the `Properties` hold by then |
| `Commit`, `Purge` | the commit of a modification; `deleteStyle` of the REST service |
| `OpenFile`, `WriteFile` | `DocumentFile.writeTo` |
| `AddStyle`, `ModifyStyle`, `EditStyle`, `RemoveStyle` | `synchronize` of the three handlers; if the message says `purge`, the file of the *local* style is deleted |

`astray` is a history variable with the styles and files that may stay different, and
the reasons are spelled out where it changes: a lost or refused message; a file that
was written, purged or sent by another thread between reading and sending; a style
two threads changed at the same time; a new file name, with which the *old* file is
sent; a style that was created before its file, whose event is never sent; a removal
that goes out with the `purge` of another request (`Mispurged`). A later message with
the current file takes the file out again, a later removal the style. `SettledAlike`
says that there is no other way to differ. The last reason needs neither a failure nor
a second user: after one removal with `purge=true` the slave deletes the file of every
style that is removed without the option, and the master keeps it. `AloneInStep` does
not look at `astray`: with one request at a time and no failure, a style the slave has
is the master's.

The message of a file carries the option too, but its handler does not read it, and the
model leaves it out there. Copying the properties into a message and sending it is one
step; that another thread may change them in between makes no difference to the slave,
which sees the option of the one moment or of the other.

### ConfigurationSync

`config` and `local` are the settings of master and slave, `job[t]` what a request
saves: the names of the changed properties, their value, and from `serialize` on the
settings that are copied into the message (`source`). The kinds differ:

* **global**: the slave applies the named properties, then takes contact, coverage
  access and JAI from `source`, the state *before* the commit. If such a part was
  changed in place, it has its new value; if it was replaced, it goes back to the old
  one until the next message about the global settings.
* **service**: the slave looks the service up by the name in `source` and applies the
  named properties. After one lost change of the name it finds the service no more.
* **logging**: the listener makes the change itself before it publishes, and the slave
  takes everything from `source`.

The names come from `ModificationProxy`, which makes them of the setters;
`smartUpdate` does not find some of them (`setGMLPrefixing` is reported as
`gMLPrefixing`) and returns there, so what stands behind is dropped (`Applied`). Since
the names come from setters, its branch for a property without one is not modelled. A
failed publication is swallowed by the listener and the change committed
(`MessageLost`). `stale` is a history variable like `astray`.

### TimePicker

An event handler of the picker is a chain of calls that change the same objects, so
`picker` is one record, and each function of the code is an operator from the record
before the call to the record after it. The actions are what a user does (`Show`,
`Close`, `SelectDay`, `AdjustDate`, `Slide`, `ClickGrid`, `Type`, `PressKey`,
`GotoToday`, `ClearDate`, `OtherPickerShows`) and the calls of a script
(`CallSetTime`, `CallSetTimeText`, `CallSetDate`, `CallGetDate`, `SwitchTimepicker`). `sliders` is
`"removed"` when another picker, or a redrawing without the time, took the elements
out of the page while the object still refers to them. `TimeText` has what formatting,
parsing and the alignment of a slider do to a time.

### MapView

The world is a line, a grid one row of tiles, a window some tiles wide; the rest is as
in the code: `Map.moveTo`, `setBaseLayer`, `addLayer`, `removeLayer`, `Layer.moveTo`,
`Grid.moveTo` with its choice between moving and building the grid, `Tile.Image` with
its frame, its retries and its request number, `panTo` with `Tween`, `DragPan`. An
action is a handler the browser runs to its end: a call of the page or of a control,
a tick, an image that ends. `announced` says that `movestart` was sent and `moveend`
not yet.

`numLoadingTiles` is not computed from the grid: as in the code it goes up with each
`loadstart` (`LoadStarts`; a tile that gets another image while it loads sends `reload`
instead) and down with each `unload` (`Unloads`) and `loadend` (`ImageEnds`).

`movestart` calls `updateSize` (`OpenLayers.js:575`), which returns if the element of the
map has the size it had (`:612`). The model assumes about the browser that it always has:
every change of the size comes with its `resize` event (`ResizeWindow`). Without that
assumption a map could be centred again inside the move that has just announced itself;
this is listed as a hazard and not modelled.

## Runs

| run | instance | question |
|---|---|---|
| `stream` | 2 slaves, 2 objects, 2 values, lag 2 | does the lag explain every difference, will every change fit |
| `master_slaves` | 1 master, 2 slaves, 1 object, 2 values, 2 requests, 1 failure, fairness | does the deployment implement the stream until something fails, is a failure the only cause of divergence, do slaves converge without one |
| `peers` | 2 instances that publish and consume, 2 requests, 1 failure, fairness | is the producer disabled during every call, does it come back, do queues drain |
| `producer_flag` | 3 threads, fairness | is the flag atomic, does some call always return |
| `message_properties` | 1 publishing thread | do tag and option match |
| `styles` | 2 threads, 2 styles, 2 files, 3 requests or failures | is the slave like the master but for what is known to go astray; does it show nothing but the master's styles to a single user; is the file there before the style |
| `configuration` | 2 threads, 3 properties, 2 requests, 2 failures | the same for the settings; does the slave find the service |
| `time_picker` | 6 option objects, 2 days, 1 call of a script, any number of inputs | do the four copies agree, are limits and bounds kept, is what is typed kept |
| `map_view` | 3 pages, 3 layers, 2 calls or moves, 2 failed images, fairness | do tiles cover the view and show what belongs there, do loading and moving end |
| `peers_skip`, `message_tag_race`, `message_option_leak` | 2 peers; 2 threads; 1 thread | statements of the comments that fail, below |

Bounds, and why they are enough:

* *Replication.* Two requests are a creation and a modification or removal of one
  object, which depend on each other; with two values a lost modification is visible.
  Two slaves show that they progress independently. One failure reaches every failure
  action at every control point; the properties speak of behaviours without one or of
  what survives it. Two peers are enough for an echo. Three threads let one hold each
  monitor while another waits. What does not depend on the numbers is proved.
* *Styles.* `MaxInputs` bounds requests and failures together: three requests, or two
  and a failure. Three are a race of two threads and a later change that may heal it, or
  a purge, an addition and a removal that repeats the purge; two styles may share a file
  or not.
* *Settings.* The three properties are a part, one whose name is not found, and the
  name of a service; up to two are changed together, in either order, which is enough
  for one to hide the other. Two requests: one that goes wrong and one that suffers
  from it or heals it.
* *Picker.* One picker with bounds on both days, 8:30 and 17:15, and steps of 15 minutes;
  a twelve-hour clock; time only; two kinds of alternative field; date only. A time below
  the lower bound is typed (5:00); one above the upper bound is typed (20:75, whose minutes
  `setTime` carries into the hour) and slid to (the hour 20). The number of inputs is
  not bounded, only that of the calls of scripts (`MaxCalls`).
* *Map.* The world is two views wide at zoom 0 and four at zoom 1. One of the two
  centres lies outside; one layer has a single tile and a range of zooms. An animation
  of two ticks has a middle. Two moves make every pair of calls, drags and resizes meet,
  with images pending between them; two failures use up the one retry of a tile.
  `Buffer` is 0, the narrowest case; that tiles fit for any other is proved.

`CHECK_DEADLOCK FALSE` is there where bounded users stop.

Fairness. In `CatalogReplication`, weak fairness of `ContextLoaded`, of each thread
inside the catalog and of the listener thread: the container restarts its polling
thread, and a started call goes on. Users and failures are never fair. In
`ProducerFlag` a thread inside the method keeps running, but a thread waiting for a
monitor may be passed over for ever, since a Java monitor promises no order; hence the
property that *some* call returns. In `MapView` the timer of the animation runs
(`TimerRuns`) and the browser tells of every image in the end. The safety runs of
styles, settings and the picker need none.

### What the runs found

Recorded as findings:

* `peers_skip`: the flag that silences the listener thread silences the request threads
  too. A change a user makes in a loaded instance, while a remote change is being
  applied, is not published and never will be.
* `message_tag_race`: the SPI name of one message can go out with another.
* `message_option_leak`: an option of one REST request goes out with all later messages.

Seen while modelling, and written into the properties as what they leave out:

* An instance that receives a message while it starts can publish it again, when the
  `ContextLoadedEvent` falls between `disable()` and the catalog call (`overtaken` in
  `NoRecursion`), and its `finally` clause enables the producer before the context is
  loaded.
* Styles: a new file name sends the old file; a style created before its file (create,
  then upload) is never replicated; a slave that stops while it writes keeps a torn
  file; a purge deletes the file of the local style also when another style uses it; after
  one removal with `purge=true`, removals without the option delete the file on the slave
  and not on the master, until a request says `purge=false`.
* Settings: a replaced contact reverts on the slave until the next global change; one
  lost change of a service's name loses all later changes of the service; of two
  threads the one with the older settings may send last.
* Picker: `setTime` reads the field again and checks against the limits of the day
  before; a script that sets the time after another picker has opened gets NaN; a day
  selected while there are no sliders throws; a picker that was disabled before it was
  first shown writes the day zero of the calendar; the option `hour` is ignored at
  first; `option('minDate')` leaves the bound of the time as it was. The comment at
  `jquery-ui-timepicker-addon.js:559` says that users should be able to type in any
  input; with steps of 15 minutes a typed "5:4" is rewritten. `TypedTextKept` states
  what holds.
* Map: the retries of a tile are never given back; a drag held at the edge of the
  extent ends with a `moveend` without `movestart`; a second `panTo` sends a second
  `movestart`; if the last base layer is removed while an animation plays, every tick
  throws (hence the exception in `PanEnds`); a base layer that comes after the last one
  was removed, before any change of the zoom, changes the zoom (hence the one in
  `ViewKept`).

## Proofs

TLAPS proves, for all values of the constants:

* `TypeCorrect` (`CatalogReplication`): types, with the fact that exactly the idle
  threads have no event.
* `ProducerDisabledDuringCall` and `EchoNeedsOvertaking`: an instance publishes what it
  has received only if the `ContextLoadedEvent` came between `disable()` and the end of
  the catalog call. That it can happen so, in an instance that is then loaded, is what
  the exception `overtaken` says and the theorem does not deny. `NoRecursion` alone is not
  inductive: that the listener does not reach `publish` depends on the flag it reads in
  `Notify`. `DisabledDuringCall` adds that the flag is false from `Disable` to
  `Enable`, unless `overtaken`; it is inductive together with the types, since only the
  listener thread and `ContextLoaded` write the flag. The lemmas say how one step moves
  one thread (`GotoMoves`, `LeaveMoves`).
* `StreamTypeCorrect`, `LagExplained`, `ChangesWillFit` (`ReplicaStream`): replaying the
  changes a slave has still to see gives the catalog of the master, and each will fit.
  Lemmas on `CatalogEvents` say what a fold over a sequence of events does when an
  event is added at its end or taken from its front; the induction over its length goes
  by the least counterexample, since no prover here can use the library's induction
  theorems.
* `HealthyUntilFault`, `DeploymentImplementsStream`, `NoDivergenceWithoutFault`,
  `HandlersFindTheirObjects` (`MasterSlaves`), for any number of slaves, objects,
  values and requests. `Healthy` is the inductive invariant: until a failure the master
  only publishes and a slave only consumes (`Deployed`), and what is in transit is not
  more than was asked for (`LagBounded`, which the bound of the abstract stream
  needs). The refinement has one lemma per action: it is a `Change`, a `Deliver`, or
  leaves the mapping alone. The last two theorems then follow from those about
  `ReplicaStream`, instantiated with the mapping.
* `FlagTypeCorrect` and `FlagIsAtomic`: `setProducerEnabled`
  implements `AtomicFlag`; each step maps to one abstract step or to none.
* `PropertiesTypeCorrect` for any number of threads; `OneThreadTags` and
  `OneThreadOptions` under the hypothesis `OneThread`, without which TLC refutes the
  first. The invariant adds what the shared `Properties` hold while the thread is at
  each point (`Prepared`).
* `ConfigurationTypeCorrect` and `ServicesAreFound`. The invariant behind the latter,
  `NameInStep`, is a history of the name through the queue: the name the slave has,
  the one it will have after each message, and at last the one the master has. A
  message is found exactly if its `source` continues that history; it grows at one end
  with `Send` and shrinks at the other with a handler. It holds for the thread that is
  alone, which `OneAtATime` provides until two requests overlap.
* `SettingsSettleAlike` (`ConfigurationSync`). `SettingsAlike` speaks of the moment when
  nothing is on its way. The invariant `SettingsInStep` says what the messages under way
  will make of each property that is not stale: a copied one becomes what the master has,
  unless a message that copies it is being prepared; any other one becomes what the last
  message about it brings, which is the value of the master, or of the one thread that
  has published and not committed.
* `StyleTypeCorrect`, `StylesSettleAlike`, `StylesMatchInStep` and `FileComesFirst`
  (`StyleReplication`), for any number of styles, files, threads and failures, and
  whatever options are left in the shared `Properties`. `InStep` follows the messages in
  transit for each style and each file that is not astray: a *history* of the file of a
  style through the queue, from what the slave has to what the master has, or to what the
  one busy thread will make it. `FileBeforeStyle` is a promise without failures and
  overlaps; `InTurn` adds that every event that needs a file stands right behind it in
  the queue, and that a change meets the style with the file that was sent;
  `StylesMatchInStep` follows from it.
* `LimitsAreOfTheDay` (`TimePicker`), for any options, days and texts. The limits of a
  day follow from those kept as original, and the invariant `LimitsKnown` says that
  these are always the ones of the options or not yet kept; each chain of calls is
  followed by lemmas about its functions.
* `LabelTellsSliders`: every function that moves a slider, changes a limit or renews the
  sliders formats the text again before its handler ends (`Labelled`).
* `PickerTypeCorrect` and `TimeIsKept` share the invariant `TypedInv`. The types are not
  inductive alone: what is printed is read again, and an hour may grow by twelve each
  time. `PrintOK` says when it may: an hour above 99 is printed only with a half of the
  day that adds nothing when it is read. `TimeLostWithSliders` is about the time and the
  places of the sliders together (`Kept`), since either is restored from the other.
* `MovesAreEnded`, `MapStaysRestricted` and `ViewIsKept` (`MapView`). The invariant
  `MapAtRest` holds between two handlers: the centre is one that clamping would leave
  where it is (`Settled`), `map.resolution` is that of the zoom or not set, and a move that
  was announced is a drag or an animation. Inside a handler the zoom may be null
  (`Steady`), as in `updateSize`.
* `MapTypeCorrect`, `LoadingIsCounted`, `PicturesFit` and `ViewIsCovered`, with the
  invariant `MapSound`. Of each tile it says that what is visible, or will be when the
  image arrives, is the picture of its bounds (`GoodTile`); of each layer that it counts
  what loads (`LayerState`); of the map that a displayed layer is the base layer or an
  overlay in range (`Shown`), and that the tiles of a layer the user is to see fit the
  view, also while it is not displayed yet (`Active`, `FitsIn`). That shifting columns
  leaves no gap needs the number of columns and the width of the row (`Row`, `MinCols`):
  `MoveGriddedShifts` gives the rounds of the loop one by one, and `MoveGriddedFits` shows
  by the least counterexample that one round more than there are columns is enough for
  the grid to cover the view. `Listed` is needed for a layer that is removed:
  a map with base layers has one of them as its base layer, and each layer once.
  `OneTileEach` says that a layer of one tile has no second one.

The assumptions are the named `ASSUME`s of the modules: constants are disjoint or
subsets where the code makes them so, bounds are natural numbers, `Thread` of
`ConfigurationSync` is not empty, and the options of a picker give times that exist.
`TextAssumption` says that a text a user enters has one or two digits, or none, where
the format shows a number: the pattern `_parseTime` makes of the format reads no more. `MapTilesAssumption`
takes the widths of tiles as even, which is a choice of the unit: half a window is then a
number, as in the code. `MapViewAssumption` says that a page that centres its map has
given it a base layer, since `moveTo` throws without one.

Two properties were restated when their proofs failed, after TLC had found the old forms
violated by larger instances. `TimeLostWithSliders` did not mention the places of the
sliders, and a time comes back as lost from a slider whose place was lost before.
`ViewKept` did not except a restricted map that had lost its base layer: the window may
have changed its size meanwhile.

Only model-checked, and why:

* all liveness (`SlavesConverge`, `ProducerComesBack`, `QueuesDrain`, `SomeCallReturns`,
  `LoadingEnds`, `PanEnds`), which needs `ENABLED` or fairness;
* `TypedTextKept`: it is about the texts of the instance, and false for some others. A
  twelve-hour clock rewrites "13 am";
* `ClosesInBounds`: it depends on the options. With a step that does not divide the hour
  the last place of a slider may lie below the lower bound;
* the three statements that fail, of course.

## Not modelled

* **Handler registry** (`JMSManager`): filled once by the Spring context, afterwards a
  pure lookup. The replication modules take a handler as found or as unavailable. That
  its TreeSet keeps one candidate per priority is listed as a hazard.
* **Localization of incoming objects** (`CatalogUtils`): what it does depends on
  GeoServer's `CatalogBuilder`, `ModificationProxy`, XStream and the `equals` of catalog
  objects, none of which is in the repository; a model of it would be a guess. Objects
  are names with a value, and renames and the hierarchy of the catalog are left out with
  it. That `localizeLayers` loops over its own empty list is listed as a hazard.
* **Broker life cycle**: asynchronous start and stop over JMX; the lock between brokers
  is in the database and in ActiveMQ.
* **Generic event listener** (jms-server): publishes any Spring event through the same
  publisher; no context of the repository registers it.
* **The switch of `ToggleProducer`** (`toggleEnabled`): nothing calls it.
* **Picker**: `setDefaults`, the texts of the options, settings in attributes, the
  `onSelect` of a caller; numbers as digits (`parseInt` without a radix is listed as a
  hazard).
* **Map pages**: vector layers, popups, formats and reprojection, the back buffer of a
  transition effect, the second dimension and the spiral order of loading, layers with
  resolutions of their own, the widgets of the controls.
* **turboJPEG** (image encoding), **packaging, schemas, sample data**, and the
  **watchdog** script (which does not run): no state a model could say anything about.
