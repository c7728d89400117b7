# A verification of homebridge-utec-ble

TLA+ modules that model the control of this plugin (how it shares one Bluetooth
adapter between locks, keeps a lock reachable, talks to it, and shows it to
HomeKit), configurations that check them with TLC, and theorems about them
checked with TLAPS. Paths are those of the repository's root (`src/ble/lock.js`
and so on); line numbers are those of the modelled commit. `PROJECT.json` holds
the same information in a form a program can read, and maps every definition to
the lines it models under `src/`.

Contents: [the system](#1-the-system), [the modules](#2-the-modules),
[what is checked](#3-what-is-checked), [where code and comments
disagree](#4-where-code-and-comments-disagree), [what is
proved](#5-what-is-proved), [what is not modelled](#6-what-is-not-modelled),
[plan](#7-plan).

## 1. The system

A Homebridge plugin and a command line tool (`utec`) for U-tec Bluetooth locks.
One Node process drives one adapter through `noble`; there may be several locks.
Everything runs on JavaScript's event loop: code between two `await`s is atomic,
and everything else may happen between them.

```
 HomeKit --- accessory.js --- controller.js --- lock.js --- protocol.js ~~~ lock
             (target, jam)    (one per lock:     (session:   (frames,
                |              attempts, timers,  requests,   cipher)
             platform.js       command queue)     waiters)
             (start, stop)        |                  |
                                  |               keyexchange.js + secp128r1.js
                               adapter.js --- locks.js --- probe.js ~~~ noble
                               (one setup      (which      (scan)
                                at a time)      peripheral)
 cli.js ---- lock.js, locks.js, config.js (~/.u-tec/config.json), cloud.js
```

| Component | State | Operations | Correct when |
|---|---|---|---|
| Adapter queue, `ble/adapter.js` | `chain`, `queued`, `active` | `withAdapter(fn)`, `adapterBusy()` | setups run one at a time, in order, whatever an earlier one did; `adapterBusy` is true |
| Controller, `controller.js` | `session`, `_establishing`, `_connecting`, `connected`, `_stopped`, the reconnect timer and the refresh interval, the promise `_queue` | `start`, `stop`, `release`, `_connect`/`_establish`, the drop handler, `_scheduleReconnect`, `read`, `set` | a running controller always has something that brings it back; every link has somebody who will close it; every command ends; after `stop()` the link is given back |
| Session, `ble/lock.js` | `open`, `_pending` (who waits for which response code), `state` | `connect`, `login`, `request`, `_dispatch`, `_failPending`, `readStatus`, `setBolt`, `close` | each waiter is settled once and by its own cause; each request returns; a reported outcome is real; one `set()` runs the motor once |
| Accessory, `homebridge/accessory.js` | `_target`, `_jammedTimer` | `onState`, `setTarget`, `currentState`, `targetState` | the target shown agrees with a settled bolt; a jam is re-read |
| Packets and frame stream, `ble/protocol.js` | `buffer` | CRC8, `encodeAuth`, `buildRequest`, `makeFrame`; `encrypt`, `decrypt`, `push` | the frames that were sent come out, wherever notifications are cut; the lock reads the request, the user and the PIN that were meant |
| Key agreement, `ble/keyexchange.js`, `ble/secp128r1.js` | the exchange in progress | `eccKey`, point arithmetic | both sides derive one key, or there is no key |
| Discovery, `locks.js`, `ble/probe.js` | peripherals found, listener, timer, the adapter's scan mode, the peripheral being inspected | `reachLock`, `findPeripherals`, `probe`, `scanAll` | the lock asked for, or none; no listener, timer, scan or link is left behind |
| Key cache, `config.js`, `cli.js`, `homebridge/platform.js` | `~/.u-tec/config.json`; the accessories Homebridge keeps | `link`, `pair`, `forget`, the plugin's `discover` | locks, learned identifiers and accessories survive killed runs; overlapping runs lose nothing |
| `utec` on a lock, `cli.js` | deadlines, each session's progress, the verdicts printed | `lock`, `unlock`, `status`, `dump`, `pair`, the child process of `test` | "done." is true, every lock gets its word, the process ends and leaves no link |
| Platform, `homebridge/platform.js` | the controllers of all locks, how far launch and shutdown are | `discover` at launch, `shutdown` | each lock gets the adapter in its turn; a shutdown takes up no further lock, lets go of every connected one, and then stops noble |
| Cloud client, `ble/cloud.js` | none | `decodePassword`, `toLockCredential`, HTTP requests | the PIN is what the account has |
| Doctor, standalone scripts | none | sequential I/O | – |

How they interact: `LockController._connect()` runs one attempt inside
`withAdapter()`: find the peripheral (`reachLock`), connect it, agree on a key,
log in. The adapter is held until the attempt has settled, so a slow lock delays
the others and an attempt that never settled would stop them. Frames arrive by
callback; `_dispatch` settles waiters, whose promise reactions run later.
Commands of one controller are chained on one promise. A drop is a `disconnect`
event whose listener belongs to one session, while the noble peripheral under it
is shared by all sessions of a controller. The accessory hears about states
through the controller's listener and gives commands through `read` and `set`.

Hard behaviours, listed with their lines under `hazards` in `PROJECT.json`:
`stop()`, `release()`, drops and commands in the middle of an attempt; two users
of one timer handle; answers that carry no identity, come late, twice in one
notification, or before the write they answer is confirmed; a waiter that is
settled while its caller awaits something else; an exchange that outlives its
connection; a lock that has taken the link and says nothing; deadlines that
abandon work without ending it; a shutdown in the middle of anything; a file that
is emptied before it is written.

## 2. The modules

Every action is the code between two awaits, with the calls it makes; an await
that may be interrupted is a state of its own. A module abstracts data to what
its properties tell apart: a session is an identity, a frame is its response code
and the state it reports, a key of the account is a small number.

| Module | Models | State and actions in the code's terms |
|---|---|---|
| `Adapter` | `adapter.js` | The n-th `withAdapter` call is ticket n. `after[t]` is the promise it was chained on. `WithAdapter` is the call; `Start` is the job's first turn, when the promise before has settled either way; `Finish` its outcome; `Hang` an `fn` that never settles. |
| `Controller` | `controller.js`, and of `lock.js` `connect`, `close` and the drop listener | `phase` is where the running attempt waits: `queued` for the adapter, `reach`, `link`, `setup`, `login`, `status`, and closing after a failure (`closing`) or an abandonment (`abandon`); `hung` is a scan or a connect that noble never settles, which nothing leaves (`Hangs`). `opened` is the attempt's local variable. `open` and `listening` are properties of session objects, `link` of the radio. `Teardown` is the code of `stop()` and `release()` before their await, `StopReturns` and `ReleaseReturns` after it. `JobStarts` and `JobResumes` are the promise reactions of the command queue; while one is enabled nothing but reactions happens (`Turn`). |
| `Reachability` | what `controller.js` promises its owner | Five states: `trying`, `up`, `waiting`, `new`, `off`. `Controller` implements it through `View`. |
| `Plugin` | the controllers of all locks over `Adapter`, and the launch and `shutdown` of `platform.js` | `step[l]` is the await of lock l's attempt, from `queued` over `power`, `scan`, `settle` (a peripheral with state left from before is disconnected and given a moment), `connect`, `setup`, `login`, `status` to its end, or for ever in `hung` (the scan) or `stuck` (with a session, which `stop()` can still close); `ticket[l]` its call of `withAdapter`. A controller is reduced to what the fleet can notice: link, live session, the armed timer with its delay, `_attempt`. `Shutdown` is the loop over `stop()`, `NobleStops` the reaction when all have returned. Every other action is one of `Adapter` on that ticket, or leaves the adapter alone. |
| `Session` | `request`, `_dispatch`, `_failPending`, `readStatus`, `setBolt`; and `read`, `set`, the first status and the state listener of `controller.js` | Two callers: `setup`, the first status, which is read outside the queue, and `job`, the queue's running command. `pending` is `_pending`; `answer[c]` the promise `answer` in `request()`; `due` the promise reactions ready to run, in order. The lock is external: `inbox` and `wire` are the radio in either direction, `bolt` and `motor` what it really does. |
| `Accessory` | `accessory.js` over the queue | `Reports(s)` is a state the controller hears by itself, `ReadReturns`, `ReadFails`, `SetReached`, `SetMissed` and `SetFails` the end of the queue's running job; each runs `onState` in the same turn. |
| `FrameStream` | framing, `makeFrame`, `encrypt`, `decrypt`, `FrameStream` | Byte by byte, for any checksum (the constant `crc8`). A write is a sequence of encrypted blocks, `Notification` delivers any number of its next blocks to `push`. |
| `DataChannel` | `encodeAuth`, `buildRequest` of `protocol.js`, `decodePassword` of `cloud.js`, over `FrameStream` | Adds the requests that go out: `Request` takes a credential as the cloud delivers it, builds the packet and encrypts it. A string of digits is a sequence of digits, a 32 bit number its four bytes. JavaScript's `\|` is the constant `or`, of which the module assumes what it does with two nibbles. The CRC of `protocol.js` is in `MCDataChannel`. |
| `Curve` | `secp128r1.js` | The code's algorithms (extended Euclid, point addition with all its cases, double-and-add, byte order), over any parameters; the loops are recursive functions. TLC gets parameters small enough to enumerate. |
| `KeyExchange` | `eccKey` under `connect` of `lock.js` | One exchange per connection attempt. An exchange whose link has dropped goes on to its timeout (`GivesUp`) and cleans up then. |
| `Discovery` | `reachLock`, `findPeripherals`, `probe` with `inspect`, `scanAll`, and `scan` under all of them | `task` is the caller, `phase` the await it is in, `queue` and `link` what `probe` has still to inspect and is connected to. What a credential matches depends on platform, on whether it has an address, and on whether the lock was paired. Devices fall asleep and wake, the adapter comes and goes. |
| `KeyCache` | `config.js`; `link`, `pair`, `forget` of `cli.js`; `discover` of `platform.js` | `command`, `phase` and `local` of each process; writing is two steps, since opening a file for writing empties it. `PluginStarts` reads the file and adds and removes `accessories`. |
| `Cli` | `onLock`, `boltAction`, `withDeadline`, `main` and the commands that talk to locks, over `withSession` and `setBolt` | `turn` is the lock whose session is awaited, `phase[l]` how far each session has come; it goes on after a deadline (`late`) until the process exits. `verdict[l]` is what was printed. `heard` is `session.state`: the lock takes a command (`LockAccepts`), moves (`MotorRuns`) and pushes states (`Pushed`) on its own, so that a state may be heard before the login, before the acknowledgement, or with it. `Crashes` is the rejection that `Session_unhandled.cfg` shows, which ends this process. |
| `PluginProofs` (with the adapter's), `ControllerProofs`, `SessionProofs`, `AccessoryProofs`, `ChannelProofs` (frames, requests, key agreement), `CliProofs`, `DiscoveryProofs`, `KeyCacheProofs` | – | Theorems, see section 5. |
| `MCController`, `MCSession`, `MCDataChannel` | – | Instances for TLC: sets, symmetry, views; in `MCDataChannel` also the code's CRC-8 and `\|`. |

Definitions called "Mutant" in a comment are deliberate bugs (a guard dropped, a
reset forgotten, an order swapped). Nothing uses them. Each stands next to the
definition it may replace, and for every checked property `PROJECT.json` names
one that makes TLC refute it, so that no property holds by the shape of the model.

Which module rests on which: `Controller` assumes that the adapter serves who
waits, which is `EachGetsItsTurn` of `Plugin`, and `Plugin` that one controller's
attempts go through their steps in the order and with the checks that `Controller`
has in full. `Session` takes as given that a session is logged in, `Accessory`
that `read` and `set` end (`CallsEnd`, `JobsEnd`) and report a state, `Cli` that a
request is answered, throws, hangs, or crashes.

### Assumptions about what is outside

noble, BlueZ and the lock are not in the repository. They are modelled from how
the code uses them; the actions concerned say "external" in their comments. In
particular:

- Closing a peripheral that has no link completes at once, and closing one that
  has takes the link down and then returns. noble's pending writes settle. A
  write that fails was not delivered.
- Listeners and characteristics belong to the peripheral, not to a connection:
  removing a listener, or unsubscribing, reaches whatever connection is up.
- An operation that noble has begun on a link that is up settles. In the code only
  requests and the wait for the lock's ECC point have limits of their own;
  discovery, the reads and the subscriptions have none. `Controller_mute.cfg`
  (section 4) shows what happens where the assumption fails. That a scan or a
  connect never settles is not assumed away: it is the action `Hangs` of `Plugin` and
  of `Controller`. Such a connect is taken to leave no link: the one that would, to
  an address that was never discovered, is what `locks.js:68-79` avoids by scanning
  first.
- Stopping a scan works; a scan that cannot start fails without being scanning.
- Notifications arrive in order and are not lost while the link is up.
- The lock answers in order, in the state it is in when it reads the request; it
  may refuse a command, jam, settle, be moved by hand, stay silent, or push a
  status or not.

## 3. What is checked

`tlc -config <run>.cfg <module>` in this directory repeats a run.

| Run | Module | Question | Bounds | Distinct states |
|---|---|---|---|---|
| `Plugin_shutdown` | `Plugin` | Does each lock get the adapter in its turn, however the others fail, drop or hang; is a lock that fails left alone for longer and longer; is each lock kept as reachable as if it were alone; does a shutdown in the middle of anything release what was connected, take up no further lock, and end? | 2 locks, 5 attempts in all, each may hang; delays 2, 4, 6 | 163 459 |
| `Controller_plugin` | `MCController` | Used as the plugin does (start once, commands, stop): is it ever stranded, does every command end and is the link given back as long as no scan or connect hangs, and is `Reachability` implemented? | 2 sessions, 2 commands behind the running one | 1 028 |
| `Controller_api` | `MCController` | What holds even with `release()`, a second `start()`, links that die without an event, and attempts that hang? | 3 sessions, 2 waiting commands | 7 748 |
| `Session_routing` | `MCSession` | With every disorder allowed at once: is who waits, who is rejected and who is resumed exact, and does every request end? | 2 frames and 1 unread request under way when a job begins | 54 509 |
| `Session_confirmed` | `MCSession` | With two frames per notification, late write confirmations, hands and jams: was a confirmed state reached, and does one `set()` run the motor once? | 3 frames, 2 requests | 1 794 128 |
| `Session_stale` | `MCSession` | Is `controller.state` the last status heard? No: section 4. | 2 frames, 1 request | until violated |
| `Accessory_safety` | `Accessory` | Does the target settle on the bolt, and is a jam watched, however sets, reads, pushes and timers interleave? | 4 jobs in the queue | 8 022 |
| `DataChannel_cuts` | `MCDataChannel` | Do frames survive every cut, and does the lock read the request, user and PIN that were meant? | blocks of 4 bytes, 2 commands, 4 payloads, 2 users, 7 PINs, 3 frames, up to 2 per write | 33 513 |
| `KeyExchange_agree` | `KeyExchange` | One key or none, also after a dropped attempt; do the group laws hold? | 2 attempts, 4 private keys, a curve of 19 points; points off the curve of 2 abscissas, with every ordinate | 2 364 096 |
| `Cli_run` | `Cli` | Is "done." true, also when the read fails and a pushed state is believed, does every lock get its word, does the command end, and does a run in time leave no link? | up to 3 locks | 122 920 |
| `Discovery_scan` | `Discovery` | The right lock or none, nothing left behind, and does every call end? | 2 locks and another device, both platforms, every combination of known identifiers | 104 192 |
| `KeyCache_killed` | `KeyCache` | Do killed commands keep pairings, and does HomeKit keep its locks when the plugin starts on what they left? | 2 locks, keys that change twice, 1 process at a time | 102 627 |

What the properties say, beyond their names; each definition carries a comment
with the lines it is about.

- **Plugin.** `OneSetUp`: at most one lock is scanned for, connected, set up or
  cleaned up after at a time. `ServedInOrder` (of `Adapter`): attempts begin in the
  order in which they asked. `EachGetsItsTurn`: a queued attempt gets the adapter
  unless an attempt hangs. `NotHammered`: after n failures in a row, by whatever
  mixture of drops, timers and commands, an armed timer has at least the n-th
  delay. `KeepsPromises`: the fleet implements `Reachability` for each lock (its safety
  part), whatever the others do. `NothingStarts`: once the shutdown has begun no attempt opens a
  session any more, not even one that was scanning or queueing behind another lock's; one that
  has its session may still go on from settling its peripheral to connecting (section 4). `ReleasedInTime`: when noble is stopped, a link that is still up belongs
  to an attempt in progress, which `stop()` does not wait for. `ShutdownEnds`:
  noble is stopped in the end, whatever hangs.
- **Controller.** `NothingElseHeld`: an attempt never overwrites a session other
  than its own, which would leak it. `NoOrphanLink`: a link that is up has an
  attempt, a close or a live session that answers for it. `ConnectedTruthful`:
  between attempts `connected` means a live session. `StopCancelsRetry`: whichever
  of `stop`, a failing attempt, a drop and `release` came last, a stopped
  controller has no timer. `LiveIsWatched`: a live session has its link and its
  listener. `NeverStranded`: a running controller without a session is trying,
  closing or armed. `JobsEnd`: a command is answered unless the attempt it waits for
  hangs. `StopReleases`: after `stop()` the link stays down and the attempt ends, unless it
  hangs. `KeepsPromise` is the refinement of `Reachability`, which is retried in a while and
  says nothing of the length of a try.
- **Session.** `WaitersExact`: `_pending` holds exactly the callers whose answer
  is out. `ClosedIsSettled`: a session that is over leaves nobody waiting.
  `ResumedOnce`: no caller is resumed twice, or before its write and its answer
  are both settled. `CallsEnd`: every request returns. `ConfirmedIsReal`: a `set()`
  whose follow-up read confirmed the goal found the bolt there at some moment
  since it began. `MovesOnce`: the retry in the other mode after a refusal
  never runs the motor a second time.
- **Accessory.** `Settles`: with no command under way the target agrees with a
  settled bolt. `JamWatched`: a jam has a timer or a re-read queued, unless the
  last re-read failed.
- **FrameStream, DataChannel.** `FramesAreSent` (nothing is made up from a cut, padding or a
  START byte inside a payload), `NothingStuck` (nothing stays in the buffer),
  `RequestUnderstood` (what comes out is the command, user, PIN and data that were
  put in, under a valid CRC), `PinSurvives` (a PIN of the account reaches the lock
  with its leading zeroes).
- **KeyExchange.** `KeyAgreed` (a key returned on the connection that is up is
  the lock's, whatever attempts went before, and there is none from a point off
  the curve), `GroupLaws` (the addition is closed, commutative and associative, with
  inverses, over all triples of points, and no private key has a public key at
  infinity). `GroupLaws` is about the arithmetic, not about a behaviour: TLC looks at it
  in the initial states, and the theorem about `KeyAgreed` takes `Group` as its hypothesis.
- **Cli.** `DoneIsReal`: `lock` or `unlock` that says "done." or exits with 0 has
  had the bolt there since its command, where nobody else moves it. The state it believes
  may be one pushed before the command or with its acknowledgement, the read having failed.
  `EachHasAWord`: a lock that hangs or cannot be reached costs no other lock its turn, in a
  process that was not killed and did not crash. `InTimeReleases`: a process that met no
  deadline and did not crash exits without a link. `GivesUp`: `lock`, `unlock`, `status`, `dump` and
  the child of `test` end, whatever hangs.
- **Discovery.** `NeverMistaken`, `ReachEnds`; `ScanIsOver`: a call that is over has
  left no listener, timer, scan or link.
- **KeyCache.** `PairingKept`: a lock that is in the cache before and after a
  command keeps what `pair` learned. `AccessoriesKept`: when the plugin starts, it
  removes from HomeKit only locks that the last completed `link` did not find or
  the settings leave out; a file that cannot be read removes none.

### Why the bounds are enough

- *Sessions.* A controller refers to at most two session objects that matter at
  once (the one being closed and the one being set up); an identity that is no
  longer referred to is reused. The third in `Controller_api` is there for
  restarts. *Waiting commands* only ever shorten the queue by one; two are enough
  for one to run, one to follow it and one to be added meanwhile. The theorems of
  section 5 hold for any number of either.
- *Locks and attempts of the fleet.* Two locks make one wait while the other fails,
  hangs, drops or is torn down. Five attempts let one lock fail three times, to the
  cap of the delays, while the other connects and comes back. The safety theorems
  of section 5 hold for any number of either.
- *Frames.* A request has one answer, and a command one push; with a late answer
  of an earlier request that makes three. A wider wire adds copies of a status.
  `MaxInbox` counts requests the lock has not read when a *new* job begins.
- *Blocks.* Four bytes are longer than a frame's head (three) by one and shorter
  than every frame, so that a cut falls into the head, the payload and the
  padding. The payloads end before, on and behind a block boundary, hold START
  bytes and zeroes, and look like a frame's head where a START precedes a length.
- *PINs.* From four digits to nine, with leading zeroes only, some and none, and up
  to the largest number the packed credential can hold (2^28 - 1).
- *Curve.* The group has prime order, as the real one has, and every case of the
  addition occurs among its points. The points a lock may send in place of its own
  have two abscissas, one below the prime and one above it.
- *Locks.* Discovery mistakes one lock for another, or a device for a lock, or does
  not: two locks and one other device show it. A `utec` command goes from lock to
  lock: three have one before and one behind.
- *Keys of the account* change twice, so that a stale key, a fresh one and one
  that was lost can be told apart.

*Symmetry* is used in `Controller_api` only, which checks invariants; sessions are
interchangeable there. *Views* are used in two runs. `OutcomeView` leaves out
`known`, the blame for a change and the history of unhandled rejections: no guard
and no checked property reads them, and no viewed variable is computed from them.
`RoutingView` leaves out everything but who waits for what: the states frames
report decide no step of the routing, and every fair action changes a viewed
variable, so that the liveness checked under it is that of the full graph. The
view is a congruence in both cases, so the number of states is the same for every
order of exploration.

### Fairness, and what justifies it

A `WF` on promise reactions: the event loop runs them before anything else. An
`SF` on timers: an armed `setTimeout` fires however busy the loop is; other
events can disable the model's action for a moment (reactions run first), hence
strong fairness. An `SF` on the steps of an attempt and on requests: a request ends
after 15 s (`RESPONSE_TIMEOUT_MS` of `lock.js`), a scan and the key exchange have
timers; the other operations on the link are the assumption about noble of section 2.
A scan or a connect may hang instead: the step `Hangs` is always possible there, and
after it none of the attempt's steps is. An `SF` on a write being confirmed or failing, and on a close
coming back: the same. In `Plugin`, a `WF` on the step each attempt waits in, on
closes, on `stop()` returning and on the platform's reactions; an attempt that
hangs leaves these steps for good. In `Cli` only the deadline, the killing of a
child by `test`, and the exit are fair; in `Discovery` the scan's timer, its end,
and the first step of a call. The modules without a liveness property state no
fairness. Nothing is assumed about the user, the phone, the lock or the radio: no
property holds because somebody answers. Runs that check invariants only use the
same specification.

Deadlock is checked except where the system stops by design: noble is stopped
(`Plugin_shutdown`), all frames are delivered (`DataChannel_cuts`), the last
exchange is over (`KeyExchange_agree`), the process is gone (`Cli_run`), or everything waits for an
attempt that hangs, behind a queue filled to its bound (`Controller_plugin`).

## 4. Where code and comments disagree

Modelling showed behaviours in which the code does not do what a comment beside it,
or the README, says. Each has a configuration that reproduces it; TLC prints the
steps. The first is part of the listed runs; the others are run by hand with
`tlc -config <file> <module>`.

| Configuration, property | What happens | What is said |
|---|---|---|
| `Session_stale.cfg` (`MCSession`), `KnownIsFreshest` | Two status frames come in one notification: the answer to a read, and a push of a newer state. Both are dispatched before the reaction of the read runs, which then overwrites controller.state with the older answer. | lock.js:133 says "Any LOCK_STATUS is the freshest truth available, whoever prompted it", and protocol.js:178-180 that several frames in one notification are normal. |
| `Controller_release.cfg` (`MCController`), `KeepsTrying` | release() stores the quiet timer in `_reconnectTimer`, and its callback never clears it. If the attempt it starts fails, or the link drops later, _scheduleReconnect() sees a handle and returns (controller.js:232), so nothing reconnects until some command does. | controller.js:70 says "Hand the lock back so a phone can talk to it; reconnects afterwards". |
| `Controller_restart.cfg` (`MCController`), `KeepsTrying` | An attempt that stop() abandoned is still closing its session when start() is called: `_connecting` is set, so _connect() joins the dying attempt (controller.js:100), which then returns without scheduling anything (137-141, 115-120). The controller runs, and never tries. | controller.js:3 says "Keeps one lock reachable and its state current". |
| `Controller_stop.cfg` (`MCController`), `StopEndsRefresh` | The answer to the first status has been dispatched, its write is not yet confirmed, and stop() runs. The write is confirmed, readStatus() returns, and _establish() arms the refresh interval of a stopped controller, without looking at `_stopped`; nothing clears it. | controller.js:60-61 says of an in-flight attempt "it checks `_stopped` at each step and closes anything it opened". |
| `Controller_silence.cfg` (`MCController`), `LossIsNoticed` | noble drops its registry when the adapter leaves poweredOn (probe.js:28-31), without a disconnect event for the peripheral. The controller then keeps a session whose `open` is set: _connect() and _withSession() take it for good, every command times out, and no failure of a command tears it down. | controller.js:3 says "Keeps one lock reachable and its state current". |
| `Session_unhandled.cfg` (`MCSession`), `NoUnhandledRejection` | The waiter is registered before the write is awaited. If the session ends (_failPending) or its timer fires while the write is pending, `answer` is rejected and only the catch block of a failed write, later, takes hold of it. | lock.js:198-199 means to exclude exactly that: "reject a promise nobody is holding — an unhandled rejection, which would take Homebridge down". |
| `Session_overlap.cfg` (`MCSession`), `OneAtATime` | _establish() publishes the session before it reads the first status, and does so outside the queue. A queued command that starts meanwhile finds the session open and runs beside that read. | controller.js:12-13 says "Everything here is serialised: BLE gives one connection, one command at a time, so commands queue rather than interleave". |
| `Session_blame.cfg` (`MCSession`), `OnlyForeignBlamed` | A jam that settles, or a motor slower than the follow-up read, changes the state after set() has returned and `_commandDepth` is 0: the change is logged as "at the lock". | README.md:47 says "`at the lock` marks a change nothing here commanded". |
| `Session_success.cfg` (`MCSession`), `SuccessIsReal` | If the follow-up read fails, setBolt() returns session.state, which may have been heard long before the command. Where it happens to equal the goal (the bolt was moved by hand unnoticed, the motor then jammed) set() reports success. | lock.js:250-251 says "Reports what the lock actually said rather than asserting an outcome; the state read back afterwards is the ground truth". |
| `Session_late.cfg` (`MCSession`), `ConfirmedIsReal` | Answers carry no identity: an acknowledgement that comes after its bolt command timed out claims the waiter of the next one. That set() believes its command accepted before the lock has read it, takes the status the earlier command left behind for its follow-up read, and confirms a state the bolt had before. | lock.js:250-251 says "the state read back afterwards is the ground truth". |
| `Adapter_hang.cfg` (`Adapter`), `ChainStaysAlive` | One function that never settles (a connect noble lost, probe.js:28-31; the controller puts no time limit around _establish()) keeps `chain` pending, and every later call waits behind it. | adapter.js:40 says "Keep the chain alive whatever an individual caller does". |
| `Accessory_asked.cfg` (`Accessory`), `TargetIsAsked` | HomeKit sets a target while the connection is being made; the first status, of a bolt that has not moved yet, overwrites `_target`, and Home shows the opposite of what was asked while the set is still to run. | accessory.js:5-6 says "LockTargetState (what was asked for)", and :88 explains the overwriting with "Someone used the keypad". |
| `Accessory_jam.cfg` (`Accessory`), `StaleJamDropped` | The jam timer forgets itself and reads again; if that read fails, its error is swallowed, nothing is armed any more and currentState() goes on reporting JAMMED. | accessory.js:99-100 says "if none does, stop asserting a stale jam". |
| `KeyExchange_clean.cfg` (`KeyExchange`), `NextAttemptIsClean` | connect() abandons eccKey() when the link drops, but eccKey() stays in its own 15 s timeout, and its finally block then unsubscribes the characteristic, which is the one the next attempt is waiting on. | controller.js:168-170 says that leaving things behind for the same peripheral object is "how one failure turns into a run of them", and closes the session against it; that does not end the exchange. |
| `Cli_deadline.cfg` (`Cli`), `ExitReleases` | withDeadline() gives the session up without closing it, and main() then exits the process with the link up. | platform.js:142-144 says why that must not be: "a killed process leaves half-open links behind that stop the next one connecting". |
| `Discovery_macos.cfg` (`Discovery`), `FoundIsEnough` | The scan is over when as many peripherals as identifiers were found, but a paired lock has two identifiers, its MAC and the id macOS gives it, of which a peripheral on macOS shows one. The scan for a lock that is awake and found at once runs for its full timeout, with the adapter held. | probe.js:192-193 says "both are checked and either is enough", and README.md:68 that only "a sleeping lock's full scan timeout delays the next lock's attempt". |
| `KeyCache_overlap.cfg` (`KeyCache`), `StaysForgotten` | `utec pair` loads the locks, scans for up to twenty seconds, and writes back what it loaded. A `utec forget` in between is undone: the keys are on disk again. | cli.js:27 says of forget "Discard the cached Bluetooth keys". |
| `KeyCache_repair.cfg` (`KeyCache`), `LinkRepairs` | writeFileSync empties the file before it writes. A run killed in between leaves a file that does not parse; read() throws on it, and `utec link` reads before it writes, so it fails as well. | platform.js:71 tells the user of exactly that error "Run `utec link` as the user Homebridge runs as". |
| `Controller_mute.cfg` (`MCController`), `AttemptsEnd` | A lock that has taken the link answers no discovery, read or subscription. Nothing limits these, so the attempt waits until the link drops; a `stop()` in between closes the session, which removes the listener the drop would be heard by, and the attempt keeps the adapter for good. | lock.js:83-84 says "Setup steps wait on the lock answering, and each has its own timeout". |
| `Plugin_stop.cfg` (`Plugin`), `AllReleased` | `stop()` closes the session of an attempt that is connecting, which has no link yet, and returns without waiting for the attempt. The link comes up behind it, and noble is stopped before the attempt, which has still to notice, has closed it. | platform.js:137-144: "Let go of the locks on the way out", since "a killed process leaves half-open links behind that stop the next one connecting". |
| `Plugin_scan.cfg` (`Plugin`), `NoScanStarts` | An attempt that waits for the adapter to power on looks at `_stopped` only when its scan is over (probe.js:135-142): with the shutdown begun it still starts to scan. | controller.js:60-61 says of an in-flight attempt "it checks `_stopped` at each step". |
| `Plugin_scan.cfg` with `NoConnectStarts` in the place of its property (`Plugin`) | A peripheral that holds state from before is disconnected and given 250 ms before `connectAsync()` (lock.js:71-77), and nobody looks at `_stopped` in between: with the shutdown begun the attempt still connects, and is closed after its setup. | controller.js:60-61 says of an in-flight attempt "it checks `_stopped` at each step". |
| `Plugin_backoff.cfg` (`Plugin`), `BackoffKept` | `_attempt` is reset after the login and before the first status (controller.js:187): a lock that logs in and then drops is retried after the shortest delay for ever. | controller.js:229-230 says "a lock that is asleep or out of range should not be hammered, and each attempt costs its battery". |
| `Cli_deadline.cfg` with the property `ConfirmedByRead` in the place of its invariant (`Cli`) | The follow-up read fails, `setBolt()` returns the state that was pushed before it (lock.js:269-275), and `boltAction` compares only that (cli.js:142): `utec lock` says "done." without a read. Where nobody else moves the bolt it is there all the same (`DoneIsReal`), but even a command that was refused can succeed so, when the bolt was there already. | README.md:262-264: "`utec unlock` only reports success when a follow-up status read shows the bolt actually moved". |
| `Cli_pair.cfg` (`Cli`), `PairGivesUp` | `utec pair` runs its sessions without a deadline (cli.js:372-394): one that hangs is waited for for ever. | cli.js:77-79 says "Bluetooth calls can hang rather than fail, and a command that sits there silently is worse than one that gives up and says so". |

One comment differs from the code without a configuration: protocol.js:136 says the
length field counts "excluding the CRC", while `body.length + 2` is the command, the
body and the CRC, as `push` on the other side expects. The mutant `FramedShort` of
`FrameStream` follows the comment, and `RequestUnderstood` fails with it.

What keeps these out of the passing runs is stated where the property is: the run
with `NeverStranded` and `KeepsPromise` leaves out `release()` and a second
`start()`, which the plugin does not use, and takes an operation on a link that is
up to settle; `LiveIsWatched` takes losses to be reported; `ConfirmedIsReal` takes
answers to arrive in time; `JamWatched` excepts a re-read that failed;
`InTimeReleases` is about runs that met no deadline, and `GivesUp` excepts `pair`;
`EachGetsItsTurn` excepts an attempt that hangs, and so do `JobsEnd`, `StopReleases` and
`AttemptsEnd`: a command that waits for a connect that never resolves waits for ever, and
`stop()` does not end that attempt (`Adapter_hang.cfg` shows what it does to the others).
`KeepsPromise` has such an attempt as a try that lasts. `NothingStarts` excepts an attempt
that has opened its session. `ReleasedInTime` excepts the links of attempts in progress.
`DoneIsReal` is about a door where nobody else moves the bolt, `EachHasAWord` and
`InTimeReleases` about a process that no unhandled rejection has ended
(`Session_unhandled.cfg`).

## 5. What is proved

`tlapm <module>.tla` checks the proofs. They hold for every value of the
constants that the modules' assumptions allow: `MaxCalls` and `MaxLocks` positive;
delays with 0 < `Base` <= `Cap`; `None` not a session and `MaxQueue` a natural
number (in `Accessory`, positive); locks, other devices and the outcomes' names
disjoint; `Only` among the serial numbers; the bounds of `FrameStream` positive, codes
and data of bytes, and data short enough for its frame, with a credential in it, to be
believed; `or` of two nibbles, one on top of the other, their sum; user numbers of 32
bits, and PINs of one to nine digits whose number is below 2^28; a generator on its
curve, a prime that fits the bytes of a coordinate, and private keys below `N`. No set
of sessions, locks or devices need be finite.

**`PluginProofs`, the adapter** (`AdapterTypes`, `AdapterExclusive`,
`AdapterInOrder`, `AdapterBusyExact`, for any number of calls). That setups exclude
one another is not inductive: it holds because every ticket is chained on the one
before it. The inductive invariant adds `Linked` (tickets are issued in order,
`after[t] = t - 1`), `active <=> Busy # {}`, and `queued = Cardinality(Waiting)`. The
last is also what makes `queued \in Nat` provable: a counter that is decremented stays
natural only because it counts something. One lemma per action; exclusion follows
from order, since of two running tickets the later one would have started before the
earlier had settled.

**`PluginProofs`, the fleet**, reuses that invariant. `FInv` is `IInv` with
`Shape` (types), `Ticketed` (each attempt under way has a ticket of its own, which
the adapter has waiting, running or hung as the attempt's step says), `Owned`
(whose a link is: an attempt's, a live session's, or that of a `stop()` taking it
down), and `Spaced`.

- From `Shape` and `Ticketed` every step of the fleet is a step of `Adapter` or
  leaves it alone (`FleetUsesAdapter`), so that `IInv` is kept by the lemma already
  proved, and the properties of `Adapter` hold of the fleet (`FleetInOrder`). Two
  locks set up at once would be two running tickets, hence `FleetOneSetUp`; `Owned`
  gives `FleetReleased`. `FleetStartsNothing` is about steps and needs the types only: of the steps
  into the part of an attempt that has a session, `Scanned` is the one from outside, and it
  looks at `_stopped`.
- `FleetNotHammered` is not inductive: a link that drops after it came up arms a
  timer while its attempt is still to fail, and that failure then arms nothing.
  `Spaced` says that the timer of such a drop is already as long as the failure will
  ask for, and that `_attempt` is never behind the failures. It needs the delays to
  grow and to stay below the cap: `Exponential` is a recursive function, and that it
  exists, doubles and is positive is proved by induction over a set of numbers
  (`Induction`, `ExponentialDef`, `DelayGrows`).
- `FleetKeepsPromises`: `Reach` says when a lock without a session has a timer (its
  attempt is over and nobody stopped it), which attempts are new, and that only a
  stopped controller abandons. With it each step of the fleet is, for each lock, a
  step of `Reachability` or none; the steps of other locks are none (`OthersKeep`),
  its own are split by what its view becomes (`OwnStep`), and off is for good
  (`StopIsFinal`).

**`ControllerProofs`** has two invariants.

- `IInv` holds for any use of the controller, any sessions and any queue. It adds
  to `NothingElseHeld`, `NoOrphanLink`, `StopCancelsRetry` and the types:
  `OpenedShape` (`opened` is set exactly in the phases that have a session; an attempt
  that hangs may be in either case),
  `SessionShape` (what `session`, `establishing` and `connected` are in each phase,
  and that a stopped controller holds no session), and `StatusShape` (an attempt
  reading its first status over a live link holds its session, or that session is
  being closed). The last is what `NoOrphanLink` needs when the attempt returns.
  From it: `ControllerTypes`, `ControllerHoldsOne`, `ControllerNoOrphan`,
  `ControllerStopsRetrying`, `ControllerTruthful`.
- `RInv` is for the plugin's use, stated as the assumption `PluginUse`
  (`Allowed \subseteq {"hang"}`) of each theorem. It adds `NeverStranded` and `RunShape`: a
  running controller has no close under way, its timer is never spent, and
  whatever is open is listening. From it `ControllerNeverStranded`,
  `ControllerWatches` and `ControllerImplements`: the initial state maps to that
  of `Reachability`, and every step of `Controller` is a step of it or leaves
  `View` alone, proved action by action.

  Without `PluginUse` these are false: `Controller_release.cfg`,
  `Controller_restart.cfg` and `Controller_silence.cfg` are the counterexamples.

**`SessionProofs`** proves the routing of answers with every disorder allowed, and
what a `set()` reports under a condition stated in each theorem.

- `IInv` is the types with `Requests` (whoever has a write or an answer is in a
  request, and the answer is of the code it expects), `WaitersExact`,
  `ClosedIsSettled` and `ResumedOnce`, which are inductive only together: that a
  caller is resumed once follows from its having had one waiter, and the reverse.
  `_pending` and the reactions that are due are lists, from which an answer, a
  timeout or a hang-up removes from the middle; `RemoveAtProperties`,
  `RemovedWaiter` and `ReturnsProperties` say what is left. There is one lemma per
  action. Hence `Typing`, `OneWaiterEach`, `NobodyWaitsOnTheDead`,
  `ResumedExactlyOnce`, for any bounds.
- `OInv` adds `OneCommand` (what is under way of a bolt command, its request or its
  acknowledgement, belongs to the `set()` that is asking), `OneRun` (the motor has not
  run for a command that is unread or was refused) and `Fresh` (a status that can
  still become the follow-up read is one the bolt was in since the `set()` began).
  `ConfirmationIsReal` and `OneMoveEach` are proved for every behaviour in which no
  bolt command times out. That is the only step excluded (`BoltTimesOut`): it leaves
  an acknowledgement behind without a caller. Late answers to reads, hands at the
  door, failing writes and hang-ups are not excluded, so they cannot by themselves
  make a confirmation false: a status that is late for an earlier read precedes the
  acknowledgement, and is heard before the follow-up read waits. `Session_late.cfg`
  is what happens without the condition.

**`AccessoryProofs`** proves `TypeOK`, `NoTimerOnceSettled`, `Settles` and
`JamWatched`. The last three are inductive together with the types. The argument
for `Settles`: `onState` writes target and state together, and the job that leaves
the queue as the last `set` does so with the state it reports.

**`ChannelProofs`, the stream.** `FramesAreSent` and `NothingStuck` hold for any checksum,
block size, data, number of frames and cuts. The invariant is `Delivery`: what was
sent is what was returned followed by one group of messages for each write under
way, and the bytes of a group, with zeroes behind them, are what is left of the
blocks of its write, after the buffer if it is the first. So a notification extends the
buffer by a part of what is owed, and the proof has to say what `push()` takes from
the front of such bytes: `FirstFrame` and `HeardFirst` (the frame at the front, if it is
whole, is the first message owed), `PartStays` (if it is not, everything is left),
`PaddingDropped` (zeroes alone begin no frame), and `WalkTakes` (the loop, by induction
over the messages owed). A START inside data never matters since a frame is only looked
for where the last one ended. `FlattenSeq` of the library and the loop of `push()` are
recursive functions: that they exist and what they equal is proved by induction over
sets (`SumsExist`, `FlattenDef`, `TurnsExist`, `WalkDef`).

**`ChannelProofs`, the requests.** A step of `DataChannel` is a step of `FrameStream` or
leaves it alone (`ChannelIsStream`), so what is proved of the stream holds beside the
requests. For `RequestUnderstood` and `PinSurvives` the lemmas about frames are stated
for a frame of any body: what the lock reads in the decrypted blocks of a request is the
one frame that was built, followed by padding. `PinSurvives` is arithmetic on digits:

- a number is what its four bytes join to, and the last byte of one below 2^28 leaves
  its top nibble free (`FourBytes`), so `decodePassword` takes number and count apart
  again as `Packed` put them together, and `or` is a sum there;
- a string of digits is a run of zeroes and the digits of its number (`PaddedBy`, by
  induction over the string): padding `Digits` of the number to the declared length gives
  the string back, whatever its leading zeroes. `Digits` and `Number` are recursive
  functions; that they exist is proved as for the loops of the stream.

**`ChannelProofs`, the key agreement.** `KeysAgree` says `KeyAgreed` of any curve for
which `Group` holds, with any number of attempts, any private keys and any garbage.

- `multiply` is double-and-add, a nested recursive function: by induction over the
  scalar it is the sum of so many copies of the point (`Times`), and from the group laws
  a sum of n copies of a sum of m copies is the same the other way round. So the two
  sides compute one point, which is why a key that either has is the other's as well.
- `toLE` and `fromLE`: a coordinate below the prime fits its bytes, and its bytes read
  back are the coordinate, for any base and number of bytes.
- The invariant `ExchangeInv` says whose bytes are where: while the link is up, what the
  lock has been sent are the coordinates of the current attempt's public key, as far as its
  phase says; what is received and what the lock has still to send are, in this order,
  part of one point, which is the lock's own if it was honest and off the curve if not
  (`Connected`); and attempts to come have received nothing (`ToCome`), so that what
  earlier ones left running cannot reach them. TLC found it invariant on the bounds of
  `KeyExchange_agree`.
- `Group` is a hypothesis and not a lemma: that chords and tangents associate is a fact
  about elliptic curves, and needs that `P` is prime. TLC checks it (`GroupLaws`) for the
  code's own arithmetic on a curve of 19 points, where the mutant without `A` fails.

**`CliProofs`** proves `EachHasAWord`, `InTimeReleases` and `DoneIsReal` for any
number of locks. The invariant has `Turns` (locks before `turn` have a word, from it
on they have none, later ones have not begun) and `Links` (only a session has a
link, and until a deadline passes nobody but the awaited lock has a session). For
`DoneIsReal` it adds `Real`: what was heard before the command went out is where the bolt
still is, since the motor has not run; what was heard since is a state the bolt has been in
since; and so is what becomes `deferred` or `state`, whichever of the two is believed.

**`DiscoveryProofs`** proves `NeverMistaken` from one lemma: a peripheral that
matches a credential is that lock, on either platform, whichever identifiers the
credential holds. `ScanIsOver` follows from `Held`, which says in which phases a
listener, a timer, a scan and a link can be there at all.

**`KeyCacheProofs`** proves `PairingKept` and `AccessoriesKept` for one process at a
time (`Processes = {p}`), killed anywhere. The invariant has `Follows`: what a
process is about to write follows from the file as it is now. With a second process
that is exactly what fails: `KeyCache_overlap.cfg`.

Type invariants are in no run: those of the adapter, `Plugin`, `Controller`, `Session`
and `Accessory` are theorems, and the parts of the others that matter are conjuncts of
the invariants above. `SetupExclusive` and `BusyExact` of `Adapter` and
`NoTimerOnceSettled` of `Accessory` are proved without a run of their own.

Only model-checked:

- liveness (`EachGetsItsTurn`, `ShutdownEnds`, `JobsEnd`, `StopReleases`, `CallsEnd`,
  `GivesUp`, `ReachEnds`, and the fairness part of `KeepsPromise`), which is out of the
  prover's reach;
- `GroupLaws`, on the small curve: see the key agreement above. The throw of `invert` for a
  number without an inverse (secp128r1.js:41) is not modelled: the prime divides neither
  twice an ordinate that is not zero nor the difference of two abscissas that differ;
- the CRC-8 of `MCDataChannel`. The proofs need of a checksum only that both sides
  compute the same one; TLC runs the code's table.

## 6. What is not modelled

- **Doctor, standalone scripts**: sequential I/O and printing, with no state that
  outlives a call.
- **Cloud client**: the HTTP requests, which follow one another. What they return is
  the account of `KeyCache`; of its conversions `decodePassword` is in `DataChannel`.
- **In `protocol.js`**: `redactedHex`, which is logging; `parseFrames`,
  `ResponseAssembler` and `parseGetLockStatus`, which nothing calls.
- **In a connection attempt**: the fallback of `_discover` to a full enumeration; the
  static and MD5 keys, each one read, and the choice among the three kinds of key.
- **In `cli.js`**: prompts, usage and aliases, the choice of locks by name, and the
  second attempt and the advice of `test`, whose child process is modelled.
- **In the plugin**: what the platform's constructor puts in the environment for
  noble; battery level and the set-up of HomeKit services; file permissions.
- **Wording** of output, errors and logs, except whether "done." is true, whether a
  lock gets a word, and who is blamed for a change.
- **The radio below frames**: a block that is corrupted, or a notification that is
  lost, is taken not to happen while the link is up.

## 7. Plan

Written first, as the most important: `Adapter`, `Controller`, `Session`,
`Accessory`, then the protocol's data (`FrameStream`, `Curve`, `KeyExchange`), what
surrounds a session (`Discovery`, `Cli`, `KeyCache`), then the fleet (`Plugin`) and
the requests (`DataChannel`). What is left:

1. The phone as a second client of the lock, for what `release()` is for: its quiet
   period, and the refresh that cuts it short.
2. A setup that hangs over a link that is up, in `Plugin`, for what it does to the
   other locks; and `withSession` of `Cli` refined by `Session`.
3. The choice among the kinds of key in `KeyExchange`, with the reads that precede
   the ECC exchange.
