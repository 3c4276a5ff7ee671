# A TLA+ development of the Lock Management System

The repository is a system of networked door locks.  A person holds a phone
with their cruzID to the lock of a room; the lock asks the *lock
server* over TCP; the server decides from lists kept in the *Google Cloud
Datastore*, answers, and records the visit and the number of people in the
room.  Administrators edit the lists on a *website*; a *cron job* resets the
counts of rooms in which nothing has happened for a while.

Sections 1 and 2 are the inventory and the plan; sections 3 to 6 describe what
has been modelled, what the runs check, what is proved, and what is not
covered.  `PROJECT.json` relates every definition to the lines it stands for.

## 1. Inventory

| component | source | state | operations | modelled |
|---|---|---|---|---|
| lock server | `code/Server/lock_server.py`, `cloudFunctions.py` | per connection: parsed frame, index of a scan, an entity between get and put | accept, `run`, `is_allowed`, `login_room`, `logout_room`, `get/set_current_room`, `set_login_time`, `change_room_capacity` | `LockServer` |
| Datastore (as used) | `Website/Administration/dstore.py`, `cloudFunctions.py` | kinds `Rooms`, `User` and (read by mistake) `Users`; one kind of visits per room | get, put, delete, query; each atomic, never in a transaction | `Datastore` |
| website, requests that write | `Website/Administration/__init__.py`, `dstore.py` | per request: the entity read, rows still to store | add/remove user/group, delete room/user, upload `rooms.csv`/`users.csv` | `AdminSite` |
| capacity cron job | `Server/clear_room_capacity.py` | time of start, result of its query | query, per room get and put | `CapacityReset` |
| lock firmware | `code/micro/empty_CC3220S_LAUNCHXL_tirtos_ccs/empty.c`, `empty.h` | Wi-Fi status word, socket, cruzID to ask for, loop counters, motor | bring up Wi-Fi, set up the reader, find a phone, ask the server, turn the bolt, hibernate | `LockFirmware`; its promise is `Door` |
| PN532 driver and reader | `PN532.c`, `PN532.h` | the function being executed and its wait; in the chip, the command and the frame that is ready | write a command, wait for acknowledgement and answer, read frames | `Pn532` |
| locks and server together | the three above and TCP | questions and answers under way | ask, deliver, answer, give up | `TapSystem` |
| phone application | `code/Android_App/UCSCLocks/app/src/main/java/...` | account (twice), back stack, background tasks | log in and out, answer a lock, fetch rooms and visits | `PhoneApp` |
| website, pages and statistics; Android endpoints | same files as the website | none | read-only: logs, histograms, formatted times, rooms of a user | no |
| offline cache | `cache.c`, `cache.h` | ring of 16 cruzIDs in memory and in flash | read, prepend | no: nothing calls it |
| developer tools | `code/cloud/cloud.py`, `script.py` | none of their own | older copies of the server's functions, a load simulation | no |
| earlier firmware, vendor files | the rest of `code/micro` | | | no |

### How the components interact

* A **phone** answers the lock's SELECT AID with the account it is logged in to;
  without one it opens its login form instead.
* A **lock** wakes up, waits for its Wi-Fi, sets up the reader and looks for a
  phone.  If there is one it opens a connection, sends
  `\login-<cruzID>-<room>`, waits three seconds for the answer (or without limit,
  if the timeout could not be set, which is only printed), turns the bolt and back if it is "230 Allowed", and hibernates, which loses its memory but
  not what the reader has ready.  A phone nobody is logged into on sends an empty
  cruzID; of a cruzID of ten characters or more the lock sends the first ten, and
  whatever follows in memory.  The server does not know whether two
  connections are two taps or a tap and its repetition.
* The **server** starts a thread per connection.  The threads share nothing in
  memory and everything in the Datastore.  A thread answers, closes the socket
  and only then does its bookkeeping, in up to eight puts and gets and more
  for every earlier visit.
* The **website** runs under gunicorn in several instances, each serving one
  request at a time.  An edit is a get of the room's entity and a put of the
  *whole* entity.
* The **cron job** is a process that starts, queries all rooms, and gets and
  puts, again whole, each room that is due.
* No two of them coordinate.  Server, website and cron job write the same
  entity of a room: the lists (website), `Last_Login_time` (server, cron) and
  `Capacity` (all three) live in it side by side.

### What is hard about it

Concurrency without transactions: a put is based on gets made several round
trips earlier, and writes fields its author never meant to touch.  An answer
given before its consequences are recorded.  Exceptions that end a thread
halfway, with the door already open.  A log that is addressed by position, so
that login and logout must scan it while others extend it.  A server whose
bookkeeping, growing with the log, is not waited for by anybody, so that it may
still be at work for a tap when the next one comes.  Conversions that do
not do what their callers expect: the frame split at every hyphen, the empty
column of a .csv file split into one empty string, IDs made by writing a
cruzID and a number one after the other, a duration written in one format and
read in another.  On the lock: a status word written by event handlers and
polled for one exact value, transfers whose result nobody looks at, a reader
that outlives the program that asked it, and a battery that can fail with the
bolt half turned.  On the phone: an account kept in two places and stored in
two steps, and lists that arrive after the user they are for has gone.  The
complete list, line by line, is under `hazards` in
`PROJECT.json`.

### What makes each component correct

* **Log:** the visits of a user to a room are numbered without holes; only the
  last one can be open; a closed one is never written again.
* **Server:** who is let in is authorised, or has an empty column to thank; a tap
  that is let in is one toggle between inside and outside, and is carried through
  but for a failing call or two days spent in the room; every thread ends.
* **Capacity:** when nobody is at work for a room it is the number of open
  visits; with resets in play, never more.
* **Website:** a list is changed by the request about it and by nothing else.
* **Firmware:** it asks only for somebody who is there, by the first ten characters
  of the cruzID; the bolt opens only after
  an answer that allows it, to the question just asked, and is turned back
  before anything else; every wake-up ends in sleep again.
* **Locks and server together:** the log says inside exactly of those the door
  let in, unless a tap of theirs at that lock went wrong; a door opens only for
  whom its own room admits; a lock is held up by the server only if it has no
  timeout.
* **Phone:** it has one identity, the one its preferences name; what it shows
  settles on the rooms of that user; its login form closes.

## 2. Plan

All of the following is done.

1. `Datastore`, `LockServer`, its abstract specification `Occupancy`,
   `AdminSite`, `CapacityReset`, and `LockSystem`, which composes the last
   three with the server over one Datastore; `LockServerProofs`,
   `IsolationProofs`, `OccupancyProofs`, `LockSystemProofs`.
2. `Door`, what a lock promises; `Pn532` and on top of it `LockFirmware`, which
   is shown to implement `Door`; `LockFirmwareProofs`.
3. `TapSystem`, locks (as `Door`) and server (as `LockServer` without any
   isolation) with lossy connections between them; `AccessProofs` and
   `TapProofs`, which use the proofs of step 1 for one person at one lock at a
   time.
4. `PhoneApp` and `PhoneProofs`.

Left, in this order: the read-only requests of the website
(`get_users_rooms` against `is_allowed`, each put together from several gets);
the website's arithmetic on times against reference definitions.

## 3. The modules

**`Datastore`** has the stored state and nothing that moves.  A kind is a
partial function from IDs to entities, an ID outside its domain is one for
which get returns None, `Put` writes a whole entity, `Delete` removes one.
Fields nothing depends on (names, priorities, times of day of a visit) are left
out.  Four conversions are kept as what they do: `Upper` (`str.upper`), `Split`
(an empty .csv column gives a list with `Blank`, the empty string), `VisitID`
(IDs of different visits that are spelt alike, given by the constant
`Aliases`), and, in `LockServer`, `Parses` (which cumulative times can be read
back) and `Hyphenated` (room numbers, and cruzIDs, with which a frame splits into
more than three).  `Blank` may also be a cruzID: it is what a phone without an
account sends.

**`LockServer`** has one action per get, put or send, so that threads
interleave at exactly the points where they can; what a thread computes in
between belongs to the step before it.  `pc[c]` names the next call, `job[c]`
holds the locals.  A thread that ends by an exception is `"died"`.

| code | actions |
|---|---|
| accept loop, `recv`, `decode`, `split` | `ReceiveLogin`, `ReceiveUnsplittable`, `ReceiveGarbage` |
| `is_allowed` and the answers | `IsUsersFromRoom`, `GetRoomGroup(Raises)`, `GetUserGroup`, `SendDenied`, `SendAllowed` |
| `get_current_room`, `set_current_room` | `GetCurrentRoom`, `SetCurrentRoom` |
| `login_room` | `Scan`, `LoginFree`, `LoginRefused`, `PutLogin` |
| `logout_room` | `Scan`, `LogoutRaises`, `LogoutFound`, `GetPrevious(Raises)`, `PutLogout` |
| `set_login_time` | `GetLoginTime`, `PutLoginTime` |
| `change_room_capacity` | `GetCapacity`, `PutCapacity` |
| a call to the Datastore or the socket raises; a restart | `CallFails` |

A frame arrives whole or not at all (it is shorter than any segment); two frames
in one connection are not read by the code either.

**`Occupancy`** is what a room promises: people enter and leave, and after every
change its population is published, before the next change.

**`AdminSite`** has the requests that write: `BeginEdit` (the get) and
`FinishEdit` (the put) for the four list edits, `DeleteRoom`, `DeleteUser`, and
`BeginUpload` with one `PutRow` per row of the parsed file.  A request about a
room that does not exist raises before it writes and is left out.

**`CapacityReset`** has the cron job: `StartReset` takes the time,
`QueryRooms` the list, `SkipRoom`, `GetRoom`, `GetRoomRaises` and `PutReset`
work it off.  `Due` is the code's arithmetic on minutes of the hour, which
holds for almost every pair.

**`LockSystem`** composes the three, with a clock.  `Editing = "quiet"` keeps
the website's requests apart from everything else but not the cron job.

**`Door`** is what a lock promises, whatever it is built of: one question at a
time, the bolt turned only after "allowed" to that question and turned back
before the next.  Giving up and failing power are part of the promise.

**`Pn532`** is the reader: the chip (`ChipAnswers`: the command it executes, the
frame it has ready), what is held to it (`HoldSomething`), and the driver, one
action per SPI transfer.

| code | actions |
|---|---|
| `WriteFramePN532` at the start of each function | `Invoke` |
| `SendCommandAndACK`: status reads until the acknowledgement; the waits for an answer | `FirstPoll`, `Poll` |
| `CheckACK` | `ReadAck` |
| `frameCheck` and the returns of `ConfigureSAM`, `GetFirmwareVersion`, `DetectPassiveTarget` | `ReadAnswer` |

A transfer that fails leaves the buffer as it was, since its result is never
looked at: a failed write makes the chip keep its former command, a failed
status read gives the byte read before.  `InDataExchange` counts with a variable
that is never initialised: it starts anywhere in `0..WaitTimeout`, or so far
below zero that it never gets there (`Forever`).

**`LockFirmware`** is the lock: `pc` names the next statement of `mainThread`.

| code | actions |
|---|---|
| start, `initAppVariables`; `Power_shutdown` | `WakeUp`, `Hibernate`, `PowerFails` |
| `StartWiFi`, `SimpleLinkWlanEventHandler`, the wait for the link | `StartWiFi`, `WlanConnect`, `WlanDisconnect`, `Connected` |
| the calls of the driver, `NFCStates` | `CallDriver`, `DriverStep`, `ReturnFromDriver`, `FrameRead`, `FrameMissed` |
| the socket; `IsAllowed` | `OpenSocket`, `Connect`, `Send`, `Resend`, `Recv`, `RecvFails` |
| `MotorControl` twice, the LEDs | `Judge`, `Turn`, `StartLocking` |

The bolt is where the motor has turned it, or anywhere if the power failed
meanwhile.  What becomes of the cruzID on its way out of the reader's answer is
`Copied`: of a long one the first ten characters (`FirstTen`), which may be
`Alike` those of somebody else, or these and what follows in memory (`Garbage`).

**`TapSystem`** has a `Door` per room, the connections (`line`: which one a lock
waits at, `frame`: a question still under way, which may be lost when its lock
`Closes`, `patient`: the locks whose timeout could not be set), and
`LockServer` with `Isolation = "none"`.  `AskServer`, `Deliver` and `HearAnswer`
are the way of a question, `HangUp` the timeout or any error, `Outage` the
battery.  A cruzID the lock has sent without an end (`Unterminated`) may arrive
as bytes that are no UTF-8, hold a hyphen, or be looked up like any other.
Nothing says how long the server takes: it may be `Busy` with a tap when the
same person taps again.  `visits` and `doubt` are history: whose last opening of
the door was on the way in, and of which person at which lock a tap went
wrong.  A tap goes wrong when the lock or its power gives up, when a call of the
server fails, when it comes while the server is still busy with that person's last
tap there, or when that person has spent two days in the room.

**`PhoneApp`** is the phone.

| code | actions |
|---|---|
| `LabsActivity.onCreate`, `onResume`; `RoomLogActivity.onCreate` | `Launch`, `OpenLog`; with `Rotate`, `Back` and `Refresh`, which lead there |
| `attemptLogin`, `logout` with `SetAccount` | `AttemptLogin`, `Logout`, `KilledBetween` |
| `CardService.processCommandApdu` with `getAccount` | `Card` |
| `doInBackground` of the three tasks, `AppEngineFetchr` | `Work`, `Hang` |
| `onPostExecute` of the three tasks | `Post` |

Handlers run on the main thread, one after the other; the tasks on Android's
serial executor, in the order they were started, whichever activity has started
them.  `shows` is whose list an activity holds.  `Kill` ends the process at any
time (it is swiped away, crashes, or the phone is restarted), `KilledBetween`
between the two commits of a login or logout.  Rotation replaces the visible
activity by a new object, and one further down when it is uncovered.  The dummy
credentials never match an address that `isEmailValid` accepts, so that a login
always succeeds.  The card service opens its form in the task of the
application, on top, unless the task was started by such a form.

**`MCLockServer`**, **`MCLockSystem`**, **`MCLockFirmware`**, **`MCTapSystem`**
and **`MCPhoneApp`** hold the values of the constants.

## 4. What is checked

`Isolation` says which taps the *environment* keeps apart, since the code keeps
none: `"room"` no tap at a lock while the server works on one from that lock;
`"user"` no tap by a person while it works on one of theirs; `"none"` nothing.
Runs under `"room"` and `"user"` therefore say what holds as long as people are
slower than the server, and the violations under a weaker setting show which of
the two is needed.  Nothing in the code provides it: the bookkeeping has two
scans of a log that only grows, and a lock asks again after a few seconds of
sleep.  In the run `doors`, with the locks, nothing is kept apart, and
`DoorMatchesLog` says of every person separately what becomes of overlapping
taps.

| run | module | expects | what it shows |
|---|---|---|---|
| `room` | `MCLockServer` | pass | two people, two rooms, two threads, visits of hours or of days: `ImplementsOccupancy` (refinement, liveness included), `CapacitySettled`, `CarriedThrough`, `TapToggles`, `Finishes` |
| `none` | `MCLockServer` | pass | nothing kept apart, failing calls, strangers, a phone without an account, a room without names and one without classes, locks of a hyphenated room and of one that is not stored, visits of days: `ServerTypeOK`, `NoGaps`, `RightAnswer` |
| `quiet` | `MCLockSystem` | pass | edits while the server rests, resets at any time: `NeverOverCounts`, `AccessAsRequested` |
| `any` | `MCLockSystem` | pass | no coordination between the programs, failing calls; only the taps of one person are kept apart: `SystemTypeOK`, `NoGaps`, `OpenIsLast`, `ClosedStaysClosed` |
| `tap` | `MCLockFirmware` | pass | one lock with its reader, two phones, and everything that can fail: `LockTypeOK`, `AsksForWhoIsThere`, `SleepsAgain` (every wake-up ends in sleep, with four named exceptions), `ImplementsDoor` (refinement, liveness included) |
| `doors` | `MCTapSystem` | pass | two locks, only one of whose rooms has been uploaded, with an empty users column, and the server; taps that overlap, an empty cruzID and one without an end, questions lost and answers late, a thread that dies, a timeout that is not set, visits of days, power cuts: `TapTypeOK`, `DoorMatchesLog`, `OpensForAuthorised`, `LocksComeBack` |
| `phone` | `MCPhoneApp` | pass | two people on one phone that is turned, killed and held to locks: `PhoneTypeOK`, `OneIdentity`, `RoomsSettle`, `FormsClose` |
| `two_rooms` | `MCLockServer` | violation | `set_current_room` looks for a registered person in a kind nobody writes, so who changes rooms stays in both |
| `lost_update` | `MCLockServer` | violation | two people at one lock: one change of `Capacity` is lost |
| `long_stay` | `MCLockServer` | violation | when the visits to a room add up to two days logging out raises, now and ever after |
| `digits` | `MCLockServer` | violation | visit 10 of X is visit 0 of X1: one logs the other out |
| `stale_put` | `MCLockSystem` | violation | a tap undoes an edit made while it was worked on |

Each violation contradicts something the code says of itself; `findings` in
`PROJECT.json` quotes it.  What else was met while modelling follows from a
single action and has no run of its own:

* under `Isolation = "none"` two quick taps of one person both find no open
  visit and both log in (`login_room`, cloudFunctions.py:141-162), and a second
  logout runs off the end of the log (`LogoutRaises`), so `OpenIsLast`,
  `ClosedStaysClosed` and `CarriedThrough` need `"user"`;
* the lock of a room that is not stored, or whose number has a hyphen (E2-599
  is an example in dstore.py:286), and anybody whose cruzID has one, gets no
  answer at all;
* an empty column is a list of one empty string (`Split`), so that a room without
  classes admits every registered user without classes, and a room without names
  admits the empty cruzID: a phone nobody is logged into sends one
  (CardService.java:51), and is answered "230 Allowed" (cloudFunctions.py:57).
  `EmptyColumns` are these cases, and the exception in `RightAnswer` and
  `OpensForAuthorised`;
* cruzIDs in the users column of `rooms.csv` are not brought to upper case, and
  in lower case let nobody in, against the comment at lock_server.py:50;
* a user added to a room twice and removed once is still on its list;
* the lock's status word is compared, as a whole, with `STATUS_BIT_IP_LEASED`
  (empty.c:79), the *number* of a bit; it is the value of the word with only
  `STATUS_BIT_CONNECTION` set, so that the lock goes on before it has an address,
  and a link that comes and goes between two polls leaves it waiting;
* `CheckACK` returns 0xFE for a bad acknowledgement and its callers test for
  zero (PN532.c:232), so that none is ever rejected; `AsksForWhoIsThere` shows
  that no wrong question comes of it;
* of a cruzID of ten characters or more the lock sends the first ten without an
  end (empty.c:132); the server sees somebody whose cruzID these ten are, possibly
  not the one who is there (`Alike`), or them and further bytes (`Garbage`);
* that the receive timeout cannot be set is only printed (empty.c:156), and a lock
  that is not answered then waits until its power is cycled (`patient`, and one of
  the exceptions in `SleepsAgain`);
* the last attempt to send is given up even when it has succeeded
  (empty.c:422): the server records a tap at a door that stays shut (`doubt`);
* a second tap of a person that comes while the server is at work for the first is
  recorded according to a log that may not have the first visit yet: door and log
  may disagree afterwards, and nothing brings them together again (`doubt`);
* the battery may fail with the bolt open, and nothing relocks it at the next
  start (empty.c:170);
* `AppEngineFetchr` sets no timeout, and all tasks share one executor: a fetch
  that hangs also holds up the next login (`hung` in `FormsClose`);
* a phone killed between the two commits of a login has `LoggedIn` and no
  cruzID, or the other way round (`torn` in `OneIdentity`);
* the website's clock shows noon as 12 AM and midnight as 0 AM
  (`Administration/__init__.py:268`).

**Bounds.**  `MaxRequests` (taps in a behaviour): four are a complete login,
logout, login, logout, after which a scan has passed closed visits and a
previous visit has been read; in `room`, `none` and `quiet` it is four, in `any`,
with the website and the cron job at work as well, three (in, out, and in again
while something of the former taps is still under way), and in `doors`, with the
locks and all that can happen to their questions, two (in and out, or two that
overlap; of more, the proofs speak); the runs that expect a violation have as many
as the violation needs, `digits` twenty-two on one thread, to reach an eleventh
visit.  `Conns` (threads at a time): two, since every race found or excluded is
between two threads.  `MaxFailures`, `MaxResets`: one, `MaxEdits`: one or two, each
at any moment.
`StayDays` (the days by which a visit raises the cumulative time, with what was left
over of earlier ones): `{0, 2}` in `room`, `none` and `doors`, to pass the two days in
one visit, `{0, 1}` in `long_stay`, to pass them by a sum of visits none of which is
that long, and `{0}` where only the order of visits matters.
`Minutes`: a single minute where the clock plays no part, `{2, 58}` on both
sides of the full hour otherwise.  In `tap`, `WaitTimeout` and `TestTimeout`
are 1, `FramePolls` is 2 and `MAXATTEMPS` 0, where the code has up to 30 and 2: each
loop is left both by success and by its limit, after a first and, where
there is one, a further turn; they count nothing else, and the proofs are for
any value.  In `phone`, `MaxDepth` (activities on the stack) and `MaxTasks` are
three and there are four activity objects: enough for a login form over a log
over the list, with a task of each outstanding.  Symmetry is used in one run,
`any`, which has safety properties only, and only of the threads; users and
rooms differ in the uploaded lists.

`CHECK_DEADLOCK FALSE` everywhere: a bounded instance of the server stops when
its taps are used up, a lock whose main thread has returned stops for good, and
a phone nobody touches rests.

**Fairness.**
* `ServerSpec`: weak fairness of `Run(c)` for every thread, since the operating
  system schedules every thread, and a get, put or send that does not raise
  returns.  Nothing is assumed of taps and failures.
* `LockSpec`: weak fairness of `MainThread`, the only thread of the application;
  none of phones, access point, reader, server or battery.
* `TapSpec`: weak fairness, per lock, of hearing an answer *or*, if the receive
  timeout is set, giving up, and of acting on what was heard.  Nothing is assumed
  of the server: `LocksComeBack` holds even if no thread ever runs, except for a
  lock that waits without a timeout (`patient`) and is never answered.
* `PhoneSpec`: weak fairness of `Work` and `Post`, the executor's thread and the
  main thread; not of the person, nor that a server answers (`Hang`).
* `Occupancy` and `Door` ask for fairness of `Publish` and of `Serve`, which the
  refinements have to justify from the above.
* `LockSystem` has only safety properties and no fairness.

## 5. What is proved

`LockServerProofs`, for every set of users, rooms and threads, under
*every* `Isolation`, with any number of failing calls:

* `ServerTypes`: `ServerSpec => []ServerTypeOK`;
* `LogHasNoGaps`: `ServerSpec => []NoGaps`.

Neither is inductive by itself.  `PutCapacity` writes `job[c].entity`, which is
an entity only because the get before it found one; and `PutLogin` leaves no
hole only because its thread has found every earlier index *and nothing deletes
visits*, so that what one thread has seen stays true under the steps of all
others.  `SafetyInv` adds these two facts, `ThreadState` (per thread, about its
locals) and `ScanState` (per thread, about its locals and the log).  The proof
has a lemma for each kind of step: one that only reads (`ReadsSafety`), raises
(`RaisesSafety`), fails (`FailureSafety`), receives (`ReceiveSafety`), puts a
visit (`LogPutSafety`) or a room (`RoomPutSafety`); `OthersKeep` carries the
facts about all the other threads through each of them.

`IsolationProofs`, when taps are kept apart (`Apart`: `Isolation` is `"user"` or
`"room"`, and no two visits have the same ID), with any calls failing and visits of
any length:

* `OneOpenVisit`: `Apart /\ ServerSpec => []OpenIsLast`;
* `HistoryIsFinal`: `Apart /\ ServerSpec => ClosedStaysClosed`;
* `AdmittedCarriedThrough`: `Apart /\ ServerSpec => CarriedThrough`.

A thread puts a visit on the strength of a scan it made several calls before.
The invariant `VisitsInv(P)` says, for a set `P` of pairs of a room and a person, that
the scan is still right: no other thread works for this person at this lock
(`Alone`), no thread ever leaves one room to enter another, because
`set_current_room` looks in the wrong kind and `Last_Room` stays None
(`NobodyMoves`), and so the visits passed are still closed and the one to be
written is still missing, or still open, and the open visit a logout looks for still
ahead of it (`Fresh`).  `NextVisits` needs only that no second thread is started for
a pair in `P`; under `Apart` this is so for all pairs, and `TapProofs` uses it for
a single one.  `NobodyMoves` is where the proof depends on a defect: once
`set_current_room` finds the user, a tap at one lock also writes the visit at
another, and keeping the taps of one *lock* apart would no longer be enough.
Without isolation the properties are false: of two overlapping taps of one person,
the put of the late one erases a visit that was closed meanwhile.

A thread that has answered "allowed" can raise at four places: a logout that runs off
the end of the log, a previous visit that is missing, a cumulative time it cannot
read back, a room that is gone.  `IsolatedInv(P)` adds to `VisitsInv(P)` that the
room stays stored (`Admitted`, since no rooms are deleted here), and leaves one of
the four: two days in the room (`TwoDays`), whether of one visit or as a sum of
many (`AdmittedGoesOn`, `RunDies`).  `long_stay` shows that it happens.

`OccupancyProofs`, when moreover the taps at one *lock* are kept apart and no call
fails (`OneByOne`: `Apart`, `Isolation = "room"` and `MaxFailures = 0`; `lost_update`
shows that keeping apart those of one person is not enough).  Visits may last any
number of days, since a logout that raises has changed neither log nor `Capacity`:

* `CapacityIsExact`: `OneByOne /\ ServerSpec => []CapacitySettled`;
* `ServerKeepsOccupancy`: `OneByOne /\ ServerSpec => Room!OccupancySafety`, the
  safety half of `ImplementsOccupancy`.

`CapacitySettled` says nothing of a room while a thread is at work for it.
`Counted` does: from the put of the visit to the put of the `Capacity` the
stored number is one behind the number of open visits, in the direction that
thread is about to correct, and the entity the thread holds has the stored
number in it, since the only thread that could have changed it would have to
be at work for the same room (`Serial`).  The sets of people inside are finite
because they grow by one at a time.

The second part of the module looks at one step of a thread, whatever fails around
it: `RunRecords`.  A thread that has let somebody in changes who is inside once,
in the step that ends its recording, by the person it has answered for, and
nobody else changes it; `TapProofs` builds on this.

`LockSystemProofs`, for the server with the website and the cron job beside it, for
any files uploaded, any number of requests, resets and failing calls:

* `SystemTypes`: `SystemSpec => []SystemTypeOK`;
* `SystemLogHasNoGaps`: `SystemSpec => []NoGaps`;
* `SystemOneOpenVisit`: `Apart /\ SystemSpec => []OpenIsLast`;
* `SystemHistoryIsFinal`: `Apart /\ SystemSpec => ClosedStaysClosed`;
* `AccessChangesAsRequested`: `Editing = "quiet" /\ SystemSpec => AccessAsRequested`;
* `CapacityNeverAhead`: `Gently /\ SystemSpec => []NeverOverCounts`.

`SystemInv` joins `SafetyInv` with what a handler (`SiteInv`) and the cron job
(`CronInv`) hold between a get and a put.  The step that needs work is a `PutRow`
or a removal from a list: that the result is a list again is proved from the
definitions of `SequencesExt` (`RemoveFirstType`).  The first four theorems hold
for `Editing = "any"`: `VisitsInv` survives website and cron job because they write
no visit, and because neither stores a user in the kind `Users`.  (`IsolatedInv` does
not: the website deletes rooms under threads that have let somebody in.)

The other two say what coordination buys.  `QuietInv`: while a request is
served nobody else works, and otherwise every entity that anybody holds has the
lists that are stored, and its room exists, so that a put changes neither; the
proof needs no isolation of taps and admits failing calls.  (`stale_put` shows
that `"quiet"` is needed.)  `CappedInv` bounds the `Capacity` by the number of
people inside, plus one while a thread is between the put of a logout and that
of the `Capacity`, and minus one for a login; the entity a thread holds may be
*older* than a reset, and then is put back over it, but is itself within the
bound.  `Gently` is `"quiet"`, taps at one lock kept apart, no IDs that are alike
and no failing calls; visits may be of any length here, as a logout that raises
before its put has changed neither log nor `Capacity`.

`AccessProofs`, under every `Isolation`, with any failing calls, for any lists,
empty ones included, and for the empty cruzID:

* `AnswersAreRight`: `ServerSpec => []RightAnswer`.

The lists a thread reads in three gets are those uploaded, since the server
only ever puts back entities it got, with other fields changed (`AccessInv`).  What
`is_allowed` finds in them (`Admits`) includes everybody `Authorised`, and nobody
else but through `EmptyColumns` (`AdmitsIsAuthorised`).

`TapProofs`, for any number of locks, people and connections, any number of failing
calls and power cuts, visits of any length, and a server that is as slow as it likes:

* `TapTypes`: `TapSpec => []TapTypeOK`;
* `LocksOpenForAuthorised`: `TapSpec => []OpensForAuthorised`;
* `DoorsMatchLog`: `DOMAIN Aliases = {} /\ TapSpec => []DoorMatchesLog`.

`TapInv` and `DoorInv` relate what a lock has heard to what the thread of its own
connection has answered to its own question, which stays so because a connection
is used again only when no lock waits at it and no thread works on it.

`DoorsMatchLog` is about one person at one lock, and a rest: no tap of theirs
there is under way, though others' may be.  Between two rests door and log differ.
`MatchInv` says by how much: who is inside differs from whose visit the door has
begun exactly if either the door owes an opening (`Owed`: the answer "230
Allowed" is on its line, or heard and not acted on) or a thread has still to
put the visit it has let in for (`Working`), but not both (`Balanced`).
A step that answers makes both true at once, one that opens or puts makes one
of them false and changes its own side.  What makes this inductive is that no
answer is given to nobody: a question that is not yet answered has its lock
waiting at the other end, or the tap is in `doubt` (`Waits`).  That the put of a
visit never fails to change who is inside needs its scan to be right: as long as a
pair is not in doubt, at most one connection is `Busy` with it (`Single`), although
nothing keeps taps apart, and so `IsolatedInv` holds of this one pair, whatever
the threads for all others do to each other (`Unmixed`).  Everything left out is an
event of that person's own taps at that lock, and all of them can happen in the
model.

`LockFirmwareProofs`, for any names, limits and failures:

* `LockTypes`: `LockSpec => []LockTypeOK`;
* `AsksOnlyForPresent`: `LockSpec => []AsksForWhoIsThere`;
* `FirmwareIsADoor`: `LockSpec => Promise!DoorSafety`, the safety half of
  `ImplementsDoor`.

The chip keeps its power while the lock hibernates, and may still hold the
answer about an earlier person.  `FirmwareInv` says until when: the set-up after a
restart gives the reader new commands and reads their answers, and a leftover that
names somebody is gone before the driver is where it takes a name from.  The cruzID
asked for may still be another's that begins with the same ten characters; the
theorem says that much and no more.

`PhoneProofs`, for any people, activities and tasks, and kills at any time:

* `PhoneTypes`: `PhoneSpec => []PhoneTypeOK`;
* `PhoneHasOneIdentity`: `PhoneSpec => []OneIdentity`;
* `RoomsAreTheUsers`: `PhoneSpec => []RoomsSettle`.

The finished tasks and after them those that wait for the executor form one
line (`Line`), in which a task keeps its place until it is posted.
The last task in the line that reports to the visible list has the last word
(`SettlesOn`), and it asks for the present user: `RoomsInv`.  A login changes the
user only while a form is visible, so nothing is claimed then; when a list comes
to the top, whichever way, it is resumed, and its new fetch joins the line at
the end (`Resumed`, `LastWord`).  That a form which finishes under another
activity does not bring a list to the top, and that the object a fetch reports
to is nowhere else on the stack, is the other half (`FormGone`, `TopIsAlone`).

The assumptions used are those stated in the modules: `Upper` yields cruzIDs the
server looks up, the uploaded lists are lists, IDs that are alike are given
by `Aliases`, the model values are different from each other, the bounds are
natural numbers.  `NoGaps` is about IDs without coincidences; with them it fails,
as `digits` suggests.

Every invariant and every action property that a passing run checks is stated
by one of these theorems.  Only model-checked: all
liveness, which is outside the prover's reach (the liveness halves of
`ImplementsOccupancy` and `ImplementsDoor`, `TapToggles`, `Finishes`,
`SleepsAgain`, `LocksComeBack`, `FormsClose`), and the properties the five
violation runs refute, which are no theorems.

## 6. What is not modelled

* *Functions of the PN532 driver nobody calls* (`TgInitAsTarget`, `TgGetData`,
  `TgSetData`, `PowerDown`, `SetParameters`) and *the offline cache*
  (`cache.c`): the firmware never executes them.
* *The read-only requests of the website*, those for Android included: they write
  nothing, and a failure ends in an error page or, on the phone, in an empty list,
  which `PhoneApp` has (`Found`).
* *Developer tools* (`code/cloud`): older copies of the server's functions.
* *The rest of `code/micro`*: vendor examples (the network terminal), board files,
  generated build output and superseded versions of the firmware.  This is
  over nine tenths of the C in the repository, and nothing of this system's own logic
  is in it; the part of the repository that is covered is small in lines for
  this reason.
* *In the phone application:* parsing and layout; the restoring of a back stack
  after the system has reclaimed its memory; rows a RecyclerView still shows
  after a logout has emptied the list under it.
* *Within the modelled parts:* TCP below the level of whole frames; that the
  Datastore may refuse a key with an empty name (for the empty cruzID there is no
  entity; a refusal is a call that raises, `CallFails`); the eventual
  consistency of a *query* (only the cron job makes one); the times of day in
  visits, which nothing modelled reads; names, priorities and templates of the
  website; an upload whose file does not parse, which raises before it
  stores anything; the motor's timing; the printing on the lock's terminal.

A failing call between the put of a visit and the put of the `Capacity` leaves
the two in disagreement until a reset, as the code has no repair: the runs of
`CapacitySettled` and `NeverOverCounts` have `MaxFailures = 0`, and the runs
with failures check the log only.
