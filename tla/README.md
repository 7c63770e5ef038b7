# A model of the Yanshee Raspi SDK

The SDK is a C library (with a Python binding) by which a program on the robot's
Raspberry Pi, or on another computer of its subnet, controls a Yanshee robot. The
modules here describe the session with a robot, the requests that all its other
functions make, what their encoders and decoders do, the angle strings and motion
files, and the message queue. TLC checks them on small instances, and TLAPS proves
what matters most for every instance.

Line numbers below are those of `src/src/RobotApi.c` unless another file is named.

## The system

| component | state | operations | interacts by |
|---|---|---|---|
| Session (2259-2565, 3020-3083) | the globals at 118-132 | Initialize, Discovery, Connect, Disconnect, ReportStatusToApp, Deinitialize | one UDP socket to send, one to receive, a mutex |
| Heartbeat (442-485) | a thread for each Connect, its copy of the address | check the status, send under the mutex, sleep 5 s | `g_iConnectingStatus` (no lock), `g_stConnectedRobotInfo` and the sending socket (mutex) |
| Request and response (316-431 and the calls above it) | a socket and a random port for each request | about thirty API calls: encode, send, wait, decode | reads the session's address and port |
| Codecs (`utils/RobotMsg.c`, to 2665) | none | encode a request, decode an answer | called by the session and by requests |
| Swarm messages (`utils/RobotMsg.c:2666-3997`) | none | encode and decode what robots of a swarm exchange | other programs; nothing in `RobotApi.c` calls them |
| Message queue (`utils/RobotMsgQueue.c`) | a ring of slots, two semaphores, a mutex | Create, Send, Receive, Peek, GetNumMsgs, LimitGet, Delete | threads of the process that uses it |
| Servo angles, motion files (521-706, 1101-1197, 1253-1647) | none, files | build angle strings and motion frames | requests |
| Camera, vision, samples (2577-3010) | none of its own | shell commands, a UNIX socket | programs outside the repository |
| Logs, JSON, binding, examples | - | - | - |

What is hard about them:

- *Concurrency.* The application thread writes `g_iConnectingStatus` without the
  mutex and the address sometimes with it and sometimes without; heartbeat threads
  read both. Nothing waits for a heartbeat thread to end, so a new one may start
  beside an old one, and one may outlive Deinitialize.
- *Ordering.* Discovery, Connect and Disconnect share one receiving socket and
  take what comes first from it: the answers to one call can be met by the next.
- *Failure.* Datagrams are lost or late, sockets, sends and threads fail, and a
  call that returns early leaves what it has done so far.
- *The queue.* Between its semaphore and the mutex a thread can be overtaken by
  any number of others.

What makes each correct: the session, that SDK and robot agree while calls
succeed, that a session has a heartbeat and none without one, that every call
returns, that descriptors are not lost; the queue, that it is a bounded FIFO queue
in which nobody waits for what is there; requests, that an answer is the answer
to the request and that a port and a socket are given back; codecs, that a verdict
is what the robot said; the algorithms, that they compute what their format says.

## Modules

| module | models | checked by |
|---|---|---|
| `SdkSession` | the session and the heartbeat threads; the robots and the network around them | `MCSdkSession` |
| `RobotRequest` | `_ubtCommWithRobot` and the 26 functions on top of it, from several threads; the robot and the network | `MCRobotRequest` |
| `PortText` | how `_ubtCommWithRobot` writes its port into the printed request | `RobotRequest` |
| `RobotMsg` | every encoder and decoder of a request and its answer | `RobotRequest`, `RobotAlgorithms` |
| `SwarmMsg` | every encoder and decoder of a swarm message | `RobotAlgorithms` |
| `MotionFile` | servo angle strings, motion frames, the table of motions, motion files | `RobotRequest`, `RobotAlgorithms` |
| `RobotAlgorithms` | a bench that tries the last three on bounded inputs | `MCRobotAlgorithms` |
| `RobotMsgQueue` | the message queue | `MCRobotMsgQueue` |
| `RobotLink` | what the session's calls promise: an abstract specification | refined by `SdkSession` |
| `BoundedFifo` | what the queue promises: an abstract specification | refined by `RobotMsgQueue` |
| `RemoteCall` | what a call that asks the robot promises: an abstract specification | refined by `RobotRequest` |
| `SdkSessionProofs`, `SdkSessionPromises` | theorems about the session; who is connected, and the refinement | TLAPS |
| `PortTextProofs` | what the rewriting makes of a request | TLAPS |
| `RobotRequestProofs`, `RobotRequestPromises` | theorems about requests; verdicts and the refinement | TLAPS |
| `RobotMsgQueueProofs` | theorems about the queue, the refinement among them | TLAPS |
| `RobotAlgorithmsProofs` | theorems about the codecs, angle strings and motion files | TLAPS |
| `RecursionFacts` | induction and recursion over the natural numbers, as facts about sets and functions | TLAPS |

### SdkSession

One application thread (`app`, with the place it has reached in a call) and the
heartbeat threads (`hb`). The comment at 468 supposes one thread that calls. A step
is what happens between two points where another thread or the network matters:
a section under the mutex, a send, a receive, an unlocked write. So Connect is
`ConnectPort` (reads the port under the mutex), `ConnectSend`, `ConnectRecv` (once
for each datagram; the status is set with it), `ConnectInfo` (the address, under
the mutex) and `ConnectSpawn`. A section of the application under the mutex is one
step, since other threads touch what it uses only under the mutex; the heartbeat
holds the mutex over two steps, as its address can be looked at in between.

| variable | in the code |
|---|---|
| `rxFd`, `txFd`, `port`, `status`, `info` | `g_iRobot2SDK`, `g_iSDK2Robot`, `g_iSDK2RobotPort`, `g_iConnectingStatus`, `g_stConnectedRobotInfo` |
| `bcast` | SO_BROADCAST of the sending socket |
| `mutex` | `stMutex`: whether it is initialised, and its holder |
| `fds` | the descriptors the process has open |
| `hb`, `hbIp` | where a heartbeat thread is, its `acIPAddr` |
| `inbox`, `net`, `linked` | the receive buffer, the datagrams under way, the robots that hold themselves connected |
| `failed` | history: some call has not succeeded |

A robot stands for its address and its name. Strings are values with three
special ones: empty, the local address, and `Junk` for one that is
indeterminate: the name a local Connect copies from a buffer nobody wrote (2430),
and the address while `strncpy` writes it without the mutex (2429). A destroyed
mutex locks at once (EINVAL, which no caller looks at), a held one is not destroyed
(EBUSY). The requests' encoders, the NULL checks and a sender's partial write are
left out: with non-NULL arguments they always pass. A robot answers every request
it gets. The code copies the status of the answer and does not look at it (2564-2572,
2651-2659 of `RobotMsg.c`), so a robot that says no is taken to have said yes: with the fault
`refuse` a robot may acknowledge a request and not carry it out. Only `session_live` has that
fault; what the others say of an agreement between SDK and robot is about robots that do
what they acknowledge.

A descriptor is lost at two places, and both are in the model: `_udpServerInit` leaves the
receiving socket open when its timeout cannot be set (165-169), and `_ubtGetLocalBcastIP` its
own when there is no wlan0 (501-505). `SocketsAccounted` is a property of steps: what the
globals name is open (`Named`), and the descriptors that they do not name (`Lost`) change
only by one of these two, in a call that then fails.

The application calls in turn (`InTurn`): Initialize when there is no socket,
Deinitialize when there is one, as the example programs do. What an Initialize loses that
follows another without a Deinitialize between them is therefore not in the model. A Connect begins only while a heartbeat
thread is free, which is a bound; where `pthread_create` may fail it needs none.

`RobotLink` says what an application may rely on where no answer comes after its
timeout. It knows the call that is waited for and how far it is (`doing`), whom the SDK
holds itself connected with (`peer`), the robots that hold themselves connected, and for
each request how often it is asked for and not yet done (`asked`), and done with no call
told yet (`done`). There are no datagrams, sockets, threads or locks in it. A Connect that
succeeds was accepted by the robot it asked, in this call, and makes it the peer; one that
fails leaves the peer as it was, and no robot connects after it. A Disconnect may fail
although its robot disconnects later, and leaves the peer as it was; one that succeeds has
the word of a robot, which no other success has. A report succeeds only if there is a
peer. Two clauses are weaker than one might hope, since the code is:

- Disconnect takes the first datagram on the socket. With Discovery on that socket it may
  fail on an answer to the search, and the next Disconnect, of another robot, then
  succeeds with the word of the first: so it is its own robot's word only where the
  application does not search (`Searches`). TLC finds the counterexample to the stronger
  clause in the instance of `session_search`.
- Connect to the local address overwrites the peer in two steps (2429), between which there
  is none (`Forget`).

The mapping is at the end of `SdkSession`: `doing` and its stage are read off `app.at`,
`asked` and `done` count what is under way and in the receive buffer, and `peer` is the
stored address where the status is 1 or the address is the local one. Between
the status and the address (2473-2477) a Connect has heard its robot but not joined it yet.

### RobotRequest

Every function that asks the robot something has one shape: it checks its
parameters and encodes a request (`Begun`), `_ubtCommWithRobot` opens a socket on a
port drawn at random (`Open`), sends (`Send`), waits once (`Receive`, `Timeout`) and
closes, and the function decodes the answer (`Verdict`). `Begun` and `Verdict` take
the call, one operator or case for each function; the steps are shared. Two functions have more:
`ubtSetRobotMotion` creates a file (`BeginMotion`), writes it and goes on as
`ubtStartRobotAction`, or for the head as `_ubtSetRobotServo` (`WriteMotion`);
`ubtStartRobotAction` sleeps as often as it was told to repeat (`DecodeAction`, `Play`).

| variable | in the code |
|---|---|
| `at`, `call`, `ret` | where a thread is, its call with the parameters, what it returned |
| `buf` | `acSocketBuffer`: the request, then the answer in the same array |
| `port`, `sockets`, `bound` | the port of the call's socket, the open sockets of all calls, the ports they hold |
| `left` | `iRepeat` as `while (iRepeat--)` counts it down |
| `files` | the files `motion0.hts` to `motion49.hts`: which call created it last, and whether it is whole |
| `linked` | the session holds an address (`g_stConnectedRobotInfo`); `Link` stands for Connect and Disconnect |
| `sent`, `answer` | the request and the answer of each call that are under way |
| `id`, `got`, `performed`, `gaveUp`, `leaks` | history: which call it is, whose answer it took, what the robot did, who left without an answer, who returned without closing |

What the code does and one might not expect is in the model:

- The request is encoded with the port of the session, and `_ubtCommWithRobot` writes
  the drawn port over it in the printed text: it looks for the first `port`, puts a blank
  and the port at the place `sizeof(char *)` and 2 behind it (381), and drops the
  digits that follow. `PortText` has that as an operation on texts (`SetPort`), sequences of
  characters, of which only the part around the port counts; `Reads` says what the robot makes
  of the result. With pointers of 4 bytes that place is the tab behind the colon. With
  8 the old digits stay in part, the two numbers run together, and the robot gets no JSON:
  the run and the theorem take 4, that of the library for the Raspberry Pi.
- The first `port` is not always the field's name: the kind of an event, of a detection,
  of a piece of music or of a sensor is any text the application gives, and is printed
  ahead of it (`GivenAhead`). If it holds the word, it is written over in that place
  (`Front`, `Mangled`), and the request is broken or still names the session's port. The
  application's texts with `port` in them are the constant `PortTexts`, with the letters
  behind the word; the run has `support` and `portrait`.
- A socket that cannot be given its timeout (167) and one whose send fails (405) stay
  open, and so does their port; the call returns. `leaks` counts them.
- Some decoders return what the robot says (`Strict`), some succeed with any answer
  that is JSON (`Always`), and two fail with every answer (`Never`: 643 of
  `RobotMsg.c`).
- The random number of a motion file is not kept from being drawn twice (1278).

Time is left out: while a call waits its timeout may come, whatever its length, so an
answer may come in time, late, or to a later call that drew the same port. What
`sendto` returns is not looked at by the code. A robot carries out what it can read
and says so, or refuses, or answers no JSON. `Repeat` is not negative.

`RemoteCall` says what an application may rely on, whatever socket, port and decoder a
call uses: the robot does what a call asks at most once; what a call was refused for (a
parameter, a file, a socket, a send) it does neither then nor later; and a call that
has asked may return a code that says nothing about it, `SOCKET_TIMEOUT` above all,
while what it asked is still to be done. It sees a call as new, begun, asked, done or
over. `Fate` computes that from the request under way and from what the robot has
performed, so a request that is sent a second time has a fate that no step of
`RemoteCall` explains. The network loses and delays datagrams; a network that duplicates
them would break the promise, as no request carries a number.

### RobotMsg, SwarmMsg, MotionFile, RobotAlgorithms

A JSON object is a function from the names of its fields to their values, `Joined` adds
fields to one and `Has` looks for one of the type the code asks for. Most decoders treat a field
of another type like a missing one. `Decode_RobotStatus` does not: a play status or a volume of
another type is a success that fills in nothing (`Present`). A decoder yields its code
and what it fills in. The paths for a NULL buffer and for memory that runs out are left
out: the API passes arrays, and nothing else would differ.

An angle string is the sequence of its characters' codes, a frame a function from
0..32 to bytes, a file the sequence of its pieces. The loops that add up a checksum
(701) and look for the nearest distance (`RobotMsg.c:1151`) are the recursive functions
`Total` and `Nearest`. The tables of the motions are those of 1295-1627, one entry for
each type and direction; the space in the names of two types is written `_`.

`RobotAlgorithms` tries one input after another, and each invariant holds the result
against a definition that does not go by the code: what is encoded is decoded again,
a checksum is the sum of the bytes as its reader has them (the code adds up signed
characters, before the last byte is in its place), the nearest distance is a minimum.
Some things it does not claim, since the code does otherwise:

- Repeat 0, which the header calls infinite, gives a motion file without frames.
- The sleep of a started action is `iTime/1000` whole seconds for each repetition, so
  the rest of each second is lost (1879).
- The decoders of `action_end_ack` and `query_xyz_ack` ask for the type of another
  message (3233, 3922 of `RobotMsg.c`), and so refuse their own; `SwarmDecoded` leaves
  them out.
- Voltage, charging state and percent of the battery go to one value, and only percent makes
  the call succeed. The header speaks of a gas sensor, for which no decoder has a branch.

### RobotMsgQueue

A thread is in at most one call (`pc`, `job`). Its steps: its semaphore, the
mutex, the copy, the update of the indices with the unlock, the post of the other
semaphore. Offsets count slots, since they are always multiples of `uiMsgSize`. A
message is `MsgSize` cells, so a sender of fewer leaves a rest of an old message
in the slot, as `memcpy` does. A `sem_wait` that a signal interrupts starts over
(99, 133 of `RobotMsgQueue.c`) and is no step. Create is the initial state.
`Recreate` is Delete and the Create of the next queue; it needs that no thread is
inside, as the code frees the queue without looking, and what a thread then does
with it is undefined.

`BoundedFifo` says what a caller may rely on: a call takes effect at one instant,
once, and only if it succeeds; messages leave in the order in which they took
effect. Two clauses are weaker than one might hope, since the code is: the cells
that a short message does not fill are unspecified, and a call that does not want
to wait may be refused when another call is in progress, for a message that is
entered and not yet posted, or a slot that is left and not yet posted. The latter
goes further than it seems: a receiver that does not wait is sometimes refused
although a message whose Send has *returned* is in the queue, because another
receiver has taken its token for an older one whose sender has not posted yet.

## Checks

| run | instance | shows |
|---|---|---|
| `session_faults` | 2 robots, 2 heartbeat threads, loss and late answers | `HeartbeatAlive`, `HeartbeatToSession`, `SuccessMeansAgreement`, types |
| `session_life` | 1 robot and the local address; 3 descriptors, loss; sockets, their timeouts, sends and threads fail | the refinement of `RobotLink`, `SocketsAccounted` |
| `session_search` | 2 robots, Discovery for one of them, reports, 3 descriptors, loss, sockets fail, no threads | the refinement of `RobotLink`, `ConnectedInfoMatches`, `SocketsAccounted` |
| `session_live` | 1 robot that may refuse, 2 heartbeat threads, loss and late answers, fair | `HeartbeatsDrain`, `HeartbeatsFlow`, `CallsReturn` |
| `calls` | 2 threads, 2 calls, the first of any function; 2 ports, 2 files; sockets, files and datagrams fail | the refinement of `RemoteCall`, `SocketsAccounted`, `RequestNamesItsSocket`, `OwnAnswer`, `VerdictHonest`, `RetrySafe`, `MotionFileComplete`, `CallsReturn`, types |
| `algorithms` | every angle of every servo, every motion at every speed, lists of 3 readings, swarm messages | `ServoRoundTrip`, `FileWellFormed`, `FramePlayable`, `FileTime`, `NearestDistance`, `ColoursRecompose`, `SwarmRoundTrip`, `SwarmKindsApart` |
| `queue_fifo` | 3 threads, 2 slots of 2 cells, every way of waiting | the refinement of `BoundedFifo`, `TokensAccounted`, `NoOverrun`, types |
| `queue_live` | 2 senders and 2 receivers that wait, 2 slots, fair | no deadlock, `NoLostWakeup`, `PassedCallsReturn` |

Four more runs end in a counterexample, where the code does not do what a line
of the repository says:

- `discovery_timeout`: the branch "Socket receiving timeout" that returns success
  (2375-2379) cannot be reached by a timeout; -1 differs from the length of the
  empty buffer, and 2373 returns an error first.
- `discovery_found`: Discovery succeeds without having found the robot it was
  given the name of, and the examples then connect to an empty address.
- `heartbeat_local`: "Heartbeat message will not be sent!" (453) is behind a
  test of a buffer that was just emptied.
- `heartbeat_missing`: `pthread_create` reports errors with positive numbers and
  2488 looks for negative ones.

Bounds. `Beats` bounds the heartbeat threads alive at once: two are enough for
the overlap of an old one with a new one, three would only add a second old one.
`Fds` are the two the session has, with a third where Discovery needs one or a socket
is lost: so that running out happens too. `RxBuf` is what a socket's buffer holds; two hold
a leftover and an answer, and one is enough for liveness. `MaxUnderWay` lets the
application call only while few kinds of datagrams are under way, and no more
than two copies of one; a stale answer needs one from an earlier call. Two robots
make an answer of the wrong one. `session_search` has no heartbeat threads (every
`pthread_create` fails): they change nothing that its properties are about, and the
other instances have them. Robots and heartbeat threads are symmetric in
`session_faults`, where no call names one and no temporal property is checked. The
queue's instance has a sender of messages shorter and one of messages longer than
a slot, a ring of two slots so that indices wrap and the ring fills and empties,
and a peek behind the first message; which of the two senders is ahead at each of
the points above is open. Peek, GetNumMsgs and LimitGet are called by the same thread
as one of the senders, which changes none of their interleavings with the other two
threads.

In `calls` two calls are enough for what threads can do to each other (sockets, ports
and files are taken by one and seen by one other), one after another or at once. With
two ports a second call may draw the port of the first, used or given back, and with
two files the same file. The first call of the one thread is any function of the API, with
parameters that are refused and texts that hold `port` among them; as its second call
the other thread may ask for a motion; every other call sets the volume. In
`algorithms` all angles from -1 to 181 are tried for each servo; repeat counts are 0, 1,
2, 3 and 44, the last with more than 255 frames, where the second byte of the numbers
matters; distances are those around 0 and 65535, colours the edges of each byte and of
an int.

Fairness. For the session, strong fairness for the application thread inside a call
and for every heartbeat thread (the scheduler runs them, and the mutex is held only
over a `sendto`, with 5 s between), weak fairness for the network (a datagram is
delivered or lost, a robot answers); nothing obliges the application to call. For
requests, weak fairness for a thread inside a call: its receive ends at the latest
with its timeout, which `_udpServerInit` sets or the call fails; nothing obliges the
application to call or the robot to answer. For the queue, weak fairness for a thread
that can go on, strong fairness for one that wants the mutex (its critical sections
are short); none for new calls, and no more than weak for who waits on a semaphore,
so a particular waiter may lose it to others for ever, which `NoLostWakeup` allows.

Mutants. Each property has a changed definition, marked `mutant` beside the
original, with which it fails: a lost post, a missing lock, a check only at the
start, a second heartbeat not started while the first has not ended, a socket closed
twice or not, SO_BROADCAST left on, an address stored without the mutex, ports that are shared, a timeout reported as a failed send, a request sent
again after its timeout, a file played
before it is closed, digits in the wrong case, a colour that is shifted too little, a type copied from another message.

## Proofs

`RobotMsgQueueProofs`, for every finite set of threads, every capacity, message
size and every set of calls (`QueueAssumption`):

- `TypeCorrect`: `Spec => []TypeOK`. `TypeOK` is not inductive: that what a sender
  copies is a message needs that its call is a Send, so the invariant is `Typed`,
  which adds that a call under way has the fields of its operation (`JobFits`).
- `TokensAlways`: `Spec => []TokensAccounted`. `HeldMoves` says how the number of
  threads at a set of places changes when one of them moves (from the library's
  facts about adding an element to a finite set and removing one); `TokensMove` puts
  it for the four sets that hold tokens, and each step then is arithmetic.
- `NeverOverrun`: `Spec => []NoOverrun`, from the same invariant `IInv`: a thread
  that is past its semaphore is one of those `TokensAccounted` counts, so there is
  room, or a message, for it.

- `QueueIsFifo`: `Spec => ImplementsFifo`. A call takes effect when it changes or reads
  `uiMsgNum` under the mutex, so a thread is "called" up to that step and "done" after it
  (`Phase`); the abstract queue is the `num` slots from `uiHead` on (`messages`), and what a
  receiver has copied is its own from the update of `uiHead` on (`buffers`). The invariant
  is `RInv`: `IInv`; one thread at a time is between lock and unlock (`Exclusive`);
  `uiTail` is the slot behind the last message (`Ring`), which the code never computes from
  `uiHead`; what a sender has copied is still in its slot when it advances `uiTail`, and
  what a receiver has copied is the first message when it advances `uiHead` (`Copied`,
  which needs `Exclusive`). Then `PutSeen`, `TakeSeen`, `ReadSeen` and their like say of
  each step which abstract step it is; the others are `UnseenSteps`. `NoOverrun` is what
  makes a slot that is filled none of those with messages (`SlotsApart`), and
  `TokensAccounted` what makes a refusal one that `BoundedFifo` allows (`RefuseSeen`).
- `MutualExclusion`, from the same invariant.

`SdkSessionProofs`, for every set of robots, heartbeat threads, descriptors and calls,
every size of the receive buffer and every choice of faults (`SessionAssumption`),
with what a theorem excludes in its ASSUME:

- `SessionTyped`: `Spec => []TypeOK`. The invariant is `Typed`, which adds that a call
  under way has the fields its steps use (`CallFits`). `AppTyped`, `SocketsTyped`,
  `SharedTyped`, `ThreadsTyped` and `WorldTyped` are its parts, each kept by its own
  lemma. That the lowest free descriptor exists (`FreeFdFits`) needs that a set of
  natural numbers has a least element (`LeastNat`).
- `HeartbeatAlways`: `Spec => []HeartbeatAlive` if threads can be created. It is
  inductive with `Typed`: only Connect sets the status, and it starts a thread before it
  returns; a thread decides to end only when it has seen the status 0. The run
  `heartbeat_missing` shows that the assumption is needed.
- `SocketsAlways`: `Spec => SocketsAccounted`, for any calls and faults. The invariant is
  `Paired`: what the globals name is open, without a receiving socket there is no
  sending one, and Initialize starts without either, so nothing it overwrites is lost;
  `PairedNext` says what each step does to the two sets.
- `AgreementAlways`: `Spec => []SuccessMeansAgreement` without Discovery and without robots
  that acknowledge what they do not carry out. The property
  speaks of the idle application; the invariant, `Agreement`, of each place in a call: as
  long as no call failed, there is at most one datagram, the request of the call that
  receives or the answer to it (`Exchange`), and nothing anywhere else (`Quiet`); an
  answer to a Connect means that the robot is connected; the stored robot agrees, except
  for the one a Disconnect is asking. `Asking` and `Exchanging` say how a send and a step
  of the network keep the exchange. The first call that fails ends the claim, and an
  answer that comes after it is what `failed` excludes.

With Discovery the last is no theorem: a Discovery for a robot that answers first leaves the
other answers on the socket.

`SdkSessionPromises`, for the same instances, with Discovery and calls that fail:

- `IdentityAlways`: `Spec => []ConnectedInfoMatches` if no answer is late. A connect_ack does
  not say whose request it answers, and Connect takes the first that comes (2469). The
  invariant `Identity` says why that is the right one: outside a receive there is no connect
  and no connect_ack anywhere, and while Connect receives there is one at most, of
  the robot it asked (`OnlyOne`). Where an answer is late this is not so: TLC finds a
  Connect that takes the answer to an earlier one and stores the name of a robot
  it did not ask, so the assumption is needed.
- `HeartbeatsToSession`: `Spec => []HeartbeatToSession`, without any assumption. The invariant
  `Guarded` is of the mutex: who holds it is a thread about to send, and a robot's address
  is stored only when nobody does. An Initialize while an old thread sends makes the mutex new
  (3026); the property speaks of the holder, and so not of that thread.
- `SessionIsLink`: `Spec => ImplementsLink` if no answer is late, no robot acknowledges what
  it does not carry out and, where the application searches, no send fails: Discovery would then leave SO_BROADCAST on (2354), and a report
  with no peer be sent. The invariant is `Known`: `Identity`; `Standing` (which robot a call at
  each place is about, that a stored robot has the status 1 except in the middle of a
  Disconnect, that SO_BROADCAST is on only between the two steps of Discovery); and without
  Discovery `Orderly`, which is `Agreement` for calls that also fail: nothing is under way or
  unread except the request or the answer of the call that receives. What is in the
  buffer is counted by the size of a set of places, and `PlacesAppend` and `PlacesTail` say how a
  datagram that comes or is read changes it (the latter by a bijection that shifts the places); on
  these `WaitingChanges`, `FewerWhen`, `SettledWhen` and `CountsKept` say what a step does
  to `asked` and `done`. `BeginLinks`, `ConnectLinks`, `DisconnectLinks` and their like then say of each
  step which step of `RobotLink` it is; `LinkNext` puts them together.

`RobotRequestProofs`, for every set of threads, ports and motion files, every number of
calls and every choice of faults (`RequestAssumption`):

- `TypeCorrect` and `SocketsCounted` come from one invariant, `Typed`: the types, that a
  call under way has the request and fields its place needs (`Shaped`, `CallFits`), and
  the sockets. `CloseAccounted` says how a close changes the count, for the two steps that
  close. `VerdictRc`, `BegunAsks` and their neighbours go through all functions once and
  say what the steps need of them.
- `Numbering` (calls have numbers of their own, and nothing is under way for a number not
  yet given) and `Prepared` (nothing has been sent or performed for a call that is not
  yet past `Send`) are what the other theorems rest on.
- `RetryIsSafe`: the invariant `Retry` is about each return code and what the robot has of
  the call then.
- `RequestsNameTheirSockets`, for pointers of 4 bytes, rests on what `PortTextProofs` says of
  the texts. With nothing of the application ahead, the text that comes out is the field
  with the new port (`NewPort`): the first `port` is the field's name, the place behind it is
  the tab, and the loop drops the four old digits and stops at the comma. From that field
  one port can be read, the new one (`ReadsField`), as numbers of four digits that print alike
  are equal (`SameDigits`). Whatever stands ahead, and with pointers of 4 or 8 bytes, no third
  port can be read from what comes out (`EitherPort`). The invariant says of a call that
  waits that what is under way for it is that text, or nothing.
- `AnswersAreOwn`: the invariant `Routed` follows a request and its answer: one of them at
  most is under way, and it leads to the port where its call waits, or its call has given
  up. As those that wait have ports of their own, an answer at a port is that of its call
  or of one that gave up.
- `MotionFilesComplete`: the invariant `FilesKept` says of each place in a call what is true of
  the file it last created.

`RobotRequestPromises`, for the same instances:

- `VerdictsHonest`: `Spec => []VerdictHonest`. The invariant is `Told`: a request under way
  is not performed yet, and an answer under way that says "ok" is one to a call that is
  (`Said`); the same of an answer that was taken, and who took its own has no request
  under way that could still be performed (`Taken`); what is under way for a call is what it
  asked, and the answer to it one that its decoder accepts if it was performed (`Own`). It
  needs `Routed`, which says whose answer a call has taken. `StrictlyAsks`,
  `StrictVerdict` and `Replies` go through the functions that heed the answer: what they ask,
  what the robot makes of it, and that their decoder takes that, and nothing else, for
  a success.
- `CallsAreRemoteCalls`: `Spec => ImplementsRemoteCall`. From `Typed`, `Numbering`, `Prepared`
  and `Routed`: the fate of a call changes in the steps of its own thread (`FateOfOwn`,
  `FateOfOthers`), of the robot and of the network, and each change is one that
  `RemoteCall` has.

`RecursionFacts`: the provers cannot use the library's induction theorems, whose
parameter is an operator. About sets they can: every set of natural numbers that is not
empty has a least element (`LeastNat`, from the library's well-founded minimum), so one with
0 and all successors has every number (`EveryNat`), so a loop computes a function (`LoopExists`).
What a recursive function is then follows from its equations, and what it yields from
`EveryNat` for the set of the numbers for which the claim holds.

`RobotAlgorithmsProofs`, for every set of speeds, repeat counts, distances, readings
and numbers in messages, and any number of sensors (`AlgorithmsAssumption`). The invariant is `Tried`: what is on trial is an
input of its kind with what the code makes of it.

- `AnglesComeBack`: `Spec => []ServoRoundTrip`, on `AngleRoundTrip`: the two digits of an angle
  are read back as the angle.
- `FilesWellFormed`: `Spec => []FileWellFormed`, if two bytes can count the frames
  (6 for each repetition at most). `FramesNumbered` has the two bytes of sequence and
  total; `AlikeTotals` that sums of numbers alike modulo 256 are alike, so that signed
  characters (`CharAlike`) have the checksum of the bytes; `FrameFits` that each servo's
  digits are a byte, whatever row and mask. The code sets no bound to `iRepeat`; beyond the
  assumption the numbers wrap, and the property is false.
- `FilesTimed`: `Spec => []FileTime`, if the time fits the int it is computed in (7800 ms for
  each repetition at most), on `TrailerHoldsTime` (the four bytes of the time) and
  `TotalSame` (a sum of equal numbers is a product).
- `NearestAlways`: `Spec => []NearestDistance`, from what the loop keeps: after i readings
  its value is no more than the positive ones among them, and is one of them or the 0xffff
  it began with (`NearestLoop`, `NearestLeast`).
- `ColoursKeepEverything`: `Spec => []ColoursRecompose`.
- `SwarmSortsTold`, `SwarmNumbersKept`: `Spec => []SwarmKindsApart` and
  `Spec => []SwarmRoundTrip`, for any numbers in them.

Model-checked only: liveness, which under fairness is out of the provers' reach
(`HeartbeatsDrain`, `HeartbeatsFlow`, `CallsReturn` of session and requests, `NoLostWakeup`,
`PassedCallsReturn`), and `FramePlayable`: it reads the digits of the motion tables, and a
string is one value to the provers, of whose characters they know nothing. The tables are
finite and the run tries every row of every motion at every speed, so nothing of them is
left out.

## Not modelled

- Camera and vision samples (2577-3010): shell commands and a UNIX socket to programs
  that are not in the repository; no state is kept between two calls.
- Log publisher and log strings (`libs/log`, `libs/robotlogstr`): printing and tables.
- The JSON parser (`libs/json`) is vendored; what the codecs need of it is in `RobotMsg`.
- The binding is generated, the examples are callers.
- Delete of a queue with threads inside: undefined behaviour, and nothing in the
  repository calls the queue to say how it is meant.
- A negative repeat count, for which `while (iRepeat--)` runs through all ints.
- Memory that runs out, and NULL where the code checks for it and returns.

## Plan

1. done: `SdkSession`, `RobotMsgQueue` with `BoundedFifo`, and the theorems about them.
2. done: `RobotRequest` on top of `RobotMsg`, with its theorems.
3. done: `SwarmMsg`, `MotionFile` and their bench, with the lemmas that are arithmetic.
4. done: LimitGet of the queue, and Delete where it is defined.
5. done: mutual exclusion and the refinement of `BoundedFifo` for the queue; `ConnectedInfoMatches`;
   `VerdictHonest`; `RemoteCall` and its refinement; the folds of the algorithms as loops, with
   their theorems.
6. done: `RobotLink`, an abstract specification of the session (who is connected with whom, and
   what a call may report of it), and its refinement without late answers; heartbeats
   go to the robot of the session.
7. left, models: requests while the session connects and disconnects step by step, which the
   action `Link` of `RobotRequest` stands for now.
