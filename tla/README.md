# pyvisa-py in TLA+

pyvisa-py is a VISA library in Python: it opens sessions on instruments over
VXI-11, HiSLIP, raw sockets, USBTMC, serial lines, GPIB and Prologix adapters,
and gives PyVISA one call interface for all of them. This directory holds TLA+
models of the parts of it whose behaviour depends on time, threads or the other
end of a connection, TLC configurations that check them on small instances, and
proofs that TLAPS checks for every value of the constants.

Paths below are relative to `src/pyvisa_py/` unless they start with `src/`.

    tlc -workers 2 -config EventQueue_refines.cfg MCEventQueue   # a run
    tlapm SrqMonitorProofs.tla                                   # the proofs of a module

`PROJECT.json` lists the components, the runs, a mutation of the code's model
for every property (the property fails under it), the source lines of every
definition, the findings, the hazards and the theorems.

## 1. The system

### 1.1 Components

| Component | Source | State | Operations |
| --- | --- | --- | --- |
| Event queue | `events.py` 53-150 | a deque of contexts, one condition variable | `put`, `get`, `get_matching`, `discard_all` |
| Handler registry, event state | `events.py` 169-311, `sessions.py` 379-414 | handlers per event type; enabled mechanisms; stop flag; monitor thread | `install`, `uninstall`, `fire`, `enable`, `disable`, `any_enabled`, `_fire_event` |
| VXI-11 service-request monitor | `tcpip.py` 590-730, `protocols/vxi11.py`, `highlevel.py` 799-882 | lifecycle lock, published server and thread; the server's listening socket, job queue and worker | `enable_event`, `disable_event`, `close`, `_start_event_monitor`, `_stop_event_monitor`, the listener's `loop`, the worker |
| ONC RPC client (TCP) | `protocols/rpc.py`, `tcpip.py` 469-495 | `lastxid`, packer, unpacker, socket, call lock | `make_call`, `start_call`, `do_call`, `_sendrecord`, `_recvrecord` |
| Opening a TCPIP resource | `protocols/rpc.py` 416-499, 812-839, `tcpip.py` 479-618, 1391-1460, `protocols/hislip.py` 448-502, `common.py` | sockets on their way to being connected | `open`, `_connect`, `connect_timeout`, `get_port`, `create_link`, `initialize` |
| Discovery | `tcpip.py` 527-578, `protocols/rpc.py` 583-684 | one broadcast client for each network | `list_resources`, `send_call`, `recv_call` |
| ONC RPC over UDP, servers | `protocols/rpc.py` | xid, socket | retransmission, the example servers; no session uses them |
| VXI-11 device operations | `tcpip.py` 498-1116, `protocols/vxi11.py` | link, timeout and attributes; nothing else between calls | `read`, `write`; single remote calls (`clear`, `assert_trigger`, `read_stb`, `gpib_control_ren`, `lock`, `unlock`); `close` |
| HiSLIP synchronous channel | `protocols/hislip.py`, `tcpip.py` 107-466 | message ids, `_rmt`, payload that remains, `_receiving`, a cancel pipe | `send`, `receive`, `trigger`, `device_clear`, `terminate`, `complete_terminate` |
| HiSLIP asynchronous channel | `protocols/hislip.py` | a socket | set-up, status query, remote/local, maximum message size, device clear; locks, which no session calls |
| Raw socket, VICP | `tcpip.py` 1118-1727 | `_pending_buffer`, attributes | `read`, `write`, `clear`, `flush` |
| Prologix adapter | `prologix.py` | the table `boards`; lock, cached GPIB address and `plus_plus_read` of the interface | open and close of an interface; `read`, `write`, `read_stb`, `clear`, `assert_trigger`, `flush` of the instruments behind it |
| USB, USBTMC | `usb.py`, `protocols/usbtmc.py`, `usbutil.py`, `usbraw.py` | tags of transfers and of status queries; the timeout, in the session and in the interface | `write`, `read`, `read_stb`, abort of a transfer, trigger, remote/local, `_set_timeout`, `_get_timeout` |
| Serial | `serial.py`, `common.py` 114-173 | attributes, end modes | `read`, `write`, `flush`, `iter_bytes` |
| GPIB | `gpib.py` | descriptors of the driver and who owns them; the driver's timeout and termination character | `after_parsing`, `close`, `gpib_pass_control`, `read`, `_set_timeout`, `_get_timeout`, attributes; thin calls of linux-gpib or gpib-ctypes |
| Remote and local control | `highlevel.py` 368-396, `tcpip.py`, `gpib.py`, `protocols/usbtmc.py` | in the instrument | `gpib_control_ren` |
| Library and sessions | `highlevel.py`, `sessions.py` | `sessions`: handle to session; attributes | `open`, `close`, `_register`, `open_default_resource_manager`, dispatch, `_read` |
| XDR, helpers, attributes | `protocols/xdrlib.py`, `common.py`, `attributes.py` | none | conversions, tables |

### 1.2 Interactions

- PyVISA calls `PyVisaLibrary` from any thread. It looks the session up by its
  handle and calls it; nothing serialises the calls of two threads on one
  session except what the session does itself.
- A VXI-11 session calls its instrument through one RPC client. Event handlers
  run in the worker thread of the service-request monitor and call the same
  session, so `Vxi11CoreClient.make_call` takes a lock.
- The monitor is the reverse direction: the *instrument* connects to a small
  RPC server that `_start_event_monitor` builds. Its listener accepts the
  connection and queues a job for each `DEVICE_INTR_SRQ`; its worker calls
  `_fire_event`, which puts into the event queue and calls the handlers.
- Instrument sessions behind a Prologix adapter find the interface session in
  the class-level table `boards` and share its connection, its lock and its
  cached address.
- `Session._read` (sessions.py) is the read loop of USB and serial sessions;
  socket, VXI-11 and HiSLIP sessions have loops of their own.
- GPIB sessions of one process share the driver's table of descriptors, small
  numbers that it uses again as soon as one is closed.
- `terminate()` of a HiSLIP session is called from another thread while a read
  is blocked; a cancel pipe wakes the read up.

### 1.3 What is hard, and what makes each part correct

- *Event queue*: a sleeping thread must not miss a context it waits for; every
  context is delivered once, oldest first; a deadline that races a `put` must
  not lose the context.
- *Handlers*: `fire` goes through a snapshot without the lock; a handler that
  stays installed is called once whatever else changes meanwhile.
- *Monitor*: starts and stops of several threads interleave, one stop flag
  serves all the listeners of a session, the instrument's calls fail half way.
  A server that is published must be the one the instrument talks to; old
  threads must end; enabled mechanisms and a running monitor go together.
- *RPC client*: replies come late, in pieces or never, while threads share the
  connection. A call returns the reply to itself, or an error; and it ends.
- *HiSLIP*: message ids wrap around, stale responses must be discarded, reads
  are partial, a read may be terminated by another thread at any point. Reads
  return the response to the last write; an abort leaves a clean channel.
- *Prologix*: a write, a read and a poll are several lines on a shared
  connection. They must reach and come from the right instrument.
- *USBTMC*: messages are cut into transfers and packets, with tags, aborts and
  late notifications. Responses stay whole; a status byte belongs to its call.
- *VXI-11 device*: one timeout is divided among many remote calls. A read ends
  in time, says why it ended, and loses nothing.
- *Opening*: up to two connections in a row, each of which may be refused or
  never answered, with an exchange after it. An open session has them all;
  anything else is a VISA error, in time.
- *Discovery*: replies of many hosts come in any order, late, twice or not at
  all. Who answered in time is listed, and nobody else.
- *Raw socket*: one thread reads while another clears or flushes the buffer that
  both share, and the instrument may close the connection. What is read is the
  stream, cut where the attributes say.
- *Serial, GPIB*: the end of a message is one of several marks in the data or
  beside it, chosen by attributes that change between reads, and a timeout may
  strike between two bytes.
- *GPIB descriptors*: numbers that are used again, closed in three steps by any
  thread. A session's descriptor stays its own until it is closed.
- *Remote and local*: one call is several requests, any of which may fail. What
  is reported as done is done.
- *Library*: handles are random numbers in a table shared by all threads; a
  handle names its session, a board its interface.

## 2. The modules

Every module begins with a comment that says what its state stands for. The
shape is the same throughout: variables named after the attributes of the
objects, `pc`-like variables for where a thread is, one action per step of the
code between two points where another actor can act, external devices as
actions that may happen at any time. A definition whose comment begins with "A
plausible slip" is a mutated form of the definition that follows it and is used
by no behaviour.

| Module | Models | Reading guide |
| --- | --- | --- |
| `EventMailbox` | what the event queue promises: contexts are posted, a call gets the oldest one it wants, or nothing if there is none and it need not wait | abstract specification, no locks, no clock |
| `EventQueue` | `EventQueue` of `events.py` | a `with self._cond` block is one action (`Put`, `Take`, `ReturnNone`, `Wait`, `DiscardAll`); `Wait` releases the lock and joins the wait set at once; `Deadline` is the passing of time |
| `SrqMonitor` | the monitor of a VXI-11 session, the event state, `_fire_event` | user threads go from `EnableEvent` through `StartNeeded`, `BuildServer`, `CreateIntrChan`, `EnableSrq` to `Publish` or `Rollback`, and from `DisableEvent` or `Close` through `StopGuard`, `StopLock`, `DisableSrq`, `TakeServer`, `StopWorker`, `CloseSock` to `DestroyLink`; `LoopHead`, `Accept`, `Receive`, `CheckStop` are the listener, `WorkerGet` and `WorkerFire` the worker, `DeviceConnect` and `DeviceSrq` the instrument |
| `RemoteCall` | what `make_call` promises: one call at a time, sent at most once and carried out in order and at most once; it returns what came of itself or gives up, and what comes of a call given up is lost | abstract specification, no xids, no records; `RpcClient` implements it |
| `RpcClient` | one TCP connection and the calls on it | `StartCall`, `SendRecord`, then `ReadMarker`, `ReadFront`, `ReadBody`, one action per `recv` of `_recvrecord`; the instrument is `Answer`, `Arrive`, `Ignore` |
| `HislipClient` | both channels of a HiSLIP session | one action per header or payload that `receive_exact_into` completes, fails or is interrupted in; `complete_terminate` (`Drain` to `TerminateEnd`) and `device_clear` (`Clear` to `ClearEnd`) step by step; `TerminateTest` and `TerminateCancel` are the other thread; `StatusQuery` and `OtherTransaction` are whole exchanges on the asynchronous channel, where `late` holds what comes before the answer: answers that earlier ones did not wait for, acknowledgements of clears that were given up (`NoAcknowledgement`, then `CarryOut`), messages nobody asked for (`Unsolicited`) |
| `SocketSession` | the receiving half of `TCPIPSocketSession` | operators, no behaviour of its own; its `pending` and `arrived` are the session's buffer and the socket's |
| `PrologixAdapter` | instruments behind one adapter, over `SocketSession` | each instrument has a thread; a call is `Lock`, `Address`, then `Write`, `WriteOob` or `Poll`, `PlusPlusRead` if the flag asks for it, `Receive` and `Return`; `Flush` takes no lock; `Execute` is the adapter |
| `UsbTmc` | a USBTMC session with `Session._read` above it | `SendChunk` for the transfers of a write; `Request`, `TakeTransfer`, `TakeMore` for those of a read; `ReadTimeout`, `AbortDone`, `AbortFailed`; `ReadStb`, `Status`; `AssertTrigger`; `SetTimeout` and `GetTimeout` are what the timeout attribute does; `Transfer` and `Notify` are the device |
| `Vxi11Device` | a VXI-11 session: `read`, `write`, the operations of one remote call (`BeginOther`), the timeout, `close` | a remote call is a request, a wait in which `Tick` moves time, and a reply, an error or a call given up (which `RpcClient` justifies) |
| `Library` | session table, boards, handlers | `_register` in two steps (`Draw`, `Store`); an interface enters `boards` in `OpenIntfc` before `Setup` does the rest; `Fire`, `CallHandler`, `FireEnds` over a snapshot |
| `MessageRead` | what a read of a stream promises: it returns what comes next, up to the first unit that ends a message and never beyond it or `count`; a part of the input may be thrown away; after an error it returns nothing, or what it has | abstract specification; `RawSocket`, `SerialSession` and `GpibSession` implement it |
| `RawSocket` | a `TCPIPSocketSession` with two threads, over `SocketSession` | one thread reads (`Select`, `SocketReceives`, `ReadEnds` are the rounds of the loop, with the point between `select` and `recv`); the other clears (`ClearSelect`, `ClearRecv`, `ClearDone`), flushes or writes (`SendBlock`, `ShortSend`); the instrument sends and may close the connection |
| `TcpOpen` | `open()` of VXI-11, HiSLIP and raw sockets | `Legs` are the connections in a row; each is `Connect`, `Waited` for every select that ends with nothing, then `Connected`, `Refused` or given up, and what is asked over it (`Answered`, `NotRegistered`, `Denied`, `Silent`); times are milliseconds |
| `Discovery` | `TCPIPInstrVxi11.list_resources` with its broadcast clients | `SendPort` for each network, `Sleep`, then `RecvPort`, one `RecvCall` for each datagram and `NetworkRead`; `Reply` is a host, at any time |
| `SerialSession` | a serial session and a loopback at the port | `Write` is `iter_bytes` with the mark of the end mode (`Encoded`, `MarkLast`); `ReadByte` and `ReadNothing` are the rounds of `Session._read`; bytes are numbers, for the marks are bits of them |
| `GpibHandles` | descriptors of GPIB sessions | `_patch_Gpib`'s close in its steps (`Close`, `CloseDescriptor`, `Disown`, `CloseReturns`); `OpenInstr`, `OpenIntfc`, `PassControl` take descriptors; the driver gives the lowest free number |
| `GpibSession` | reads of a GPIB session and what its timeout and termination character become in the driver | `TIMETABLE` and `Rounded` in microseconds; `DriverByte`, `DriverFails` are `Session._read` over the driver |
| `RemoteLocal` | `gpib_control_ren` of VXI-11, HiSLIP, GPIB and USBTMC | each interface has its row of requests for each operation; `Request` makes the next, `RequestFails` ends the call; `Effect` is the remote/local state machine of IEEE 488 |
| `MCTcpClients`, `MCPortSession` | several components side by side: a variable `kind` says which one a behaviour is about, the others stay in an initial state | each component keeps its own properties; a run costs the sum of their state spaces, not the product |
| `SrqMonitorRaces` | `SrqMonitor` with a history of the steps that take the enabled mechanisms and the monitor apart | `raced` is set by `StartRaised` and by the three races `EnabledInStop`, `StoppedInStart` and `TookBack`, each a formula about one step |
| `MC*` | model values, symmetry, small shapes for TLC | |
| `*Proofs` | theorems and proofs about the module of that name; `TcpClientsProofs` is about `RpcClient`, `TcpOpen` and `Discovery`, `PortSessionProofs` about `SerialSession`, `GpibSession`, `GpibHandles` and `RemoteLocal`, `LibraryProofs` about `Library` and `EventQueue`, `SocketProofs` about `PrologixAdapter` and `RawSocket`, `HislipProofs` about `HislipClient` | section 5 |

`PrologixAdapter` composes with `SocketSession` by EXTENDS; `EventQueue`
implements `EventMailbox` by `INSTANCE ... WITH`. `Vxi11Device` takes from
`RpcClient` the interface of a remote call rather than its state: a call gets
its own reply or times out, and a late reply is skipped. That interface is
`RemoteCall`, which `RpcClient` implements. `RawSocket`,
`SerialSession` and `GpibSession` implement `MessageRead` by `INSTANCE ... WITH`,
with `input` mapped to what is buffered and under way.

Data is abstract. A byte string is a sequence of a few units, and a unit
says what the properties ask for: which write or call it answers, its position,
whether it is the termination character. `tag`, `no` and other numbers that the
program does not have are ghost values that say which call something belongs
to; `upset`, `clean`, `misused`, `overlap`, `raced`, `twice`, `returned`, `accepted`,
`taken`, `took`, `registered`, `due` and `spoilt` are history variables that no guard of the code's steps reads.

## 3. The runs

`EventQueue_refines` checks deadlock. Every other configuration says
`CHECK_DEADLOCK FALSE`, because there the system really stops: when the
application has made the calls its bound allows, the threads are idle and the
other end has nothing left to send, nothing happens any more. That a *call*
does not hang is what the properties `CallsEnd`, `OldThreadsEnd`,
`RequestsAreDispatched` and the liveness part of `MailboxSpec` are for. Those
`CallsEnd` whose calls loop over what others send (`RpcClient`, `UsbTmc`,
`HislipClient`, `Vxi11Device`, and `OpenEnds` of `TcpOpen`) have a second part, an
action property that says why: `CallsAdvance`, each step during a call leaves
less of a named measure. It needs no fairness, and section 5 proves it.

| Run | Question | What it shows |
| --- | --- | --- |
| `EventQueue_refines` | Two threads call `get`/`get_matching` in every mode, three puts of two event types, discards, deadlines | no lost wakeup (`NoLostWakeup`, a part of `Inv`); the queue implements `EventMailbox` with its liveness (`MailboxSpec`) |
| `SrqMonitor_threads` | Two threads enable, disable and close, three calls, instrument calls that fail by status or by exception, one service request | the inductive invariant `Inv` with `PublishedServerWorks`; unless two calls overlapped or a call raised, a monitor runs between calls exactly when an event type is enabled (`MatchesUnlessRaced`); `RequestsAreDispatched`, `OldThreadsEnd` |
| `RpcClient_replies` | Four clients side by side. RPC: two threads, four calls, replies late, in pieces, or never, timeouts anywhere. Open: every resource, five timeouts, hosts that accept, refuse, deny or keep silent. Discovery: two networks, three hosts, every kind of reply. Raw socket: two reads of one and three units, a write, clear or flush meanwhile, three units from the instrument, which may close | the connection implements `RemoteCall` (`ImplementsRemoteCall`); each call gets its own reply or an error (`OwnReply`), and `do_call` never sees a reply "from the future" (`NoFuture`, both parts of `Inv`); `OpenIsTrue`, `ConnectInTime`; `ListsWhoAnswered`; reads implement `MessageRead` and writes report what was taken (`SocketStreams`); `ClientCallsEnd` |
| `RpcClient_overread` | The same with no timeout inside a record | **violated**: `StreamAligned` (section 6) |
| `HislipClient_session` | Four calls out of two writes, three reads, a terminate and a clear, beside status queries and other exchanges of the asynchronous channel; one of these or a clear may find no answer in time, or a message nobody asked for instead; one- and two-message responses in pieces; a server that acknowledges in time, late or never | reads return the response to the last write (`DataIsResponse`, `OwnResponseKept`), no unexpected message (`NotBroken`), a clean abort (`CleanAbort`), `CallsEnd` |
| `HislipClient_midmessage` | A long response in pieces and a terminate | **violated**: `TerminatedReadAborts` (section 6) |
| `PrologixAdapter_shared` | Two instruments, four calls in all, responses of two lines that arrive in chunks of three units | commands reach, and responses come from, the instrument they belong to (`ReachesItsInstrument`, `ReadsOwnResponse`, `StatusIsStatus`) |
| `UsbTmc_session` | Two writes, two reads, two status queries; messages of no and two packets, responses of three units, reads of two and four; no, a positive and the initial timeout | `ResponseConserved`, `MessageDelivered`, `StatusIsOwn`, `CallsEnd` |
| `Vxi11Device_session` | Three calls, close among them; `VI_TMO_IMMEDIATE`, a finite and the infinite timeout; a device that refuses, is slow, is locked by another client or dead | `ResponseKept`, `StatusExplains`, `ReadInTime`, `WriteReportsTruly`, a session that is closed leaves no lock (`ClosedReleases`), `CallsEnd` |
| `PortSession_sideBySide` | Four components side by side. Serial: two writes over a loopback, two reads, an attribute change, a flush, every combination of end modes. GPIB reads: two bytes, with and without END, two settings. Descriptors: two threads, three sessions. `gpib_control_ren`: four calls, any request may fail, a user at the local key | `MessagesEnd`; serial and GPIB reads implement `MessageRead` (`PortReadsInOrder`) and end (`PortCallsEnd`); `TimeoutServes`; `DescriptorsOwned`; `SuccessAchieves` |
| `SerialSession_lastbit` | A serial session with `last_bit` at both ends | **violated**: `LastBitEndsMessage` (section 6) |
| `Library_shared` | Two threads, three sessions, three handles, one board, one function with two user handles, one event | `HandleNamesItsSession`, `BoardFinds`, `StayingHandlersCalled` |

### Bounds, and why they are enough

- *Threads*: two. Every hazard in `PROJECT.json` needs two actors of a kind at
  most; the proofs of section 5 hold for any number.
- *Calls* (`MaxPuts`, `MaxCalls`, `MaxWrites`, `MaxReads`, `MaxTerms`,
  `MaxStbs`, `MaxLate`, `MaxSrqs`, `MaxSessions`, `MaxInstalls`, `MaxEvents`): two or more
  of what a property relates, so that something stale can meet something new.
  For example, an old monitor, a stop and a new monitor need three calls; a
  reply that comes too late and the call it confuses need two, a third and a
  fourth make the confusion last.
- *Sizes*: a message or a response is of none to four units, a buffer or a
  packet of two to four
  (`MaxRecv`, `PacketSize`, `LineLength`, `Counts`, `ReadCounts`, `SockCounts`, `Shapes`): the
  relevant cases are less than, exactly and more than one buffer, and a
  termination character in the middle and at the end of what is received.
- *Wrap-around*: `IdSpace` = 16 with `FirstId` = 12 wraps HiSLIP ids on the third
  packet, as 0xFFFF_FF00 does on the 129th, so that a response to the second
  write may carry id 0 while one with id 14 is still under way; tags of USBTMC run from 1 to 2
  instead of 255, status tags from 2 to 4 instead of 127. Ids do not come round
  to a message still under way, an assumption in the modules
  (`ConstantsAssumption`) which 2^32 ids and 126 tags justify.
- *Time*: `TcpOpen` counts the milliseconds of its waits, with `open_timeout`
  0, 1, 2500, 5000 and 60000 so that both limits of both waits are reached.
  `Vxi11Device` counts time in units in which the 10 ms a
  `device_read` asks for is two, so that a chunk may use up less, all or more
  of what is left. Elsewhere a timeout is an action that may always strike
  while nothing has come.
- *Symmetry* is used where nothing but safety is checked and threads or
  handles are interchangeable: `Library_shared`, `PrologixAdapter_shared`
  (whose only temporal formula is a property of single steps).

### Fairness

Fairness is weak, and only on what the client's machine schedules: a thread
that can take its next step takes it; a `select`, a condition variable or a
socket with a timeout returns (the code gives one to every wait on these
paths); data that was sent arrives (`Arrive` in `HislipClient`, because TCP
delivers and a response that stays under way for ever is covered by a server
that never answers, nor acknowledges a clear); an instrument to which an interrupt channel was opened
connects (`DeviceConnect`, without which no request can be dispatched). A host
need not accept a connection, nor answer over it: `TcpOpen` has fairness of the
waits that end without it. In `RawSocket` a write waits for the instrument
without limit and has none. No
fairness is assumed of what an instrument answers: servers and devices may be
silent for ever. `Vxi11Device!CallsEnd` speaks of finite timeouts only, for
with `VI_TMO_INFINITE` a call waits as long as the device likes, and
`UsbTmc!CallsEnd` of positive ones, for without one no transfer times out.
`SerialSession`, `GpibSession` and `RawSocket` speak of reads with a time limit.
`PrologixAdapter`, `Library`, `Discovery`, `GpibHandles` and `RemoteLocal` have no
liveness property and no fairness.
In `EventQueue`, weak fairness of `Scan` says that a thread that wants the
condition's lock gets it; no block holds the lock longer than one scan.

### What "until upset" means

Three clients are known by their code to lose track of the channel after
certain events. The models let these events happen and go on, and mark them in
a history variable; the data properties hold as long as it is not set, and the
termination properties hold in any case.

- `HislipClient!upset`: a timeout or a terminate in the middle of a message, a
  write while a response is partly read, a clear with something unread, a
  cancel byte that meets no read; a clear, or the clear of a terminated read,
  that finds no acknowledgement in time on either channel, or that finds a late
  or unsolicited message on the asynchronous one. `CleanAbort` and
  `OwnResponseKept` hold whether it is set or not, but for one event, which has
  a history variable of its own: `unacknowledged`, a clear that was given up.
  After it the acknowledgement of the earlier clear is taken for that of a
  later one (`protocols/hislip.py` 677, 745), and the server may clear, or send
  Interrupted, when nobody waits for it any more. An exchange that finds a
  message of another type on the asynchronous channel (an answer that is late,
  AsyncServiceRequest, AsyncInterrupted) ends in `RuntimeError`; that is the
  outcome "unexpected", which `NotBroken` allows only when such a message was
  there. A session that raised `RuntimeError` is not used again in the model.
- `UsbTmc!upset`: a transfer that fails after a part of the message has gone or
  come.
- `Vxi11Device!upset`: a remote call that is given up, since the device may
  still execute it; a message left unfinished. A `clear` resets it.
- `Library!misused`: a board with two interfaces, an interface whose set-up
  raised or that is closed twice; `Library!overlap`: two threads drew the same
  random handle between test and store.
- `SrqMonitorRaces!raced`: an instrument call raised out of a start, a call to
  enable came between the test and the end of a stop, a stop found no monitor
  while another thread was starting one, or a failed start took back what
  another thread's start relied on.
- `GpibHandles!twice`: two threads close the same session at the same time.
- `Discovery!spoilt`: networks with a reply that made the client give up what it
  had read from them.
- `PrologixAdapter!clean`: the call was sent while nothing was under way that
  another call did not wait for.

## 4. What the models leave out on purpose

- `SrqMonitor`: the handle and message bytes of a service request; more than
  one interrupt connection to one server at a time. The pair
  (`monitor_thread`, `_srq_server`) is one variable because the code always
  writes both under the lifecycle lock. A thread that joins the listener is not
  blocked in the model beyond what the code's bounded join is.
- `RpcClient`: authentication and RPC error statuses end a call like any other
  error; a record is one fragment, as every instrument reply handled here is,
  in three pieces: marker, first half, second half.
- `HislipClient`: priority and control codes; a message is a header unit and
  payload units. At most `MaxLate` messages are late on the asynchronous channel,
  and a run makes at most `MaxCalls` calls, of whatever kind. An exchange on the asynchronous channel is one step, for the
  thread that makes it does nothing else meanwhile and `terminate` does not
  touch that channel; the lock functions, which no session calls, are left out.
- `PrologixAdapter`: opening and closing (in `Library`), the serial variant
  of the adapter, a `write` of the raw socket that fails.
- `TcpOpen`: a socket that fails in another way than being refused or silent;
  the bytes of the exchanges; VICP.
- `Discovery`: the list of networks, sorting; a host replies once in the run.
- `RawSocket`: a connection that is reset, which raises out of every call.
- `SerialSession`: parity, flow control and modem lines, attributes that are
  handed to pyserial; `replace_char`. The port is a loopback that drops the bits
  above those of the data.
- `GpibHandles`, `GpibSession`: `write`, `clear`, `assert_trigger`, command bytes,
  line states and attribute calls that go to the driver and keep no state here.
- `RemoteLocal`: operations that an interface refuses before any request.
- `UsbTmc`: the raw USB session. The timeout is set before the first
  call only, and `GetTimeout` may come at any time.
- `Vxi11Device`: the keepalive attribute and `device_docmd`, which no session
  calls.
- `Library`: attributes and the one-line dispatch of the other calls.

## 5. What is proved

Forty-five theorems, in eight modules, for every value of the constants: any set
of threads, any event types, messages or timeouts, any sizes and bounds, any
combination of failures. What is assumed of the constants is one named
assumption of each module, which TLC evaluates: `ConstantsAssumption`,
`QueueAssumption` of `EventQueue`, `HandleBounds` of `GpibHandles` (its bounds are
naturals), `OpenTimeoutsAssumption` of `TcpOpen` (so are the values of
`open_timeout`), `DriverAssumption` of `GpibSession` (so are timeouts in
milliseconds, and infinity is none of them) and `SocketAssumption` of `RawSocket`
(chunks and the counts of reads are positive); `RemoteLocal` and `Discovery` need
none. They say that bounds, sizes and times are naturals, that the values
for "nobody" and "none" are none of the others, that tags or ids are not
used up within a run, and that a serial port has 5 to 8 data bits, which is what
pyserial lets a port be set to and `iter_bytes` asks for (`common.py` 124). Each proof names its inductive invariant in the
definitions at its head; TLC checked each of them, as an invariant of a small
instance, before it was proved.

- `LibraryProofs`, about `EventQueue`
  - `Queue_safety`: `QSpec => []Inv`. `Inv` is `TypeOK`, `NoLostWakeup` and `Numbered`
    (contexts have distinct numbers up to the number of puts), and inductive as
    it stands. `PutInv` is where it counts: because `put` wakes *everybody*, no
    thread sleeps over the new context.
  - `LostWakeupFree`: `QSpec => []NoLostWakeup`.
  - `Refinement`: the queue starts as the mailbox does and each of its steps is a
    step of the mailbox or a stutter. Each step uses `Inv` for the fact that the
    context the scan takes is the oldest match. Only the safety part is proved;
    that a call which can be answered is answered is checked by TLC.
- `SrqMonitorProofs`
  - `Safety`: `Spec => []Inv`, with `Inv == TypeOK /\ Lifecycle`.
    `PublishedServerWorks` says nothing while a thread is between taking and
    releasing the lifecycle lock, so it cannot be inductive alone. `Lifecycle`
    adds: the lock belongs to exactly the thread in a locked step (`LockInv`);
    a start runs only while no server is published (`StartInv`) and on the
    newest server, whose worker nobody has stopped (`SetupInv`); a stop that has
    released the lock works on a server that is no longer published
    (`StopInv`); servers are numbered without gaps (`MadeInv`). The proof has
    one lemma for each kind of step.
  - `MonitorWorks`: `Spec => []PublishedServerWorks`.
  - `Matches_unless_raced`: `RacesSpec => []MatchesUnlessRaced`. The property
    speaks of moments at which no call is under way. In between, each of the two
    sides is accounted for (`Accounted`): each event mechanism that is enabled
    without a monitor is one that some thread is still enabling (`Owned`), a
    monitor with nothing enabled has a thread that is going to stop it
    (`Watched`), and a stop goes on only while nothing is enabled (`Unwanted`).
    The three races and the raised start are the steps that break this, which
    is how the list in `SrqMonitorRaces` is known to be complete.
- `TcpClientsProofs`, about `RpcClient`
  - `Safety`: `Spec => []Inv`. To show that a reply belongs to its call one needs
    that xids are handed out one per `make_call` and that everything on its way
    carries an xid handed out by now (`XidPerCall`), and that the only thread
    in a call is the one with the lock, its call being the latest (`LockInv`).
    Stale bytes in the middle of a record do not matter: the invariant holds
    with timeouts anywhere and for streams cut anywhere.
  - `OwnReplies`: `Spec => [](OwnReply /\ NoFuture)`.
  - `Implements_remote_call`: `Spec => ImplementsRemoteCall`, the refinement of
    `RemoteCall`. The calls of the instrument's queue and of the units in the
    network and in the buffer are what is waiting and what is on its way back;
    a unit that arrives is a stutter, what the reader skips, drops or loses with
    its buffer is a `Lose`, and the one record it returns is of the call under
    way because of `Inv`. Beyond that invariant one needs that the shared packer
    holds the latest call and that a thread in a call has no result yet (`Packed`).
  - `Calls_advance`: `Spec => CallsAdvance`. While a thread is in a call nobody
    else can send (`LockInv`), so every step ends the call, sends it, or leaves
    less to read (`ToRead`, a weight for each call to be answered and each unit
    under way or in the buffer): `do_call` cannot skip stale replies for ever.
- `TcpClientsProofs`, about `TcpOpen`
  - `Connect_in_time`: `OSpec => []ConnectInTime`. While a wait is under way,
    time is left, and there is room for it twice unless it is one of the
    shortest (`WaitInv`): halving keeps that, hence only a shortest wait can go
    beyond the limit.
  - `Open_advances`: `OSpec => OpenAdvances`. Every step goes to the next
    connection or to a later stage of this one, or the host has answered, or
    time below the limit is used up, because no wait is shorter than the minimum.
  - `Open_is_true`: `OSpec => []OpenIsTrue`. The connections before the one under
    way have been accepted and are kept where they should be, those after it
    have not begun (`PlaceInv`).
- `TcpClientsProofs`, about `Discovery`
  - `Lists_who_answered`: `DSpec => []ListsWhoAnswered`. A host that is due is
    found, or its port is on the way to the list: read, or in the inbox of the
    network whose turn it is, unless a reply there ended the reading
    (`SearchComplete`); and every port on that way comes from a host that gave
    one (`SearchSound`).
- `PortSessionProofs`
  - `Reads_in_order`: `Spec => ReadsInOrder`, the refinement of `MessageRead` by
    `SerialSession`. A byte that a read takes stays part of the input until the
    read returns, so most steps are stutters; the one that ends it returns the
    right part because what was taken before is shorter than `count` and has no
    unit that ends a message (`ReadInv`). The other steps only touch either end
    of the line.
  - `Messages_end`: `Spec => []MessagesEnd`. What `iter_bytes` makes of a message is
    each byte with its highest data bit cleared or set (`MarkTells`, from the
    powers of two that 5 to 8 data bits need), so the mark is on the last byte
    and no other (`EncodedIsMarked`); and a read that looks for the termination
    character would have ended at it. A character that does not fit the data
    bits is sent cut off, which the property excepts (section 6).
  - `Driver_reads_in_order`: `GSpec => DriverReadsInOrder`, the same refinement by
    `GpibSession`. What the driver has given to a read under way is shorter than
    `count` and ends no message, and the driver compares all eight bits
    (`DriverInv`); hence the byte that ends the read is the first that may. An
    error of the driver drops a part of the input, which `MessageRead` allows
    together with an empty answer.
  - `Timeout_serves`: `GSpec => []TimeoutServes`, for any milliseconds asked for.
    The entries of `TIMETABLE` that are too short by more than 0.1 % are a
    beginning of it (`Splits`), so the driver gets the first of the others or
    the last one (`RoundedServes`). A duration that `_get_timeout` reports is not
    too short for its own entry, while the entry below is; the entries under a
    millisecond, which it would report as 0, are never chosen but for the first
    (`ReportedStays`).
  - `HandlesInvariant`: `HSpec => []HInv`. `DescriptorsOwned` speaks of what the
    driver holds and of what the attributes say, and its weak spot is the step
    between closing a descriptor and disowning it. `HInv` therefore relates
    three things: what a session owns (`Owned`), what the driver holds for it,
    which is nothing else (`Held`), and where a thread in `close()` is
    (`Closing`); `Single` adds that an owned descriptor is held unless a thread
    has just closed it, as long as no two threads have been in one session.
    One lemma for each action.
  - `Descriptors_belong_to_open_sessions`: `HSpec => []DescriptorsOwned`.
  - `Success_is_achieved`: `RSpec => []SuccessAchieves`. A call fails after any of
    its requests and leaves the instrument in between, so the invariant says
    where a call under way is: all of its requests are left, or it is at the
    second of two and REN is on if the first has turned it on (`RInv`). The
    state in which a call begins does not matter.
- `LibraryProofs`, about `Library`
  - `Handles_name_their_sessions`: `Spec => []HandleNamesItsSession`. Between
    drawing a number and storing it, an opening thread has a session of its own
    without a handle (`Unnamed`), and the number is free and nobody else's unless
    two threads drew at once (`Drawn`).
  - `Board_finds`: `Spec => []BoardFinds`. An interface is in the table as soon as
    its set-up begins and leaves it only in its own close, unless a board is
    misused (`BoardsInUse`).
  - `Staying_handlers_called`: `Spec => []StayingHandlersCalled`. A handler that was
    installed when the snapshot was taken and has not been uninstalled since is
    still to be called or has been called (`Delivery`), because the snapshot is
    a copy that no call to install or uninstall touches (`Registry`).
- `Vxi11DeviceProofs`. All six rest on `Types` and on where requests and replies
  can be (`Queue`: a request that somebody waits for is the last one).
  - `Response_kept`: `Spec => []ResponseKept`. What is returned, collected, in the
    reply and still with the device makes up the response (`Kept`). Only calls
    that were given up can take from it, and those are harmless as long as they
    are not reads, writes or clears (`Harmless`).
  - `Status_explains`: `Spec => []StatusExplains`. What a read has collected so far
    has no termination character, or the read would have ended (`Collected`); a
    reply says truly why it ends where it does (`Brought`), for what was asked
    for is what the session wants (`Asked`).
  - `Read_in_time`: `Spec => []ReadInTime`. The time given to a remote call is what
    is left of the timeout, but no less than the minimum (`InTime`).
  - `Write_reports_truly`: `Spec => []WriteReportsTruly`. Between two calls, the
    device has taken what `offset` counts, and all of the message only with the
    last chunk (`Writing`: `Partial`, `Whole`).
  - `Closed_releases`: `Spec => []ClosedReleases`. The last request of a closed
    session is the one that destroys the link (`Closing`).
  - `Calls_advance`: `Spec => CallsAdvance`, upset or not. A read that is answered
    without an error gets something (`Gains`), and a write is told of no more
    than the block it has sent (`InBlock`), so each remote call leaves less of
    the count or of the message, or ends the loop; within a remote call, time
    goes by up to its limit.
- `SocketProofs`, about `PrologixAdapter`
  - `Reaches_its_instrument`: `Spec => ReachesItsInstrument`. The lock says whose
    address is cached (`Locking`); the commands under way are for one instrument
    until an `++addr` comes, the first for the one selected in the adapter, the
    last for the one cached in the session (`Chain`).
  - `Reads_own_response`: `Spec => []ReadsOwnResponse`. While the last call to set
    the address was a clean one of an instrument, everything in the socket is
    in order for it: nothing, its status byte, or the rest of its response, and
    the commands that are under way ask for no more than one of each
    (`OwnStream`, which splits into `NothingCame`, `StatusCame`, `ResponseCame`).
    What the instrument has to give answers its last write (`LastData`,
    `Answers`) and was not returned before (`NotReturned`).
  - `Status_is_status`: `Spec => []StatusIsStatus`, from the same invariant.
- `SocketProofs`, about `RawSocket`
  - `Socket_streams`: `SockSpec => SocketStreams`. A read works on the input, which
    is what is in `_pending_buffer` followed by what has arrived: a `recv` moves
    the border between the two and is a stutter, `clear` and `flush` of the other
    thread throw a part away, and a read under way still uses the mode it began
    with (`StreamInv`). For the writes, `offset` counts what the socket took until
    a chunk is taken in part (`WriteInv`); the last write can then only report
    less.
- `UsbTmcProofs`
  - `Status_is_own`: `Spec => []StatusIsOwn`. Tags are numbered by the calls, so a
    notification of an earlier call has another tag than the one waited for
    (`StatusInv`).
  - `Message_delivered`: `Spec => []MessageDelivered`. The device has received the
    message up to where `write` is (`Writing`).
  - `Response_conserved`: `Spec => []ResponseConserved`. What `read` holds at each of
    its steps (`Collecting`), and that at most one transfer is under way, which
    then answers the last request (`OneTransfer`): the rest is associativity of
    concatenation.
  - `Calls_advance`: `Spec => CallsAdvance`. A write sends a part of its message at
    each step; a step of a read takes something of what the device has to say
    (`Coming`) or goes on to a later stage (`Stage`), and the device adds nothing.

- `HislipProofs`. Until `upset` is set the client knows where it is in the stream
  of what has arrived and is under way (`Stream == buf \o net`), but what there
  may be in that stream changes with the place the client is in, and some of it
  belongs to older writes. The invariant has four layers, each proved with the
  ones before it.
  - `Channel_types`: `Spec => [](Base /\ Astray)`. Types; how much of a request and of a message
    has been read at each place of the loop (`Counting`); an acknowledgement or
    Interrupted is in the stream only while somebody clears, and is the last
    thing there as soon as it is awaited (`MarksLast`), until a clear goes
    unacknowledged; and only such a clear leaves something of it on the
    asynchronous channel (`Astray`).
  - `Aborts_clean`: `Spec => []CleanAbort`. Since the acknowledgement is the last
    thing in the stream, nothing is left when it has been taken. This needs no
    `~ upset`: even a client that lost its place in the stream is in step after
    a completed abort, though not one that gave up a clear
    (`~ unacknowledged`).
  - `Ids_fit`: `Spec => [](Base /\ Ids)`. Ids wrap around at `IdSpace` and begin
    again at `FirstId` after a clear, so they are compared by their distance
    from `FirstId` (`Offset`), which only grows until the next clear
    (`AfterOffset`). Everything still to be answered or read is older than the
    next id, and has the last id exactly if it belongs to the last write (`Known`).
  - `Own_response_kept`: `Spec => OwnResponseKept`, from `Base` and `Ids`, hence
    upset or not while no clear has been given up.
  - `Never_broken`: `Spec => []NotBroken`. What the client still expects of a
    message (`Left`) is what the stream begins with, and whole messages follow
    it, each a header and as many units as it says (`Framed`). Taking one unit
    and appending a whole response keep that (`FramedTail`, `FramedHead`,
    `FramedLonger`); a timeout keeps it unless it upsets the client. While
    a clear or an abort completes, the stream is empty or holds the
    acknowledgement alone. That this client has given up no clear is
    `Warned`. `Receptive` says that `terminate` finds `_receiving`
    set only during a `receive`.
  - `Data_is_response`: `Spec => []DataIsResponse`. The units of the response in the
    stream are numbered on from what has been consumed of it, with units of
    older responses anywhere between them (`InTurn`, `Own`); what the current
    message still brings belongs to the response if the client reads it and
    does not if it flushes it (`Ahead`); what has been collected is the next part
    (`Collected`). A new write makes everything in the stream foreign
    (`InTurnNothing`), and its answer comes when nothing of it is there yet.
  - `Calls_advance`: `Spec => CallsAdvance`, upset or not. Whatever the client finds
    in the channel it takes out of it (`Unread`), the server answers a query at
    most once (`queries`), and no step of a call leads to an earlier stage
    (`Stages`, `StagesAfter`); only the request of the other thread to terminate
    changes none of these, and it leaves channel and call alone.

TLC checks these on small instances in the passing runs.

Only model-checked:

- every liveness property: LS4 proves no fairness arguments and `ENABLED` is out
  of reach. Of the calls named in section 3 what remains for TLC is that some
  step is always enabled and that fairness takes it, for that no step goes
  round in circles is proved. Wholly with TLC are the ends of the reads of
  `SerialSession`, `GpibSession` and `RawSocket`, which wait for one unit at a
  time, `RequestsAreDispatched`, `OldThreadsEnd` and the liveness part of
  `MailboxSpec`. `CallsEnd`, `OpenEnds` and their conjunction `ClientCallsEnd` are
  therefore no theorems, although their action properties are.

No module declares a RECURSIVE operator. What a recursive definition computes on
all inputs could not be proved, since the induction theorems of the library
take an operator as parameter; the loops of the code are steps of a behaviour
here and need no such argument.

## 6. Where the code and its words disagree

Three runs end in a counterexample, each a behaviour of the code:

- **`SerialSession_lastbit`**: with `SerialTermination.last_bit` for both ends, `write`
  sets the highest of the *data* bits in the last byte (`common.py` 169), as
  `testsuite/test_common.py` 47 asks for; `read` looks for the bit above it
  (`serial.py` 131: `2**bytesize`), which is never set in what a port of that
  many bits receives. No read ends at the end of a message.
- **`RpcClient_overread`**: `_recvrecord` (`protocols/rpc.py` 357) always asks
  `recv` for the length of the whole fragment, also when a part is already in
  `buffer`. If a stale reply's body comes in two pieces, the second together
  with the next reply, it takes bytes of that reply and drops them with the
  stale one: what follows in the stream is not a record. Line 527 says "Discard
  and fetch another record". `OwnReply` and `CallsEnd` hold nevertheless; the call ends in
  an error.
- **`HislipClient_midmessage`**: `complete_terminate` (`protocols/hislip.py` 753)
  drains what has arrived. If `terminate` strikes while a message is arriving,
  the rest of it comes later and is read as a header; `RuntimeError` leaves
  `read()`. `tcpip.py` 395 says that the read returns `error_abort` and the
  session "is ready for further I/O".

Other behaviours met while modelling, in the models but in no run of their own:

- `disable_event` (`highlevel.py` 879) asks `any_enabled()` and then stops the
  monitor. Another thread may call `enable_event` in between; it finds the
  monitor running and returns success, and the monitor is then taken down. The
  event type is enabled and nothing serves it (`events.py` 4 calls these parts
  "thread-safe building blocks"). The rollback of a failed `enable_event` disables
  what another thread enabled meanwhile. `MatchesUnlessRaced` excepts both;
- `_connect` (`protocols/rpc.py` 424) closes the socket when the host name cannot be
  resolved and its `finally` then calls `setblocking` of it: `OSError` leaves
  `open()`, although `src/CHANGES` 20 speaks of a VISA error. `OpenIsTrue` excepts it;
- an answer to `get_port` that never comes (`socket.timeout`), an error of
  `create_link` and every failure of a raw socket leave `open()` as exceptions that
  are no VISA errors; a raw socket takes a refused connection for a connected one;
- a `write` of a raw socket that is taken in part only reports less than was
  taken; it waits for the instrument without limit; `clear` and a read without a
  timeout never end on a connection that the instrument has closed; when one
  thread reads and another clears, the one that comes second to `recv` waits for
  more, whatever its timeout;
- in discovery one RPC error hides all the hosts of its network, a datagram that
  cannot be unpacked raises out of `list_resources`, and later replies are lost;
- two threads that close one GPIB session at once may close the descriptor of a
  session opened meanwhile; `gpib_pass_control` opens a descriptor that only its
  own object remembers;
- `asrt_llo` of GPIB and USBTMC sends local lockout without asserting REN, and
  `asrt_address_llo` of GPIB returns success and does nothing (`SuccessAchieves`
  excepts them); any error of the driver ends a GPIB read as a timeout, and what
  was read is lost;
- a serial read takes its time limit once: the timeout attribute changed from
  infinite to finite during it makes the port poll without end. A termination
  character wider than the data bits is sent cut off and never recognised. Empty
  data with `last_bit` raises `IndexError`;
- two threads that disable at once both send the instrument calls of a stop (`stop_event_monitor`
  tests the server without the lock); an exception out of an
  instrument call in `enable_event` leaves the event type enabled and the server
  listening, without rollback;
- after a timeout inside a record the RPC stream stays misaligned until the
  connection is closed;
- a HiSLIP write or clear while a response is unread, and a timeout inside a
  message, leave the client out of step with the channel; a cancel byte sent
  as a read ends aborts the next read;
- a HiSLIP clear that finds no acknowledgement in time raises `socket.timeout`
  and leaves the counters as they were, while the server may clear later; the
  next clear takes the late acknowledgement for its own, and an abort may then
  leave something in the channel (`HislipClient!NoAcknowledgement`);
- AsyncServiceRequest and AsyncInterrupted, which nobody reads when they come,
  make the next exchange of the asynchronous channel end in `RuntimeError`
  (`HislipClient!Unsolicited`, `TakesLate`, `LateAnswer`);
- `plus_plus_read` is one flag for all instruments behind an adapter: write to A,
  write to B, read A, read B leaves B's response unasked for; `flush` takes no lock;
- with `VI_TMO_IMMEDIATE` a VXI-11 read never asks the device, although the
  comment at `tcpip.py` 808 speaks of a minimum of 10 ms; a `device_read` given
  up by the client may still be executed, and its data is lost;
- a USB session means to set the default timeout ("Force setting the timeout to
  get the proper value", `usb.py` 123), but passes the default of the last
  attribute of the loop above, `VI_ATTR_TERMCHAR_EN`, which is `False`. This 0,
  like `VI_TMO_IMMEDIATE`, is no timeout at all for the transfers (`usb.py` 139):
  `UsbTmc!InitialTimeout`, `TransfersTimeOut`;
- an answer of HiSLIP's asynchronous channel that comes too late is returned by
  the next status query as its own, or makes the next exchange of another type
  and the next device clear end in `RuntimeError` (`HislipClient!TakesLate`,
  `LateAnswer`);
- `Session._read` looks at END first: a part that carries END is returned whole
  although the termination character is in the middle of it; with END
  suppressed it is cut at the character, or at `count`, and what follows in the
  same part is lost;
- `close()` of a Prologix interface removes the entry of its board whoever is
  entered there, and an interface whose set-up raises stays entered.

## 7. What is not modelled

- HiSLIP's lock functions, which no session calls; a HiSLIP connection that the
  server closes, on which `receive_flush` loops for ever (`PROJECT.json` lists the
  hazard without a property).
- RPC over UDP and the example servers, which no session uses; the VICP wrapper;
  keepalive.
- XDR packing, a pure conversion, and the attribute tables, which are data.
- The attributes that are handed to pyserial, the GPIB driver or a socket
  option; enumeration of USB, serial and GPIB devices and zeroconf: I/O of
  libraries.
- The one-line dispatch of the calls of `highlevel.py` that only look the session
  up.

## 8. Plan

Done, in this order, the most shared and concurrent parts first: events,
monitor, RPC client, HiSLIP, Prologix over the raw socket, USBTMC, VXI-11
device, library; proofs of the first three; serial and GPIB sessions, remote and
local control, opening, discovery and the raw socket, with an abstract read
that three of them implement; proofs about library, serial sessions, GPIB
descriptors, remote control and opening; proofs of the safety properties of
VXI-11 devices, Prologix adapters, USBTMC, the rest of the library, the monitor,
discovery and HiSLIP, of the timeouts of GPIB, and of all three implementations
of the abstract read; the abstract remote call and its refinement, the marks
of serial messages, and why the loops of five clients come to an end.

Next:

1. A closed connection in `HislipClient`, with the liveness of `receive_flush`.
2. `UsbTmc` and `Vxi11Device` as implementations of `MessageRead` until upset.
3. Attributes, keepalive and the dispatch of the remaining calls in `Library`.

The runs are kept to a dozen, one for each question; new questions about a
component become properties of its run as long as its bounds still serve them.
