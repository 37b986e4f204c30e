# Verification of Elder Terms

Elder Terms is a terminal launcher for Linux (C++20, GTK 3): a *launcher* keeps
the saved connections, a global hotkey, a tray icon and a control socket; it
starts *terminal* processes (serial, Telnet, SSH) and *file transfer* processes
(SFTP, FTP, WebDAV, SMB). All asynchronous code is written as coroutines on one
dispatcher (the `cardio` library, a submodule that is not part of this tree);
threads exist only where a library blocks (libcurl for FTP, libssh).

This directory holds TLA+ modules translated from that code, the TLC runs that
check them on small instances, and theorems that TLAPS proves for every
instance. `PROJECT.json` maps every definition to the lines it stands for.

## Inventory

Paths are below `src/`; `T` is `elder-terms-terminal/src`, `L` is
`elder-terms/src`, `S` is `shared/src`.

### File transfer

**FTP file stream and curl worker** (`T/ftp/ftp-client.cpp`,
`T/ftp/curl-ftp-session.cpp`).
State: the ring buffer of `CurlStream` with `ready`, `input_ended`, `finished`,
`abandoned`, `failure` under its mutex; `acknowledged`, `failed`, `stopping` and
the lock `operations`, which only the dispatcher uses; the queue `pending`,
`revision`, `stopping` and the current `operation` of `CurlWorker`, which runs
libcurl on a thread of its own.
Operations: open, read, write, close, destroy a stream; one command or listing;
stop the client. The dispatcher and the worker interact through the ring, the
condition variable of the worker (`wake`) and the conditional of the stream
(`changed`), which loses a trigger that finds no waiter.
Hard: lost wakes in both directions; releasing the lock while libcurl still
holds callbacks; reuse of a session whose replies are out of step; stop, close
and cancellation in any order against a server that never answers.
Correct when: bytes arrive in order and once; success is told only when all of
them have arrived; the operations are exclusive; an abandoned transfer settles.

**Recursive transfer engine** (`T/file-transfer/file-transfer-engine.cpp`).
State: the tree discovered, the progress, the one conflict decision of the batch
and, for each file, a temporary path and what is known of its creation.
Operations: discover, transfer node by node with conflict and failure callbacks,
retry, skip, abort, cancel; rename, create and delete on the window's request.
It calls a `RemoteFileClient`, an interface that five services implement.
Hard: a failure in the middle of a node and its retry; lost answers (was the
file created? did the rename happen?); items of somebody else; cancellation at
every await.
Correct when: nothing is lost that the user did not agree to lose, nothing is
deleted that is not ours, nothing is left behind silently, and the progress is
exact.

**WebDAV** (`T/webdav`). State: the ring of `WebdavWriteState`, `paused`,
`finished`, `closed`, the creation state, one waiter. The HTTP session drives
libcurl's multi interface on the dispatcher.
Hard: the final answer before the whole body, after it, or never; the writer
resumes a paused request. Correct when: `created` is told only of a completed
exclusive PUT; a waiting writer is woken.

**SFTP** (`T/sftp`): libssh calls on the worker thread of a shared SSH transport, one
at a time. **SMB** (`T/smb`): libsmb2 on the dispatcher, one command at a time; the
callback of a command writes into its caller's frame. Exclusive creation and a rename as
commit; one session for each share and one for the list of them. Hard: an abandoned stream
or a stop under another caller's command; the lost reply to a creation. **TLS policy** (`T/tls`):
which certificate errors the user has accepted in this session.
Correct when: an operation cancelled half-way never leaves its answer to the next.

**File transfer window** (`T/file-transfer/file-transfer-window.cpp`): panes,
selection, dialogs; hands requests, decisions and cancellation to the engine.

### Terminal

**Terminal transfers** (`T/terminal-transfer-runner.cpp` and the three buffers):
X/Y/ZMODEM through `libxyzm` (external). State: the open source or sink, the
`.partial` file, buffers, progress. Hard: resumption of a partial file, failure at
flush, close and move, the order of the buffered frames and the abort sequence.
**ZMODEM auto start**, **received macros** and **text sending**: recognisers and
senders that work across chunks of input.

**Terminal connection** (`T/terminal-connection.cpp`). State: the phase of one line,
its carrier and encoding; three byte queues, the read-ahead of a transfer, the
bytes held by the decoder and by the ZMODEM detector; a dozen flags that say who
has the reader and the writer; six conditionals. Operations: `run_transport` with
its reader, writer and carrier watcher; encoding exchange, BREAK, text, transfer,
resize; dispatch to the core; stop. Hard: who owns the line when; bytes under way
when the owner changes or the line ends; carrier loss. Correct when: text stays in
order and complete, one sender has the wire, nothing goes out under another
carrier or encoding, all is joined before close, and a stop ends.
**Terminal runtime** (`T/terminal-runtime.cpp`): screen, selection, clipboard and
log; refuses events of an older generation. Hard: an event of the previous
connection after a reconnection.

**SSH** (`T/terminal-sessions/ssh-session`): host key, authentication methods,
channel, agent and port forwarding, a SOCKS proxy for FTP. **Telnet**: option
negotiation. **Serial**: termios and break. **TCP connector**: addresses in turn.

**Painting** (`T/boxrig-driver.cpp`, `T/main-window.cpp`, `T/activity-indicator.cpp`):
display over the external `boxrig`.

### Launcher and shared code

**Connection repository** (`L/connection-repository.cpp`): one file per
connection, names and identities. **Control server and client**
(`L/control-server.cpp`, `L/control-client.cpp`): one launcher per user, guarded by
a lock file; an abandoned socket is replaced; at most 32 clients, 10 s each.
**Tray and hotkey** (`L/tray-backend.cpp`, `L/hotkey-backend.cpp`): D-Bus services
that appear, vanish and answer late; what the window does when it is closed depends on
the icon. Correct when: there is one icon where the desktop shows it, and a hotkey opens
what it was pressed for. **Launcher** (`L/main.cpp`): windows and
child processes.

**Settings** (`S/settings`): values with `loaded`, `dirty`, a fallback and its
source; rebasing when the global settings change. **Serial devices** (`S/serial-device.cpp`,
`S/serial-device-event-monitor.cpp`): enumeration and hot-plug. **IP scanner**
(`S/ip-scanner.cpp`): bounded concurrent probes.
**Settings widget** (`S/settings-widget`): GTK forms.

## Modules

A component that interacts with nothing but its environment has one module; where
a component has two halves that share nothing, each half has its own, so that
their states are not multiplied. An `MC` module brings the halves of one question
into one run: a constant variable (`part`, `way`, `scene`, `size`) says which half
a behaviour is of, and the other half stays where it began.

| Module | Models | In run |
| --- | --- | --- |
| `ByteChannel` | what `RemoteFileReader`/`RemoteFileWriter` promise | refined by the next two |
| `CurlFtpStream` | one FTP file stream, its calls, the worker thread, the stop | `ftp_stream` |
| `WebdavStream` | one WebDAV transfer, the HTTP request below it, the stop | `webdav_stream` |
| `FileTransfer` | one batch of the transfer engine | `file_transfer` |
| `TransferReceiver`, `TransferSender` | the two directions of X/Y/ZMODEM | `terminal_window` |
| `ReceivedMacros` | rules over received text and their replies | `terminal_window` |
| `TerminalRuntime` | what a window asks of its connections | `terminal_window` |
| `TerminalSelection` | selecting text with the mouse | `terminal_window` |
| `TerminalConnection` | one terminal line, its reader, writer and calls | `terminal_line`, `terminal_stop` |
| `SmbClient`, `SmbServer` | one share of the SMB client; the sessions of a server | `terminal_window` |
| `TelnetChannel`, `TelnetCodec` | negotiation; the bytes | `sessions` |
| `SshTransport` | one libssh session shared by channels | `ssh_transport`, `sessions` |
| `SshLogin`, `SshForward` | host key and authentication; SOCKS server and bridge | `sessions` |
| `Settings`, `ConnectionEditor` | layers of settings; the editor of connection files | `launcher` |
| `ControlServer` | the control socket and `etctl` | `desktop` |
| `TrayBackend` | the icon in the tray and the window | `launcher`, `desktop` |
| `HotkeyBackend` | the hotkeys | `desktop`, `hotkey_twice` |
| `SessionProofs` | theorems about `SshLogin` and `SshForward` | |
| `TerminalProofs` | theorems about `TransferReceiver`, `TransferSender`, `TerminalSelection` and `TerminalRuntime` | |
| `LauncherProofs` | theorems about `TrayBackend` and `Settings` | |
| `DesktopProofs` | theorems about `HotkeyBackend` and `ControlServer` | |
| `FileTransferProofs` | theorems about `FileTransfer` and `SmbClient` | |
| `CurlFtpStreamProofs`, `WebdavStreamProofs`, `SshTransportProofs` | theorems about the module of that name | |
### CurlFtpStream

The dispatcher runs one coroutine at a time, so a turn of a coroutine is a
sequence of actions during which `disp` names its owner (`user` or `stop`); the
worker thread (`wpc`) interleaves at every mutex, atomic and condition variable.
`upc`, `call`, `rest` and `requested` are the user's call: where it is, which one,
how many bytes are left, whether its cancellation was requested. `apc` is the
position in `CurlStream::abandon`, which a call, the destructor and `stop_async`
share; `spc` the position in `stop_async`.

| Code | Actions |
| --- | --- |
| `CurlWorker::run`, `perform` | `WorkerBegin`, `WorkerEnd`, `WorkerExit`, `CurlAbort` |
| `exchange_bytes` | `WorkerObserve`, `WorkerCheck`, `WorkerSignal`, `WorkerSleep` |
| `CurlStream::receive`, `send` | `WorkerReceive`, `WorkerSend` |
| libcurl and the server | `CurlCallback`, `CurlReturn` |
| `open_stream_async` and the streams' calls | `Open`, `BeginCall`, `BeginClose`, `CallWaits`, `CallContinues`, `ReadSome`, `WriteSome`, `Resume`, `CallReturns`, `CallSucceeds`, `CallThrows`, `CloseReaderReturnsToUser`, `Destroy`, `RequestCancel` |
| `CurlStream::abandon` | `AbandonMark`, `AbandonCancel`, `AbandonWake`, `AbandonSettle` |
| `run_stream_async` | `RunFinishes` |
| any other operation of the client | `NextBegins`, `NextFinishes` |
| `stop_async` | `StopBegins`, `StopConfirmation`, `StopRequest`, `StopWake`, `StopReturns` |

A byte is its position in the file, so order, loss and repetition are visible.
`revision` is compared only for equality with what the worker observed, so a
Boolean (`moved`) stands for it. `failure` is a Boolean; the outcomes of an
operation are grouped as the code tells them apart (ordinary refusal, a refusal
whose certificate was accepted, an error, a cancellation).

Not modelled here: the certificate question (its outcome `accepted` is), the set
of sockets that a cancellation shuts down (`CurlAbort` is enabled as soon as the
progress callback would abort), the parsing of listings, active mode.

### FileTransfer

`stack` is the chain of `transfer_node_with_recovery_async` activations, each with
the progress at its beginning and the children left; `pc` the await the batch is
at; `thrown` the exception on its way. `dest` is the file system at the
destination, seen by content: what was there before (`oldFile`, `oldFolder`), what
somebody else put there (`foreign`), a folder cleared in part (`partFolder`), and
what the batch made. Every awaited operation may fail before or after it had its
effect (`Throws`). `creation` is what the engine knows of the temporary file and
`owner` the truth. Services are told apart by their capabilities: `sftp` has links
and no commit, `webdav` (and SMB) has a commit and no links, `ftp` neither.

A plain rename replaces nothing, as `remote-file-client.h:269` requires of every
service; an FTP server that replaces on RNTO is outside the model. Sources do not
change during a batch, so the checks of the size are not reached.

### TerminalConnection

Every coroutine (`main` is `run_transport`, `reader`, `writer`, and one per call of
the runtime) has a place `at` and a condition `wait`; `turn` is the one that runs.
An action is the code from one place to the next; `Suspend` and `Await` are
`co_await`, `Continue` is the rest of the turn. `op` and `state` are the structs of
the code, field by field where a guard reads the field; `token` is the number of
the carrier a linked cancellation belongs to.

| Code | Actions |
| --- | --- |
| `queue_decoded`, `queue_pending_raw` (reader and exchange) | `QueueDecoded`, `QueuePendingRaw` |
| `read_stream` | `Reader...`; `ReadCompletes` is the transport |
| `write_stream` | `Writer...` |
| `terminal_connection_change_encoding` | `Exchange...`, `Drain` |
| `terminal_connection_send_break`, `send_text` | `ServiceBegins`, `Drain`, `ServiceWorks`, `CallLeaves` |
| `prepare_transfer`, `transfer` and its callbacks | `TransferReserved`, `TransferBegins`, `Drain`, `Engine...`, `TransferLeaves`, `TransferRejoins` |
| `terminal_connection_resize` | `ResizeBegins`, `CallLeaves` |
| `run_transport`, `finish_stream`, `finish_input` | `Start`, `Main...`, `FinishStream`, `FinishPeer`, `FinishInput` |
| `dispatch` with `receive` and `send` | `Dispatch`, `DispatchNothing` |
| `watch_carrier`, `stop`, settings of the runtime | `CarrierDrops`, `CarrierReturns`, `Stop`, `SetReceiveDelivery`, `DisableAutoStart` |

A received byte is its position in the stream; conversion is which bytes it holds
back (`Partial`) and which the ZMODEM detector holds (`Header`). A byte to send is
the encoding and the carrier it was accepted under. The engine of a transfer takes
any number of bytes, fails, or succeeds and returns at most one byte it read ahead.

Assumed of `cardio`, which is not in this tree: a trigger without a waiter is lost;
a trigger or a cancellation makes its waiter runnable, and it runs in a later turn
(`terminal_connection_dispatch` uses the session, 800, after the trigger, 798, that
lets `finish_stream` destroy it, 523). Runnable coroutines and frames come in any
order. That freedom lets a second dispatch clear `finishing` (471) before
`finish_stream` goes on, and a resize slip past its guard (815); whether the real
order allows it is open, so `TransportJoined` looks at resizes where `finish_stream`
begins. Assumed of `boxrig`: `finish_input` blocks at most once.

Not modelled: the child process of `run_local` and its reaping (its streams are
those of `run_transport`), the X/YMODEM start control, the encoder's shift state
beyond "there may be a sequence to send", several generations, the join of the
carrier watcher, `transport.finish_read`.

### WebdavStream

`upc` is where the user's call is, `waiting` its conditional; `hpc` where the request
is; `spc` where `stop_async` is. All of it runs on the dispatcher: an action is the
code between two awaits, except that the callbacks of one `curl_multi` call are one
action each while `hpc = "act"` shuts everybody else out.

| Code | Actions |
| --- | --- |
| `request_async`, `perform_request_async` | `HttpLocks`, `HttpBegins`, `HttpSuspends`, `HttpEvent`, `IdleTimer`, `HttpDistrusts`, `CertificateAnswered` |
| libcurl and the server | `HttpConnects`, `HttpAnswers`, `HttpReplays`, `HttpCompletes`, `HttpBreaks`, `ServerStores`, `ForeignStores` |
| the callbacks of the streams | `ReadCallback`, `WriteCallback` |
| the calls of reader and writer | `Open`, `Write...`, `Read...`, `Close...`, `OpenContinues`, `DrainContinues`, `Destroy`, `RequestCancel` |
| other requests and `stop_async` | `OtherBegins`, `OtherEnds`, `StopBegins`, `StopLocks` |

The writer resumes a paused request by a flag that the request reads in its next
turn (`resume_pending`), and the pause is a bit of libcurl (`mask`): the two sides of
the lost-resume question. `creation` is what the writer will report and `file` what
is at the server; answers may be lost, early, negative or redirections.

Not modelled: PROPFIND, MOVE, DELETE and MKCOL, the parsing of their answers.

### TransferReceiver and TransferSender

The engine of `libxyzm` is external: it calls the operations of the sink or the
source in any order its protocol allows.

| Code | Actions |
| --- | --- |
| `make_sink_ops` (begin, write, end) | `Begin`, `Write`, `EndOfFile`, `EndFlush`, `EndClose`, `EndMove` |
| a session, a crash, the user | `SessionBegins`, `SessionEnds`, `Crash`, `Cancel` |
| `make_source_ops` and the source buffer | `ReadFrame`, `Seek` |
| the link and the send buffer | `BufferFrame`, `DirectSend`, `SendFails`, `FlushWrites`, `BatchFails`, `AwaitAnswer` |
| the protocol | `Stream`, `Acknowledged`, `Refused`, `EngineFails` |
| the end of `run_terminal_transfer_async` | `Notifies`, `Notified`, `Closes`, `Finished` |

A received byte is (file of the peer, position), so that the bytes of two files, or
of one file twice, are told apart. A write may fail after any part of it was
written; `Crash` loses the buffer and keeps the files. Time in the sender is a
number that only the sends of the transport advance.

### ReceivedMacros, TerminalRuntime, TerminalSelection

`ReceivedMacros`: `Feed` is the output callback, `Dispatch` one of the six things that one
dispatch does: send a piece of a reply, try one rule, end a line, take a part of the text.
A rule looks for a text, which keeps matching when the line grows, as the search of the
code does.

`TerminalRuntime`: a request is accepted or refused at once and is `pending`; `Frame` is
`dispatch_frame`, whose `process_input_policy` is one operator per step, in their order,
over the whole state; a coroutine that waits is a value of `running`, and its end is an
action. The connection is the contract that `TerminalConnection` keeps. `given` is history:
what the user was told and is owed.

| Code | Actions |
| --- | --- |
| `terminal_runtime_connect_...`, `start_...`, `request_encoding`, `send_break` | `Connect`, `StartText`, `StartTransfer`, `AutoStart`, `RequestEncoding`, `SendBreak` |
| frames and `process_input_policy` | `Frame`, `FrameFails` |
| `cancel_transfer`, `disconnect`, `stop_application_async` | `UserCancels`, `Disconnect`, `Closing` |
| the connection, the device, the user | `Opens`, `ReceiveEnds`, `IoStops`, `ConnectionCloses`, `Carrier`, `Served`, `Exchanged`, `Returns`, `Selected`, `DeviceReturns`, `WatchEnds`, `Drains` |

`TerminalSelection`: press, motion, release, wheel, timer and painting; a release that
finds a scroll not yet painted waits for the painting.

### TelnetChannel and TelnetCodec

`TelnetChannel` is the negotiation: `local` and `remote` are the options of the code,
`replies` the responses of the read that are still to be sent, `queue` the waiters of
the wire's lock. The peer follows RFC 1143 (`peerLocal`, `peerRemote`). A read that is
interrupted while it sends its responses loses the rest (`Interrupt`), which is
what `terminal-connection.cpp:865` does; `lossy` allows it. `TelnetCodec` is the
parser (`Receive`, `FinishReceive`) and the encoder (`Type`), with a peer that writes data,
ends of line and commands and cuts them anywhere.

### SshTransport, SshLogin, SshForward

`SshTransport`: `pc`, `stage`, `result` are an operation of a channel; `queue`,
`running`, `worker` the worker thread, on which every libssh call runs; `libssh` is what
libssh knows of each channel. A call for one channel handles the packets of all
(`Pump`, `Handled`), which is why the code wakes the operations of every channel
(`NotifyProgress`); what of its output the kernel does not take stays in libssh (`output`), in
order, as the bytes in the kernel do (`wire`). `Cancel` cancels a coroutine; a command of it that is queued or
runs goes on. libssh and the server are external.

| Code | Actions |
| --- | --- |
| the operations of a channel | `Open`, `Read`, `Write`, `Resume`, `Throw`, `Wake`, `Cancel`, `Close` |
| the worker | `Execute`, `Retire`, `NotifyProgress`, `Stop` |
| the server | `Replies`, `SendsData`, `SendsEof`, `Receives`, `HangsUp` |

`SshLogin`: one action per step of the login, one variable per thing the step
reads: `status` the verdict on the host key, `left` what the server still requires,
`methods` what the code last heard of it, `attempt` the counter of the present
question. The server accepts any set of sequences of methods
(`AuthenticationMethods` of sshd).

`SshForward`: `Accept`, the greeting and the request (`Serve`), the two directions of
the bridge (`PumpUp`, `PumpDown`) over AF_UNIX sockets, stop and loss of the gateway. A
descriptor is a number: `fd` is the client's, `bfd` the one that the bridge knows, `others`
those of the rest of the process, which takes any that is free (`Opens`). A callback shuts
down whoever holds the bridge's number (`ShutsDown`).

### Settings

A file gives each key a text or none; a store has, for each key, the value, a retained
invalid text, `error`, `loaded`, `dirty`. Three holders of a store share two files: the
editor of one connection, the dialog "Connection defaults", the launched window.
`Layer`, `Rebase`, `Serialize` are the functions of `settings-store.cpp` and `settings.cpp`
that merge, rebase and write; the actions are the operations of the three holders.

### ConnectionEditor

A handler of the launcher's main loop is one action; other programs write, remove and
rename files between handlers (`External...`). `editor` is the open editor (shown, new,
dirty, the path, the base it was loaded from, the tag it observed), `monitor` the events
on their way, `dialogs` the open questions, `job` the writer of identities.

### ControlServer

| Code | Actions |
| --- | --- |
| `start`, the lock file, bind, listen | `Start`, `OpenLock`, `TakeLock`, `Reclaim`, `Bind`, `Listen` |
| a connection of the server | `Accept`, `Handle`, `Resolved`, `Respond`, `Expire` |
| the end of a launcher | `Quit`, `Shutdown`, `UnlinkSocket`, `Release`, `End`, `Crash` |
| `etctl` | `Connect`, `Send`, `Unavailable`, `ReadReply`, `GiveUp`, `Deadline` |

`lockfile` and `locks` are inodes: a lock on a file that was removed does not exclude
who opens the name again. A crash leaves the socket and drops the lock.

### TrayBackend and HotkeyBackend

`TrayBackend`: `monitor` is the coroutine that watches for a tray, `watcher` the service on
the session bus with its host, `bus` the calls and signals under way, `icon` the icon that is
shown, `app` and `window` what the launcher makes of it (`present_main_window`,
`request_application_quit`, the confirmation of unsaved edits). X11's tray is the fallback.

`HotkeyBackend`: each replacement of the list is a generation; `requests`, `dialogs` and `inbox` are
a call on its way to the portal, the portal's question to its user, and the answers on their
way back, which a newer generation must not take for its own. `compositor` is what was written
to the compositor's configuration, which outlives the launcher.

### SmbClient and SmbServer

`SmbClient`: an operation is a list of commands (`todo`), the active one first; `session` is the context
of libsmb2 with whose command is active; `queue` the mutex. `Succeeds`, `CommandRefused` and `Breaks` are the
end of a command in `execute_async` and what its caller makes of it in the same turn. `SmbServer` is
the client of a whole server, in which an operation on a share is one step.
## Runs

| Run | Asks | Bounds |
| --- | --- | --- |
| `ftp_stream` | does a stream over two threads keep its promises and end | ring of 2, file of 3, callbacks of 1 and 3 bytes, calls of 2 |
| `webdav_stream` | the same over a request that pauses, is answered early and moves | ring of 2, file of 3, calls of 1 and 2, chunks of 1 to 3, 1 redirection, 1 certificate question |
| `file_transfer` | what can a batch lose, leave or miscount | a folder with a file, and a link; 2 failures, 1 foreign item |
| `terminal_window` | what can a window, or an SMB share, lose, send or copy wrongly, and does each request end | receiving: files of 3 and 1 bytes, buffer of 2, 3 sessions; sending: 4 bytes in frames of 2, buffers of 2 and 3, 2 repeats; macros: 2 rules, 5 letters, lines of 2, a queue of 3; requests: 2 connections, 1 carrier loss, 2 encodings; selection: 2 rows and 2 above; SMB: 2 callers (a reader and a writer, or two calls), 2 bytes, 1 trouble; 2 shares, 3 callers, 2 losses |
| `terminal_line` | who owns the line, and is the text whole | five scenes, below |
| `terminal_stop` | does a stop end | two scenes, below |
| `ssh_transport` | channels that take each other's packets | 2 channels, a window and a socket of 1, three loads |
| `sessions` | who gets in; is a bridge whole; do both ends agree and read what was written; does it end | login: 1 login, 3 keys of 2 types; bridge: 2 clients and room for 1, or 1 client and 2 bytes each way; 1 channel; Telnet: 3 local and 2 remote options, reads of up to 2 messages, 3 questions, sends and resizes in all; 3 writes of the codec, subnegotiations of 2 |
| `launcher` | is there one icon, and a window that can be called back; what can an editor lose or launch wrongly | tray: 2 watchers, 1 change of the host, 1 failure; 2 names, 2 texts and a broken one, 2 changes by others, 3 acts; 4 keys, 2 × 4 files, 2 edits |
| `desktop` | one socket, each command once, the hotkey that was meant; does it end | launchers: 2 and 3 starts, or 1 with 2 clients and 2 starts; tray: as `launcher`; hotkeys: 3 lists and 3 generations, 1 failure |
| `hotkey_twice` | a violation: see *Findings* | as `desktop` |
| `connection_editor_removed` | a violation: see *Findings* | as `launcher` |

A property is a conjunction of named parts, each stated and commented where it is
defined; the table names the parts.

| Property | Parts and meaning |
| --- | --- |
| `ftp_stream`: `InOrder` | bytes leave the ring in the order of the file, none lost or repeated |
| `NoneSleeps` | a sleeping worker, or a sleeping call, has its wake on the way (`NoLostWake`, `NoLostTrigger`) |
| `SessionSound` | the worker works for the holder of the lock only; an abandoned transfer never leaves a usable session (`OneOperation`, `SessionUsable`) |
| `IsChannel` | refinement of `ByteChannel` |
| `GivenUpEnds` | abandoning, stopping and closing a reader end |
| `webdav_stream`: `StreamSound` | what is reported of the creation, and a close that succeeds, are true of the server (`CreationProven`, `ToldIsWhole`); a waiting user, or a request that should not be paused, has its wake on the way (`NoneSleeps`) |
| `IsChannel`, `RequestsEnd` | refinement; giving up, stopping and a refused body end, and one request has the session |
| `file_transfer`: `ProgressExact` | never above what was discovered, exact at a good end |
| `NothingLost` | with a move or a commit a file gives way only to the complete new one; nothing goes before a decision to overwrite; nothing foreign is deleted (`AtomicReplace`, `ConsentedLoss`, `ForeignKept`) |
| `OutcomeTrue` | a good end delivered all that was not skipped; one question for the batch; a temporary file left by a service with a commit is named |
| `CancelEnds` | a cancelled batch ends |
| `terminal_window`: `PartialIsPrefix` | a partial file is a gapless beginning, so the offset told to the peer is right |
| `NothingLost` | a name holds the old file or one complete new one; accepted bytes stay in the partial file (`TargetIsWhole`, `KeepsAccepted`, `NeverLost`) |
| `SendExact` | CAN behind accepted frames; an answer is awaited with empty buffers; one deadline for a batch; the bytes of the protocol's own offset; the outcome is true |
| `InstancesSound` | `ReceivedMacros!MacrosExact`: the line is what was sent since its beginning however the text was cut; no text overtakes a match; replies are whole and in order. `SmbServer!ServerSound`: a share has one session, a stop is final, a loss is told once |
| `RuntimeSound` | one service at a time, each accepted one finished once; the encoding told is the one of the connection; nothing outlives the window |
| `SelectionSound` | what is copied ends where the button was let go; timers and flags belong to a drag |
| `SmbSound` | a callback never outlives its frame; a handle at the server has an owner; what is told of a creation is true although replies are lost; bytes are exact |
| `Ends` | a sending ends; a request that was accepted, and a closing window, are settled; a selection that was let go is copied or given up; a command, and a stop, of an SMB share ends |
| `terminal_line`: `Accounts` | each byte read is in one place or given up by a named step; a closed line has shown the rest. Excepted: an exchange that begins while the reader queues what end of file left (`Overlap`) |
| `WireSound` | one exclusive call, one waiter per condition, all joined before close; what goes out belongs to this carrier and encoding; work for the core has a dispatch on its way |
| `TextInOrder` | what was read keeps its order on its whole way; only the step in which a reader passes what a transfer left may break it (`PassesLeftOver`) |
| `terminal_stop`: `StopCloses` | a stop closes the line |
| `sessions`: `Negotiated` | when all is quiet both ends agree, or we claim less than the peer |
| `BytesExact` | the screen shows what was written, nothing is withheld, the peer decodes what was typed |
| `ssh_transport`: `NoLostWake` | no operation sleeps on what another channel's call has received |
| `DataExact` | each byte once and in order, the end behind all of them |
| `Teardown` | the worker runs no command whose caller has gone without its data, ends with nothing left, and never joins itself |
| `LoginTrue` | nothing is authenticated to an unknown key; who is in has passed every factor; a saved key stands beside agreed ones only (`TrustFirst`, `InComplete`, `SavedAlone`) |
| `FailsForCause` | a login fails only for a cause, or because the server asks behind an accepted secret for a factor that was not listed before it (`UnlistedFactor`) |
| `ForwardSound` | both directions are whole, no descriptor of anybody else is shut down, nothing outlives what it uses |
| `PartsEnd` | a stopped server and an unused bridge end; a channel carries all |
| `launcher`: `TraySound` | one icon at most, where the desktop shows it, and a window that cannot be called back is not hidden |
| `ShownTrue` | an unedited key is shown as a fresh open would; what is saved reloads as it was |
| `LaunchSound` | no clash of bindings, no invalid text that gives way to a lower layer, the values of the draft |
| `WorkKept` | a save replaces what the draft was made from; a draft survives the background; an identity stays and changes no text of others |
| `desktop`: `SocketSound` | a serving launcher is reached by name, binds a free path, refuses only when full; a command is carried out at most once, and once when reported |
| `HotkeySound` | a hotkey opens what it was pressed for, and the status told is true |
| `DesktopEnds` | `etctl` ends; the tray is found again; a registration of hotkeys is settled |

### Why the bounds are enough

The rings are never a multiple of the chunks, so that they wrap at every offset, fill,
empty and are partly free, and one callback exceeds the ring. Three bytes are the
least that make the second lap meet the first. Two failures let an operation fail, be
retried and fail again, or its cleanup fail; one foreign item is enough to appear
between check and use.

`terminal_line`: *line* has two callers (the least that collide), queues of one byte, so that
every wait for room happens, and a character of two bytes that never fits at once;
*carrier* has two bytes out, one in the writer and one in the queue when the carrier
drops; *cut* breaks off within a header and a character of two bytes, so that end of file leaves
three bytes for a queue of one, and its one carrier loss undoes an exchange and lets a second
one begin; *full* has queues of one and a stream of three, so that a transfer ends with bytes
left while the reader waits for room in its queue; *handover* has queues that hold the stream,
and a header of two bytes that is met whole, split, behind text and before text. `terminal_stop`: a transfer, or an exchange or BREAK with output, is
under way.

`terminal_window`: of two files one exceeds the buffer; three sessions are a failure, its
resumption and the resumption of that; the send buffer of three holds a frame of two, is
filled by one, and splits one. `ssh_transport`: with a window of one every byte needs an
adjustment, and the second channel exists to take the first one's packets. `launcher`: two
changes are the least in which an event is overtaken; of four keys two can clash, one
is strict, one is plain. `desktop`: three starts are a crash and two that race for
what it left.

### Fairness

The network, peers and users owe nothing unless the table says so.

| Run | Assumed | Because |
| --- | --- | --- |
| `ftp_stream` | the worker and the holder of the dispatcher run (weak), a resumed coroutine runs (strong) | a thread; the dispatcher is a queue |
| `webdav_stream` | as above; an idle timer fires (strong); the user answers the certificate question; another request ends | a request has an idle limit, so others end by it |
| `file_transfer` | the batch (weak): each awaited operation and callback answers | every service has time limits; a user may answer "retry" for ever |
| `terminal_window` | the sender; an SMB answer or its timeout; frames, the connection's ends, the widget and the coroutines of a window; painting (weak) | each send has a timeout; the dispatcher and the frame clock run; a connection that stops closes (`terminal_stop`) |
| `terminal_stop` | each coroutine, dispatch after `wake()`, open and close of the transport (strong) | the dispatcher is a queue; a reserved transfer is always started (`terminal-runtime.cpp:750-757`, 1484-1493). Reads, writes, calls and the release of withheld text are not fair |
| `desktop` | `etctl`'s own steps and its deadlines, nothing of the launchers; the coroutines of the tray and of the hotkeys, and the answers of the bus (weak) | `etctl` polls with time limits; a call on the bus is answered or times out |
| `sessions` | bridge: the program's own steps; channel: worker, coroutines, network and server | that the channel carries all needs a server that goes on |

In `terminal_stop` auto start is left out, because it waits for the user's choice of files,
and so are resizes, which nobody bounds.

### Findings

**An externally removed connection** (`connection_editor_removed`). "An externally removed
file must not take its unsaved editor with it." (`elder-terms/src/main.cpp:1478`). The
list is refreshed when an identity job ends (1067) or another file changes; when that falls
between the removal and its own event, `external_conflict` is still false (1477), the
connection is no longer listed, and the dirty editor is dropped (1493; `RemovedKept`).

**A hotkey bound twice** (`hotkey_twice`). "A previous portal rejection may have installed
compositor bindings. Clear those before the new portal request can succeed."
(`elder-terms/src/main.cpp:1233`) is done by `replace_registered_hotkeys` only. The bindings are
in the compositor's configuration and outlive the launcher; the next one asks the portal
(3368) without clearing them, and when it accepts, a key is bound by both (`NeverTwice`).

The following were met while modelling. They are not runs: of the first two, the instances
contain the case and the property names the step that it excepts; the others are left out by
a bound, a guard or an excuse that is named with each.

*The order after a transfer.* "Returned cache bytes precede both unconsumed prefetch and
later reads" (`terminal-connection.cpp:1140`). A reader that waits for room in
`transfer_incoming` is not `read_active`; the end of the transfer gives the stream back in
the same turn (1155-1167) and the reader goes on behind its check for leftovers
(271-283), so that it queues new bytes before them. `TextInOrder` excepts this step
(`PassesLeftOver`), which *full* takes: without the exception it fails there.

*The receive boundary.* "The old receive boundary has already been delivered in full"
(`terminal-connection.cpp:898`). After end of file the reader clears `read_active` (339)
and then queues the rest; an exchange that begins meanwhile does not join it (873)
and replaces `operation.decoded` (194): what the reader had not queued is lost. `Accounts` and
`OneWaiter` except the steps at which both queue (`Overlap`), which *cut* takes: without
the exception both fail there, also where an undone exchange relies on the comment.

*Calls of a closing channel.* "Disconnect cancels and joins this operation before closing
the channel" (`terminal-connection.h:247`): the phase stays `connected` until the channel is
closed (704), so BREAK and text are accepted after the join (700).

*Stranded temporary files.* "Uncertain ownership or failed cleanup reports the temporary
path" (`file-transfer-engine.h:156-158`) is kept for services with an explicit commit only:
`cleanup_remote_temporary_file_async` (`file-transfer-engine.cpp:856-864`) ignores a failed
removal, and an `open_write_async` that fails after the server created the file leaves
`temporary_created` false (906-909).

*A cleared setting at launch.* A key that the draft cleared has no text in the temporary
profile, so the launched window shows the text of the saved file below it; `LaunchesExactly`
is about the keys that the draft sets.

*Lost replies.* A Telnet read or an SSH read that is cancelled between receiving and
returning drops what it had (`terminal-connection.cpp:865`,
`ssh-channel-connection.cpp:1379`): the option stays off on our side, the bytes are gone.
`Negotiated` and `DataExact` say what still holds then.

*A second secret.* The methods are listed once before the password
(`ssh-channel-connection.cpp:1087`): keyboard-interactive that the server offers only after
it is not in that list, and the login fails (1103) although both answers would have been
right. The instance has every order of two factors; `FailsForCause` excepts exactly such
a login (`UnlistedFactor`).

*A launcher that cannot be reached.* The user closes the window while no tray is available
and the editor is dirty; the tray appears; the user confirms. The window is destroyed although
the application goes on (`elder-terms/src/main.cpp:2111-2142`): later activations find no window,
and only the tray's own Quit ends it. In `window_and_tray` a hidden window stays hidden
when the tray vanishes (3086-3095). An XEmbed tray that vanishes between the check and the
embedding leaves the state "available" (`tray-backend.cpp:989`); the model's guard on
`XTrayGoes` leaves this out.

*A late answer of the portal.* A `CreateSession` of an older generation that is answered late leaves its
session open; one that succeeds after its timeout leaves the status "failed", while the
portal and the compositor are both bound. The model assumes of the portal that it answers the request
it was asked, and of a binding that the portal gives it a trigger.

*A handle that stays open.* A cancellation between a completed open and the close that follows it in the
same SMB call throws before the close is sent and does not end the session
(`smb-client.cpp:88`): the handle stays at the server until the session ends. `HandlesOwned`
excuses it. A stream that is abandoned without a close ends the session under another caller's
command, which is then told that it was canceled.

## Proofs

TLC checks small instances; the proof modules show the same properties for every value of
the constants. In each of them an inductive invariant is a conjunction of named parts, each
checked by TLC before it was proved; a lemma per action, or per group of actions that
change the same variables, shows that a step keeps them; the theorems combine these.

| Module | Theorems | Properties stated |
| --- | --- | --- |
| `CurlFtpStreamProofs` | `TypeCorrect`, `InductiveInvariant`, `BytesInOrder`, `SessionInvariant`, `SessionIsSound`, `NobodySleeps`, `ImplementsChannel` | `InOrder`, `SessionSound`, `NoneSleeps`, `IsChannel` |
| `WebdavStreamProofs` | `StreamInvariant`, `StreamIsSound`, `RequestsTakeTurns`, `ImplementsChannel` | `StreamSound`, `IsChannel` |
| `FileTransferProofs` | `TransferInvariant`, `ProgressIsExact`, `NothingIsLost`, `OutcomeIsTrue`, `ShareInvariant`, `ShareIsSound` | `ProgressExact`, `NothingLost`, `OutcomeTrue`, `SmbSound` |
| `TerminalProofs` | `ReceiverInvariant`, `ResumesAPrefix`, `NothingIsLost`, `SendInvariant`, `FileIsSent`, `SelectionIsSound`, `RuntimeInvariant`, `RuntimeIsSound` | `PartialIsPrefix`, `NothingLost`, `SendExact`, `SelectionSound`, `RuntimeSound` |
| `LauncherProofs` | `TrayInvariant`, `TrayIsSound`, `SettingsInvariant`, `DraftIsShown`, `LaunchIsSound` | `TraySound`, `ShownTrue`, `LaunchSound` |
| `DesktopProofs` | `HotkeyInvariant`, `HotkeysAreSound`, `SocketInvariantHolds`, `SocketIsSound` | `HotkeySound`, `SocketSound` |
| `SshTransportProofs` | `SshInvariant`, `NobodySleeps`, `DataIsExact`, `TearsDown` | `NoLostWake`, `DataExact`, `Teardown` |
| `SessionProofs` | `BridgesSound`, `HostTrusted` | `ForwardSound`, `LoginTrue` |

**An FTP stream.** Assumed: the four assumptions on the constants in `CurlFtpStream` (a
positive capacity, a natural length, positive sizes). `Inductive` adds to `TypeOK` that
slot `i` behind `begin` holds the byte that follows the delivered ones by `i`
(`RingHolds`; without it nothing says that what is taken next is the next byte) and that
nobody is about to put in more than the file has left (`Sizes`). `AppendKeeps` and
`TakeKeeps` are the two halves of the argument; four actions use them, all others leave the
ring alone. `SessionInv` adds what the two threads agree on: whose turn it is (`Turns`), that
what is pending, worked on or settled is of the operation with the lock (`Lock`), what the end
tells the client (`Ends`), that a worker between its look at the revision and its sleep has
a wake behind whatever would let it go on (`Woken`; `NoLostWake` alone, which is about
sleepers only, is not inductive), and that curl hears of the end of the input when the ring
is empty (`InputEnds`). `NobodySleeps` is a case of it. In `ImplementsChannel` each step
is shown to produce, consume, complete, break or stutter.

**A WebDAV stream.** Assumed: `WebdavAssumption` (positive capacity and sizes, natural
length and bounds). `StreamInv` says of the ring that it is a queue of the next bytes
(`Queue`), what is asked for (`Asked`), who has the easy handle (`Requests`), that what was
answered, finished or told is so at the server (`Answers`), that a callback is paused only
when it cannot go on, or a resume is pending (`Pauses`), and that an awaiting user lacks
what he awaits, or is being woken (`Awaits`). `OneRequest`, the safety half of `RequestsEnd`,
is proved on the way.

**A batch of transfers.** Assumed: `NodesAssumption`, `KindAssumption`, `BoundsAssumption`
and `TreeAssumption` of `FileTransfer`: a finite set of paths, of any depth, that contains the
folders of its paths. `TransferInv` says that the stack is a way down the tree whose nodes
have their unfinished children beside it (`Shape`), what is done with which kind (`Kinds`),
that what was lost was given up (`Consent`), whose the temporary file is (`Owned`), that what
is finished is delivered, skipped, or about to be rolled back (`Delivered`), and that the
progress counts what is finished and the part of the file under way (`Counted`, by
cardinalities of sets of nodes and sums of sizes, which rest on lemmas about subtrees).

**A received file.** Assumed: `ReceiverAssumption`. `ReceiverInv` says that every partial file is a
gapless beginning (`Directory`), and that what is buffered continues what is written
and the two are what was accepted, unless a write or the close has failed (`Sink`).
`NothingIsLost` assumes besides that the files of a batch have different names
(`DistinctNames`): with two files of one name the second replaces or continues what the
first left, and the two share a partial file; TLC's batch has different names too.

**A sent file.** Assumed: `SenderAssumption` (positive sizes of the buffers and of a frame,
a natural length, timeout and budget). `SendExact` is not inductive: that success is told of
a whole file only needs to know where every byte is on its way. `SendInv` says that what was
accepted from the protocol is what is on the wire followed by what is left in the buffer,
until the buffer is aborted (`Intact`); that the wire is a beginning of it with CAN behind at
most (`Cut`); that the buffer is at rest outside a flush and stays unused once aborted
(`Batches`); what has failed where (`Stands`); that the part of the frame that is gone is the
end of what was accepted (`Frames`); and that no byte before the protocol's offset is
missing (`Complete`).

**An SMB share.** Assumed: `SmbAssumption` (roles of any set of callers, a file and requests of at
least one byte). `ShareInv` says that who runs owns the lock and the session's command
(`OwnerServes`), and of each caller: that what is left of its call is a plan of its kind
(`PlanFits`); that on a connection that goes on, a handle at the server is its stream's,
or the command under way opened it and the plan closes it (`HandleOwned`; `HandlesOwned`
says nothing of a running call and is not inductive); what a creation under way may have
left at the server (`CreationKnown`, by the answer on its way); that the file is whole up to the
writer's offset and the answered write (`WrittenSoFar`); and that a close at the end of the file
comes behind its flush (`FlushedAtEnd`). A step is of one caller (`OneActs`: it leaves the
others as they are). What the answers make of a stream is proved once (`TakenFits`),
what may follow it once (`FollowsFit`), and a call ends in one way however it ends (`LeavesKeeps`). The session of
several shares (`SmbServer`) is model-checked only.

**A selection.** Assumed: `SelectionAssumption` (a view of at least one row, a natural number above
it). `SelectionInv` adds to `SelectionSound` that a drag has a place (`DragIsAt`), and that
while a release waits, what it has asked for is what the position it waits for shows under the
pointer (`AsksWhatIsSet`), so that the painting of that position copies it. Most steps either
leave the gesture alone or end it (`GestureRests`), and one lemma is about them all.

**A window and its connection.** Assumed: `RuntimeAssumption` (natural bounds, requests of the
five kinds, a value `Unset` that is none of the others). The operations of the code are functions of one record, `Now`,
and a frame is the composition of what `process_input_policy` does. `RuntimeParts` says
of that record: who stands behind a reservation (`Held`) and behind what the connection
serves (`Apart`, `Idle`), that at most one service was accepted and is not finished
(`Owed`), that the encoding told goes with every connection, present, pending or to be recovered
(`Carried`), and what a closing window has left behind (`Left`). `NoFrameLost`, that an unscheduled
frame would change nothing, is a fixed point of the whole policy and says nothing a step could
keep; `Framed` says instead that each part of the policy has nothing left to do (`Calm`).
The argument has three parts: every operation keeps `Sound`, wherever the window stands in
its closing; a pass of the policy that asks for no other frame ends calm (`PolicyCalms`; what a part
leaves for a later one, and what makes a frame necessary, is a lemma each), and a calm
state is a fixed point (`CalmRests`); and every step outside a frame either asks
for one or changes nothing the policy looks at (`CalmStays`).

**The tray.** Assumed: `TrayConstants`. `Settled` is about quiet states and not inductive. The
argument: the signals on their way lead from the owner the launcher knows to the owner of
now (`Signals`), so that none of them is ignored; a monitor that waits has seen every event
and a call is to the owner last seen (`Monitors`); when nothing is on its way the answer it
got is so (`Hosts`); and what is remembered as registered is there (`Icons`).

**The settings.** Assumed: `SettingsAssumption`: strict keys are no key bindings, the built-in
defaults are values and their bindings differ, and the kinds of texts are disjoint (settings
are registered that way in `S/settings/*-settings.cpp`). A store is a function of
entries, and everything is said of one entry first: when it is sound (`EntrySound`: an error
is of a strict key and comes with the text that caused it), when it stands on the one
below (`Above`), and what reading a text leaves of it (`ReadSays`). `SettingsInv` is: the
editor stands on the defaults that were saved last and says what its file says, but for what
was edited (`EditorSound`); the dialog of the defaults stands on the built-in ones
(`DialogSound`); no window has a clash (`SessionSound`). The main lemma is `Reread`: a store without a clash, written
and read back above a store that says the same of all it does not set, says the same.
`SavedReloads`, the step that saves the defaults under an open editor, and `LaunchesExactly` are
cases of it.

**The hotkeys.** Assumed: `HotkeyConstants`; lists of connections are sequences. `HotkeyInv` says
that a known session is of the list of now and bound wholly (`Session`), that of every
list at most one call is under way, in the requests, before the user, or in the answers
(`Once`), that a call carries its list and an answer says what the portal holds
(`Calls`), that what is bound, or may become so, is the known session or is followed by its
close (`Closes`), and that a failed list is in the compositor or told (`Status`).

**The control socket.** Assumed: `ControlAssumption` (a finite set of clients, a positive limit).
`LockInvariant` says that all launchers that got so far have one and the same file open
(`OneFile`: the lock file is never removed) and one of them holds its lock (`OneOwner`); so the
name of the socket changes only by the owner's steps, and by what becomes of a launcher that
has none. `RequestInvariant` says that who is served is connected (`ServesOwn`), that a connection
has no answer so far (`Unanswered`), and that an opening has been carried out exactly if its handler or
its answer says so (`CarriedOnce`; `AtMostOnce` alone does not say that what was carried out is not
begun again). The limit is kept by cardinalities. `TurnedAway` looks at all steps that close a
connection: only `Accept` closes one that waits.

**An SSH session.** Assumed: `SshAssumption` (loads of natural numbers, a positive window and
room); the set of channels is any. `Inv` says who waits in the queue and what the worker
holds (`Turns`), that nothing is shared once it stops (`Shared`), which results each call may
have (`Returns`), how a connection and the channel of libssh go together (`Lives`), that an
operation whose call said *again* hears of what it waits for from the moment of the call on, not
only while it sleeps (`Hears`; `NoLostWake` speaks of sleepers and is not inductive), what a
writer counts (`Counts`), and that the bytes returned, held by a reader's result,
buffered in libssh and on the socket are the server's, each at its place (`Streams`). A call
handles any number of packets of all channels; what they leave (`After`) is proved by
the lemma `Induction` about sets of numbers (by `WFMin`; the library's induction theorems
take operators), from what one packet does (`HandledTells`, `HandledStream`). `Teardown` adds that a
step of the worker never takes the last owner.

**Bridges and logins.** Assumed: `ForwardAssumption` (a finite set of clients, a natural limit and
positive room, loads of natural numbers) and `LoginAssumption`. Both invariants are of the
form "every variable is a function, and this holds of each client (or login)"; the lemma
`OneClient` (`OneLogin`) reduces a step to the one it is of, because it leaves the others'
part alone (`Elsewhere`). `Client` is: what was sent is in the socket, the buffer, or with the channel, and a
pump that reports the end has nothing left (`Upload`); what the destination sent is somewhere, but for
what a client that left would not read (`Download`); and which parts of a connection exist in which
phase (`Course`; `ForwardSound` alone does not say that a connection being served holds a place
of the limit, nor that a bridge that ends has dropped its channel). `Owner` counts the
clients served, by cardinality. A login's `Entry` is: past the host key its status is
`ok` or the key was agreed to (`Trusts`), and the attempts of the present question were counted
(`Prompts`). `FailsForCause` stays with TLC. That no descriptor of anybody else is shut down
needs that each has one holder (`Distinct`), and that the bridge knows its number only while
its client holds it (in `Course`): `ShutsItsOwn`.

**Left to TLC.** Liveness is beyond the prover: `GivenUpEnds`, the ending half of `RequestsEnd`,
`CancelEnds`, `Ends`, `StopCloses`, `PartsEnd`, `DesktopEnds`. `MacrosExact` and Telnet's `BytesExact`
compare recursive readings of a text and would need an induction like that of `After` over
each. The other safety properties, of the terminal line, the sessions of an SMB server,
Telnet, and the editor of connections, are model-checked only.

## Not modelled

- What is left of the modelled components is in their notes in `PROJECT.json` and in
  *Not modelled* above: WebDAV's PROPFIND, MOVE, DELETE and MKCOL, `run_local` with its child
  process, the start control of X/YMODEM, the encoder's shift state, the chain of SSH gateways,
  the layout and resize of the grid, links, titles and log.
- **SFTP**: its calls run one by one on the worker of the shared SSH transport, whose queue,
  cancellation and end `SshTransport` models; what libssh does with the answers is external.
- **TCP and serial transports**: one system call per operation; `TerminalConnection` takes
  their results as inputs.
- **Text sending**: the runner paces pieces of a text; the service it runs in is an operation
  of `TerminalConnection` and `TerminalRuntime`.
- **Serial devices**, **IP scanner**: lists that are read again; nothing depends on their order.
- **File transfer window**, **settings widget**, **painting**: GTK layout, drawing and dialogs. The
  decisions they hand on are inputs of `FileTransfer`, `Settings` and `TerminalRuntime`.
- Cryptography and the verification of certificates belong to OpenSSL and libssh. `cardio`, `libxyzm`
  and `boxrig` are submodules without source here; what the code relies on of them is
  modelled where it is used.

## Plan

By what a user can lose: the rest of `FileTransfer` (rename, create and delete requests of the
window) and of WebDAV; `run_local`; the chain of SSH gateways, which composes `SshTransport`
with itself.
