# TLA+ specifications of the ublox-cellular driver

These modules specify the control logic of the `ublox-cellular` crate
(`ublox-cellular/src`): a blocking, single-threaded driver for u-blox cellular
modems. It switches the modem on, configures it, waits for network
registration, activates a data context and offers TCP and UDP sockets, all over
AT commands on a serial line. TLC checks the modules on small instances; TLAPS
proves the main safety results for all values of the constants.

## 1. Inventory

| Part | State | Operations | Meets the others through |
|---|---|---|---|
| Device (`client.rs`) | `state`, `power_state`, `sockets` | `initialize`, `setup_at_commands`, `spin`, `process_events`, `send_at`, socket storage | calls everything below; owns one of two URC subscriptions |
| Power (`power.rs`) | pins, `power_state` | `power_on`, `hard_reset`, `soft_reset`, `soft_power_off`, `hard_power_off`, `factory_reset`, `power_state` | called by `initialize`, `setup_at_commands`, `process_events` and the application |
| AT transmitter (`network.rs`, `AtTx`) | `consecutive_timeouts`, URC subscription | `send`, `send_ignore_timeout`, `handle_urc` | every command of every part |
| Registration (`network.rs`, `registration.rs`) | `conn_state`, three statuses, three instants, intervention counter | `process_events`, `check_registration_state`, `intervene_registration`, `check_running_imsi`, `update_registration` | decides `spin`'s result; its timeout makes Device reset the modem |
| Data context (`services/data/mod.rs`) | `context_state` | `data_service`, `define_context`, `connect`, `attach_network`, `activate_context(_upsd)` | `context_state` is also written by `handle_urc`, `spin` and `setup_at_commands` |
| Sockets (`tcp_stack.rs`, `udp_stack.rs`, `socket_ingress_all`, socket storage of `client.rs`) | SocketSet: state, `available_data`, `rx_buffer` per socket | `socket`, `connect`, `send`, `receive`, `close`, ingress, `set_socket_storage`, `take_socket_storage`, `clear_buffers` | socket URCs read by Device, pruned by `clear_buffers` |
| Hex decoding (`hex.rs`) | the buffer | `from_hex` | ingress |
| SSL (`ssl.rs`) | none in the driver; certificates and profiles in the module | `import_certificate`, `import_root_ca`, `import_private_key`, `enable_ssl` | DataService; `connect` of TCP uses profile 0 |
| DNS (`dns.rs`) | none | `get_host_by_name`, `get_host_by_address` | DataService; shares the AT line with the binary writes of the sockets |
| AT command definitions (`command/`) | none | declarations for `atat` | everything |

What makes this code hard:

* **Interleaving.** The driver is one thread, but the modem, the network and the
  ingress thread that fills the URC channel act between any two commands; every
  command sent with `check_urc = true` first handles one URC, which may rewrite
  `context_state` in the middle of a function that has just set it.
* **Lost messages.** The URC channel holds three messages for two subscribers;
  replies time out although the command took effect.
* **Failures half way.** Every `?` leaves the state it has; `spin` runs
  `process_events` although `initialize` failed. A binary write or an import takes
  two commands; one that breaks off between them leaves the module waiting for
  data, and the next commands, of whatever call, are that data.
* **Resets.** The modem dies, reboots or is reset by the driver; queued URCs and
  cached state survive it.
* **Time.** Sticky statuses, back-off, check intervals and a timeout that resets
  the modem, all relative to instants that other code restarts.
* **Two tables.** The SocketSet and the module's sockets are freed on their own,
  and the module reuses socket numbers.

Each part is correct when: a DataService implies a ready device and an active
context; a device believed ready talks to a configured module; a context is
defined again after a reconfiguration; a dead modem is noticed; the loop
recovers from everything once the world behaves; interventions and resets are
not premature; TCP bytes arrive once, in order and complete; success of `send`
means that everything was accepted, by the right connection and with nothing in
between; an import or a profile reported as done is complete. `PROJECT.json` lists
the hazards with their lines.

## 2. Modules

| Module | Models | Checked by |
|---|---|---|
| `ConnectionFsm` | abstract promise of the registration logic: Disconnected until brought up; then Connected exactly when it was found registered, else Connecting | refined by `Registration` and by `Device` |
| `ByteStream` | abstract promise of reading from TCP: under each number one stream, which reading only extends, by the bytes that come next, and which is taken back only with its socket | refined by `Sockets` |
| `Device` | control loop, power, AT transmitter, URC handling, data context | `MCDevice`, `DeviceProofs`, `DeviceContextProofs` |
| `Registration` | registration with time | `MCRegistration`, `RegistrationProofs` |
| `Sockets` | both stacks, ingress, socket URCs, socket storage | `MCSockets`, `SocketsProofs` |
| `DataCommands` | `send` of both stacks command by command, the DNS calls, and the module's prompt they share | `MCDataCommands`, `DataCommandsProofs` |
| `Ssl` | certificate imports, profile set-up, the module's prompt for data | `MCSsl`, `SslProofs` |
| `HexDecode` | in-place decoding, one loop iteration per step | `MCHexDecode`, `HexDecodeProofs` |

**Device.** `pc` is the command whose reply the driver waits for (or a group of
commands sent without looking at URCs). One step takes the reply, runs the code
up to the next command and issues it, `handle_urc` included where the code
passes `check_urc = true` (`UrcChecked`). `call` is the API call being served,
`res` the result held meanwhile, as in `spin`, which keeps the result of
`initialize` across `process_events`. Replies are "ok", "error" and "timeout"; a
command that timed out may or may not have taken effect (`Obey`). `configured`,
`pdp` and `psd` are the modem's own state; `calm` becomes true at some unknown
moment and stays so; `defined` and `lost` are history variables. The URC channel
is a queue of what AtTx has not read and a count of what Device has not read;
it is full when either is. Registration is reduced to `conn_state` and
`registered`; when interventions are due is left open here.

**Registration.** An `Instant` is its age in ticks, `None` is `NoTime`. `pc`
names the commands waited for; `Tick` may happen at any moment. `sticky` stands
for `updated != started`. After a reset for a timeout (`pc = "down"`) either
`initialize` gets as far as AT+CFUN=1 and starts over, or it fails before
(`InitializeFails`) and `spin` goes on with the old clock. `imsi_check_time` is left out: the IMSI
query it times has no effect on registration, and Device sends it at any time.
`since_forget` and `since_conn` are history.

**Sockets.** Bytes are numbered per connection, sockets per incarnation. A slot of
the SocketSet is looked up by number only, as in the code. Polling intervals and
the timeout of a closed socket are left open. A socket URC may be lost at any moment,
since other URCs and the other subscriber fill the channel too. `HexMode` is
`Config::HEX_MODE`: it decides in how many characters the module hands bytes over
(`ReplyChars`), while the code always expects pairs of hex digits (`Decodes`); what
decoding makes of them is module `HexDecode`. A reply that does not decode has
consumed its bytes, as one that is lost. SocketSet (crate `ublox-sockets`) is
external: modelled from its use. Device may hold no set (`stored`): then socket URCs
stay in the channel and a DataService begins without ingress. `SetSocketStorage` and
`ClearBuffers` prune the set while the module's sockets live on, so that the module
may hold sockets that no slot stands for, and may give their numbers again. A binary
write is one step here; `accepted` and `takers` are history: how many bytes of the
buffer were accepted, and by which incarnations. `StreamView` shows the set as the
abstract `ByteStream`: per number the incarnation in the slot, the bytes read from it
and whether a reply with bytes was lost (`gap`).

**DataCommands.** The same write, one step per command, over connected sockets.
After AT+USOWR or AT+USOST the module waits for `need` bytes for socket `target` and
takes whatever comes, `dirty` if it was not the announced chunk alone. A call that
gives up at the prompt leaves it open for the next call: a send on another socket,
a DNS query, or any other command (`other`); `target = Import` is a prompt left by
module `Ssl`. A length in the reply that ends a write is compared by the code
(`Written`), its content is not. Of a DNS reply only matters whether it has a text and
whether that parses as an address; the module may report anything. `inherited` (a
prompt was open when the call began), `sent`, `spoiled`, `garbled` and `failed` are
history.

**Ssl.** One step per command; a `?` ends the call. After `AT+USECMNG=0` the module
waits for `need` bytes and takes anything it is sent for them; how many of them a
command line uses up is left open. `NoResponse` accepts any final OK, so the OK that
ends such an import is taken for the OK of the swallowed command. A payload sent to
a module that reads commands is never answered OK. A profile may begin with a cipher
suite that somebody else has chosen. `swallowed` is history. A
restart ends the prompt, keeps the store and may or may not keep the profiles; it
also withdraws what `result` said.

Operators whose comment begins with "Mutant" are deliberate faults: each replaces
the definition below it to show that a property can fail. No specification uses
them.

## 3. Runs

Passing:

| Run | Bounds | Shows |
|---|---|---|
| `DeviceSafety` | all pins, 3GPP activation with a PSD profile; limit 2, counter 0..3, 2 attach polls, channel of 2 | `TypeOK`, `ServiceReady`, `ConfiguredWhenReady`, `ContextTruth` with resets, power-offs and an application that reads URCs itself |
| `DeviceManual` | RESET_N only, AT+UPSD with 2 parameters; limit 1, counter 0..2, channel of 1 | `ServiceReady`, `ConnectionPromise` (refinement) and `PowerOnReturns` with every public operation in any order |
| `DeviceLiveness` | all pins, no PSD profile; limit 1, channel of 1 | `ContextRedefined`, `DeadModemIsReset`, `ServiceEventually`, `UrcsKeepFlowing` |
| `Registration` | interval 1, sticky unit 1, timeout 3, counter 1..2 | `TypeOK`, `BackOff`, `TimeoutEarned`, `Implements` (refinement), `ConnectingEnds` |
| `SocketsStream` | 1 number, 2 incarnations, 3 bytes, buffer 2, chunks of 2, sends of 3; hex mode; sets stored, taken and pruned at any time (`SocketsProofs` has any number) | `TypeOK`, `StreamIntact`, `SendComplete`, `StreamPromise` (refinement), `DataIsDelivered` |
| `Ssl` | 1 profile, 1 name per type, contents of 1 and 2 bytes, 1 host with and without SNI, another cipher suite chosen before or not (`EnableIsExact` is proved for any number) | `TypeOK`, `ImportedWhole`, `NoDanglingReference`, `EnabledExactly`, `RetryCures` |
| `DataCommands` | 2 TCP and 1 UDP socket, chunks of 3, buffers of 0, 2, 3 and 7 bytes | `TypeOK`, `SendIsWhole`, `PrefixOnly`, `GarbledWasReported`, `RetrySends` |
| `HexDecode` | up to 4 characters | `DecodesArgument` |

The limits are small copies of the code's constants (10 timeouts, 255, 10 polls,
capacity 3, 15 and 180 s, 256 and 1024 bytes). Each is large enough for the value
below, at and above the limit to occur: the counters saturate, a poll is retried
and gives up, the channel fills with one URC or two in flight, a third byte finds
the buffer full, a buffer of three needs a second, shorter chunk, two
interventions fit into one registration timeout, the second incarnation
reuses the number of the first socket, a content of two bytes can be swallowed
in part, as a whole, or by a payload of another length, and a buffer of seven bytes
needs two whole chunks and a rest, the prompt of each of which another socket's call
can inherit.

Runs that are expected to fail state a comment of the code, and TLC finds the
behaviour that contradicts it:

| Run | The comment | What happens |
|---|---|---|
| `DeviceStaleUp` | data/mod.rs:203 | a queued +UUPSDA from before a reset makes the context Active: a DataService without data |
| `DeviceFactory` | client.rs:401 | after `factory_reset` the device believes in a configuration that is gone |
| `RegistrationLateReset` | network.rs:246 | the modem is reset in the call that read its registration |
| `SocketsMissedUrc` | data/mod.rs:528 | a dead socket with stale `available_data` is never noticed |

`DeviceSafety` checks `ContextTruth` without successful +UUPSDA reports: with
them it fails, which is what `DeviceStaleUp` shows. `ConfiguredWhenReady` is
checked for applications that leave `power_on`, `factory_reset` and
`setup_at_commands` to the driver: `DeviceFactory` shows why. `PowerOnReturns` needs
the board of `DeviceManual`: with PWR_ON `power_on` never calls `hard_reset`.

The models also have these behaviours, for which no run is kept:

* A queued +UUPSDD that is read after a reset turns Setup into Activating
  (network.rs:490), so that `define_context` is skipped, although client.rs:202 says
  that the context is set up again. `ContextRedefined` is checked for modules
  without a PSD profile, which have no such report to send (`DeviceLiveness`).
* With `Config::HEX_MODE = false` `setup_at_commands` turns the module's hex mode off
  (client.rs:284), while `socket_ingress_all` decodes hex all the same
  (data/mod.rs:606): every read ends in BadLength with its bytes consumed, and no byte
  ever reaches the application. `DataIsDelivered` is checked with `HexMode = TRUE`, the
  default, and is false with FALSE; the theorems of `SocketsProofs` hold for both.
* After a reset for a registration timeout `initialize` may fail with `power_state`
  already On (client.rs:411-417). `spin` then still calls `process_events`
  (client.rs:179), whose clock has not been restarted: the modem is reset again at the
  next check, after 15 s and not after REGISTRATION_TIMEOUT. `TimeoutEarned` measures
  from the last bring-up and allows this.
* On a board without PWR_ON, `power_on` and `hard_reset` call each other without end
  while the module is off (power.rs:122, 156), since nothing switches it on.
  `PowerOnReturns` excepts exactly this.
* After a send that gave up at the prompt, the commands of the next calls go to the
  peer as data (tcp_stack.rs:131). `GarbledWasReported` says what remains true: the
  socket is one whose `send` returned an error. The next `send` may be such a call:
  `PrefixOnly` then says that no byte of its own buffer was written. The name a DNS
  query returns after such a send may be the text of that send's reply (dns.rs:28); an
  address cannot, since it is parsed. Beyond that nothing in the answer tells the
  driver to which question it belongs.
* `spin` returns Ok on statuses that the periodic check of the same call has just
  replaced by unregistered ones (data/mod.rs:164: "At this point we WILL be
  registered on the network!").
* `send_at` after `hard_reset` goes to a rebooted module, since `hard_reset`
  leaves `Device.state` alone (client.rs:324).
* Without a socket set nobody reads the subscription of Device
  (`handle_urc_internal`, client.rs:533): the channel fills up and stays full, and
  every later URC is lost, although `spin` "processes URCs" (client.rs:171).
  `UrcsKeepFlowing` is therefore stated for devices with sockets.
* `enable_ssl` after a broken-off import may return Ok although the module took one
  of its commands for certificate data; `EnabledExactly` excludes these calls, and
  `ImportedWhole` needs no such exclusion, since the payload of an import cannot be
  taken for a command.
* `connect` of TCP enables profile 0 whatever profile was set up (tcp_stack.rs:69).
* Registering does not clear `imsi_check_time`, and nothing reads `check_imsi`
  (network.rs:206).
* A late +UUSOCL closes the slot of the next socket with the same number; and a
  number that the module reuses while its old slot is kept is refused by `add`,
  after which nobody closes the module's new socket.

`CHECK_DEADLOCK FALSE` is used only by `HexDecode`, whose function returns.

### Fairness

`Device!FairSpec`: the driver thread runs (WF on `Driver`; every command has a
timeout); the application calls `data_service` again and again, as its
documentation demands ("must be called periodically in a loop"), and drops the
service it got; time passes, so that the periodic check comes due (SF on
`CheckDue`, since rounds in which it is not due come in between). Nothing is
assumed of the modem except `calm`, which appears only as a premise:
`DeadModemIsReset` holds without it. `DeviceManual` has `DriverSpec`, the first of
these only: `PowerOnReturns` depends on no call of the application.

`Registration!FairSpec`: `process_events` is called and time passes.

`Sockets!FairSpec`: the driver runs; the application asks for a DataService again and
again while a set is stored (SF, since it may be taken away in between) and drops it,
but not for ever before it has read what a socket has (SF on `Receive`); a poll that
comes due again and again is made (SF on `IngressPoll`; its interval is finite).

`Ssl!FairSpec`: a call that began goes on (every command has a timeout), and the
line becomes reliable at some time. That the application imports again and again is
the premise of `RetryCures`, not a fairness condition. `DataCommands!FairSpec` and
`RetrySends` are of the same kind.

## 4. Proofs

All proofs are checked by `tlapm`; constants are arbitrary within the named
assumptions.

`DeviceProofs`
* `TypeCorrect`: `TypeOK` is inductive; the work is in the counter, bounded by
  `Sat`, and in the queue, bounded by `ChannelFull`.
* `ServiceIsReady`: `ServiceReady` alone is not inductive: between `spin`'s test
  and the hand-over the driver passes through `define_context`, and only the
  result kept in `res` tells whether a service follows. The invariant adds that
  fact for those labels.
* `ConfiguredThroughout`: needs for every label of `initialize` what has been
  established so far, and that a reset in progress has set `power_state` to Off.
  It assumes that the application does not itself call `power_on`, `factory_reset`
  or `setup_at_commands` (`Intrusive`): `DeviceFactory` shows that the assumption
  is needed.
* `DeviceConnects`: every step of Device is a step of `ConnectionFsm` or leaves
  its variables alone.

`DeviceContextProofs`
* `ContextIsTrue`: `ContextTruth` speaks of the time in which the application holds
  a service. The invariant speaks of every state: an Active context is up, or
  the driver is going to notice that it is not (`Noticed`): by a +UUPSDD still in
  the queue, by a reset it has decided on or noted in `power_state`, or because
  `spin` demotes an Active context that is not online. Every place that takes the
  context down has to leave one of these behind, and every place that takes one away
  has to demote the context first. `FailedSpin` is the case that is easily missed: a
  `spin` whose `initialize` failed demotes nothing. There are three assumptions. No
  successful +UUPSDA is reported (`DeviceStaleUp` shows why). The application does
  not call `power_on` or `factory_reset`, which reboot the module without noting it
  in `power_state`. And the module has PSD profiles, or is one activated by AT+UPSD:
  any other module reports a lost context by +CGEV only, which `handle_urc` ignores.
* `ContextIsRedefined`: for modules without a PSD profile, a context that is past
  Setup has been defined since the last configuration. The work is to show that no
  +UUPSDD is ever queued, since reading one replaces Setup by Activating.

`RegistrationProofs`: `TypeCorrect`, `BackOffHolds`, `TimeoutIsEarned` and
`RegistrationImplements` from one invariant: no status is older than the moment
all were forgotten (`StatusesRecent`), `reg_start_time` never runs ahead of
`since_conn` while Connecting (`ClockHonest`), and `TimeoutEarned` itself. The
back-off follows from the first: a status that has been sticky for n units was
set after the last reset.

`HexDecodeProofs`: `InPlaceIsSafe` for every alphabet and length. The invariant
says that the characters from 2i on are still the argument's, which needs
2i >= i and nothing else.

`SslProofs`: `TypeCorrect`, `ImportIsWhole`, `NothingDangles` and `EnableIsExact`
from one invariant. `ImportedWhole` speaks of finished calls only; what carries it
through a call is `AwaitsPayload` (before the payload is sent the module waits for
exactly it, or for nothing) and `StoredFirst` (before the reference is set the
content is there). `TakenKeeps` is the heart of it: a swallowed command keeps the
invariant even if its OK is believed. `SetSoFar` does the same for `enable_ssl`.

`SocketsProofs`: `TypeCorrect`, `StreamStaysIntact` and `SendIsComplete` for any set
of numbers and all sizes. The invariant is a statement about one number
(`NumberInv`), so that a step needs an argument for the number it touches only
(`OneNumber`). `StreamIntact` is not inductive by itself: when a number is given
again, a slot of the old socket must not read from the new one. Either the slot
agrees with the module's socket byte for byte (`Current`) or the module's socket is
another one that is not connected and has no bytes (`Frozen`); and when a slot and
the module's socket are both connected they are one connection (`SameConnection`),
which is also what `SendComplete` needs. `Sending` carries the sum of accepted and
remaining bytes through a send.
`SocketsKeepPromise` is the refinement of `ByteStream`, which is about steps where
`StreamIntact` is about states: `socket` renews a number with an incarnation that
never was (`created` + 1), `connect` finds a socket nobody has read from, `receive`
extends what was read by what the buffer holds, which `Ordered` makes the next bytes,
a lost reply is the only step that ends wholeness, and nothing else touches a stream
except by giving its number up.

`DataCommandsProofs`: `TypeCorrect`, `SendWhole`, `SendPrefix` and `GarbageReported`
from one invariant. `AwaitsChunk`: before its data is sent, the module
waits for exactly this chunk for this socket, or for nothing; `WrittenSoFar`: what
the peer got and what is left make up the buffer, and only before its first chunk can
a send meet a prompt that is not its own; `PromptOwned`: an open prompt
belongs to a running send or to a socket whose send failed. The case that takes
work is a prompt left open by an earlier call on the same socket.

Only model-checked: the liveness properties (`DeadModemIsReset`, `ServiceEventually`,
`PowerOnReturns`, `UrcsKeepFlowing`, `ConnectingEnds`, `DataIsDelivered`, `RetryCures`,
`RetrySends`), since TLAPS has no rules for fairness here. Every invariant and every
refinement of the passing runs is also a theorem.

## 5. Not modelled

* A modem that reboots by itself and answers at once: the driver has no means to
  notice, so no property of this kind can hold.
* The +UUPSDD that the driver's own AT+CFUN=0 may cause.
* The stack of `power_on` and `hard_reset` calling each other: the model has the loop,
  not its depth.
* Hex replies mangled on the line (InvalidHex, WrongSocketType) are not told apart from
  lost ones: their bytes are gone too.
* A hung module on a board without RESET_N: nothing power-cycles it.
* Late replies inside `atat`: a reply that arrives after its timeout is taken to
  be discarded. `A::ATTEMPTS` is 1 for every command (the default, and the value
  of every command that names one).
* The bytes of a TCP read whose reply is lost are gone; `StreamIntact` excludes
  exactly this hole (`gap`).
* Sockets never connected, which `should_update_available_data` does not poll.
* Limits that the derived serialisation of `atat` decides: UDP chunks of 1024 bytes
  against the 512 bytes of `UDPSendToDataBinary`, names longer than 128 bytes. What
  happens beyond them is in code that is not part of the repository.
* Lengths of names and passwords, formatting, parsing, logging, pulse lengths, APN and credentials.
* AT+UMWI of `initialize`, sent by toby-r2 builds only: it fails and counts like the
  AT+CTZU that follows it.
* The remaining command definitions (`command/`): declarations without control; those
  the driver's logic depends on are modelled where they are sent. The examples.

Assumed of the module: it gives a free socket number to the next socket, and frees
a number when it reports +UUSOCL.

## 6. Plan

Done: `Device`, `Registration`, `Sockets`, `DataCommands`, `Ssl`, `HexDecode`, the
two abstract promises (`ConnectionFsm`, `ByteStream`) and the theorems above. Left:

* Composition of `Device` and `Registration`. Device already allows an
  intervention at every moment at which the composition would, so its safety
  results carry over; what the composition adds is liveness under a timeout that is
  tied to the clock.
