# power-manifold: a verification development

TLA+ modules, TLC runs and TLAPS proofs about the firmware of power-manifold, a
six-slot USB-PD charger chassis. Everything here is translated from the C
source under `firmware/`; paths below are relative to the repository, and
`engine/` stands for `firmware/controller/src/engine/`.

## The system

The **controller** (`firmware/controller/src`, an RP2350) has two cores. Core 1
runs the *engine*: it owns the backplane's I2C bus, on which a multiplexer
(TCA9548A) leads to six slots and an expander (TCA9539) drives one enable line
(EN) per slot and reads the presence lines. Core 0 runs everything else: settings in
flash, network, command line, updates. The cores share two queues and a
telemetry snapshot. A slot may hold a **blade**: generation 2 (an MPQ4242 the
controller programs) or generation 3 (`firmware/charger-module/src`, an
STM32G071 with its own firmware and a ROM bootloader the controller drives).
A blade serves one USB-PD device, its *sink*.

| Component | State it keeps | Operations | Interacts by | What makes it correct |
|---|---|---|---|---|
| power budget (`engine/budget.c`) | six reservations, the total | reserve on request, force, release, set total | calls from the port state machine | requests fit the total; nothing leaks |
| port state machine (`engine/port_fsm.c`) | `port_ctx_t` of each slot, `loader_port` | tick, commands, alert sweep, boot inventory | writes blades and EN; sheds other ports | power kept, limits followed, priority order, dark means dark |
| engine loop (`engine/engine.c`) | presence, ceiling, budget, clock | commands, sweep, presence, ticks, restart | queues from core 0, I2C | a restart or a bad read cuts nobody |
| expander and multiplexer (`engine/tca95*.c`) | cached outputs, open channel | select, set EN, read inputs, recover | I2C | the cache agrees with the chip |
| blade drivers (`engine/blade*.c`, `mpq4242.c`) | none | detect, configure, adopt, limits, status, to bootloader | I2C | |
| blade programming (`engine/blade_update.c`, `stboot.c`) | phase and chunk of each trip | erase, write, verify, start | I2C with the ROM | an interrupted write is recognised |
| queues, snapshot (`ipc.c`) | two rings, a sequence lock | push, pop, publish, read | both cores | no torn read; what is dropped is sent again |
| power cap (`bus_cap.c`, `vin.c`) | cap on or off, filtered voltage | sample, hysteresis, command | queue to core 1 | the cap arrives |
| management loop (`main.c`, `health.c`) | trial deadline, health | poll, events, commit or revert, watchdog | everything | a bad image never commits |
| controller update (`flash_map.c`, `update*.c`, `net/ota_pull.c`) | slots, stream state | begin, chunk, verify, commit, revert | flash, both cores | there is always an image to boot |
| fault log, log ring (`fault_log.c`, `log_ring.c`) | ring of flash pages / of lines | append, iterate, read by sequence | flash | numbering, order, loss known |
| settings (`settings*.c`) | RAM copy, two flash copies | load, save, migrate | every task of core 0 | an interrupted save keeps one copy |
| blade supervisor (`charger-module/src/supervisor.c`) | watch timer, trips, limits, state | sample, apply, trip, clear, leave | register map, PD stack | a trip holds; the watch cuts nobody who runs |
| blade register map (`regmap.c`) | registers, transaction state | start, read, write, stop | I2C interrupt against main loop | multi-byte writes are whole |
| fans, LEDs, button | levels, presses | poll | engine and core 0 | |
| MQTT client (`net/mqtt.c`) | link state, discovery index, publishes in flight | poll, callbacks, reconnect | lwIP, settings | the link follows the settings; the broker knows every entity |
| web server (`net/http.c`) | connections, shared buffers | accept, receive, sent, poll | lwIP, main loop, settings, update | answers are whole; idle slots are found |
| certificates (`net/https.c`) | generations with reference counts, two flash copies | install, remove, start | web server, flash | what was installed serves and is found again |
| provisioning (`net/improv.c`, `net.c`) | window, request, attempt, notifications | poll, BTstack callbacks | radio, settings | what is reported joined is joined |
| Ethernet (`net/eth.c`, `w6100.c`) | ring pointers, interrupt mask | handler, worker, send, link poll | SPI, lwIP | no frame is forgotten |
| command line, simulator, web page, update proxy, vendored Monocypher, hardware files | | | | not part of the core logic |

The hard parts are the interleaving of six port state machines that take power
from each other inside one another's ticks; the controller restarting around
blades that run; network callbacks that interrupt the main loop between any two of
its steps; flash that is written in two operations and a power that goes between them; partial failure on one shared bus; a bootloader conversation
that only one port may have; and the lateness of what a sink reports.
`PROJECT.json` lists each hazard at its line, with the properties that
would notice it going wrong.

## Modules

| Module | Models |
|---|---|
| `Budget` | `engine/budget.c`: the account as operators over a function of reservations |
| `PortFsm` | `engine/port_fsm.c`, with what it sees of the drivers and the blades |
| `Chassis` | `engine/engine.c`: the loop around the state machines, restarts, presence, core 0's commands, the blades and sinks; the properties |
| `ChassisLive` | `Chassis` under fairness, and what must happen |
| `BladeLoader` | `engine/blade_update.c`, `stboot.c`: a blade's trip through its ROM bootloader, command by command |
| `Backplane` | `tca9539.c`, `tca9548a.c` and what `engine.c` does about them: enable lines, channels, starts and recoveries |
| `Pdo` | `pdo.c` of the blade: the table a port offers and what a request in it is granted |
| `Blade` | the blade's firmware: `supervisor.c`, `power.c`, `port.c`, `regmap.c` and the callbacks of the USB-PD stack |
| `Snapshot` | the sequence lock of `ipc.c`, statement by statement |
| `MainLoop` | `main.c` around the queues of `ipc.c`: the power cap, LEDs, port commands, events, the surfaces that send them |
| `Update` | an image for the controller: `update.c`, `ota_pull.c`, `update_check.c`, `update_auto.c`, `flash_map.c`, the trial in `main.c` |
| `DurableRecord` | abstract: a value that restarts find and that a save changes in one step |
| `SettingsStore` | `settings.c`, `settings_hw_pico.c`: implements `DurableRecord` |
| `FaultLog` | `fault_log.c`: a ring of flash pages |
| `LogShip` | `log_ring.c`, `log_sink.c`: printed lines on their way to syslog |
| `Fan` | `engine/fan_policy.c` on a clock that wraps |
| `Mqtt` | `net/mqtt.c`: the link, discovery, publishes in flight |
| `Web` | `net/http.c`, `https.c`: connections, shared buffers, certificates; the console batch of `cli.c` |
| `Setup` | `net/improv.c`, `net.c`: Wi-Fi provisioned over Bluetooth, and the doors for the first API token |
| `Wired` | `net/eth.c`, `w6100.c`: frames through the Ethernet chip |
| `MC*` | constants for TLC, and the modules that are checked together |
| `Chassis_proofs` | the proof of type correctness |
| `Grants_proofs` | the proofs that nothing is granted past the budget |
| `Holding_proofs` | the proofs that what a port holds follows from its state, that the bootloader lock belongs to its user, and that sheds and restores follow the priorities |
| `Storage_proofs` | the proofs that a saved setting is found, a promised one saved and a wiped one gone, and that the store implements `DurableRecord`, and that the fault log lists its newest records |
| `Enable_proofs` | the proofs that a port's enable line follows its state, and that an adopted port's stays on |
| `Blades_proofs` | the proofs that a blade's image is whole and checked, that no blade is enabled by itself, that the right channel is selected, that a clear brings a blade back, that its power path keeps its promises and that a contract stays within the limit |
| `Manage_proofs` | the proofs that there is always a whole image to start, that a whole one runs, that a version rolled back is not installed again, that the link to the broker follows its settings, that every entity is announced to it, that the cap comes before the first port, that a port is noted as it is switched, that no line of the log is lost without being counted and that the fan is held between changes |
| `Net_proofs` | the proofs that answers are whole, that the certificate's configurations are counted right, that an installed one stays, that no frame waits in the Ethernet chip unseen, that its ring is read frame by frame and that the network reported as joined is the one asked for |

Interaction inside a module is modelled step by step. Between modules the seams
are: `PortFsm` sees a trip of `BladeLoader` as a wait with two ends; `Chassis`
takes what `MainLoop` sends as any command at any time; `Web` answers what
`Update`, `MainLoop` and `Setup` decide with a short answer; `SettingsStore`
takes any change from a callback; `Chassis` takes each selection and each enable write as one that
takes or fails, where `Backplane` has the parts with their registers. `MCStorage`, `MCBlades`, `MCManage` and
`MCWeb` check several modules in one run: a variable `subject`, chosen once, says
which of them a behaviour is about, so that their states add up instead of multiplying.

### How the state corresponds

**Chassis.** `ctx[i]` is `ctx[i]` of the C file with its fields; times became facts:
`cooling` is a cooldown that has been set, `switching` a mode change whose
window is open (`grace`: that is still to be timed), `slot` and `hour` the boot
slots, `renegotiating` the wait for a sink. `reserved` is `budget.c`'s array,
`en` the expander's cached outputs, `mux` the open channel, `present` the
engine's view of the lines and `seated` the truth. `offer[i]` is what the blade
in slot i has been programmed to offer (`w` the power limit, `v` the voltage
cap as the power five amperes give under it), `sink[i]` the contract of the
device in it, 0 without one. `total`, `ceiling_w`, `hold_updates`,
`port_limit_w`, `port_max_w` are told by core 0.

The C helpers that run one after the other inside a tick, some of which change
other ports, are operators from a *world* (a record of all that the state
machine writes) to a world, with the C names. A tick is one action: it picks
what the bus does during the call (`BusOutcomes`: which channels can be
selected, whose writes take, whether a command byte or an expander write is
acknowledged) and which deadlines have passed (`Chances`), and puts the last
world in place (`Becomes`). The engine's loop is `turn`: at `Top` it takes
commands, the fault line and the presence lines, then it ticks the slots in order.
Blades, sinks and core 0's stores take their steps between any two of these.

**BladeLoader.** `p` is `update_t`; each tick of `blade_update_tick` sends one
command, which the ROM acknowledges, refuses, is busy with or does not hear,
having carried it out or not. `flash` holds per chunk the old image, the new one or
nothing; the header is chunk 0 and is written last.

**Blade.** `pc` is the place in a pass of the supervisor (`follow` EN, take
`input`, `poll`, `decide`, then one callback of the `stack`). `pw` is the state of
`power.c` together with what it drives: the converter's output enable and
set point, the gate, VBUS, the comparator's threshold. A call of `power.c` is an operator to the set of its
outcomes, each a state and a result, because each transfer on the private bus may fail.
`pw.wrong` collects the broken promises of `power.h`.

**Backplane.** `exp` is the expander's output and direction registers, `open` the multiplexer's channel,
`output_cache` and `current` what the drivers believe of them. `holder` is the device that was cut off while it
sent a byte and holds SDA low: while it can be reached no transfer goes through, until it is clocked free
(`free_data_line`, only in a selection). `core1.at` is the place in a start or a recovery, which writes the two registers
one after the other. `wanted` is history: whose EN was asked for, or adopted by a start.

**MainLoop.** `cmd_q` and `evt_q` are the queues with their depth; a push into a
full one is lost, on either side. Each `if (...) push` of `main.c` is an action that keeps what
the code keeps (`led_level_sent`, `led_flags_sent`); callbacks come between any two when
`net_lock` is not held. Core 1's end takes what is queued in one pass and raises
events, which the rest of the system fills the queue with too (`"other"`). `engine.untold` is history: the ports whose
own AUTO_OFF was refused and that nobody has switched since.

**Update.** `slot` are the two partitions, cell by cell; `up` is `update.c`'s
stream with its owner; `http` and `pull` the two ways an image comes. The boot
ROM's choice, the rollback when the watchdog fires or the power goes, and the trial flag
are external, modelled from how `flash_map.c` uses them. `undone` is history: the versions that were noted and rolled back,
the last one and those before it. A version counts as noted once the note is in flash.

**SettingsStore, FaultLog.** One action per flash operation (erase, program), so that
the power can go or a callback come in between. `sector` and `page` are the flash;
the other variables are the statics of the C files. `kept`, `saved`, `owed`,
`stale` and their like are history and occur in no guard. `owed` is what was promised to be saved later and flash has not
got yet: `"fresh"` before a save takes its copy, `"copied"` from then on until the program of that copy has landed.

**LogShip.** A byte is a character or a newline. **Fan.** One pass per unit of time, a unit
being a fraction of the hold. **Mqtt.** `mq` are the statics of `mqtt.c`, `wire`
the publish in flight, `broker` what it keeps. **Web.** `conns` is `conns[]`, `gens` the
certificate generations with their references; a stream notes which buffer it sends.
**Setup.** `imp` and `ble` are the statics of `improv.c` on both sides of BTstack's
lock; `radio` is the driver. **Wired.** `chip` is the ring with its pointers, the receive
flag and the level of the interrupt; `rx_work` is unfolded into its SPI accesses.

### Abstractions

- Power is in units of the model in `Chassis`, in watts and millivolts in `Blade`
  and `Pdo`. Only comparisons and differences are taken.
- A transfer on the chassis bus is one step of `Backplane` (its interrupt is masked), and a write that is not acknowledged
  may have taken. A part falls back to its power-on state between two passes only: an expander that is reset between the two writes
  of a recovery, or between the read of its configuration and the one of its outputs, is not modelled, and would
  raise its lines. The lines of the high byte, presence, are in `Chassis`.
- Time: a deadline may have passed whenever it is read, except in `Fan`, where the clock
  counts and wraps. More interleavings happen here than in the program, so
  safety carries over; liveness needs the fairness below.
- At `Top` the model of the engine allows any number of commands, presence reads and sweeps, in any
  order; the code does each at most once or a bounded number of times.
- A PD contract is its power in `Chassis`. Temperatures, event texts and telemetry are left
  out, and so are `CMD_PORT_HARD_RESET` and `CMD_PORT_SRC_CAP` there, which pass a PD
  message on and change no state (`Blade` has both).
- Power rails and the wires to the sink do not fail.
- `Blade`: the CC lines, VCONN, temperatures and meters are reduced to what they trigger; the
  policy engine is the vendor's; a blip of EN shorter than a pass is not seen.
- `Mqtt`: a host is set; one labelled entity and two thermometers stand for the entities of a
  port and one entity for the chassis'; the TLS set-ups are those named in the configuration. The
  contents of telemetry and the state topics are left out.
- `MainLoop`: the budget stands for every value that is set and sent once (limits,
  voltages, the fan's mode).
- `Update`: hashes and signatures are what they decide; when the nightly check runs is a choice.
- `Web`: idle time is the number of polls; a listener that cannot be opened and memory that
  runs out at start-up are left out; a checksum is what it was computed over.
- `Setup`: the windows' times are choices; a frame of the protocol is one message.
- `Wired`: addresses and DHCP are left out.
- Bounds named in the modules: `MaxBoots`, `MaxFailed`, `MaxBad`, `MaxFaults`, `MaxSaves`,
  `MaxTrials`, `MaxRecords`, `MaxWrites`, `MaxSeq`, `Publishes`; in `MCBlades`, `MCManage` and `MCWeb`: `OneOffer`, `NoFault`,
  `Apart`, `OneRequest`, `NoTokenYet`. All other quantities are finite by themselves.

## Runs

Twelve configurations. Each constant that is smaller than the product's is
named with the reason it is enough.

| Run | Checks | Bounds |
|---|---|---|
| `budget` | `GrantsFitBudget`, `HoldsByState`, `ShedsDownPriority`, `RestoresTopDown` | 3 ports: a claimant, a victim and a bystander, two of equal priority; total 9 = the bases (2 each) and one large ask (5); asks 2 and 5, so a port sits at its base or wants what only one may have; 835 thousand states |
| `settings` | `NeverGrantsPastBudget`, `BladesFollow` | 2 ports; limits 2 or 5, ceiling none or 4, budget 5 or 8, each changing at any moment; the fault line may be raised at any moment; 549 thousand states |
| `life` | `TypeOK`, `EnableFollows`, `LoaderLock` | 1 port, every generation, blades that want a rewrite, a boot option or (unread) nothing, all commands, faults, silences, failed selections and limit writes; one round, one probe attempt, two silent polls; 190 thousand states |
| `restarts` | `WarmIsOn`, `KeepsPower` | 2 ports, gen 3 and bootloader, one restart from any state, boot policy with and without port 0, flipped presence reads, silences, lost commands |
| `live` | `OwedIsPaid`, `TripsEnd` | two chassis, told apart by their total (two instances of `ChassisLive`): 2 ports over a total of 6, asks 2 and 5; and 2 blades that are never as wanted over a total that never binds, two rounds, a trial image whose commit may come at any time; 57 thousand states |
| `storage` | `SavedIsFound`, `OwedIsMarked`, `WipedIsGone`, `Durable`; `RecentListed` | two values, so that old and new differ; two saves and one trial: a save over a save, on trial and after it; any of save, post and wipe may fail in any operation, a debounced save may not (below). Log: 3 sectors of 2 pages, 7 records: the ring comes round into a sector that holds records; appends and clears fail; 526 thousand states |
| `blades` | `HeaderMeansWhole`, `StartsWhatWasChecked`; `PowerPromises`, `ClearedComesBack`, `ContractWithinLimit`; `RightChannel`, `NoneByItself` | image of 2 pages of 2 chunks: a first page with a header and another; 3 tries, 2 waits, one bad chunk. Firmware: one failed transfer per call, two limits, two cables, one command queued. Bus: 2 blades and the fan, the multiplexer reset at every 2nd miss and the expander at the 3rd, one repeated question at a start; transfers fail, devices fall silent, hold the line or fall back; 197 thousand states |
| `manage` | `FallsBackWhole`, `RunsWhole`, `RolledBackStays`; `CapBeforePorts`, `AdminFollows`; `LinkFollowsSettings`, `EntitiesAnnounced`; `LinesAccounted`; `NoFlap` | images of 2 cells, versions 1 to 3 (older, running, newer and released), one flash fault; command queue of 2, event queue of 1, so that both fill up, also while ports switch themselves off; one port with two labels; a ring of 5 bytes with lines up to 4, so that every write may overtake; 1.5 million states |
| `web` | `StreamsAreWhole`, `CertificatesInUse`, `InstalledIsFound`; `ProvisionedIsJoined`; `InStep`, `NoFrameForgotten` | 2 connections and 2 generations, so that one is in use while another is live; two certificates stored; two networks; a ring of 8 bytes with frames of 3, 4 and 7 (too long); symmetry of connections and of networks (safety only); an API token comes once no client is connected and the door over Wi-Fi is shut; 655 thousand states |
| `reboot` | `RebootKeepsPower`, violated | one blade, transfers that are cut off and nothing else that fails; below |
| `torn_read` | `WholeCopies`, violated | below |
| `dropped_event` | `OnlyVisibility`, violated | 2 ports, an event queue of 1; below |

What the passing runs show:

- **The account.** `GrantsFitBudget`: base reserves are forced into the account
  and may overcommit it, but everything granted *on request* fits the total
  with a base to spare. `NeverGrantsPastBudget`: no step raises a reservation
  above the base unless the whole account fits the total of that moment.
  `HoldsByState`: what a port holds follows from its state and contract, so nothing leaks.
- **Priority.** `ShedsDownPriority`: in another port's tick a port loses watts
  only to a strictly higher priority, keeps its base and remembers its ask.
  `RestoresTopDown`: freed watts above the bases go top down, except to a port whose sink, as last heard, is
  still above its grant (see *Disagreements*).
- **Limits.** `BladesFollow`: after its tick, a powered port that answers is granted no more
  than its setting and the ceiling, and its blade offers no more.
- **Power.** `KeepsPower`: a device that is being charged loses its power only
  by its own or its blade's doing, or by an order. `EnableFollows` and
  `WarmIsOn` relate EN to the state.
- **The bootloader lock.** `LoaderLock`: the one conversation belongs to a port that
  is in it, so no port waits for one that left. `TripsEnd`: every port
  comes back from its trips. `OwedIsPaid`: a port alone gets what it was denied.
- **A blade's image.** `HeaderMeansWhole`: a blade whose header is there has the whole image, wherever
  the writing was cut off. `StartsWhatWasChecked`: what is started has been read back or checksummed.
- **The bus.** `NoneByItself`: no line enables a blade that nobody asked for, though the expander powers up with
  all outputs high, is reset and written in two steps that fail, and restarts come between. `RightChannel`: the channel the driver
  takes for selected is the only one that can be, so nothing reaches another blade; switches that fail after they
  took and resets of the multiplexer by itself included. (After such a reset `tca9548a_select` answers true from its cache and
  no channel is open, so `tca9548a.h`'s "Exclusive" holds and a chassis with one blade misses it until something resets the cache.)
- **A blade's power.** `PowerPromises`: the comparator's threshold covers the output while it
  moves, the switch closes onto 5 V only, and a port that is not on carries nothing even when one
  transfer failed. `ClearedComesBack`: no order of faults and clears leaves a port dark and
  unreported. `ContractWithinLimit`: a settled contract fits the limit and the table of the moment.
- **Settings.** `Durable`: the store implements `DurableRecord`: whatever is interrupted, a start finds the
  last value whose save landed, and a reverted image finds what its own kind saved last.
  `SavedIsFound`: an acknowledged save is found. `OwedIsMarked`: until flash has it, a change that was promised to be
  saved later is marked or with the save that took the mark, though saves of other kinds fail. (If that save itself fails the change is
  neither, see *Met while modelling*; and a restart of any kind ends a promise.) `WipedIsGone`: after a reset nothing older can be found.
- **Fault log.** `RecentListed`: the newest records can be read by number across failures, clears that stop half way and
  restarts, and a port shows the newest of its own.
- **Controller update.** `FallsBackWhole`, `RunsWhole`: at any moment the power may go and a whole image
  starts; no image is a mixture of two transfers. `RolledBackStays`: the version that was rolled back last is not
  installed by itself again (one before it may be, see *Met while modelling*).
- **Core 0 and core 1.** `CapBeforePorts`: on a sagging bus the cap is in force before the first port comes up.
  `AdminFollows`: what is stored of a port is what core 1 will have, whatever the full queues refuse. Only a port whose own AUTO_OFF was refused is left
  out, until it is switched again: that is what `dropped_event` is about.
- **Broker, log, fan.** `LinkFollowsSettings`, `EntitiesAnnounced`, `LinesAccounted` (every printed line is sent, still there
  or counted as lost), `NoFlap`.
- **Web, setup, wire.** `StreamsAreWhole`: no buffer changes under an answer. `CertificatesInUse`: references are exact, so
  nothing is freed in use and nothing is kept. `InstalledIsFound`: the certificate installed last serves and a
  start finds it. `ProvisionedIsJoined`: success is about the new network. `InStep`, `NoFrameForgotten`: the driver stays at frame boundaries and never sleeps on a frame.

Each property has a mutant in `PROJECT.json`: a plausible slip in the code
under which that run finds the property violated. The mutated operators stand beside the
originals, marked `Mutant`.

Deadlock is checked in every run but `torn_read`, whose publishes are bounded.

These definitions are stated, hold or fail as said, and are in no run: the type invariants of the
other modules (`LoaderTypeOK`, `BladeTypeOK`, ...); `TripEnds` under `LoaderFairSpec` of `BladeLoader` (a
trip ends, if the ROM stretches the clock as its protocol says); `CapFollows`, `EngineFollows` of
`MainLoop`, `EverySkipped` of `Update`, `RightHost` of `LogShip`, `SentIsSent` of `Wired` (below).

### Fairness

`ChassisLive` assumes that the loop goes round (core 1 runs nothing else), that
each port again and again has a tick in which its deadlines have passed (all
are milliseconds to seconds against a loop of milliseconds), that presence is
read and the boot slots come, that a sink moves within what it is offered (PD
requires an answer to new capabilities), and that a blade which is sent to its
bootloader again and again gets there in the end. Nothing is assumed of
commands, restarts, the user or the bus. The last assumption is needed:
`send_to_loader` does not count a round when only a rewrite is wanted
(`engine/port_fsm.c:340`), so a blade that ignores the command is sent for ever.
The other modules are checked for safety only.

### Disagreements

Three runs show the code doing what a comment or the documentation excludes.

| Run | What happens |
|---|---|
| `reboot` | a watchdog restart in the middle of a transfer with the expander leaves it holding SDA; the start resets the multiplexer and the I2C block, neither of which clocks it free, takes the silence for a cold start (`engine.c:246`) and resets the expander: every port goes dark, against "never cuts port power" (`architecture.md:194`) and "for any reason and for however long" (`internals.md:223`) |
| `torn_read` | `continue` in the `do ... while (s1 != s2)` of `ipc_snapshot_read` skips to the condition with an `s2` that this pass has not read: a read that meets a publish may return without a copy |
| `dropped_event` | a port switches itself off while the queue of events is full; `emit` does not look whether it was taken, since "dropped events only cost visibility" (`engine/port_fsm.c:169`), but core 0 notes a port off by that event (`main.c:235`): it stays noted as on, and under the "last" boot policy a restart powers it again |

These configurations are beside them, each finding its property violated (`tlc -config X.cfg M`):

| Configuration | Module | What happens |
|---|---|---|
| `MCChassis_wrong_blade` | `MCChassis` | `poll_powered` goes on when the multiplexer could not be switched; the command into the bootloader then reaches another port's blade and its device loses power |
| `MCChassis_boot_read` | `MCChassis` | one failed presence read at a warm start makes the boot inventory take every running port down |
| `MCChassis_warm_disable` | `MCChassis` | a port disabled while it waits for its boot slot after a warm start is shown as off and stays on |
| `MCChassis_lost_write` | `MCChassis` | a limit whose write failed counts as programmed, so the bus-sag cap may not reach a blade |
| `MCChassis_queue` | `MCChassis` | `track_contract` throttles a port again at whatever the headroom has become, without asking who waits with a higher priority |
| `MCChassisLive_recovers` | `MCChassisLive` | a port whose denied ask equals its reservation is never un-throttled |
| `MCFan_hot` | `Fan` | a manual "fan on" whose I2C write fails is noted as done and never tried again (`fan_policy.c:21`), and it switches the temperature rule off: a hot blade stays without the fan (`HotIsCooled`; `fan_policy.h:10`: "overheating is a safety matter that no setting turns off") |
| `MCFan_clock` | `Fan` | the hold is compared as a signed difference (`fan_policy.c:103`): a fan that nothing changed for 24.8 days is not switched on for a hot blade for as long again |
| `MCSetup_join` | `Setup` | `improv.c` restores the credentials in RAM when a join fails; a save that fell due during the attempt has written the refused ones to flash |
| `MCUpdate_refusal` | `Update` | a refused download aborts (`ota_pull.c:82`) the upload that a client has begun in the meantime |
| `MCBlades_offer` | `MCBlades` | a request is read in the new table though the sink has been sent the one before (`port.c:82`; `pdo.h:63` says "against the table last sent") |
| `MCStorage_two_trials` | `MCStorage` | a second trial keeps to a slot of its own choosing, which may hold the record the image before reads (`settings.c:320`) |

Met while modelling, reproduced by the constant that is named:

- With `"disable"` in `restarts`, a port switched off before its adoption keeps `ctx.warm` (`WarmIsOn`); with `"expander"` in `life`, a
  failed expander write in `power_down` leaves EN high (`EnableFollows`).
- With `"unseat"` in `restarts`: a blade pulled while its port waits for its adoption leaves `ctx.warm` set (`power_down`, `port_fsm.c:180`, does not
  clear it), and the next blade in that slot is taken for one that is on: its port reaches `IDLE` with EN low (`EnableFollows`).
- `Update`, `Waivers = {{"unsigned"}}`: a pull that waives the signature takes over the transfer of a stalled HTTP client, which is not dropped (`ota_pull.c` has no such
  call; `http.c:964` has); when it goes on, its cells go into the new transfer, and the mixture is started (`RunsWhole`; `architecture.md:191`: "One transfer at a
  time; a stalled client is dropped after 30 s").
- `Update`, `Factory = 1`, `Pushed = {2, 3}`, `Releases = {4}`, `MaxFaults = 1`: the note of the image about to be installed is lost (`update_check.c:237`) while flash still
  has the mark of the one that runs, since what `update_auto_settle` made of it has not been saved. The boot after the next takes the version that ran
  for one that was rolled back and overwrites `skip`; the one that really was is installed again (`RolledBackStays`; `update_auto.h:16`: "A version
  that restarted and was rolled back is skipped").
- `Update`, `Pulled = {1}`, `Pushed = {3}`, `Releases = {3}`, `Signed = {1, 3}`, `Waivers = {{"downgrade"}}`, `Factory = 2`, no faults: version 3 is rolled back and skipped; then 1,
  pulled from the console as a downgrade, is noted and rolled back too. `update_auto_settle` has one `skip` (`update_check.c:272`), which now names 1, and 3 installs itself again
  (`EverySkipped`; `update_auto.h:16`).
- `SettingsStore`, `"later"` in `SaveFailing`: the poll takes the mark before it saves (`settings.c:386`) and `main.c:298` only says that it failed. The change is in RAM alone then, neither saved nor
  pending, until something else saves (`OwedIsMarked`; `settings.h:159` calls pending "a settings_save_later not yet flushed"). A restart before the save is due, into an update too, loses it as well
  (`settings_load` starts clean).
- `Backplane`: `architecture.md:189` says that five failed reads re-initialise the expander "which drops every EN"; the code resets the multiplexer then, and
  the expander only after fifty, with its outputs restored (`engine.c:96-113`).
- `MainLoop`: a full queue loses the cap (`CapFollows`; `main.c:157`); `Repeats = TRUE`: a level that is changed and
  changed back while the queue is full is not sent (`EngineFollows`; `main.c:171`); `Crosses = TRUE`: an AUTO_OFF event on its way
  when the port is enabled again switches the stored state off (`AdminFollows`; `main.c:236`). Values set by a surface stay set when the command is
  refused.
- `Mqtt`, `MidRun = TRUE`: names changed in the middle of a discovery run leave entities announced under the old ones. A failed acknowledgement of a run's last
  config takes back the wrong index after a restart of the run: with `AtOnce = TRUE` and two ports it does so without `MidRun`, as
  `temp_discovery_check` begins the second port's run while the first one's last config is in flight (`mqtt.c:139`, `mqtt.c:1067`). Clearing the host leaves the link up (`mqtt.c:1260`).
- `SettingsStore`, `MaxTrials = 2` with `OldReadsNewer = FALSE`: a factory reset on trial that the power cuts short leaves a record that
  the old image does not read; the old image counts from nought again and may give a record of its own the same number. A
  second trial reads both: `best_in` takes the first of the two (`settings.c:176`), and its first save after the commit erases that one (`settings.c:319`);
  a power cut then brings back the other (`SavedIsFound`).
- `SettingsStore`, `"migrate"` in `SaveFailing`: a migration that failed under the old image ("failure here loses nothing", `settings.c:396`) is done by
  the new one on trial, which writes its own layout and erases the legacy sectors: a revert finds nothing that it reads
  (`RevertFindsItsRecord`, `Durable`). With `OldReadsNewer = TRUE` a revert finds what the trial saved, by intent (`settings.h:92`): `Durable` is about images that do not.
- `LogShip`, `LateAnswers = TRUE`: the answer of a lookup for the host before is taken as the present one's (`RightHost`; `log_sink.c:98`).
- `Blade`: with voltage ranges in `Takes`, a lower power limit that leaves the ranges alone is not sent to the sink; `Crowds = TRUE`: a clear that finds the queue
  full is lost (`regmap.c:48`).
- `BladeLoader`, `NoStretch = {TRUE}`: a ROM that is always busy keeps a trip going for as long as it lasts (`TripEnds`).
- `Wired`: a late SENDOK counts for the next frame (`SentIsSent`).
- `Web`: HTTPS switched on between the flash erases of `https remove` leaves the setting on with no certificate; an install in
  between is undone; a removal cut short by the power may bring an older copy back. `Preempt` in `MCStorage` names the places of a
  save in which a callback does no harm; in the others a callback's change may be written half or its mark be lost (`settings_save` takes no lock).

The runs that pass leave out exactly these triggers: that is what
`Events`, `Flaky`, `SaveFailing` and the Boolean constants in their configurations say.

Left out of the modules themselves, so that no property says anything about them:

- `Update`: a second pull that a callback begins between the first one's `net_unlock` and its `busy = true` (`ota_pull.c:120-125`): both downloads would
  feed one transfer, and only the image's signature would tell the mixture from an image.
- `Blade`: the promise of `power.h` about forced PWM, and with it the second write of the mode after a descent to 5 V (`power.c:169`), whose failure ends in the
  shutdown that a failure of the first ends in; a sink that repeats the request of its old contract after the table changed (`port.c:82` refuses it,
  and the stack keeps the contract until it is renegotiated); the error recovery of the USB-PD stack (`usbpd_dpm_user.c:261`), which
  lets go of the contract and VBUS.
- `Wired`: a length that is exactly the header's (`w6100.c:243` returns 0 for it, and the worker takes that for an empty ring); the chip writes no such frame.
- `LogShip`: a datagram that is handed to lwIP counts as shipped, whatever becomes of it.

## Proofs

Everything below holds for every value of the constants that satisfies the
assumptions of the module concerned. For `Chassis` these are (`PortsAssumption`: at most the six slots; `BaseAssumption`: a
positive base; `FsmAssumption` and `ChassisAssumption`: settings and asks are
positive and bounded, attempts and rounds at least one, priorities natural).
`Flaky` and `Events` are any sets: unless a theorem says otherwise in a hypothesis, nothing
assumes that a write takes, that a blade answers, or that core 0 leaves a setting alone. A hypothesis stands
in the theorem itself, is the constants' of the runs that pass, and is needed: TLC violates the property without it
(but for the second one of `ContractsStayWithin`).

| Theorem | Property | Runs that check it on an instance |
|---|---|---|
| `TypeCorrect` | `TypeOK` | `life` |
| `GrantsWithinBudget` | `NeverGrantsPastBudget` | `settings` |
| `HeldByState` | `HoldsByState` | `budget` |
| `OneLoader` | `LoaderLock` | `life` |
| `ShedsGoDown` | `ShedsDownPriority` | `budget` |
| `RestoresGoTopDown` | `RestoresTopDown` | `budget` |
| `GrantsStayWithin` | `GrantsFitBudget` | `budget` |
| `LinesFollowStates` | `EnableFollows` | `life` |
| `AdoptedStaysOn` | `WarmIsOn` | `restarts` |
| `HeaderComesLast` | `HeaderMeansWhole` | `blades` |
| `CheckedIsStarted` | `StartsWhatWasChecked` | `blades` |
| `FallbackStands` | `FallsBackWhole` | `manage` |
| `ImagesAreWhole` | `RunsWhole` | `manage` |
| `RolledBackIsSkipped` | `RolledBackStays` | `manage` |
| `ConfigurationsCounted` | `CertificatesInUse` | `web` |
| `InstalledStays` | `InstalledIsFound` | `web` |
| `ReportedIsJoined` | `ProvisionedIsJoined` | `web` |
| `AnswersAreWhole` | `StreamsAreWhole` | `web` |
| `FramesAreSeen` | `NoFrameForgotten` | `web` |
| `ReadsStayInStep` | `InStep` | `web` |
| `LinkIsCurrent` | `LinkFollowsSettings` | `manage` |
| `EveryEntityAnnounced` | `EntitiesAnnounced` | `manage` |
| `CapComesFirst` | `CapBeforePorts` | `manage` |
| `NotedAsSwitched` | `AdminFollows` | `manage` |
| `NoLineUncounted` | `LinesAccounted` | `manage` |
| `HoldsBetweenChanges` | `NoFlap` | `manage` |
| `NoBladeByItself` | `NoneByItself` | `blades` |
| `SelectedIsOpen` | `RightChannel` | `blades` |
| `ClearsComeBack` | `ClearedComesBack` | `blades` |
| `PortKeepsPromises` | `PowerPromises` | `blades` |
| `ContractsStayWithin` | `ContractWithinLimit` | `blades` |
| `WipedStaysGone` | `WipedIsGone` | `storage` |
| `OwedStaysMarked` | `OwedIsMarked` | `storage` |
| `SavedStaysFound` | `SavedIsFound` | `storage` |
| `StoreIsOneRecord` | `Durable` (refinement) | `storage` |
| `NewestAreListed` | `RecentListed` | `storage` |

**`TypeCorrect`** (`Chassis_proofs`). The content is arithmetic and control rather than
types in the C sense: no reservation or contract goes below zero however
sheds, throttles, steps and restores chain inside one tick (the sums over the
slots, the headroom and the shortfall are differences); the bootloader rounds
never pass their limit, which `begin_update` guards and `send_to_loader` does not
guard by itself but by its caller's condition; `mux` and `loader_port` name slots.
`TypeOK` is inductive. One lemma for each helper says it maps a `World` to a
`World` (`throttleType`, `shed_lower_priorityType`, `RecoverType`, ...); generic
lemmas about updating one field of one port's context carry the records; one
lemma for each action says that its `Becomes` is of a helper's result; and the
theorem's induction step is a case for each disjunct of `Next`.

**`GrantsWithinBudget`** (`Grants_proofs`). An action property, proved from `TypeOK`
alone: no invariant of the account is needed, because every path asks the
account of the moment before it grants. The difficulty is that a tick chains
helpers which raise one reservation, lower others and raise again. The proof
classifies what a helper does to the account: `Lower` (no reservation rises),
`Small` (none rises above the base), `Sound` (if one rises above the base, the
whole account fits). `Sound` is not transitive: a sound step followed by one
that raises a base could leave a port granted over a full account. What composes is
`SmallSound` (small, then sound), `SoundLower` (sound, then lower) and
`SoundFits` (anything that ends in a world that fits). So the *order* in which
the code does things inside a tick matters, and the lemmas follow it: a
detached port falls to its base before anything is granted, a shed comes before
the claim, the recovery comes last. `throttle` reserves at least the base whatever the
headroom, and is still sound: what it reserves above the base fits.

**`GrantsStayWithin`** (`Grants_proofs`; hypothesis `BudgetStays`: there is one total to set). The
state property that the action property above amounts to where the budget stays put:
what is granted above the bases, with one base, fits. A lower total takes nothing back by itself (the
sheds of the following ticks do), which is why it needs the hypothesis. It is
inductive with `TypeOK`, by `GrantsWithinBudget`'s lemmas: `Sound` from any account that fits ends in one.

**`LinesFollowStates`** and **`AdoptedStaysOn`** (`Enable_proofs`; hypotheses `ExpanderAnswers`:
the expander takes what is written, and `AdoptsInPeace`: there is no warm restart, or nobody switches a port off or pulls
a blade). A state is
written in one place and its line in another, so the invariant `Lamp` is on the pair, with the two flags that stand
for a line in between: `en_on` in a probe, and `warm`, which a restart sets for a port it found
on. The difficult one is `warm`: it outlives every step but the conclusion of its probe, and only because a port
that has it is seated and enabled and stays so. The lemmas name the port that a handler has
under its hands (`LitBut`): between `set_en` and the change of state it is out of order, and what comes after puts
it right again.

**`HeldByState`** and **`OneLoader`** (`Holding_proofs`). The invariant is
`Well(Now)`: the world has its type, the lock's holder is in `UPDATE`
(`Lock`), and every port holds what its state says (`Holding`). Between two
actions that is all there is to it; the difficulty is that it does not hold
*inside* a handler, where a port's watts and contract are let go before its state
changes, and that `apply_throttle` writes a state without going
through `enter`, which would leave a lock behind if it could ever be called for
a port in its bootloader. So the lemmas speak of `WellBut(s, i)`, a world in
order but for port i, and of `Resting(s, i)` (no contract, the base at most),
which every call that begins a probe or a bootloader trip must have reached
first. `enterWell` and `PutInOrder` are the two places where a port comes back
in order: the first shows that leaving `UPDATE` hands the lock on, the second asks
that the port never held it (`PoweredAway`). Helpers that only write to blades
or note what was heard keep the `Books`.

**`ShedsGoDown`** and **`RestoresGoTopDown`** (`Holding_proofs`). A tick serves one port and leaves every other
as it is (`Aside`, one lemma for each helper), but for `shed_lower_priority`, which reaches into others: whom it takes
from yields (`Yielded`). That the victim remembers more than it is left with is not local: the shed writes
the victim's contract down as what it was denied, and only `HoldsByState` says that its contract is what it held. The
second theorem follows the limit of the port that is served through its tick, from the poll to the recovery:
up to `track_contract` it may rise to what the device asks (`Capped`) and no further, and after that only `Recover` can
raise it, which does nothing while a better port waits, in the world that the shed of this tick has left (`WaitsOn`).

**`HeaderComesLast`** and **`CheckedIsStarted`** (`Blades_proofs`; `LoaderAssumption`: an image of at least one page of at
least one chunk, counts positive). `blade_update.c` writes the first page last, by arithmetic on a counter
(`write_offset`), so that a header that reads as an image stands for a whole one. The proof
has the counter's meaning at every step (`Progress`: what is erased, laid and read back), and the arithmetic as lemmas
about `\div` and the order of writing, for any size of the image: the runs have a few chunks.

**`FallbackStands`** and **`ImagesAreWhole`** (`Manage_proofs`; `UpdateAssumption`; hypothesis `SignedOnly`: the console waives
no signature). The invariant says of the slots that every image that the boot ROM may choose is whole, and so is the one
that runs, on trial or not (`Home`); and of a transfer that it goes to the other slot, whose first
cell stays erased until the end (`Transfer`): that makes a half-written slot invisible whenever the power
goes. That the slot is one whole image at the end is the signature's doing, since two clients may put their
cells into one transfer; without one the images mix (see "Met while modelling").

**`AnswersAreWhole`** (`Net_proofs`; `WebAssumption`: finitely many connections, at
least one configuration, limits in order). The invariant adds to the property
that a free slot holds no buffer (`Good`), so that an accept cannot bring one along, and that
nobody holds the console's transcript between the moment its batch is queued
and the moment it is done (`BatchOwns`): that is why the main loop may write into
it with lwIP's callbacks coming in between. Most handlers are `Tame`, no connection
takes a buffer, and need one lemma; the three that hand one out are taken one by one.

**`ConfigurationsCounted`** (`Net_proofs`). References are counted by hand in
`https.c`, up in an accept and down wherever a connection ends; the theorem says that they
are the *number* of the connections that use the configuration. The invariant is
`GInv`: that count (`Accounted`, with `Cardinality`), that a configuration has its certificate exactly if it is
live or in use (`Held`), and that a copy in flash which decodes names a certificate
(`StoreNames`), without which a start could make an empty one live. `UserComes` and
`UserLeaves` count one up and down; a handler that closes a connection on an
error path keeps the count because `http_conn_free` is the only place that lets go.

**`FramesAreSeen`** (`Net_proofs`). The property speaks of the idle worker only. The
invariant says in addition that the worker is at work, pending or behind an armed line
(`WorkerCalled`), and that in the window after the last look at the ring a frame
raises the line that is about to be armed (`LineTells`): the acknowledge comes before
the ring is read, so what arrives later sets the flag again.

**`InstalledStays`** (`Net_proofs`). The certificate is in three places: in `gens`, in a copy in flash, and in what a start
would choose. The invariant `KInv` says that the sequence numbers order the copies (`Ordered`, also while none is installed:
a removal may leave one behind), that what was installed is in the newer of the two (`Found`) and that it is the live one
with its port as the setting says (`Serves`). A torn write goes to the other copy and decodes as nothing, so the start after
it finds the same one (`BootedKept`). It rests on `GInv`: `conn_free` frees a configuration with its last user,
but for the live one, and a spare is never the live one.

**`ReportedIsJoined`** (`Net_proofs`; hypothesis `~Meddles`: the web page sets no credentials while a join is tried or has just
been reported). A join is taken for done only when the link is up *after* it was seen down, and what that has to mean is the invariant (`Joins`): the radio is
still where it was and wants nothing else, or it is after the new credentials, and once it was seen to be nowhere it can be up only with
them. Each part of `improv_poll` keeps it, and no second request comes in between because `process_rpc` takes none while one is tried.

**`ReadsStayInStep`** (`Net_proofs`; `RingAssumption`: the ring has bytes and a frame takes some). The invariant is that the
bytes in the ring are a row of frames (`Row`): where one ends the next one starts or the data ends, and no start lies
anywhere else, which is what an old header left behind would break; and that what the driver has counted, before more
arrived, still ends where a frame does (`FreesFrames`). The lemmas are about walking round a ring of any size (`PastPast`,
`PastRound`, `PastBack`), about a frame that joins the row and about frames that leave it.

**`RolledBackIsSkipped`** (`Manage_proofs`; `UpdateAssumption`; it is about the version rolled back last, since one skip is kept; hypotheses `SignedOnly` and `NoteTakes`: when the next image is noted and the write fails, flash does
not still carry the mark of the image that runs; without it the property fails, see *Met while modelling*). What was rolled back is remembered twice, in RAM and in flash, each
as `skip` or as `tried`, and every boot turns one into the other by what it finds running. The invariant says that both tell
(`Remembered`), that the bootrom would choose no image of that version (`NeverBack`), and that a note names what the scheduled restart goes into (`Noting`).
That a transfer disturbs none of this is one relation between a state and a result of the transport core (`Spared`),
kept by each of its operations: they write only a slot that cannot be chosen.

**`LinkIsCurrent`** (`Manage_proofs`; `MqttAssumption`). The property is inductive with the
record's shape. What the lemmas show is that each helper of a poll leaves the link
alone or tears it down, also where one call runs several of them.

**`EveryEntityAnnounced`** (`Manage_proofs`; hypotheses `~MidRun` and `~AtOnce`: a slot's blade changes neither while entities are announced nor
together with another slot's). There is one index into the entities and one publish under way: a refused publish steps the index back, a name
or a new blade starts a run over, a lost link forgets both. The property speaks of the moment when all that is done; the
invariant (`TellInv`) says of every entity in every other moment that it is still to be sent in this run (`ToSend`), or is under way and sent again if it is refused
(`OnItsWay`), or the broker has it (`Has`), the thermometers as of the blade that they were last announced for; and that a slot whose blade is
another by now is one that the run comes to, with both its thermometers (`Awaits`, `ToBoth`). The hypotheses are where stepping back goes wrong:
the index is no longer that of the entity which was refused.

**`CapComesFirst`** and **`NotedAsSwitched`** (`Manage_proofs`; `MainLoopAssumption`; the second with the hypothesis `~Crosses`: a surface does
not switch a port whose AUTO_OFF is still on its way, see *Met while modelling*). Both speak of what core 1 will have once it has taken the queue, which is a
fold over a queue of any length. The prover has no induction over data, but it has `WFMin`, which takes no operator: every set of naturals has a least
element (`Least`), so a set that holds 0 and with each number the next holds all of them (`Induct`), and with that the fold's choice
of a function is the iteration it is meant to be (`TakenNone`, `TakenOne`: the queue and one more command). The invariant follows the cap's command from its place in the
queue into the first pass (`CapHolds`), and says of each port that its event is on its way, in the queue or taken from it and not yet looked at, and it is off, or that
it is noted as it will be (`NotesFollow`). Ports switch themselves off whether or not the queue has room; the theorem is about all but those whose own event was
refused (`engine.untold`), and about those again once they are switched. `dropped_event` shows what happens to them in between.

**`NoLineUncounted`** (`Manage_proofs`; `LogShipAssumption`). The count of newlines in a text of any length is the
cardinality of a set of positions, so that cutting a text in two and joining two adds up by a bijection (`CutAt`, `JoinAt`) and
needs no induction. What is kept is that each move of the reader (skip to a line's start after it was overrun, leave out the padding, take a line, tell what was
dropped) leaves `Lines` as it was: what waits, was taken or is counted. The invariant adds that a reader which need not look for a line's
start stands at one; that is why every datagram is whole.

**`HoldsBetweenChanges`** (`Manage_proofs`; `FanAssumption`: the hold fits the clock twice, as 30 s do 2^32 ms). `felt.since` counts on its own, the code
compares a wrapping clock with a deadline. The invariant (`HoldRuns`) ties the two: while a change is younger than the hold the policy is in charge, and
the deadline is as far ahead of the clock, around its end if need be, as the change lacks of the hold. `AheadIsNegative` shows that the signed difference tells such a
deadline from one that passed, `Nearer` that the deadline stays where it is when the clock starts over. The assumption is what the signed
comparison needs: a longer hold reads as one that ran out.

**`NoBladeByItself`**, **`SelectedIsOpen`** (`Blades_proofs`; `BackplaneAssumption`: the names of slots
are none of the model's own words, counts positive). A line goes high by itself only if one of the two writes of a start or a
recovery raises it, so the invariant says what would be written: the cache asks for nothing that is
not wanted (`CacheWanted`), and when the direction is about to be written the output register holds no more
than that (`OutputsFirst`), which is where the order of the two writes comes in. What the register itself holds is *not* bounded
by what is wanted: a switch-on that took unacknowledged and was then called off leaves the line high, since the cache has it low already and writes
nothing (`tca9539.c:106`). `EnableFollows` leaves this case out with the failures of the expander.

**`ClearsComeBack`** (`Blades_proofs`; hypothesis `~Crowds`: a command finds room in the queue). That a dark port is reported
or has its clear to come has to survive each pass of the supervisor and each command of a queue of any length, with the fault and the clear on opposite sides of
the interrupt. The invariant (`ClearInv`) adds only types to the property; the work is in the lemmas that say of each step which of the two it may take away
and that it puts the other in its place.

**`PortKeepsPromises`** (`Blades_proofs`; hypothesis `MaxFailed <= 1`: one transfer of a call may fail, whichever it is). A call of `power.c` is a row of
transfers, any of which may be the one that fails, and what the converter then does with the next setting
depends on the ones that took. The invariant follows the path (`Kept`): the threshold covers where a running converter is headed (`Covered`),
a converter without a load never gets further than where its output was (`Headed`), the switch is closed only on a port that is up and not tripped
(`Switched`), and one that is off carries nothing. It holds between the calls with the supervisor's view of the port
(`Supervised`) and the policy engine's (`Powered`). The lemmas follow the order of the transfers inside a call.

**`ContractsStayWithin`** (`Blades_proofs`; hypotheses `Takes \subseteq {"FIXED"}`: sinks ask for fixed objects, and `MaxFailed <= 1`). A change of the limit
reaches the sink with the next capabilities, and until then what is under way is about the table before. The invariant
(`AgreedInv`) says for each state of the policy engine what there is to be about the table of the moment, as long as no
change waits to be told: the capabilities, the request, what was granted, the contract. It needs that every object that is offered is within the limit
(`TableShape`), that a request comes out of its fields as it went in (`RoundTrip`), and `PathInv`, because a port that is on refuses no fixed object.
The second hypothesis is the one of `PathInv` only: TLC finds no violation with two failed transfers. With requests for voltages out of a range (`"PPS"`) a limit that
leaves the range alone is not told, see *Met while modelling*.

**`WipedStaysGone`** and **`OwedStaysMarked`** (`Storage_proofs`; the first without a hypothesis: callbacks may come in any place, and
every operation may fail; the second with `PromisedSavesWork`: a debounced save is not the one that fails, and no callback saves between the
choice and the copy of another save, see *Met while modelling*). A factory reset erases the sectors one at a time, a callback may save in
between, and it skips a legacy sector that holds no record that this image reads; the invariant is that each sector that is still
of before is among the steps to come (`WipeComes`), and that a legacy sector is never one that is taken for empty. A promise
is marked, or with the debounced save that took its mark, from its beginning until its program has landed, and what that save has copied is sealed
until then (`OwedComes`).

**`SavedStaysFound`** (`Storage_proofs`; hypotheses `Undisturbed`: callbacks come in the places of a save where
they do no harm, and `TriedOnce`: an update is tried once, or the old image reads what the new one saves). The property
speaks of the end of a save, the invariant of every place in it: the valid records are numbered apart and none
beyond the copy in RAM, strictly so while one is being written (`Ordered`); what is in hand is sealed, is the image's own,
and goes where the best record is not (`InHand`); what was acknowledged is what a start finds (`Recovers`), except that a trial gives
its own record up to save again; a wipe promises nothing, and a migration erases no legacy sector
before the record is at home (`Stages`). Two lemmas carry the induction: erasing the spare sector changes nothing that is
found (`SpareErased`), and a record with a higher number is what is found once it is there (`RecordJoins`).

**`StoreIsOneRecord`** (`Storage_proofs`; hypotheses `Undisturbed` and `TrialApart`: the old image reads nothing of the
new one's, which is tried once, and a migration does not fail). The refinement of `DurableRecord`, by the
mapping under `Record` in `SettingsStore`: an erase is the abstract `Ask`, the program that follows it `Land`, a
restart `Drop` or `Revert`, a commit `Adopt`, an update's start `Try`, a reset's steps `Wipe`; all else stutters. What it needs beyond
`Kept` is about the image on trial (`Apart`): it erases only where the image before it has not its best
record, its half-written sector is one that image does not read, and it never migrates, because the old image has moved its record home before.

**`NewestAreListed`** (`Storage_proofs`; hypothesis `ClearAt \subseteq {"idle"}`: the log is cleared between two appends). The ring has any number of sectors of any number of
pages, and nothing but the numbers on its pages says where it begins. The invariant (`LogFrom`) is about the numbers as a reader or a
start finds them: over the pages that no append is about to erase (`Near`) they grow from page to page (`Rising`), by at least one a page (`Spaced`), a number that is missing was lost or is older than all of them
(`Chained`), the next page and those behind it in its sector are blank (`Ahead`), and a port knows its newest unless a missing number hides it (`Filed`). All this holds from a
number on that is quantified in the invariant, because a clear that fails half way leaves the mirror as it was over pages that are
blank, and a restart then goes on from the newest that the flash still has. Five lemmas carry the steps: an erase, whole or cut short, disturbs no page that is near (`EraseKeepsRing`), a record on the next page
is the newest (`RecordKeepsRing`), a start finds the same page to go on from or one where all is older (`ResumeHolds`, `RereadHolds`), and a failed clear leaves
what is kept since the newer part (`ClearHolds`). That as many numbers in a row are listed as pages hold one is an injection (`EnoughHeld`).

Every invariant of the passing runs is stated by a theorem. Only model-checked are the properties about steps and time: `BladesFollow`,
which needs the blade to take every write of its limits (it is checked where transfers do not fail), `KeepsPower`, which relates a step to every cause of
a loss of power, and the liveness properties `OwedIsPaid` and `TripsEnd`: liveness under fairness is outside the prover's reach. The three
runs that expect a violation show the opposite of a proof.

## Plan

Order of the work, most important first; what stands is marked.

1. (done) `Budget`, `PortFsm`, `Chassis`, `ChassisLive`: budget, state machines, restarts, presence, recovery.
2. (done) `BladeLoader`, `Blade`, `Pdo`: the blade from both sides.
3. (done) `SettingsStore` with `DurableRecord`, `FaultLog`: flash under power loss.
4. (done) `Update`, `MainLoop`, `Snapshot`: core 0, trials, queues.
5. (done) `Mqtt`, `LogShip`, `Web`, `Setup`, `Wired`, `Fan`: the network side and the fan.
6. (done) `Chassis_proofs`, `Grants_proofs`, `Holding_proofs`, `Enable_proofs`, `Blades_proofs`, `Manage_proofs`, `Net_proofs`, `Storage_proofs`: every invariant of the
   passing runs. (next) `BladesFollow`, which needs the blades to take every write; `KeepsPower`.
7. (done) `Backplane`: the expander and the multiplexer, starts and recoveries.
8. (next) Liveness of `Mqtt` (a link that fails is made again) and of `Update` (a trial
   ends); `Chassis` composed with `MainLoop`'s queues instead of commands at any time.

Twelve runs is the size the project keeps.

## What is not modelled

Everything in the component table that the modules table does not name; for
each, `PROJECT.json` has the reason. In the components that are modelled: the
meters, event texts and telemetry; the wrapping of the clock outside the fan (`engine/port_fsm.c:947`); the sample counts before a
temperature trip of a blade; which signature or hash is right (vendored cryptography), the
boot ROM's own rules; parsing and formatting everywhere. The simulator stands in for the
backplane on a host and is not part of the product; the update proxy and the
web page keep no state.
