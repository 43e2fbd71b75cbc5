# PrivacyGuard in TLA+

Specifications of the parts of PrivacyGuard whose correctness depends on order:
the state file, the firewall switches and their verification, the host's sysctls,
tunnels, identity and shutdown hook, the scan detectors, the threads of the window
with its leak monitor, the wiring of two virtual machines; their failures, and what
happens when several threads, a crash or a restart come between their steps.  Every
module is translated from the Python source; `PROJECT.json` names the lines behind
each definition.

## The system

PrivacyGuard is one Python package with two front ends.  `main.py` is a menu that
runs one operation at a time; `gui.py` is a window that runs each button's
operation in a daemon thread of its own (`_run_bg`).  Both call the same
functions, which change the machine through `iptables`, `ip6tables`, `systemctl`,
`sysctl` and `ip`, and write down what they did in `~/.privacyguard_state.json`.

| component | state it keeps | operations | hard behaviour | what makes it correct |
|---|---|---|---|---|
| state file (`state.py`) | a JSON file, a temporary file, a lock | load, save, update, get | threads, other processes, reads that fail, crashes and errors inside a save | no update lost to another, no reader sees half a file, the lock is always released |
| Tor kill switch (`core.py`) | IPv4 and IPv6 rulesets, torrc, flag, backups | enable, disable, block_ipv6 | 15 steps, any of which fails, some unnoticed; a wait of up to 45 s; a second button | the flag is true; on means no connection leaves in clear; off means everything as before |
| proxy kill switch (`proxy_only.py`) | nat rules, redsocks, flag, backups | enable, disable | shares two fields of the record with the Tor switch | as above; never both switches |
| gateway mode (`gateway.py`) | rules, torrc, flag, backups | enable, disable | its own Tor block next to the switch's | nothing of the workstation is forwarded in clear |
| firewall backup (`firewall_backup.py`) | files of `iptables-save` | backup, apply, restore, open default | backup, rule or restore fails | all of a ruleset or none |
| portscan protection, sysctls, scan watch (`anti_recon.py`) | rules, sysctls with their backup, a deque for each source, flags | enable, disable, watch, block | flushed by the switches and interleaved with them; keys that cannot be read or written; the boundary of a sliding window | the flag is true; disable leaves what enable found; an alert exactly for a scan |
| Tor service (`proxy_tor.py`) | the daemon, a cached unit name | start, stop, check, rotate, bridges | a check that never returns | no call hangs; redirects are served |
| sequences (`orchestrate.py`) | none of its own | full_start, full_stop | each step may decline | reports what is really on |
| window (`gui.py`) | threads, queue, sys.stdout, monitor handle | buttons, status bar | overlapping threads | every button ends; output reaches the console |
| leak monitor (`monitor.py`) | thread, stop event, baseline address | start, stop, loop | a join that times out, a replaced handle | at most one loop; stop stops it |
| VPN (`vpn.py`) | PID file, `vpn_active`, tunnels | start, stop of OpenVPN and WireGuard | the daemon dies by itself, its PID file stays, a stop fails | one tunnel at most, on record and within reach of its stop |
| identity (`core.py`) | interface, host name | randomize_mac, randomize_hostname | a command fails half way, two threads on one interface | the link comes up again with a lease |
| verification (`verify.py`, `dns_check.py`) | none | probes | a probe that means less than it says | a check that passes is evidence; a switch that is on can pass |
| workstation, topology | adapters of two VMs | wire, configure, verify | what was attached before | one adapter, one route |
| RAM wipe (`ram_wipe.py`) | a script, a systemd unit | install, remove, wipe, kill applications | killed between two files | what systemd runs is there |
| log, profiles, snapshots, environment | files | | | |

They interact by calls and through three shared things: the state file, the
kernel's rulesets and the Tor daemon.  Nothing locks the rulesets: the lock of
`state.py` covers one call of it, not an operation.

## Modules

| module | what it models |
|---|---|
| `StateCalls` | the record's fields and values, `dict.update`, the calls of `state.py` |
| `StateStore` | abstract: one value, read and updated in one step |
| `StateFile` | `state.py` step by step: lock, read, temporary file, write, rename; inodes; errors and crashes |
| `StateFileProofs` | theorems about `StateFile` |
| `Netfilter` | external: rulesets, what the iptables commands do to them, where a packet ends up |
| `Rulesets` | the command lists of the switches, and what a ruleset is for |
| `KillSwitches` | the operations over rulesets, daemons and record, one command a step |
| `Verification` | `verify.py`: what each check finds in a state of `KillSwitches` |
| `NetfilterProofs` | lemmas: what each kind of command does to a ruleset, what stays, and what the finished lists do with a packet |
| `KillSwitchesProofs` | theorems about the record, the backups, the types and the verification of `KillSwitches` |
| `SwitchFlagsProofs` | theorems about the flags of the three switches and of `block_ipv6`, what an enable function returns, what a disable leaves, and whom rules redirect to |
| `LeakMonitor` | `monitor.py` with `check_tor_active` and `dns_leak_check`, started and stopped by the window |
| `Window` | extends `LeakMonitor` with the buttons' threads, the swapped `sys.stdout`, the log queue and the access-log watch |
| `WindowProofs` | theorems about `Window` |
| `Topology` | `gateway_topology.py` on the host, the boots of the two machines, `workstation.py` inside one |
| `TopologyProofs` | theorems about `Topology` |
| `Callers` | threads with a plan of operations and a place in the one at hand |
| `Sysctls`, `Vpn`, `Identity`, `RamWipe` | each an extension of `Callers`: `enable_stealth_sysctls` and its inverse; `vpn.py`; `randomize_mac` and `randomize_hostname`; the shutdown hook |
| `HostSettings` | composes these four with the threads, the kill of the program, the restart of the machine, and the part of `full_start` before the kill switch |
| `HostSettingsProofs` | theorems about `HostSettings` |
| `ScanWatch` | the sliding windows of `live_scan_watch` and `watch_http_access_log` |
| `ScanWatchProofs` | theorems about `ScanWatch` |
| `MCStateFile`, `MCKillSwitches`, `MCWindow`, `MCTopology`, `MCHostSettings` | the constants of the runs |

### The state file

A thread goes `idle`, `acquire`, `read`, `open`, `write`, `replace`, `release`.
`Acquire` is the entry of a `with _LOCK` block, `ReadForLoad` and `ReadForUpdate`
are `_load_unlocked` and the dictionary's update, `OpenTmp`, `WriteTmp` and
`Replace` are the three system calls behind `_save_unlocked`, `Release` leaves the
block.  `RaiseError` is an `OSError` at any of the three, or of the look whether the
file exists; `Crash` kills a process with its threads.  A read of a file that does
exist may fail too, and `_load_unlocked` then goes on with the defaults (`state.py:70`):
`Read` allows it at every read, and the history `blind` names the threads whose
latest call it happened to.  Files are inodes, because the name of the temporary file is the
same in every process and a rename keeps an inode that somebody else is writing.
A text is a document, with or without all the fields, or `Junk`.  The record maps to `StateStore` by
`store <- Loaded`: what the next `load()` that can read would return.  `StateStore`
has the failed read as well, as `Misread`: its update then merges with the defaults and
loses the record, and nothing else about it changes.

### The switches

A thread runs a plan, for a button one operation, for `full_start` three.  Its
`pc` is the place in the function, `todo` the commands of the list at hand, `ok`
what `apply_ruleset` calls `ok`, `b4` and `b6` the backups.  `CheckEnable` is the
load with the early returns, `PrepareTor` to `AskTorAgain` the torrc, the restart
and the wait for Tor, `Backup4` to `Restore6` the module `firewall_backup`,
`Record`, `CheckV6` and `V6Blocked` the update and `block_ipv6`, `CheckDisable` to
`Clear` the disable functions.  `RunCommand` runs one iptables command, which may
fail for a reason of the ruleset (`Refused`) or for none (`Fault`).  `Crash` loses the
threads, `Reboot` the rulesets and the daemons as well.

Whatever else a step asks of the machine may fail too, and counts as a fault.  The code
looks at some of these failures and passes over others; three histories name
those that outlive the operation.  `unserved`: a daemon that the switch could not
start as it needs it and went on (`PrepareTorFails`: torrc not written, the restart
failed; `PrepareProxyFails`: no redsocks).  `orphaned`: an update that should
have recorded rules raised (`UpdateRaises`).  `stale`: the flags whose
update should have lowered them and raised, or was not come to because the machine has no
systemctl; the next disable that succeeds ends that.  `PrepareRaises` is an error of
torrc, `redsocks.conf` or the backups' directory that nothing catches.

Data is reduced to what the properties tell apart: fifteen kinds of packet, a
rule as the set of packets it matches and a target, torrc as the set of blocks that
bind the transparent port, a backup as the ruleset it holds.  `load()` and
`update()` are one step each, which is what `StateFile` is shown to provide, and may
raise where they write.  It is taken for granted here and in `HostSettings` that the
state file can be read: with a read that fails, every flag is down for that call, or for
good if it was an update's.

`Machines` lists the machines considered, by name: the plans, the rulesets found
at first, and the bounds.  One run thus covers several kinds of machine.

### The window and its monitor

A member of `Monitors` is one `LeakMonitor` object with its thread and the thread
of its latest Tor check.  The loop's `pc` is the place in `_check_once`: `head` is
the loop's test together with the wait before it, `ip` the public address, `tor`
and `torWait` the two halves of `check_tor_active`, `dns` and `dnsWait` the same
inside `dns_leak_check`, `compare` the end.  `worker` is the thread that asks
check.torproject.org: `WorkerAsks` settles the answer, `WorkerPuts` puts it on the
queue of its call, and either may never come.  A queue belongs to a call, hence
`Asked` starts with an empty one and a thread of an earlier call is forgotten.
`Stop` sets the event and leaves the window in its join (`ui = "joining"`), where it
serves no button and drains no queue, until `JoinReturns`.  `raised` and `plain` are
history: the alert of the last step, and whether the exit was not Tor's at some
moment since the check began.

A button's thread goes `save`, `redirect`, `work`, `restore` through `_run_bg`;
`stdout` is the one `sys.stdout` of the process.  Of the queue only alerts and errors
are kept, as a set, for the properties ask whether each is shown, not in which
order.  `Beside` says that a step of the console leaves the monitors alone.

### The virtual machines

`todo` holds the functions a wiring has left, each a list of commands; a command
that is refused or fails ends its function and the next one is called all the
same, as both front ends do.  Adapters configured on the host (`wires`) become those
of a machine when it boots (`up`).  `Configure` stops after any of its commands.
`Passed` is the verdict of `verify_isolation`, with an expected gateway or none.

### Verification

`verify.py` changes nothing, so its checks are operators on the rulesets, daemons
and record of `KillSwitches`, and on `Surroundings`: what the network answers and
what `/etc/resolv.conf` names.  A ping is a packet that no rule names (`appUdp`
stands for all of those), the question through Tor's SOCKS port a connection to
`127.0.0.1`, the question to `api.ipify.org` a connection of an application.

### The settings of the host

A thread runs a plan, operation by operation; `pc` is the place in the one at hand.
`Return` is its return, `Raise` an exception, which ends the plan as `_run_bg` or
the interpreter does.  Every command may fail, and every call of `state.py` may raise
(`RaiseUnsaved`).  The program may be killed and the machine restarted between any two
steps.  Five histories say what the code leaves aside: `lost`, the keys whose old value
a command, a kill or a raising update has taken; `strayed`, the tunnels left without
a record, by a stop whose kill raised, failed or has not worked yet when the record is cleared
(`ForgetOpenvpn`), by a `wg-quick down` that failed, by a kill of the program or by a raising
update; `failed`, a command of `randomize_mac` that failed; `botched`, a
`systemctl disable` that did; `unsaved`, the threads whose plan a call of `state.py`
ended.  The properties except what they record and nothing else.  Each module of a part has its `Step`; `HostSettings` lets one step of
one part happen at a time and leaves the others alone, for they share no state but
the threads.  `FullStart` goes through identity, sysctls and portscan protection, of which
`ScanOn` keeps what may end `full_start`, to `killSwitch`, which is where `KillSwitches`
goes on.

### The scan detectors

A deque is represented by all entries since it was last cleared (`entries`) and
the index of its left end (`front`), so that the definition of a scan, `Recent`, can be
stated over everything that came and not over what the code kept.  `Arrives` is
append, popleft in a loop, count, and clear; it serves a source (its weight is the
number of distinct ports) and the access log (the number of lines).  The other alert of
the access log, for a scanner's name in a line (`anti_recon.py:252`), depends on that
line alone and is left out.  `Packet` adds the
automatic block, `NewWatch` the end of one watch and the start of the next,
`FlushInput` a kill switch that removes the blocking rules.

## Runs

| run | question | instance and bounds |
|---|---|---|
| `StateFileThreads` | is the file an atomic store for the threads of a process? | 2 threads, 2 fields, 2 inodes, a file that is missing, whole, partial or junk; a read that fails or a crash at any time |
| `OneCaller` | one operation at a time, with a command, daemon, file or update that fails anywhere: are the flags true, is everything undone, does a stop end, are the checks of `verify.py` evidence? | 3 IPv4 and 2 IPv6 rulesets, 3 torrc; one fault; on machines of their own: the kill switches, gateway mode, the Tor switch with the Tor service started and stopped around it, and, without faults, `full_start`/`full_stop` |
| `Disturbed` | do two buttons disturb each other's rules, and is the record right wherever the program dies or the machine restarts? | Tor switch beside portscan, 5 requests, one fault; both switches with kills and restarts, 4 requests, one fault; a machine without systemctl with kills, 3 requests |
| `Window` | does the monitor stop when told and tell the truth, and do alerts and errors reach the console? | 3 scenes: 2 monitors under 4 networks that change at will; 2 buttons beside a monitor; 2 buttons of which either may be a watch |
| `Topology` | can a passed check be believed, and does a configured workstation pass? | 3 adapter slots, both machines wired in any way at first, both hypervisors; any number of wirings, boots and configurations |
| `HostSettings` | is what was changed put back, do tunnels stay within reach, does the link come back, and does `full_start` come to its kill switch? | 4 scenes: sysctls (2 keys, 2 values), VPN (2 daemons, 2 interfaces), hook and MAC, each with any sequence of its operations, kills and restarts; `full_start` beside a second thread that changes the same interface |
| `ScanWatch` | is there an alert exactly when the window holds a scan? | 2 sources, a log, 3 ports, a window of 2 seconds, thresholds of 3, 7 packets, lines or ticks |
| `TorLoop`, `EnableTwice`, `ScanFlag`, `LostOutput`, `ProxyVerified` | what the documentation says and the code does not do | see below |

Why the bounds are enough: an operation depends on what is before it only through
the rulesets, the record, torrc and the daemons.  With one thread the number of requests is
not bounded at all (`maxRequests = 0`), so `OneCaller` covers every sequence of its
operations.  One fault reaches each error path, those that the code passes over and the raising
updates included; a second one repeats it or strikes the fallback itself, which is then
incomplete (below); the theorems on the flags hold for any number.
Five requests let each of two threads enable, disable and enable again.
In `HostSettings` nothing is bounded: faults, requests, kills and restarts come in
any number.  A second key is what a key that failed has to be told apart from,
a second daemon and interface what a second tunnel would be.  In `ScanWatch` seven
steps reach an alert, a deque cleared by it, two entries that are too old at once and an entry
exactly at the boundary; the theorems hold for any number of steps.

Two monitors are the one that was stopped and the one started after it; a third
can only be started when neither runs, and an object that has ended is taken
again for the next.  The four networks are the combinations a check tells apart:
all well, not Tor with a resolver of its own, Tor out of reach, no connection.
The window's parts meet in the console only, and there only through what is put
on the queue, so the scenes combine them two by two instead of all at once.
Three slots are one more than the wiring knows of.

Deadlock is checked, except in `Disturbed`: there the requests are used up, and
the system rightly stops.

Fairness: each thread's `Step` is weakly fair, since the threads are the operating
system's and every command, timeout and lock wait of the code ends.  Nothing is
assumed of requests, faults, crashes or of Tor's answer.  `LockIsReleased` and
`StopIsHeard` need it.  In `Window` each loop's `LoopStep` is weakly fair (its waits
have timeouts: those of `get_public_ip` and of the queue), so is the return of
a join, which has one as well, and so are the steps of a button's thread except the
end of its function, which may hang.  `Drain` is strongly fair: it is a timer of Tk,
disabled while a join blocks the window, and Tk serves a timer that is due between
two buttons.  Nothing is assumed of the thread of a Tor check, of exceptions or of
the network.  In `HostSettings` each thread's `Step` is weakly fair: every command
ends and the wait for a carrier has a timeout of five seconds.  `StartGoesOn` needs
it; the step that is fair may be a failure.

Each property of a passing run is paired in `PROJECT.json` with a mutated
definition (marked *mutant* in its module) that TLC finds to break it.

### What holds

* The state file: no update lost to another one, no half-written record, no lock left
  behind, for any interleaving of a process's threads and any crash or error; but an
  update whose own read failed writes the defaults over the record.
* One caller: a flag is true from the update that raises it to the restore that
  undoes it; a rule that fails leaves no half ruleset; nothing is redirected to a
  daemon that is down (`RedirectsAreServed`); a disable ends with the flag down.
  All this with any one failure, except where the code passes over it: a raising update
  leaves rules without a flag (`orphaned`) or a flag without rules (`stale`), a daemon
  whose start nobody looks at may not serve (`unserved`), and gateway mode leaves the restart
  of Tor to its user.
* Portscan protection, interleaved with the Tor switch, opens nothing.
* Verification: an unanswered ping on a network that answers, and an IPv6 policy of
  DROP, are evidence, at every step of every operation, that no application's
  connection leaves in clear.
* The host: disabling leaves the sysctls as the kernel had them, the keys of a
  failed command or of an enable that was killed or could not be recorded excepted; a
  tunnel that runs is the only one, on record, and the one its stop function
  reaches, those excepted that strayed from the record in one of the named ways; the
  link comes back with a lease however many threads change its address at once; the
  shutdown hook has its script; `full_start` comes to its kill switch, unless the state
  file or a missing program raises on the way.
* The detectors raise an alert for a burst exactly when the window holds enough ports
  or lines (an alert for a scanner's name in a line of the access log is apart from these).
* The window: at most one monitor loop, the one that Stop Monitor reaches; told to
  stop it ends, even when Tor never answers; a lost connection is reported; no
  alert rests on a late answer; alerts and errors of buttons are shown whichever
  buttons overlap, since they go to the queue and not through `sys.stdout`; Stop
  ends every access-log watch, unless a new one is started before it looks.
* The workstation: after a wiring that succeeded and a boot, a check that passes
  is right whatever adapters the machine had before.
* Killed anywhere: a flag is raised only over rules in force, never both switches,
  and an enable after a crash does not overwrite the recorded backup.

### What does not

* `TorLoop`: the nat rule `-p tcp --syn -j REDIRECT` has no exception for Tor's own user, so
  Tor's new connections are turned back to Tor, although the switch announces
  "only loopback + Tor traffic allowed out".
* `EnableTwice`: two buttons pass the same check; the second backup contains the
  switch's own rules and disable restores those.
* `ScanFlag`: `full_start` enables portscan protection first, and the kill switch
  flushes it.
* `LostOutput`: `_run_bg` puts back the `sys.stdout` it found, so when one of two
  overlapping buttons ends, what the other prints goes to the terminal (and, ended in
  the other order, a finished redirector stays in place).
* `ProxyVerified`: verification asks for an unanswered ping whichever switch is on,
  and the proxy-only switch leaves ICMP alone; where pings are answered it always
  reports FAILED.

Further disagreements met in the model, without a run of their own:

* two processes share the temporary file and may rename each other's half-written
  text (`NeverHalfWritten` fails as soon as `Procs` has two members);
* after a restart of the machine the rules are gone and the flag is not, and enabling
  reports success (`TrueMeansApplied` fails once `mayReboot` is set);
* the Tor and proxy switches enabled at once by two threads are both recorded
  (`OneSwitch`); the Tor switch may be enabled over gateway mode, whose disable then
  opens the firewall under the flag;
* an update whose own read of the file failed takes the defaults for the record and
  writes them, with its own fields, over one in good order (`state.py:70`): `StateStore`
  without `Misread`, in which no update is lost whatever fails, is not refined;
* `statemod.update` may raise: at `core.py:317`, `proxy_only.py:125`, `gateway.py:146` and
  `anti_recon.py:140` after the rules went in, which no disable then takes out, and
  nothing is under way (`AllOrNothing` fails without `orphaned`); at `core.py:330`, `proxy_only.py:140`
  after they were restored, and enabling again reports a success that is none
  (`StopIsHeard`, the flags and `TrueMeansApplied` fail without `stale`);
* nobody looks whether Tor's restart (`core.py:290`) or redsocks' start
  (`proxy_only.py:107-110`) worked: the rules go in and redirect to a port that is not
  served, which the comment at `core.py:280-284` means to exclude (`RedirectsAreServed`
  fails without `unserved`);
* a failing portscan rule is not rolled back and not recorded (`anti_recon.py:131-136`),
  so the others stay (`AllOrNothing` fails with a fault in such a plan);
* without systemctl Tor is not restarted, answers all the same with its old torrc, and
  the rules redirect to a port it does not serve (`RedirectsAreServed`);
* "Stop Tor" (`gui.py:168`, `main.py:88`) does not ask for the kill switch: pressed
  under it, Tor is down and the rules go on redirecting to its port
  (`RedirectsAreServed` fails, hence `StopsInOrder`);
* the backup of a kill switch that is enabled over portscan protection holds the
  portscan rules, and a disable brings them back even if the protection was disabled in
  between: every flag is down, the rules are there (`AllOrNothing` fails with such a plan,
  hence `NoScans`);
* a second command that fails may be one of the open default itself, which goes on
  without it and leaves a part of the rules (`AllOrNothing` fails with two faults, hence
  `OneFault`);
* a nat table that is not loaded at backup time is not cleared by the restore; proxy mode
  redirects redsocks' own upstream connection, and a connection to Tor's SOCKS port
  on 127.0.0.1 is redirected to its transparent port, where verification's question is
  not understood (`OnVerifies` fails for the Tor switch as well);
* `verify_isolation` counts adapters and cannot see where the one adapter leads: it
  passes a machine nobody wired that was configured by hand (without `bootWired`,
  `WiredCheckIsSound` fails);
* two threads that enable the sysctls together back up the hardened values
  (`SysctlsRestored` fails with two threads);
* `stop_openvpn` clears the record though its kill raised or failed or the daemon has not
  ended yet (`vpn.py:57-68`), `stop_wireguard` though its command failed (`strayed`), and a
  command that fails after the link was taken down leaves it down (`failed`);
* without a hostnamectl program, or where it fails and there is no hostname program,
  `randomize_hostname` raises, and so may the updates of the sysctls and of portscan
  protection (`anti_recon.py:73, 140`): `full_start` then ends before its kill switch,
  though both steps are called "not a gate on the kill switch";
* a clock that is set back hides old entries behind new ones in the deque: both
  properties of `ScanWatch` fail with a negative number in `Jumps`;
* the comment above `live_scan_watch` says more than the threshold, the code at least
  the threshold (`anti_recon.py:166, 204`); `ram_wipe_hook` is never recorded, so the
  status always calls the hook not installed.

## Proofs

`StateFileProofs`, for every set of threads, processes, inodes, fields and values:

* `TypeCorrect` and `LockExcludes` need no more than the assumptions of the
  constants.  `LockHolder` is inductive with the types; it is what the proofs of the
  refinement rest on, and no run checks it apart.
* `InFlightInvariant`, `NeverHalf` and `FileIsAtomicStore` assume one process
  (`OneWriter`), without which they are false.  `LockHolder` alone does not give
  refinement: a thread about to rename must know that the temporary file is its
  own and that the dictionary it holds is still the merge of its arguments with
  the current record.  `InFlight` says so for each label; it is inductive because
  with one process only the lock's holder writes.  Each step then maps to
  `Perform`, `Request`, `Abort`, `Misread` or a stutter: the abstract call learns of
  its failed read when the code does, before the rename.

`KillSwitchesProofs`, for every machine, ruleset, plan, number of faults, crashes
and restarts:

* `OneSwitchAlways`, `V6NeedsSwitch`, `BackupIsKept`, with one thread that works the
  kill switches and gateway mode (`SwitchesBelongTo(t)`); any number of other threads
  may work portscan protection and start the Tor service at the same time, step by
  step.  Without it the first is false: the check and the update are two
  accesses to the record.  None is inductive: between
  the check and the record lie a dozen steps.  `Inv` adds that a thread at any
  label before the record still has its own flag down and its rivals' too, and
  after the record its own flag up (`Checked`).  The steps fall in three kinds:
  those that stay in a stage, those that end an operation, and the record.
* `SwitchesTypeCorrect` has no hypothesis.  Its invariant adds to the types that the
  commands a thread has left are commands of the program, and that tables and chains
  of a ruleset go together, which `NetfilterProofs` shows of each command.
* `ChecksCanBeTrusted` holds for any threads, faults, crashes and restarts; it
  assumes only that the rulesets found at first are tame (`TameBases`): that they
  cannot tell the ping of `check_direct_traffic_blocked` from the connections it
  stands for.  A rule of OUTPUT drops all of them or is about none; none of nat is
  about UDP at large; TCP that nat OUTPUT or `PG_REDSOCKS` takes hold of does not get
  away; a jump stays in its table and finds its chain.  Rulesets travel from the
  kernel to the threads' backups, to the record and back, so `AllTame` says it of
  all of them, and of each command that is still to run.

`SwitchFlagsProofs`, with `SwitchesBelongTo(t)` and machines that use the kill
switches or gateway mode (`Unmixed`): gateway mode flushes the rules of a kill
switch, and the flag stays.  The first three entries hold for any number of faults.

* `TorFlagCanBeTrusted`, `ProxyFlagCanBeTrusted`, `GatewayFlagCanBeTrusted`,
  `V6FlagCanBeTrusted`.  A flag is raised at the end of a
  command list, so the invariant (`Held`) says what the ruleset looks like with *n*
  commands to go (`TorApplying`, `ProxyApplying`, `GatewayApplying`, `V6Applying`):
  which chains are there, that OUTPUT has no rule about applications' connections
  yet, that nat OUTPUT redirects to Tor only.  With none to go the ruleset is
  `Sealed`, `Routed`, `Walled` or `V6Closed`, and each implies the run's formula
  (`TorOnly`, `ProxyOnly`, `Contained`, `NoV6`) by following a packet through the
  chains.  A flag that is up keeps its rules because restoring happens under a flag
  that is going down, the portscan commands keep to other chains, and the rival
  switch declines.  All but the first assume that no process is killed and
  no machine restarted (`NoneKilled`); `TorFlagIsTrue` says so itself.  The proxy's
  needs `TameBases` too: its rule is appended, and a rule of before may send traffic around it.
  The flags of `stale` stand for nothing (`Standing`): a raising update adds the flags
  it should have lowered, and from then on no rules are claimed for them.
* `TrueCanBeTrusted` (`NoneKilled`, `TameBases`): an enable function returns True only
  past its record, or at the check that finds the flag up.
* `RecordsAreTrue` (`TameBases`), crashes and restarts included: the update that raises
  a flag is the one that follows the list's last command.
* `OffIsUndone` (`NoneKilled`, `TablesLoaded`, `OneFault`, `NoScans`): with every
  flag down and nothing under way the rulesets are those found at first or, if a
  command failed, the open default.  `AllOrNothing` speaks of the end of an
  operation; `Rests` speaks of every label.  The backups a thread carries, and those in the
  record of a switch that is on, are as good as the rulesets of before (`Good`), or
  missing when the one fault struck them; each ruleset is, from the place where it is
  restored; and the fallback, with *n* commands to go, has opened what none of the *n*
  opens any more (`Opening`).  The fault that makes a fallback necessary is the only
  one, so the fallback is run to its end.  Both hypotheses are
  needed, see *Further disagreements*.  After an update that should have recorded rules
  has raised (`orphaned`) nothing is claimed of the rulesets any more; one that should have
  lowered flags leaves them up, and `Rests` then speaks of the recorded backup, from which
  the next disable restores once more.
* `RedirectsReachDaemons` (`NoneKilled`, `TablesLoaded`, `OneFault`, `TameBases`, and
  three of its own: machines with systemctl, rulesets of before that redirect to
  neither daemon, and `StopsInOrder`: a plan that stops Tor has switched its kill
  switch off before, as `full_stop` does).  Two invariants meet.  `Sends`: rules
  redirect only to the daemons of the switches that are on, or of the one whose rules
  are going in or out (`Aim`), which needs `Rests`, for a backup with a redirection in
  it would bring it back.  `Feeds`: wherever these rules may be, torrc has the
  switch's block and no other, Tor has read it and is up, and redsocks has not been
  stopped; or the daemon is one of `unserved`.  `Sends` is for rules that have a record or
  an operation under way, so it ends with `orphaned`.  `Keeps` says that the proxy's flag is
  up while it is stale, so that the Tor switch declines until it is disabled.  `Leads` and `Courses` give the ways from label to label that both
  follow.

`HostSettingsProofs`, for any keys, values, daemons, interfaces and scenes:

* `HostTypeCorrect` and `LinkAlwaysComesBack` for any threads.  `LinkInv`: while
  nothing has failed, a link that is down has a thread at a place that will bring it
  up, and one without a lease a thread that will ask for it; a thread that finds
  the link down or up against its expectation leaves that to the other.
* `SysctlsAreRestored`, `VpnStaysUnderControl`, `HookStaysWhole` for one thread
  (`OneThread`), without which they are false.  `SysctlInv` says for each
  label which keys have been read, written or restored; `VpnInv` that the record is
  empty from the look at it to the end of the start, and that whatever runs with no record
  has strayed or is just being started; `HookInv` that script and unit
  precede the enabling and outlive it.

`ScanWatchProofs`, for any sources, ports, thresholds, window and number of steps:

* `AlertsAreScans`, `ScansAreSeen`, with a clock that is not set back (`ClockGoesOn`).
  `Sound`: entries are in the order of time, and those left of `front` are exactly
  those too old for the last; hence the deque is `Recent`, and the count is that of
  the definition.

`TopologyProofs`, for any number of slots and any adapters at first:

* `TopologyTypeCorrect`, `WiredCheckCanBeBelieved`, `ConfiguredPasses`.  `TypeInv`
  lists the stages a wiring can be at, `WiredInv` follows one adapter of the workstation from
  the command that attaches it inside to the boot, `GuestInv` follows address, route and name
  server through `configure_networking`.

`WindowProofs`, for any monitors, buttons, networks and scenes:

* `WindowTypeCorrect`, `LoopAlwaysStoppable`, `RunningMeansRunning`, `AlertsAreTrue`.
  `Inv` adds to the properties that a monitor shown as running is not told to stop
  (`Runs`), without which `RunningIsTrue` is not inductive, and that a check knows of
  an exit that is not Tor's when the network has one, or when the thread it asks has
  seen one (`Noticed`), without which `AlertIsTrue` is not.  All steps of a loop are
  instances of one lemma on a step of one thread (`QuietStep`).

Every safety property and every action property of a passing run is stated by a
theorem.  Only model-checked are the liveness properties, as fairness is out of the
prover's reach: `LockIsReleased`, `StopIsHeard`, `StopIsObeyed`, `OutageIsReported`,
`AlertIsShown`, `ErrorIsShown`, `WatchIsStopped` and `StartGoesOn`.

## Not modelled

Argument checks for Termux, root and missing tools, which return before anything
happens; `force=True`, which no caller passes; the wording of output; the text of
configuration files; `unblock_ipv6`, which has no caller; backups that share a file
name; the monitor's interval, and IP addresses beyond the network they belong to;
circuit rotation, bridges and proxychains, which write text for others; wiping memory and
killing applications, which leave nothing behind; widgets, dialogs and prompts.
`crypto_log.py` and `profiles.py` are cryptography and file formats without shared
state; `environment.py` reads the machine once, and its outcomes are assumptions here;
`vm_snapshot.py` wraps single commands of VBoxManage and virsh.

## Plan

Done: the state file and the switches; the window with the leak monitor; the
topology; the settings of the host; the scan detectors; verification; the theorems
above.  Left:

1. `Torrc`: the managed blocks line by line, bridges included, refining the `torrc`
   set of `KillSwitches`; the wait for Tor with its clock.
2. An abstract switch (`Off`, `Turning`, `On`) that one caller's `KillSwitches`
   implements.
3. The menu's own monitor option, and two processes on one state file.
