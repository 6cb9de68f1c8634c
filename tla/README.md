# ddns-ipv6: TLA+ models, model checks and proofs

ddns-ipv6 keeps AAAA records in step with a delegated IPv6 prefix that changes.
A *prefix detector* finds the current /64, the configured hosts and labelled
Docker containers give the lower 64 bits, and a *DNS updater* writes the
combination of both to the provider. This directory models the daemon's control,
its detectors, its container discovery, its updaters, its configuration and its
address arithmetic, checks them with TLC and proves the most important facts
about them with TLAPS.

Paths below are relative to the repository.

## 1. Inventory

| component | code | state it keeps | operations |
|---|---|---|---|
| main loop and update cycle | `src/main.rs` | `cache` (domain to address), the watch receiver, `force_refresh` (Notify), `cancel_token`, two signal tasks | startup discovery, seeding the cache, `run_update_cycle`, `select!` over change / refresh / cancel, shutdown |
| address arithmetic | `src/util.rs`, copies in `prefix/*.rs`, `docker.rs`, `config.rs` | none | `is_global_unicast`, `mask_to_64`, `suffix_from_addr`, `combine` |
| dns detector | `src/prefix/dns.rs` | the poller's last prefix, the watch sender | poll every `interval_secs`, `detect` (a second lookup) |
| netlink detector | `src/prefix/netlink.rs` | the socket of the event loop, the watch sender | event loop, `detect` (list, filter, sort the addresses) |
| ra detector | `src/prefix/ra.rs` | `last_prefix` under a mutex, the raw socket, the watch sender | listener thread, `parse_ra_packet`, `detect` (read `last_prefix`) |
| Cloudflare updater | `src/updater/cloudflare.rs` | none of its own; the records at the API | `get_record`, `set_record` (list, then PATCH or POST), retries on 429 |
| RFC 2136 updater | `src/updater/rfc2136.rs` | none of its own; the record set at the server | `get_record`, `set_record` (query, then replace), `zone_from_domain` |
| Docker discovery | `src/docker.rs` | the client; during a discovery the listed containers and the hosts found | list labelled containers, inspect each, extract its suffix |
| configuration | `src/config.rs`, the start of `main` | the validated configuration | parse, validate, `env:` secrets, build the components |
| traits, errors, packaging, integration tests | `src/prefix.rs`, `src/updater.rs`, `src/error.rs`, `contrib/`, `tests/` | - | - |

**How they interact.** `main` owns everything that matters: it calls
`detector.detect()`, `docker.discover()` and `updater.set_record()` one after
the other, and awaits each. What runs beside it is the detector's background task or
thread, which only *signals* a tokio watch channel, and two signal tasks, which
set a `Notify` (SIGUSR1) and a `CancellationToken` (SIGINT). The prefix itself
is not sent over the channel: every cycle detects again, except that the ra
listener leaves it in a mutex. The other actors are outside the process: the
kernel's addresses, the router, the reference domain with its caches, the
provider that may take a write after the client gave up on it, the containers
that are started and stopped, the operator with the file, the supervisor.

**What is hard to test here.** Signals that arrive before `main` subscribes, or
while a cycle runs; a detector's view and `detect()`'s view that differ; the
cache against what is really published after a lost answer, a kill or a late
write; one failed host among several; writes in two requests at the provider;
option lengths that come from the network. `PROJECT.json` lists each with its line
under `hazards`, with the properties aimed at it or the reason why there is none.

**What makes the components correct.** Main loop: no wake-up is lost, the cache
does not claim what is not published, errors are counted, only prefix+suffix
of a listed host is published, signals are served. Detectors: when the prefix
settles, the records become right. Discovery: what it lists existed, and one failure
hides nothing else. Configuration: what runs is complete, and a correction is picked up. Updaters: an `Ok` means that the record held
the address during the call, an `Err` is accounted for, calls return. Arithmetic: nothing
is lost or mixed up between network and host bits. Parser: in bounds, ends,
returns the first usable prefix.

## 2. Modules

```
            RecordPublication                    SetRecordCall
                   ^ refines                           ^ refines
                 Daemon                             Updater
       refines ^        ^ refines                  /       \
   DetectorDaemon      DockerDaemon    CloudflareUpdater   Rfc2136Updater
    /     |      \
DnsDetector  NetlinkWatcher  RaListener        Configuration
                                               RaParser <- RaAdvertisement
AddressPipeline, RaParser use Ipv6Addr
```

The `*_proofs` modules hold the theorems: `Daemon_proofs`, on which
`DaemonRefinement_proofs`, `DetectorDaemon_proofs` and `DockerDaemon_proofs`
build, and `Configuration_proofs`, `Updater_proofs`, `AddressPipeline_proofs`,
`RaParser_proofs`.

* **`Daemon`** is `main` and `run_update_cycle`. `pc` is the await the main task
  stands at: `startup` and `seed` (main.rs 76-109), `detect`, `discover`,
  `apply` and `await` (`run_update_cycle`), `enter` (the startup cycle
  is over, `changes()` not yet called), `select`, `stopped`, `killed`. Each
  action is the code from one await to the next. `change_rx` is the watch channel:
  `Send` without a receiver stores nothing, as tokio's does, and this is why the
  order of `detect` and `changes()` in `main` matters. `handlers` are the two signal tasks:
  spawned first, registered later; a signal before that, and every SIGTERM, ends
  the process. `request`, `late` and `lost` describe the provider: a
  write is sent, applied and answered in three steps, it may be refused, and it
  may be given up on and still arrive, later and more than once. `owed` is a history of
  the wake-ups that no detection has followed. The detector and the discovery
  answer anything they can.
* **`RecordPublication`** is what the daemon promises to the owner of the records;
  `Daemon` refines it with `records <- dns, current <- prefix, delayed <- late`.
* **`DnsDetector`, `NetlinkWatcher`, `RaListener`** are the three prefix methods,
  each with the part of the world it watches. The dns poller notes the prefix of its
  last poll (`bg_last`), and any lookup, its own or `detect()`'s, may get an
  answer that a cache still holds (`served`). The netlink event loop joins the
  group in its own time (`watcher`), events wait on its socket (`queued`), may be
  dropped, and the stream may end; addresses carry the two lifetimes the code sorts
  by, and `Tick` is the passing of time, which takes an expired address away with
  an event and lets the others age in silence. The ra thread stores the prefix
  and signals in two steps; its socket may fail, and then the thread is gone.
* **`DetectorDaemon`** is `Daemon` with `build_detector`: one of the three
  (`method`), chosen at the start, with `detect()` of that method in place of any
  answer. It refines `Daemon`, so all that is checked and proved of `Daemon`
  holds with any of the three, and it adds what only the composition can say:
  whether the records become right. `missed` is a history: the last detection
  failed or was out of date when it was made, or a change since then has been
  signalled to nobody.
* **`DockerDaemon`** is `Daemon` with `DockerDiscoverer::discover` in steps:
  list, inspect one container after the other in any order, answer. Containers appear,
  go and change their addresses at any moment; the listing and each inspection may
  fail. The entries go in where `Daemon` takes any discovered list, at startup and
  in every cycle. `held`, `touched` and `skipped` are histories of the
  discovery in progress, for the properties only.
* **`Configuration`** is what happens before the loop: `ValidatedConfig::load`
  with its stages, main's construction of the three components, and the supervisor
  that starts the process again while the operator edits the file or the
  environment. A table of the file is a function from the keys below its header to
  their values, so that a key below the wrong header *is* in the wrong table. The
  first error of the code's order is the one reported (the algorithm before the
  secret, the secret before the empty list).
* **`RaParser`** is `parse_ra_packet`, one turn of its loop per action, on the
  bytes. **`RaAdvertisement`** has a router lay out one option after the other, as the
  tests of ra.rs do, sends the packet cut anywhere, and says from the list of options alone what must
  come out. `options` and `starts` are histories of what was laid out and where.
* **`Ipv6Addr`, `AddressPipeline`** are the helpers on the eight segments, and the way
  of one address through them: detector, host, `combine`, with and without
  `debug_assert!`.
* **`CloudflareUpdater`, `Rfc2136Updater`** are the two `set_record`, each with the
  records at the provider. **`Updater`** is `build_updater`: one of them, for
  the life of the process, over the variables they share. **`SetRecordCall`** is what the cycle relies on, in
  the terms in which `Daemon` has it.

Definitions whose comment begins with *Slip* are variants of the code that are
wrong in a plausible way. No specification uses them; each shows that a property
notices such a change.

## 3. Runs

| run | asks | bounds | distinct states |
|---|---|---|---|
| `updates` | cache, error count and what gets published | 2 domains, 2 prefixes, 2 suffixes; a container on its own or on the configured domain; 1 abandoned write, 1 kill, 1 restart | 3.3 million |
| `signals` | wake-ups, SIGUSR1, SIGINT | INT, USR1 and TERM in any number and order, 1 restart | 75 thousand |
| `addresses` | the arithmetic on all eight segments | 18 addresses, the first segments around both borders of 2000::/3 | 3.7 thousand |
| `detectors` | the daemon with each of the methods | 3 methods, 2 prefixes; answers with and without a global record; 3 addresses with lifetimes 0, 1, 2 and infinite, and a temporary one; 2 changes, 1 fault, 1 kill and restart | 386 thousand |
| `ra_packets` | the parser on real packets | every list of up to 3 of 9 options, cut at every length, two message types | 402 thousand |
| `updaters` | both `set_record` | 2 addresses; 0 or 1 record at first; 2 abandoned POSTs; hosts at, below and further below the apex | 250 thousand |
| `docker` | a discovery beside changing containers | 2 containers, one on the configured domain, with no, one or two addresses; two of 1 change, 1 fault, 1 kill and restart | 2.0 million |
| `config` | from the file to the loop | 3 root tables, 4 prefix tables, 6 provider tables, 4 host lists, 3 docker tables, 3 environments; 1 edit, 1 fault | 93 thousand |
| `skip_after_lost_write` | a violation, see 6 | 1 abandoned write | - |
| `duplicate_domain` | a violation, see 6 | no faults | - |
| `netlink_startup` | a violation, see 6 | 1 change, no faults | - |
| `misplaced_interval` | a violation, see 6 | the files of `config`, no edits | - |

What the properties say:

* `updates`. `CacheHonest`: a cached address is the published one, but after a
  write that was given up without an answer. `ErrorsAccountForStale`: a cycle
  counts at least as many errors as there are domains whose record it leaves without the address of
  their last entry; not counted are records that hold an address a `set_record` was given up
  with, over which an update may be skipped (`skip_after_lost_write`). `ErrorFreeCyclePublishes`: so after a cycle without errors the
  records *are* right, again but for abandoned writes.
  `PublishesOnlyComputedAddresses`: the refinement of `RecordPublication`. One
  abandoned write is enough for the cache to go wrong; one restart for a write of
  an old process to arrive in a new one.
* `signals`. `NoLostWakeup`: whatever was signalled is still pending or followed
  by a detection. `RefreshServed`, `ShutdownCompletes`: a caught SIGUSR1 leads
  to a detection, a caught SIGINT to the end, however often the detector signals.
* `detectors`. `ImplementsDaemon`. `SettledIsPublished`: when the background
  task has nothing left to say about the world, nothing is pending and the last cycle
  had no error, the records are right. This rules out that a signal is consumed
  before the change it stands for can be seen, and that the choice among several
  addresses changes when lifetimes run down: the code's order, the valid lifetime
  first, survives every tick, an order by the preferred lifetime would not.
  `Converges`: when the prefix stops changing, the records of a running daemon
  become and stay right, unless `missed`; `RaConverges`: with the ra method they do
  whatever was missed. `DetectorTypeOK` carries the relations between the parts,
  such as that an event can wait only on a socket that joined the group, or that a
  thread that does not listen knows no prefix.
* `docker`. `DiscoveredHostsExisted`: an entry belongs to a container of that
  domain that had the suffix during this discovery. `ContainersArePublished`: after a
  cycle without errors, a domain whose containers kept still has the address of one
  of them, whatever happened to other containers, and also when the domain is configured
  by hand. `ConfiguredArePublished`: a configured domain has its own suffix under the new prefix,
  or that of one of its containers, whatever failed at Docker, the listing included.
  `ImplementsDaemon`.
* `config`. `RunsOnlyComplete`: what the loop runs with has every key of
  `config.sample.toml`, the variable was set, and there is something to publish or
  to discover; stated on the file alone, apart from the code's stages.
  `RefusesOnlyIncomplete`: the other way round, nothing complete is refused at any stage.
  `AlgorithmSettledByLoad`: the two lists of algorithms (config.rs 177,
  rfc2136.rs 19) agree. `CorrectedFileRuns`: once file and environment are
  complete and left alone, the daemon ends up running by itself, whatever ended it before.
* `addresses`. `TypeOK`: what a detector returns has no host bits and what a container gives no
  network bits, which is what `combine` asserts. `PublishedIsPrefixAndHost`,
  `ContainerKeepsItsAddress`, `PanicOnlyOnConfiguredFullAddress`.
* `ra_packets`. `RTypeOK`: no step leads past the end of the packet, and only a network is returned.
  `ReadsInBounds`, `ParserReturns`, `ReturnsFirstUsablePrefix`.
* `updaters`. `ImplementsSetRecordCall`, stated for steps that leave at most one record
  (with two records "the" record of the domain has no meaning and the code
  looks at whichever the API lists first); `ExtraRecordsAreLatePosts`: a second record
  can only come from a POST that was given up on; `CallReturns`.

`CHECK_DEADLOCK FALSE` stands where the program really may stop: the parser and
the pipeline when they are done, and the netlink method, with which the daemon waits
in `select!` for good when no address changes any more.

### Bounds

`MaxLost` bounds the *different* writes that are given up; `MaxRestarts`,
`MaxChanges` (of what a detector watches, of the containers), `MaxEdits` (of the file
or the environment) and `MaxFaults` (calls that fail, netlink events that are
dropped, a daemon that is stopped) bound what the environment does. `MaxOptions` is the length of an advertisement, `MaxRecords`
the identifiers Cloudflare may hand out; `CTypeOK` fails if they do not suffice. Two changes
bring the prefix back to its first value, which is the case in which a stale
`bg_last` or last advertisement would do harm. Ticks need no bound: finite
lifetimes run out. In `docker` one change is enough for a container to go or move between
listing and inspection and one fault for an inspection to fail beside a
good one; two of either would need a third container to tell more. The constraint
`TwoTroubles` leaves out only the behaviours in which a change, a fault and a restart all
occur: a restart forgets the discovery, and the proofs hold for any number of each. The proofs in section 4 need none of these bounds.

### Fairness

* The main task is weakly fair: the runtime polls it, the HTTP client has a
  timeout of 30 s (cloudflare.rs 65), the DNS client has one, and so every call returns.
* `Shutdown` is strongly fair in `Daemon`: `select!` starts at a random branch, so
  a cancelled token is not passed over forever though the channel may be ready
  at every turn.
* Signal tasks, pollers and threads are weakly fair: they are loops that await nothing
  but their source. Routers repeat their advertisements (RFC 4861), which is what the fairness of
  `ReceiveAdvertisement` says; nothing like it is assumed of the kernel's events.
  Caches drop outdated answers (`DnsExpire`).
* In `DetectorDaemon` a request that was sent reaches the provider unless it
  fails, each failure counts against `MaxFaults`, and the supervisor starts a dead
  process again. These and the steps of the main task share one condition, because at most
  one of them can happen at a time. The end of the netlink stream, lost events, faults, changes
  and ticks are never forced.
* `DnsRotate` waits until the poller has seen the last answer: the prefix stays
  longer than the polling interval. Without it a prefix that comes
  and goes between two polls is invisible to any poller.
* `Configuration`: the process runs, and `Restart=always` with `RestartSec=30`
  starts it again whatever ended it (starts that far apart stay below systemd's default limit).

## 4. Proofs

All of it holds for every value of the constants that meets the `ASSUME` of the
module: any host lists, prefixes, discoveries, signals, addresses, packets.

* **`Daemon_proofs`**
  * `TypeCorrect`: `Spec => []TypeOK`. `TypeOK` is inductive; what makes it so is
    that `idx` stays within the list while a call is awaited and that the cycle
    has a prefix.
  * `WakeupsAreKept`: `NoLostWakeup` is not inductive alone. `WakeupInv` adds
    `ReceiverInv`: a request can only be owed once there is a receiver or a signal task.
  * `CacheIsHonest`: `CacheInv` adds `RequestInv`, which ties `request` to the
    published record and `late` to `lost`: while a request counts as applied the record has its
    address, or that of an abandoned write that has overwritten it.
  * `ErrorsAreReported`: `ErrorInv` adds `StaleInv`, which says at any point of the
    pass that the domains stale *so far* are at most the errors *so far*; the
    lemmas `StaleGrows`, `SmallerStale` and `OneMoreStale` are the step from `n` to `n + 1`
    entries, with cardinalities. `StaleUpTo` speaks of the cache; with `CacheInv` the lemma
    `UnpublishedIsStale` carries the count over to the records: a record that is wrong, and
    not left by an abandoned write, is one the cache knows to be wrong.
  * `CleanCyclePublishes`: `ErrorFreeCyclePublishes` from the two before it: no
    error means an empty stale set, so the cache has the address, and the cache is honest.
* **`DaemonRefinement_proofs`**: `DaemonPublishes`, that `Daemon` implements
  `RecordPublication`. `HostsInv` is needed: the current list is the configured one followed by
  something discovered, so every suffix written is listed for its domain.
  Three theorems give the exact extent of two findings of section 6. `SkipsAreJustified`: a skipped
  update has its address published, or the record holds one that a `set_record` was given up with;
  `AnsweredCallsAreNotSkippedWrongly`: so with `MaxLost = 0` what CONCEPTS.md says holds.
  `SingleEntriesWin`: without a domain listed twice (`DistinctDomains`), `LastEntryWins` holds.
* **`DetectorDaemon_proofs`**
  * `DetectorsImplementDaemon`: `DetectorSpec => ImplementsDaemon`. Each `detect()`
    is one of `Daemon`'s answers (`DetectIsAnyAnswer`), each signal is `NotifyChange`
    (`SignalIsNotifyChange`), the rest stutters. `DetectorsKeepPromises` carries the theorems about `Daemon` over.
  * `DetectorTypeCorrect`: from `DetectorTypes`.
  * `SettledPublishes`: `Fresh` says per method that the prefix of the cycle is
    a current one *or* a signal is still on its way (a poll that will differ,
    a queued event, a thread about to send), as long as nothing was missed and no
    signal is unseen. `TickKeepsDetectable` is the lemma about lifetimes: both
    lifetimes of all addresses run down together, so the first in the code's order
    stays first until an address expires, and then there is an event. `Quiet` says that
    a channel without a receiver holds no signal, `StaticFirst` that the host list
    begins with the configured one; with `ErrorFreeCyclePublishes` they give `Published`.
* **`DockerDaemon_proofs`**
  * `DiscoveryImplementsDaemon`, `DockerTypeCorrect`: hosts found and containers
    left to inspect are together never more than there are containers, so the answer is
    in `Discoverable`. `DiscoveryKeepsPromises` carries the theorems about `Daemon` over.
  * `DiscoveredHostsExist`, `DiscoveryPublishes`, `ConfiguredPublishes` from `DiscoveryInv`: while a
    discovery runs, every host found is genuine and every container that kept still is
    found, still listed, or skipped (`DuringDiscovery`); afterwards the same of the list of the cycle
    (`AfterDiscovery`), which begins with the configured ones. `LastEntry` (a domain in the list has a last entry, by
    well-founded induction on the positions) joins it with `CleanCyclePublishes`.
* **`Configuration_proofs`**: `AlgorithmsAgree`,
  `RunningIsComplete` and `CompleteIsNotRefused` from `ConfigInv`, which has the types (`ConfigTypeOK`) as its first part: past `validate` the configuration is made of the file
  that was read, and all conditions `validate` checked still hold of it. The last two together say that the code's
  stages test what `Complete` says of the file alone, no less and no more.
* **`AddressPipeline_proofs`**: `GlobalUnicastAgree` (the range test of util.rs
  and the mask test of the detectors are one predicate on all 16-bit segments),
  `PublishesPrefixAndHost`, `ContainersKeepTheirAddress`, `OnlyConfiguredAddressesPanic`,
  from `PipelineInv`, which carries the relation between the address seen,
  the host and the two halves through the stages.
* **`Updater_proofs`** from `UpdaterInv`, one invariant per provider.
  * `ExtraRecordsAreLate`: `ExtraRecordsAreLatePosts` is not inductive; `CloudflareInv`
    counts, beside the records, the POSTs that may still arrive (`Pending`), and keeps one
    place free while a POST is on its way, which the empty list grants
    when it is sent. `UpdaterTypeCorrect` rests on the same count: `MaxRecords > MaxLost`
    identifiers suffice.
  * `EitherProviderImplements`: `Spec => ImplementsSetRecordCall`; the list, the
    repetitions and the query stutter, `FindCorrect`, `ApiWrites` and `ServerUpdates`
    are `Take`, and an update given up on that the server would refuse anyway is `Refuse`.
    `AnsweredPostsImplement`: without the condition on the number of records, the whole of
    `SetRecordCall`, at a name server always and at Cloudflare when no POST is given up on.
* **`RaParser_proofs`**: `ParserStaysInBounds` and `ParserMovesOn` for packets of
  any length and content, from `RTypeOK`, whose `offset \in 0..Len(data)` is what
  the check of the option length preserves. `FirstUsableIsReturned`: `ReturnsFirstUsablePrefix` for
  options and packets of any number and length. `AdvertisementInv` says that the bytes from `starts[k]` on
  are `Layout(options[k])`, that what arrived is a prefix of the packet, and that the
  parser, until it is done, stands where an option begins (or the packet ends) and has passed over no
  usable one and no length of zero. `ParserTypes`
  and `PipelineTypes` (in `AddressPipeline_proofs`) are the type invariants, with `Network` and
  `HostBits` of `Ipv6Addr`.

**Only model-checked.** Liveness (`RefreshServed`, `ShutdownCompletes`, `Converges`,
`RaConverges`, `CorrectedFileRuns`, `CallReturns`, `ParserReturns`) and whatever needs ENABLED is out of
the prover's reach.

## 5. Not modelled, and why

* Time. Every sleep ends; `interval_secs = 0` and the length of `Retry-After`
  (which holds up the whole cycle) do not show.
* Edits of the records by others, and a domain that has several AAAA records before the daemon
  first runs. At startup records hold anything.
* TOML syntax: a table with an unknown tag, a missing key, a malformed value or an
  unknown key stands for whatever `toml` and `serde` refuse. The paths and names in the tables are not
  followed any further than the code does before the loop.
* Detectors and Docker discovery together: `DetectorDaemon` has no containers and
  `DockerDaemon` any detector. Each refines `Daemon`, where both are arbitrary at once.
* The type `Error` (an outcome of the calls that return it; `ConfigError` is the `error` of
  `Configuration`), logging, command line, packaging (but the restart policy of
  the unit), the ignored integration tests.
* Socket options of the ra listener, TSIG and TLS: success or failure only. Of the errors of
  `Rfc2136Updater::new`, a server that cannot be parsed stands for the others (a server given by
  name, a key name that is no domain name).
* Equal outcomes are one: a Cloudflare answer without a result is an empty list
  (cloudflare.rs 240), and a container that is gone is one in which nothing is found, though
  docker.rs 61 reports it as an error. The check at ra.rs 181 is left out: the lemma
  `PrefixInOption` shows that it is never taken.
* Which of several addresses of a container is taken: any, as the map of its networks gives them.
  Which zones a name server serves: the update of a host elsewhere is refused.

## 6. Where code and documents disagree

With a run that shows it:

* `skip_after_lost_write`: main.rs compares with its cache, and the cache keeps the
  old address when `set_record` fails after the provider took the write. When the prefix returns to the
  old value the update is skipped although DNS holds another address. CONCEPTS.md
  27: updates are skipped "when the DNS record already matches".
* `duplicate_domain`: main.rs 204 and README.md 237 say that the last entry of a
  domain wins. Both are published, in turn, in every cycle, because each finds the other's address in
  the cache.
* `netlink_startup`: `changes()` is called after the startup cycle, and the event
  loop's socket joins in a task of its own. A change after the startup detection and before both
  is signalled to nobody, and the records stay wrong until the next one.
* `misplaced_interval`: config.sample.toml 77 and README.md 62 show `interval_secs` below
  the `[[hosts]]` tables, where TOML makes it a key of the last host.
  `HostEntry` does not deny unknown keys, so it is dropped and the default is used. The
  value shown is the default, so neither the sample nor the test of it (config.rs 244) shows it.

Seen while modelling, without a run of their own:

* A failed `set_record` or `detect` is not retried (PLAN.md 286 says "Retry with
  backoff"). Only Cloudflare's 429 is. With an edge-triggered detector the records stay
  wrong until the next change: this is what `missed` and `error_count = 0` in `Converges` leave
  out, and the ra method, which signals every advertisement, does without them.
* The dns method looks the domain up twice, in the poller and in `detect`; when the second
  answer is the older one, nothing signals again. Likewise a poll
  before `main` subscribes. Both set `missed`.
* A full-format suffix in `[[hosts]]` is not masked, though config.sample.toml 68
  and PLAN.md 241 say so; in a debug build `combine` asserts and the daemon
  ends. `PanicOnlyOnConfiguredFullAddress` says that this is the only way.
* PLAN.md 359 wants the longest preferred lifetime among non-deprecated prefixes.
  ra.rs takes the first usable option and reads no lifetime, netlink.rs sorts
  by valid lifetime first and keeps deprecated addresses. The order by the preferred lifetime
  alone would need a detection when an address becomes deprecated, which nothing signals.
* README.md 13 and PLAN.md 351 promise that SIGTERM finishes the cycle. Only SIGINT and
  SIGUSR1 are handled; SIGTERM kills, as `RaiseUncaught` has it, and `updates` shows what
  that leaves behind.
* README.md 40-45 (and PLAN.md 55-62) put `zone_id` and `api_token` in a table
  `[dns.cloudflare]`; config.rs 112-116 wants them in `[dns]` and refuses that example.
* README.md 246 points `socket_path` at a `tcp://` proxy; docker.rs 26 connects to a Unix
  socket.
* docker-compose.yml 15 gives `CF_API_TOKEN` the empty value by default, which
  config.rs 24 takes for a secret: the daemon runs, and every update is refused.
* main.rs 147 speaks of a poll tick, but the dns poller signals only a
  changed prefix. Nothing else wakes the loop, so a container that is started is published
  at the next prefix change or SIGUSR1 only: `ContainersArePublished` speaks of
  what has not changed since the last listing.
* A Cloudflare POST that arrives after it was given up on leaves a second record, of which only the
  one listed first is ever updated.
* rfc2136.rs drops one label to find the zone, so hosts at the apex or two
  labels below it are refused by the server in every cycle.

## 7. Plan

Done, in this order: `Daemon` with its runs and proofs; `AddressPipeline`;
`RaParser`; the updaters; `DetectorDaemon` with the three detectors;
`DockerDaemon`; `Configuration`. Every safety property and refinement of the passing runs is
proved.

Next:

1. `Daemon` with `SetRecordCall` per domain in place of its own provider variables.
2. `get_record` of both providers with several records of a domain, which
   `SeedSome` and `SeedNothing` take as one answer.
