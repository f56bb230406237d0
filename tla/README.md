# Verification of the Salt project template

TLA+ models of the parts of this repository that have behaviour of their own,
TLC runs that check them on small instances, and TLAPS proofs of the most
important results for every instance. All paths below are relative to the
repository root.

## The system

| Component | Where | State | Operations | What is hard |
|---|---|---|---|---|
| Credentials of the driver | `salt/_sdb/vault_salt_sdb.py` (`_auth` to `_token`) | `_AUTH_FILES`, tokens in the cache, the auth files | pick a file, lay it over the inline block, log in or reuse a token | files change between any two looks at them, what was read is remembered, identities share one cache |
| Vault sdb driver | `salt/_sdb/vault_salt_sdb.py` | module globals of each process (`_CACHES`, `_RENDER_SECRETS`, `_VAULT_DOWN`, `_AUTH_FILES`); the cache file with tokens, KV versions, values and down markers | `get` of a path, with login, KV detection, read, one retry on 403, cache fallback; `_save_cache` | processes share the file without a lock and keep their first copy of it; the Vault fails, refuses, revokes, rotates between any two steps; processes are killed |
| Pillar check | `.check_pillar_for_roster.sh`, `check_pillar.sh` | a directory per host under `/tmp`, the job table | prepare, spawn in batches, wait, collect exit codes | background jobs end in any order; their logs live in directories named after the hosts |
| Working container | `.docker-misc.bash` (`drun`, `dbuild`), `entrypoint.sh` | the container, its roster, `extension_modules`, the marker file | create, wait, exec, `grains=`, stop | the entrypoint works in the background; several terminals share the container; it stops by itself after two hours |
| `gtpl` | `.docker-misc.bash` | git work trees | pull, update every submodule in a background job of its own | the greatest exit code is returned |
| Grains | `salt/_grains/mysql_available.py`, `redis_available.py` | none | ask the server, look its process up in `/proc` | the server hangs or changes its mind; pids are used again, pidfiles are left over or are another server's |
| Template installation | `install.sh`, `template_install.sh.example` | the target repository | copy, substitute, delete | stops half-way on an error, is run again |
| CI pipelines | `.gitlab-ci.yml.salt`, `.gitlab-ci.yml.salt-ssh` | artifacts, environments | jobs | order and conditions are GitLab's |
| Data | `pillar/`, `files/`, `etc/`, `salt/top.sls`, `Dockerfile` | - | rendered or built | - |

The driver runs inside the container: `entrypoint.sh` syncs it into
`extension_modules`, `drun` waits for that, and `drun check` starts the pillar
check, which runs one `salt-call`, and so one instance of the driver, per host.

What makes each correct:

* **Driver.** A value given to a pillar was the secret's value at some moment of
  the lookup, or no longer ago than the window that allowed it to be served.
  One process never sees two values of one path. Outages are neither made up
  nor paid for with a timeout per lookup; a lookup sends few requests. A stale
  token does no lasting harm, nor does a KV version guessed after a failure or
  a refusal. Every lookup ends.
* **Credentials.** They are those the docstring names, for what the files say;
  one process does not go back to weaker ones; a cached token is used only for
  the Vault, the mount and the role it was issued for, and after a refusal one
  is used that was issued for these very credentials.
* **Pillar check.** The exit code tells whether every pillar renders; each is
  rendered as its own host; no more than a batch runs at once; it ends.
* **Cache file.** A save takes effect as a whole or not at all. Temporary files
  stay behind only after a mishap (a kill, an outage, a removal that fails), one
  per context and mishap at most; nothing ever cleans those up.
* **Template.** After an apply that came to its end the repository is what the
  arguments say, whatever earlier applies left; the `CLAUDE.md` somebody last
  wrote by hand is still there.
* **Container.** No command runs before the driver is in place, no two salt
  processes work on one `/var/cache/salt`, `grains=` is that of this call, a
  call ends.
* **Grains.** A server that answers is found, one that does not is not; "local"
  is said of servers on this machine only, and of every one that shows itself;
  a hanging server does not hang Salt.

## Modules

| Module | What it is |
|---|---|
| `SecretReads` | abstract: what a lookup promises, with no caches, file, tokens or failures |
| `VaultSaltSdb` | the driver, and the refinement mapping to `SecretReads` |
| `MCVaultSaltSdb` | symmetry for its runs |
| `LookupCost` | the driver with counters: requests of a lookup, failures of a process, steps to the end |
| `VaultSaltSdbProofs` | type correctness of the driver, one timeout per window, and what lookups cost, proved |
| `VaultValuesProofs` | what a lookup may answer, proved: age of values, the refinement, outages, where KV versions come from, denials |
| `AuthResolve`, `MCAuthResolve` | the choice of credentials, and files and profiles for its run |
| `AuthResolveProofs` | its properties, proved |
| `AtomicFile` | abstract: the cache file as the driver relies on it |
| `CacheSave`, `MCCacheSave` | the steps of loading and saving it, and symmetry for its run |
| `CacheSaveProofs` | they implement the atomic file, proved |
| `PillarCheck`, `MCPillarCheck` | the pillar check, and rosters for its runs |
| `PillarCheckProofs` | its invariants, proved |
| `DrunContainer`, `DrunContainerProofs` | `drun`, `dbuild` and the entrypoint; the invariants, proved |
| `TemplateInstall`, `TemplateInstallProofs` | `install.sh`, applied again and again; the invariants, proved |
| `GrainProbes`, `GrainProbesProofs` | a probe of the mysql or the redis grain; the invariants, proved |

`AuthResolve` is what stands behind `UseToken`, `NeedLogin` and `NoCredentials`
of `VaultSaltSdb`, which has one identity and only asks whether credentials
exist; there are several Vaults, files and identities, and lookups are nothing
but calls of `_token`. `CacheSave` justifies the steps `LoadedCache` and `Save`
of `VaultSaltSdb`: a load and a save of the file happen at one moment. After an
outage of the machine the file may also be an earlier one; `VaultSaltSdb` has
that in the shapes of a lost file and of another context that saves its old
copy, and no context survives the outage. The other
modules do not share state; they meet in that a `drun check` runs the pillar
check in the container, and each of its `salt-call`s is a context of the driver.

### VaultSaltSdb

A *context* is one loaded copy of the Python module. `mem`, `render` and
`vdown` are its globals `_CACHES`, `_RENDER_SECRETS` and `_VAULT_DOWN`; `file`
is the cache file; `secret`, `retired` and `epoch` are the Vault. `pc` says
where in `get()` the context is. A step is the code between two points at which
the clock, the file or the Vault can be seen, so that everything may happen in
between:

| `pc` | code about to run | actions |
|---|---|---|
| `idle` | `get`, 551-568 | `LookupDedup`, `LookupBegin` |
| `load` | `_load_cache`, freshness window 574-583, `_kv_version` 478-484 | `LoadFresh`, `LoadThenRead` |
| `auth` | `_token`, `_login` up to its request | `UseToken`, `NeedLogin`, `NoCredentials` |
| `send` | `_request` 138-154 | `Skip`, `Send` |
| `wait`, `got` | the request under way, its answer on the way back | `VaultAnswers`, `NetworkFails`, `Receive` |
| `answer` | what `_login`, `_detect_kv_version` or `_read_secret` does with it | `HandleLogin`, `HandleDetect`, `HandleRead` |
| `save` | `_save_cache`; `after` says where the code goes on | `Save` |
| `unreach` | `_VaultUnreachable` is caught | `DetectUnreachable`, `FallBack`, `GiveUp` |

`lookup` is the running call (what it is after, the token it uses, the answer),
`outcome` how the last call ended. `Restart` is the end of a process, in the
middle of anything when "crash" is among `Faults`; `LoseFile` is a file that is
removed or cannot be read or decrypted. `Tick`, `Rotate` and `Revoke` are the
world.

Abstractions: a secret is a path with a version number; keys of a path
(`_extract`) are left out, as they change no state. A token is its origin
(`mint` time and revocation `epoch`). 503 and other 5xx are "fail"; 404, bad
JSON and unexpected codes are "odd". A 200 to a detection that has no
`data.options.version` is "bare": the driver takes it for a confirmed version 2
(466-467) and saves it, and the history `untold` remembers that the Vault has
answered so. There is one base URL, mount and login method. With cached login tokens the driver adds 10 s and 60 s constants: they
are `Margin` and `DefaultLease`. A context has one thread.

### LookupCost

The specification of `VaultSaltSdb` with two histories: `sent`, the requests of
the running lookup, and `met`, the failures (`_mark_down`) of the process since
it began. Its steps are the driver's (`CostSpecIsSpec`). `StepsLeft` bounds the
steps of a lookup from where it is: at most 70 from the load of the cache to
the end, through detection, read and second read, each with a login and the
saves in between.

### AuthResolve

One process makes one call of `_token` after the other, for several base URLs.
`file` is what each auth file says at the moment (absent, broken, or a
mapping), `inline` and `explicit` are the profile, `env` the JWTs of the job at
hand, by the variable or file they are found in; `memo` is `_AUTH_FILES`, `tokens` the section of the cache.

| `pc` | code about to run | actions |
|---|---|---|
| `idle` | the caller, with or without `force` | `Call` |
| `pick` | `_host_auth_file` 271-281, and the choice in `_auth` 287-293 | `Pick` |
| `look` | the memo, and `os.path.exists` of the chosen file 298-300 | `Look`, `Remembered`, `NoFile` |
| `open` | reading and parsing it | `Open`, `CannotOpen` |
| `token` | `_token`, `_jwt_token` | `StaticToken`, `NeedLogin`, `Incomplete` |
| `login` | the cached tokens, and the request of `_login` | `Reuse`, `Login`, `NoLogin` |
| `done`, `noauth`, `failed` | back in the caller | `Return` |

`Edit` changes any file between any two steps, `Expire` ends a cached token,
`Restart` ends the process.
`seen` (what each file said, or is remembered to say, during this call), `gap`
(the chosen file went away before it was opened) and `settled` (what the
process last used for each Vault) are histories the properties speak of.
Abstractions: opening and parsing is one step; a mapping is a function of its
keys; a token is the Vault that issued it and what was sent for it (`Payload`:
mount, role, and as `proof` the JWT or the `secret_id`). The key it is cached
under (`TokenKey`) is computed from the settings, apart from that, and says
less: the proof is not in it. A restart may bring the JWT of another job, while
the cache stays. When a token expires is left to `VaultSaltSdb`.

### GrainProbes

`kind` says which grain. `here`, `pid`, `mood` and `banner` are the server the
client is led to: on this machine or elsewhere, its process, what it does with
queries, the names it mentions. `proc` is `/proc` (of every pid: free, a server
of this kind, something else), `pidfile` the file here at the path the server
names. `pc` follows the code: the scan of `/proc` for any server process
(`scan`), the client binary (`client`), the rich query or INFO (`first`), the
plain query (`plain`), the pidfile (`pidfile`), the name of the process
(`comm`). `ServerStops`, `ServerStarts`, `MoodChanges`, `OtherStarts` happen
between any two steps. `mine` (pids that were servers here since the answer
came) and `steady` (nothing changed) are histories. How the client is connected
and the version are reported as told and left out. That the redis grain looks
for the word NOAUTH anywhere in the answer is modelled: it is a `banner`.

### CacheSave

A file is an inode with a name: `path` is the inode under the path of the
cache, `temps` are those under names of temporary files, `tmp` and `fd` the
files a context writes and reads. `store` and `whole` are what was written, and
whether all of it. `MakeTemp`, `Write`, `Replace` and `Remove` are the lines of
`_save_cache`, `Fail` an exception in the middle, `NoRoom` one at its start.
`Kill` is a process that ends anywhere. Nothing is synced by the driver, so the
names reach the disk when the system likes (`Sync`): `disk` is what they were
then. `PowerLoss` ends all processes and puts the names back to that, so that
the replaced file and removed temporary ones come back, and what is under the
path may be cut short. In the abstract file the save of a context is `offered`
until it is committed or dropped, and `kept` is what an outage falls back to.

### PillarCheck

`main` is the phase of the script, `todo` the hosts its current loop has not
reached, `sampled` the length of `job_pids` as last read, `job` the phase of
each background check. `EnvOf` is the directory name, which is not injective in
the code; `stderr` and `grains` are files in it. Hosts that share a directory
overwrite each other's files there, and the properties say what holds all the
same: `ErrorsReported` and `RendersOwnHost` have no assumption on names. What is wrong with each pillar
is chosen at the start. `Kills` lets a `salt-call` die without a word.

### DrunContainer

`up`, `entry`, `roster`, `modules` and `marker` are the container and its
entrypoint, `pc` the phases of every call. `alone`, fixed at the start, says
which calls are made one after the other (`MayStart`): all of them, those with
`grains=` while ordinary ones overlap, or none; some promises need the first,
`OwnGrains` the second at least.
`Stop` is `dbuild`, `docker stop` or the two hours running out.

### TemplateInstall

`tree` says of each area of the repository that `install.sh` owns by which
apply it was written, for which variant, and what became of its `#vault#`
lines and of the project's notes. `pc` is the place in the script, one action
per section of it; `Breaks` is any command that fails, at any place, which
`set -e` turns into the end. `wants` are the arguments of the apply, chosen
anew each time. The profile and the macro, which only a project with Vault
has, are areas of their own, since the macro comes with the pillar and the
profile later. The variant is "other" when ARG2 is neither of the two the
script knows: it asks only that there is one (10-13), and runs to its end with
no branch of either taken (`NoCi`). `CLAUDE.md` and its saved copy are versions
written by hand or the link. A section is one step: a script that stops inside one leaves less
than the next section finds, and every section but the choice of the Vault
lines starts from fresh copies. The copies of `scripts`, `salt` and the helper
scripts (322-334) belong to `CopyCi`.

## Runs

Times are for two workers.

| Run | Shows | Bounds |
|---|---|---|
| `VaultValues` | `CacheTruthful`, `OutageIsReal`, `TypeOK`, and that the driver implements `SecretReads` | two contexts, one path, clock 0..1, one rotation, the static token revoked once, all faults; 0.68 M states, a minute and a half |
| `VaultBreaker` | `SixRequests`, `OneFailurePerProcess`, `DenialIsGenuine`, `OneTimeoutPerWindow`, `LookupAdvances` | one context with restarts, two paths, detection and login, clock 0..4, window 2, leases of 3, one revocation; 2.0 M, a minute and a half, and lookups of six requests among them |
| `VaultFaults` | `KvFromMount`, `ServedWithinBound`, `LookupTerminates` | one context with restarts and every fault, KV v1 mount to be detected, clock 0..2, leases of 2, one rotation; 0.45 M, a minute |
| `VaultSkip` | violated: `SkipOnlyInWindow` | finding below |
| `CacheSaves` | `TypeOK`, `LeftoversBounded`, and that the steps implement `AtomicFile` | two contexts, two contents, four inodes, two mishaps; 1.0 M, over two minutes |
| `PillarBatch` | `TypeOK`, `AtMostBatch`, `ErrorsReported`, `RendersOwnHost`, `NeverStuck`, `ScriptEnds`, `WorkShrinks` | three hosts, two of them with one directory, batches of two, any `salt-call` may be killed; 53 k |
| `PillarKilled` | violated: `RendersEveryHost` | a killed `salt-call` |
| `DrunCalls` | `TypeOK`, `CommandAfterSync`, `OneSaltAtATime`, `OwnGrains`, `DrunsEnd` | three calls, two with `grains=`, up to three containers, stops and failures, the three ways of overlapping; 53 k |
| `DrunRace` | violated: `NoCommandBeforeSync` | three overlapping calls |
| `InstallAgain` | `TypeOK`, `AppliedIsComplete`, `HandWrittenKept` | three applies with any arguments, a misspelled variant among them, two hand-written files; 0.3 M |
| `AuthFiles` | `TypeOK`, `TokenIsOwn`, `AsDocumented`, `OnlyUpwards` | two Vaults, one with a file of its host's, five contents, three profiles, the JWTs of two jobs, two edits; 2.5 M, two minutes |
| `Grains` | `TypeOK`, `LiveMeansAvailable`, `LocalIsServer`, `HereMeansLocal`, `ProbeEnds` | either grain, three pids, two events beside the probe; 0.7 M |

Why these bounds are enough to meet the interesting cases:

* Two contexts are what it takes to overwrite each other's file; a third would
  be a second "other". One version change tells an old value from a new one,
  and in `VaultFaults` the clock reaches both ends of every window (`FreshFor`
  1, `OfflineMaxAge` 2, `Cooldown` 1); with two contexts it reaches the end of
  the freshness window and of the breaker. That `CacheTruthful` and
  `ServedWithinBound` hold beyond these bounds is proved below.
* `OneTimeoutPerWindow` is stated for one context at a time with all its
  restarts, which is how salt-ssh renders. It needs the file to be kept, so
  faults are off in that run. Two contexts that send at the same moment each
  meet their own timeout. How long the window and the file protect a process
  is one thing, how often it can fail at all another: `OneFailurePerProcess` is
  the second, checked here and proved with all faults and any contexts.
* In `VaultFaults` one context suffices: what another context could do to a
  lookup is to leave some file for it, and failing saves, restarts and a lost
  file leave every file a context can leave.
* The batch of two is smaller than the roster of three, so the throttle has to
  wait. Three calls of `drun` are one that creates the container, one whose
  `docker run` fails, and one that finds it.
* Two savers and the file under the path take three inodes; the fourth is for
  what a mishap leaves behind or the disk still names, and when all are taken
  `mkstemp` fails.
* Three applies are one that leaves something, one that stops half-way, and one
  that has to mend both.
* With two Vaults one has the host's file and one has not, and the configured
  file serves both. Two edits put a file there and take it away again, within
  one call or over several. The JWT role and the AppRole of the run have one
  name, so that only the method tells their tokens apart; and there are the JWTs
  of two jobs, which the keys of their tokens do not tell apart.
* Of three pids one is the server, one its successor, or a namesake, and one
  something else; two events are a server that stops and a pid that is used
  again.

Fairness. `VaultFaults`: each running lookup takes its next step, which holds
as long as the process is scheduled; a request ends because it has a timeout
(151-157). Nothing is assumed of the Vault, of the clock or of restarts.
`PillarBatch`: the shell and every `salt-call` go on. `DrunCalls`: the
processes in the container and the callers go on, commands end, and nobody has
to stop the container; `DrunsEnd` promises an end only if a container lasts,
since the `until` loop of a call whose container is gone spins forever.
`Grains`: the probe goes on, and a query that is not answered is killed after
its timeout (mysql 97-102, redis 86-92); nothing is assumed of the server.

Every property is tied to the code by at least one mutation of a mapped
definition that violates it (`PROJECT.json`, "mutants"); the mutated forms
stand before the originals, with the mistake they stand for in a comment.

## Proofs

Every invariant and action property of the passing runs, and both refinements,
are proved for all values of the constants. The assumptions on constants stand
by name in the modules that declare them, and TLC evaluates them in every run;
one theorem, `OneTimeout`, states more of its own, given below. In each module the
proof follows one inductive invariant: `Init` implies it, every action keeps it
(a lemma per action where there are many), and the properties follow.

| Module | Theorem | Property | From |
|---|---|---|---|
| `VaultSaltSdbProofs` | `TypeCorrect` | `TypeOK` | `TypeInv` |
| | `OneTimeout` | `OneTimeoutPerWindow` | `WindowInv`; assumes no faults and one context at a time |
| | `LookupsAdvance` | `LookupAdvances` | `TypeInv`, `Moves` |
| | `AtMostSixRequests`, `ProcessFailsOnce` | `SixRequests`, `OneFailurePerProcess` | `CostInv` |
| `VaultValuesProofs` | `CachesTruthful`, `ServedInTime` | `CacheTruthful`, `ServedWithinBound` | `ValueInv` |
| | `LookupsAreReads` | `ImplementsReads` | `ValueInv` |
| | `OutagesAreReal` | `OutageIsReal` | `OutageInv` |
| | `VersionsAreFromMount` | `KvFromMount` | `VersionInv` |
| | `DenialsAreGenuine` | `DenialIsGenuine` | `TokenInv` |
| `AuthResolveProofs` | `AuthTypeCorrect`, `TokensAreOwn`, `CredentialsAsDocumented`, `CredentialsOnlyRise` | `TypeOK`, `TokenIsOwn`, `AsDocumented`, `OnlyUpwards` | `AuthInv` |
| `CacheSaveProofs` | `SaveTypeCorrect`, `SaveIsAtomic`, `LeftoversAreBounded` | `TypeOK`, `ImplementsAtomicFile`, `LeftoversBounded` | `SaveInv` |
| `PillarCheckProofs` | `CheckTypeCorrect`, `BatchIsKept` | `TypeOK`, `AtMostBatch` | `CheckInv` |
| | `EachAsItself`, `ErrorsAreReported` | `RendersOwnHost`, `ErrorsReported` | `ReportInv` |
| | `NothingTwice`, `ScriptNeverStuck` | `WorkShrinks`, `NeverStuck` | `ReportInv` |
| `DrunContainerProofs` | `DrunTypeCorrect`, `CommandsFollowTheSync`, `SaltRunsAlone`, `GrainsAreOwn` | `TypeOK`, `CommandAfterSync`, `OneSaltAtATime`, `OwnGrains` | `DrunInv` |
| `TemplateInstallProofs` | `InstallTypeCorrect`, `AppliesAreComplete`, `HandWrittenIsKept` | `TypeOK`, `AppliedIsComplete`, `HandWrittenKept` | `InstallInv` |
| `GrainProbesProofs` | `ProbeTypeCorrect`, `LiveIsAvailable`, `LocalServersAreServers`, `ServersHereAreLocal` | `TypeOK`, `LiveMeansAvailable`, `LocalIsServer`, `HereMeansLocal` | `ProbeInv` |

**The driver.** `TypeOK` is not only types: it relates `lookup` and `mem` to
`pc`. It is inductive together with what the answer under way is (`TypeInv`):
who waits for what, and that an answer that carries data or a grant does so only
for the request it answers. The other invariants are built on it, one on the
other:

* `ValueInv`. A cache entry is truthful if its value was current at its stamp or
  later (`CurrentSince`). That is not inductive by itself: an entry is written
  from an answer that was received long before, and stamped with a time read
  earlier still. `ValueInv` adds that clocks of lookups and entries are not
  ahead of `now`, that the data of an answer under way was current when or after
  its lookup began, and that a superseded version was superseded before `now`.
  Two facts about `CurrentSince` carry the argument: it is kept by every
  rotation, because a version that is current now is retired at `now`, which is
  not before the time in question; and it is weakened by an earlier time. Every
  step then either copies a truthful cache or writes one truthful entry. The
  refinement needs no more: of the steps of a context only those that begin or
  end a lookup are seen, the second being allowed because what is handed out is
  truthful, and all others stutter.
* `OutageInv`. In every cache, of a process or in the file, the down marker is
  not later than the last failure that a request met; and whoever is told, or about to be told, that the Vault
  is unreachable is within a window of such a failure, or met one itself.
* `VersionInv`. The KV version of every cache is the mount's own or none, or it
  is 2 and some detection was answered without a version; a bare answer that is
  on its way or being handled was recorded when it was given. The one step that
  writes a version takes it from such an answer or from a full one; whatever is
  assumed otherwise stays in the running lookup.
* `TokenInv`. The retry after a 403 carries a token that was issued after its
  lookup began. With a static token there is no such retry, and its denial is
  what the Vault says of the only credentials there are.
* `WindowInv`. Until the window ends nothing is on its way to the Vault, and the
  marker is in the memory of the context and in the file once saved. It is false
  as soon as a save can fail or a second context has an older copy, hence the
  assumptions.
* `CostInv`. The proofs about costs do not look at the actions of the driver but
  at `Moves`, the graph of their places (`pc`, `after`) and goals, which each of
  them follows (`AdvanceMoves`). In that graph what a request or a step takes
  from `RequestsLeft` or `StepsLeft` is arithmetic. `SixRequests` is not
  inductive, but the requests sent and those left are six at most. For
  `OneFailurePerProcess`: a process that met a failure has its marker
  (`_VAULT_DOWN`), and nothing under way whose answer could clear it. Nothing is
  said of the file, so others may do with it what they like; the price is the
  first divergence below.

**Credentials.** `AuthInv`: the key of a cached token is the one that the login
it came from leads to (`OwnKeys`), while settings that lead to one key may
differ in the proof only (`KeysTellLogins`), which is what `TokenIsOwn` says of
a token out of the cache; one that a forced call returns is from its own login.
Each file's present or remembered content is in `seen`; the file that was
chosen still has the reason it was chosen for, unless it went away (`gap`); what
a process used before for a Vault is the inline block, or still in its memo.
`OnlyUpwards` follows from the last, since the memo is never forgotten.

**The cache file.** `SaveInv`: types, no two saves have one temporary file
(`Apart`), and the file about to be renamed was written to its end (`Complete`).
Opening the file is the moment of the load, since what is open is never a
temporary file and only those are written; renaming is the moment of the save.
`LeftoversAreBounded` counts: a step that is no mishap takes from `temps` what
it takes from `tmp`, and a mishap adds at most what the contexts own. An outage
brings back what the disk has, which is what there was at some moment before it,
so no more than was left until then and one file per context (`KeptFew`). It
needs finitely many contexts and inodes.

**The pillar check.** `BatchIsKept` holds since the throttle counts the running
checks before each it starts, and those only get fewer by themselves.
`ReportInv` follows the log of each check from phase to phase. What salt lists
stays on its own standard output; the log of a host with a directory of its own
is emptied by nobody else (`OwnDirectory`); what a shared log contains may be
lost, but makes no check fail unless some check found
an error. The name in the grains file is always that of a host of the
directory. `ReportInv` also says which checks are started at each phase of the
script, from which both halves of termination follow: `WorkLeft`, the loops, the
hosts of the loop and the phases of the checks still to come, falls with every
step, and when no check runs the script has a step to make.

**The container.** `DrunInv`: the marker of a container means that its sync was
made, a call that waited saw it, and, for calls made one after the other, a
container without a marker has its creator waiting for it, and the roster is
that of the only call. When ordinary calls overlap one with `grains=`, the
roster is its own from the wait on (`Owns`): the marker it waited for was left
by the entrypoint of its container, not by the rerun of another call with
`grains=`, since no other is under way (`Awaits`); that entrypoint sleeps from
then on, and ordinary calls do not touch the roster.

**The template.** `InstallInv` says of each place in the script which areas are
finished there, in terms of the current arguments only; what earlier applies
left does not appear in it.

**The grains.** `ProbeInv`: what the probe knows at each place of a machine that
may have moved on, in terms of the pids that were servers since the answer, and
what it knows of one that held still.

Left to TLC is liveness (`LookupTerminates`, `ScriptEnds`, `DrunsEnd`,
`ProbeEnds`): it needs `ENABLED`, which the prover does not support. What can
be proved of the first two is: `LookupAdvances` for lookups, `WorkShrinks` and
`NeverStuck` for the pillar check. What remains is that a step that can be made
is made, which is the fairness. `DrunsEnd` has no such measure, since its wait
polls for as long as the container likes.

## Where code and text disagree

* `VaultSkip`. `_VAULT_DOWN` (lines 127, 146, 162) has no time: a process that
  met one failure skips the Vault until it ends, although the docstring says
  "skip it for this many seconds" (38) and "the marker clears once Vault
  answers again" (58). For a salt-ssh render this hardly matters; for a
  salt-master it means that an outage of a second lasts until its worker ends.
* `PillarKilled`. The exit code of `salt-call` is not looked at (54-55): a
  killed one counts as PASSED.
* `DrunRace`. The wait for the marker is made only by the call that creates the
  container (`.docker-misc.bash:66-94`): another that comes in between runs its
  command before `sync_sdb`. The same happens after an interrupted wait.

These have no run of their own:

* `web-1.example` and `web.1-example` share a directory
  (`.check_pillar_for_roster.sh:78`): the later check empties the log of the
  earlier, and a pillar whose error only stderr tells of passes.
  `ErrorsReported` says what is still reported.
* `install.sh:245` copies into `salt/_states` under `set -e`, and `salt` is
  created only at 324: the first apply to the empty repository of
  `README.md:5-27` fails there (`NoStates`), until somebody creates the
  directory.
* `install.sh` asks for `salt` or `salt-ssh` as ARG2 and tests that it is not
  empty (10-13): with a misspelled one it copies what is common to both, leaves
  the placeholders only a variant fills in, and ends with success. `AppliedIsComplete` is about
  the two.
* In a repository that has the submodules, `install.sh` copies their `.py` files
  into `salt/_states` and `salt/_utils` (245-248) before it pulls their masters
  (447-455): what is copied is as old as the last apply. The model has one area
  for them and does not date their sources.
* The dedup within one process (59) means that a process older than
  `cache_fresh_for` does not observe a rotation when the window lapses (42).
* A context that loaded its cache before another recorded a failure does not
  see the marker (217), so "subsequent lookups skip the network" (55-57) is true
  of fresh contexts only.
* A host's auth file that is removed after it was chosen (293) and before it is
  looked at (300) is taken for a missing configured one: with an inline block
  the configured file is passed over. `AsDocumented` says that this is the only
  such case.
* The mount's KV version is "autodetected if omitted" (40), but a 200 that
  leaves `data.options.version` out is kept as a confirmed version 2 (466-467,
  486-488), although a v1 mount may have no options. `KvFromMount` says that
  this is the only way a wrong version gets into the cache.
* The keys of cached login tokens name Vault, method, mount and role (421, 437).
  A job gets the token that another job's JWT or a replaced `secret_id` was
  exchanged for, as long as it lasts; only after a 403 its own credentials are
  sent. `TokenIsOwn` says that nothing else is mixed up.
* A running process does not see an auth file that was changed (`_AUTH_FILES`,
  298), not even on the forced retry: a static token that was replaced in the
  file is sent again.
* "Locality is a proof, not a heuristic" (`mysql_available.py:13`): a server in
  a container or on another machine whose pidfile has a namesake here, left by
  or belonging to a server here, comes out as local. `LocalIsServer` promises no
  more than that the pid named a server of this machine.
* "Hard upper bound on the whole probe" (`mysql_available.py:45`): it bounds one
  query (47), and there are two of them.
* The redis grain looks for NOAUTH anywhere in the answer
  (`redis_available.py:167`): a path that contains the word makes an open server
  one that asks for a password.

## Not modelled

The plan of the project is carried out. What is left has no behaviour to check,
or none that this repository decides:

* `gtpl` pulls and updates submodules with one background job each; the jobs
  share nothing and the result is the greatest of their exit codes.
* The order and the conditions of CI jobs are GitLab's to interpret, and the
  scripts the jobs call are in another repository.
* The images and the convenience scripts are straight-line commands; pillar,
  states and configuration are data.

Of the modelled parts, left out are the contents of files (`_fernet`,
`_repo_id`, templates), printing and logging, and the ssh key handling of the
entrypoint; further:

* An encryption key without the library for it: load and save then end in the
  `CommandExecutionError` that they raise again (233-234, 265-266), and so does
  every lookup.
* Ctrl-C in the wait loop of `drun` (91-93). The next `drun` finds the container
  and does not wait, exactly like the second caller of `DrunRace`.
* Edits of `CLAUDE.md` once it is the link: they land in `AGENTS.md`, which the
  next apply writes anew (392, 397), as the repository's `README.md:60-62` says.

A wall clock that is set back is left out: the promises are in
wall-clock seconds and do not survive a jump.
