# Verification of libblockdev

libblockdev is a C library that gives storage tools one API over the programs
and libraries that manage block devices. This directory holds TLA+ models of
its loader, its utilities and its plugins, the TLC configurations that check
small instances of them, and proofs for TLAPS of the properties that matter
most. `PROJECT.json` lists the runs, the theorems, the hazards, and for every
definition the source lines it models.

Paths below are relative to the repository (`src/lib/blockdev.c.in`), which
`PROJECT.json` names with one more `src/` in front.

Check a run with `tlc -config MCDepsCheck.cfg MCDepsCheck`, the proofs of a
module with `tlapm DepsCheckProofs.tla`.

## 1. The system

| Part | State it keeps | Operations | What makes it correct |
|---|---|---|---|
| Plugin loader, `src/lib/blockdev.c.in` | `init_lock`, `initialized`, `plugins[]` (name, `so_name`, handle) | `bd_init`, `bd_try_init`, `bd_ensure_init`, `bd_reinit`, `bd_try_reinit`, `bd_is_initialized`, `bd_is_plugin_available`, `bd_get_plugin_soname` | handle, name, pointers and the dynamic linker agree between calls; results are honest |
| Configuration files, same file | none; a directory of `*.cfg` files | `get_config_files`, `process_config_file`, `load_config` | every listed name is tried, later files first |
| Generated dispatch, `scripts/boilerplate_generator.py` | one function pointer per API function | wrapper, stub, `load_xxx_from_plugin`, `unload_xxx` | a pointer never leads into an unmapped object or to NULL |
| Dependency checks, `src/plugins/check_deps.c` | one mask of found dependencies per kind and plugin, one lock per plugin | `check_deps`, `check_module_deps`, `check_dbus_deps`, `check_features` | TRUE only for what was found, errors match answers, nothing is probed twice |
| Running programs, `src/utils/exec.c` | a child, three pipes, line buffers, a task number | `bd_utils_exec_and_report_progress`, `..._with_input`, `..._and_capture_output`, `..._report_status_error` | output complete, result and error match the exit status, nothing left behind |
| Versions, `src/utils/exec.c` | none | `bd_utils_version_cmp` | agrees with the order of version numbers |
| Progress reporting, `src/utils/exec.c` | one global and one per-thread function, a counter | `bd_utils_init_prog_reporting`, `..._thread`, `mute`, `report_*` | each started task is finished once |
| LVM configuration, `src/plugins/lvm/lvm-common.c`, `lvm.c`, `lvm-dbus.c` | `global_config_str`, `global_devices_str`, `global_config_lock` | setters, getters, every command or method call, VDO pool creation | a command runs with fixed options, a temporary override is private and undone |
| LVM over D-Bus, `lvm-dbus.c` | a job object in lvmdbusd | start, poll, result, remove | the job's outcome is the call's outcome |
| LVM sizes, `lvm-common.c` | none | rounding, padding, metadata sizes | no wrap-around |
| Loop devices, `src/plugins/loop.c` | `/dev/loopN`, `loop_control_lock` | setup, teardown, flags | two setups do not disturb one another; a failed one leaves nothing attached |
| Mounting, `src/plugins/fs/mount.c` | mount table, a child with other credentials | mount, unmount | the child's failure reaches the caller |
| Generic file systems, `src/plugins/fs/generic.c`, `fs.c` | signatures of a device | wipe, clean, detect, resize, check, repair | a temporary mount is taken down on every way out |
| Partitions, `src/plugins/part.c` | a label, the kernel's view of it | create, delete, resize, write label | the kernel sees what was written |
| ZFS, `src/plugins/zfs.c` | the cached version, `runtime_caps`, under `deps_check_lock` | probes, pools, datasets, keys | OpenZFS is asked once; the answers agree with its version |
| Listings in `btrfs.c`, `zfs.c`, `lvm.c`, `mdraid.c` | none | parsing and sorting what programs print | parents first, segments merged, notations convertible |
| Kernel modules, `src/utils/module.c` | libkmod context, cached kernel version | have, load, unload, compare versions | contexts released on every path |
| crypto, mdraid, swap, dm, mpath, btrfs, nvme, nvdimm, s390, smart, per-type file systems | the devices themselves | sequences of programs or library calls, with clean-up | what is acquired is released once; a refused or failed call changes nothing |
| Logging, boxed types, Python overrides | a pointer and a level; none | | |

Interaction. An application calls `bd_*init`, which loads plugins under
`init_lock` and fills in the function pointers. A call `bd_xxx` jumps through
its pointer without any lock. In the plugin it typically calls `check_deps`
for its tools (under the plugin's `deps_check_lock`), builds an argument
vector and runs it with `bd_utils_exec_*`, which calls back the application's
progress and log functions on the same thread. The LVM plugins put
`global_config_lock` around that. The only nesting of locks is
`global_config_lock` around `deps_check_lock`, in the D-Bus plugin's VDO
operations; nothing takes them in the other order.

What is hard here: readers without a lock beside the loader's writes;
double-checked locking around the dependency masks; a child that reads, writes
and dies in any order against a caller that writes everything before it
reads; callbacks that run with a lock held; a global that is replaced for the
time of one command; udev, other threads and a daemon that come between two
steps; and, in several hundred functions, steps that fail half-way with
something to release or to undo.

## 2. Modules

| Module | Models | Extends / uses |
|---|---|---|
| `PluginLoader` | loader and generated dispatch, concurrent threads | instantiates `PluginRegistry` |
| `PluginRegistry` | what the loader promises: loads are atomic | |
| `PluginConfig` | configuration files as operators | used by `MCPluginLoader`, `MCAlgorithms` |
| `DepsCheck` | the four checks and their lock | |
| `VersionCmp` | version comparison as operators | |
| `ExecCall` | one call, its child and pipes | |
| `LvmConfig` | the LVM configuration in either plugin | |
| `LoopSetup` | the loop plugin on the kernel's devices, several threads, udev | |
| `MountAsUser` | `run_as_user`: a child with another identity | |
| `LvmDbusJob` | one method call to lvmdbusd and its job | |
| `PartLabel` | writing a label against udev | |
| `ZfsCaps` | version and capabilities of OpenZFS, several threads | |
| `Listings`, `LvmSizes` | lists and sizes as operators | |
| `CallPaths` | the vocabulary of paths: acquire, release, change, fail, refuse | |
| `CryptoPaths`, `PartPaths`, `FsTypePaths`, `FsPaths`, `DevicePaths` (loop, swap, dm, multipath, NVDIMM, S/390), `VolumePaths` (btrfs, MD RAID), `UtilsPaths`, `NvmePaths`, `SmartPaths`, `ZfsPaths`, `LvmCliPaths`, `LvmDbusPaths` | the functions of the plugins as sets of paths | `CallPaths` |
| `Operations` | a caller that runs any path of any function, with failures | |
| `PluginLoaderProofs`, `DepsCheckProofs`, `LvmConfigProofs`, `ExecCallProofs`, `LoopSetupProofs`, `OperationsProofs` | theorems about one component | the component, `TLAPS` |
| `OutcomeProofs` | theorems about `MountAsUser`, `LvmDbusJob`, `PartLabel` and `ZfsCaps` | these, `TLAPS` |
| `ComponentsProofs` | theorems about the components together, `LvmSizes` and `VersionCmp` | `MCComponents`, `LoopSetupProofs`, `OutcomeProofs` |
| `MCAlgorithms` | reference definitions for the operators, and their inputs | the operators' modules |
| `MCComponents` | the components that share no state, in one instance | `MCAlgorithms`, `LoopSetup`, `MountAsUser`, `LvmDbusJob`, `PartLabel`, `ZfsCaps` |
| `MCOperations` | all paths, and the known exceptions | `Operations`, the path modules |
| other `MC*` | values of the constants | the component |

A definition whose name continues that of another one after an underscore
(`Dlopen_again`) and that a comment calls a mutant is a plausible mistake in
the code. No specification uses it; putting it in the place of the original
makes the property it is listed with fail, which shows that the property
depends on that line of the code.

### PluginLoader

`init_lock`, `initialized`, `handle`, `so_name` and `fn` are the C variables of
the same names (`fn[p][f]` is the generated pointer `_bd_xxx`). `refs[p][so]`
counts the `dlopen ()`s made for `p` and not yet closed: the dynamic linker's
count of an object is the sum over the plugins. `sonames`, `cur`, `sym` and
`lib` are locals of `load_plugins`, `do_load` and `load_xxx_from_plugin`, one
copy, since only the holder of `init_lock` has them. `before` is a history
variable: the tables when the lock was last taken.

A thread is idle, waits for the lock, is inside a plugin's function, is in the
middle of `bd_get_plugin_soname`, or holds the lock and is at one of the
loader's steps. A step is a write another thread can see without the lock:
each function pointer, the handle, `g_free` of the name and the store that
follows it, `dlclose`. `dlsym` on a function the object lacks is two steps
(`ResolveAbsent` writes NULL, `RestoreStub` puts the stub back), as generated.
A plugin's init function may fail, `dlopen` may fail: both are choices of the
environment. `unload` and the plugin's close function are modelled up to the
close function's own effects. `CallInit` records the arguments;
`EnterAndReturn` and `EnterAndLoad` take the lock and do what precedes the
first visible write, including `bd_ensure_init`'s early return; `Finish` sets
`initialized`, releases the lock and returns.

`Quiesced` says whether the application keeps API calls and reloads apart. The
library neither requires that in words nor enforces it; `NoUnmappedCode` and
`NoFreedName` hold for such an application only.

Bounds of the runs: two threads suffice for every race, since the lock admits
one writer and readers do not disturb one another. One built plugin with two
candidate objects, one of them lacking a function, one plugin that is compiled
out and a name there is no plugin for reach every branch. More plugins, and an
object shared by two of them, are covered by the proofs.

### PluginRegistry

The contract: an init call chooses, at one moment, an object for every plugin
it is asked for, from those the request and the configuration allow, sets the
table of all functions accordingly, and returns TRUE only if nothing required
is missing. `PluginLoader` implements it under the mapping at the end of that
module: while the lock is held the abstract tables are `before`, and the new
ones take effect with the release. TLC checks this on the run `loader`, the
theorem `RegistryCorrect` proves it.

### PluginConfig, VersionCmp, Listings and LvmSizes

Operators without state. `MCAlgorithms` enumerates their inputs from initial
states and compares them with definitions that say what is wanted rather than
how: a name is tried if and only if some readable file lists it, and one from a
later file comes before one from an earlier file; versions compare like sequences of
natural numbers, and one with a numeral that is read as octal is at most found older
than it is; the parent of a vdev is the nearest line above with a smaller
indent; the rows of one LV become one LV with all its segments; the
two notations of a UUID hold the same digits and convert into each other; a
rounded size is the nearest multiple of the extent size that fits in the type. Three files reach every
order of override, unreadable file and absent plugin. Versions have up to two
components, from numerals that distinguish numeric from textual order and have
leading zeros, as those of LVM do (0, 2, 9, 10, 02, 09, 010; the latter two are
read as 0 and 8), and a one-digit revision, since the pattern `-R` of `exec.c` accepts only
one digit. `MaxUint64` is 1000 in the runs, a stand-in for 2^64 - 1, which only
matters for the saturation of `g_ascii_strtoull`. Lists have up to four lines
(five where five subvolumes are needed to go wrong), and for vdevs up to four below the
line of the pool, so that one line can take two entries off the stack and a line
that is no vdev can stand between two that are. Sizes go up to 31 with a
default extent of 4.

### DepsCheck

`avail_deps` is the mask of each kind of check, `lock` the plugin's
`deps_check_lock`, `val`, `i` and `error` the locals. `Call` is the lock-free
first load, `Lock` the second one, `Probe` one iteration of the loop,
`Unlock` and `Reread` the end with its third, again lock-free, load. Masks are
sets of bit numbers. The result of a probe is the environment's: `present`
says what is installed, and `Change` may install or remove something at any
moment, `MaxChanges` times. `error` is the set of dependencies the message
names. A probe that fails without setting an error, which
`check_dbus_deps`, `check_module_deps` and `check_features` can meet, is
`silent`; only `check_features` passes that on.

Bounds: two threads and two kinds, one of which names silent failures in its
message and one of which does not; two dependencies, so that a loop can find
one and miss the other; one change, which is enough to make an answer stale.

### ExecCall

One call from start to return, interleaved with its child. The child runs a
finite script of reads, writes, closes and an exit; the pipes hold `PipeSize`
units. Bytes are text, the mark of a progress line, newline and NUL, because
that is all the code tells apart. `Write` writes what fits and blocks
otherwise; `Poll` reports readable data and hang-up. `_process_fd_event` is
several actions: `Read` is one `read ()` that returned something, and the child may
write between two of them; `ReadEnds` the one that did not; `TakeLine` one pass
of the loop over complete lines, which reports a progress line or keeps any
other; `ReadFails` the error return behind that loop; `ProcessFd` the end of file,
with the last line, and the way back to the poll loop. `rest[s]` is the read
buffer from `read_buffer_pos` on, `last` how the last `read ()` ended. `Reap` and
the `Wait` actions are `waitpid ()` and its four outcomes. The
bytes a buffer holds are left to chance, as are short writes. `reports` lists
the calls of the progress function. Each system call
in `env.faults` may fail. `ExecAssumption` asks of a script that it ends with an
exit and does not write to an output after closing it; a program that tries
gets an error, writes nothing and goes on. `bd_utils_exec_and_report_status_error` goes through
`g_spawn_sync`, which is GLib's and modelled by what it returns (`SpawnSync`,
`SyncRead`, `SyncDone`, marked external).

Bounds: seven scripts, each the smallest that reaches one kind of behaviour
(listed in `MCExecCall`); pipes of two units with three units of input or
output, so that both kinds of pipe fill up; every combination of signal
dispositions; faults with and without a failing `waitpid ()`.

### LvmConfig

`config` is a record of what the application set and what a VDO operation
appended; `devices` the filter; `lock` is `global_config_lock`; `old` the local
`old_config`; `argv` the options the running command was given. The operations
are the setters and getters, a command (`CallLvm`: `call_lvm_and_report_error`,
`call_lvm_and_capture_output` and `call_lvm_method`), the VDO operations, and
the three that read the strings in their own way (`bd_lvm_config_get`,
`bd_lvm_vgcfgbackup` and `restore`, the lvmdevices calls). In the D-Bus backend
`CommandEnds` may lead to `JobEnds`, which waits with the lock released, or
held if the caller of the method holds it. A running command may call the
application's progress or log function (`Callback`); if `reentrant`, that
function asks for the configuration. Looking for tools and for D-Bus objects
is one step whose result is arbitrary: what happens inside it is `DepsCheck`.

Bounds: two threads, one configuration beside NULL, one filter, one policy.
More values of a kind would only be copies: no operation compares strings.

### LoopSetup

Several threads call `bd_loop_setup_from_fd`, `bd_loop_teardown` and
`bd_loop_set_autoclear`, with one action per ioctl, since anything may happen
between two of them. `loop_control_lock` is held over `GetFree` alone, as in
the code, so two threads can be told the same number and `Associate` of the second
is refused. The kernel's side (marked external) is: who has a device open, which
call attached its file, the offset, and the flag AUTOCLEAR with its effect at
the last close. `SetStatus` and the block size may answer EAGAIN, as often as
they are tried; udev opens and closes a device at any time.

Teardown and flag changes may name any device at any time, as in the code, which
only opens the path: the device may be free, torn down and set up again, or in the
middle of its setup. Whether a block size is set, and which value the flag gets,
is chosen where it matters. `early` is a history variable: the setups whose status
some flag change has read before they had said TRUE. The code does not prevent
that; what it then breaks is stated in `WindowKept` and `FailureDetaches` as an
exception, and TLC refutes both without it.

Bounds: two threads with two calls each and one device, which makes them meet;
`Tries` is 2 (10 in the code), so that both "succeeds later" and "gives up"
happen; udev opens once.

### MountAsUser

`run_as_user`: parent and child are two processes. The child changes group and
user, does the work (`mounted` stands for the effect of mounting or unmounting),
writes the error's text to the pipe and exits with its code. It may be killed
or, `MaxStops` (2) times, stopped and continued; `waitpid ()` reports changes that
`news` holds, one at a time, and may fail. The codes are those of `fs.h`: the
parent takes a status above `BD_FS_ERROR_AUTH` for a generic failure.

### LvmDbusJob

`call_lvm_method` and `call_lvm_method_sync` against the daemon: `reply` is the
answer to the method, `job` the job object, `work` what became of the actual
LVM command. The daemon may answer at once, with a job, with an error or never;
it may crash and come back without its jobs `MaxCrashes` (2) times, once for the call
and once for the polling. `lost` remembers that a call of the client had
no usable answer: then FALSE says nothing about the work. A method that returns
an object and a job may answer with neither; the code takes that for a failure
(`NoObjectNoJob`, `lvm-dbus.c:608-617`), and the same from a finished job for
success. Polls have no
limit in the code and none here.

### PartLabel

`write_label`: opens the disk, tries to lock it up to `LockTries` (6) times, goes on
without the lock if it cannot, writes the label and tells the kernel. udev takes the lock,
if it is free, reads the table and releases it, up to four times. `io_error`
marks failures that have nothing to do with udev.

### ZfsCaps

`probe_zfs_version` caches the version under `deps_check_lock`;
`probe_runtime_caps` looks at `probed` without the lock, asks for the
capabilities and stores them under it, field by field (`unstored`), because
other threads read the fields without it. Two threads, three calls and one
failing run of `zfs version` reach a failure between two stores of different
answers. `bd_zfs_close` clears everything when no call is under way.

### CallPaths, the path modules and Operations

Most functions of the plugins keep no state of their own; what can go wrong in
them is what they leave behind. Such a function is modelled by the set of its
paths. A step of a path acquires a resource (a descriptor, a library's
context, a key buffer, a temporary mount, a progress task), releases some,
makes a change to the device or the system, takes one back, or checks an
argument; and with every step that can end the function goes the set of what
the code releases at that very return statement. Nothing of this is derived:
what `Fails` releases is what the source releases there, and the invariants
compare it with what is held.

`Operations` runs one path of one function, the environment deciding at each
step whether it fails: `path` is the path, `at` the step it is at. Paths leave out the types of parameters, argument
vectors, contents of records, and memory that is freed automatically or before
anything can fail. A loop makes up to three passes, and
`ThreePassesSuffice` proves that further ones show nothing new; branches are
unions of paths. A static helper
that several functions call is a definition of its own, with the error and
clean-up the caller adds.

`MCOperations` also names what is known not to hold, pair by pair: `Leaks` and
`TwiceFreed` are pairs of a function and a resource, `LateRefusal` and `Partial`
of a function and a change. The sets are exact: every pair in them is one that some path
of the function shows, and every other resource and change of the same function counts. So
`bd_part_create_part` may lose the table and its partitions, but never the context
or the progress task; `bd_crypto_luks_format` may leave the header, but no change
that comes after it. Some are in the nature of the operation
(`bd_nvme_disconnect` stops at the first controller that fails, a LUKS header stays
when a later step of formatting fails), others would be worth a change (below).

A call that reads the message of an error that is not there ends as "crash"
(`ReadsNoError`). Which callees may fail without an error is said by the paths, so
no property is stated about it.

The second half of `Operations` reads a path without running it: what is held,
released and changed before each of its steps (`HeldAt`, `GoneAt`, `DoneAt`), and
whether each of its ends keeps the promises (`Keeps`). The proofs need it: `PathsKeep`,
that every path of the table does, is their hypothesis. For the table of
`MCOperations` TLC evaluates it to TRUE (as an additional `INVARIANT PathsKeep`).

## 3. Runs

| Run | States (about) | Checks |
|---|---|---|
| `loader` | 524 000 | the loader's invariants and action properties, `RegistrySpec`, `LockReleased` |
| `deps` | 547 000 | honest answers, no second probe, every check returns |
| `exec` | 78 000 | output, honest end, clean-up, termination |
| `lvm_config` | 25 000 | the configuration is kept, calls return |
| `components` | 236 000 | algorithms against their references; loop devices, mounting, jobs, labels, capabilities |
| `operations` | 86 000 | resources, refusals and failures of the plugins' functions |
| `null_pointer_call`, `exec_sigchld_ignored`, `lvm_config_get_whole`, `subvolumes_out_of_order`, `lvs_same_name`, `pool_renamed_unconverted` | | each shows one disagreement between the code and its documentation |

`IndInv` of `PluginLoader`, of `ExecCall` and of `MCComponents` (the
conjunction of the invariants of its five components) are the inductive
invariants of the proofs; they include the modules' type invariants.

What the passing runs show:

* **loader.** Between init calls each plugin is either loaded, with every
  pointer into its object where the object has the function and to the stub
  where not, or not loaded and all stubs (`QuiescentDispatch`). At every moment,
  also in the middle of a load, no pointer leads into an object that is not
  open, and, if the application quiesces, nobody executes unmapped code or reads
  a freed name (`NothingDangles`). TRUE means that everything required is loaded
  (`SuccessMeansLoaded`). The loader implements `PluginRegistry`, and the lock is
  always given back.
* **deps.** `HonestAnswers`: TRUE only for what a probe of this process has
  found; FALSE only after a failed probe of the call's own; FALSE with an error
  except in `check_features`; TRUE without one as long as nothing is installed
  or removed meanwhile. What is cached is not probed again.
* **exec.** The filtered outputs are exactly what the child wrote without NULs
  and progress lines, and on failure the message quotes the right output
  (`OutputExact`); result, error and started and finished reports tell the same
  story (`HonestEnd`); no descriptor stays open, and no zombie unless
  `waitpid ()` itself fails (`NothingLeft`). The call ends, kills the process by
  SIGPIPE, or stands in one embrace: the child waits on a full output pipe and
  the caller on a full input pipe.
* **lvm_config.** `ConfigKept`: no command sees its options change, no thread
  sees another one's override, the override is undone on every path. Calls
  return unless a callback asks for the configuration with the lock held by its
  own thread.
* **components.** The operators agree with their references: candidates of a
  plugin (`CandidatesInOrder`), versions, also ones with leading zeros (`ComparesAsNaturals`), sizes
  (`RoundedToExtents`), and in `ListingsFaithful` vdev trees, merged segments and
  UUIDs. Loop devices: although the free number is not reserved, a
  setup never touches a device that another call attached (`OwnDevice`), the
  window asked for survives flag changes of other threads, also of a device
  that was torn down and set up again meanwhile (`WindowKept`), and
  one that fails leaves nothing attached beyond the last close
  (`FailureDetaches`); both except a setup whose status a flag change reads before it
  is finished. Mounting: the caller learns the child's outcome
  (`SameOutcome`), and the child is reaped however often it is stopped
  (`ChildReaped`). Jobs: the result is what became of the work, and progress is
  finished once, on every way out, including a daemon that crashes
  (`JobOutcome`); a method's answer without object and job is the one success that is
  returned as FALSE. Labels: with the lock, udev cannot make the kernel's
  view differ or the call fail (`LockHelps`). OpenZFS: it is asked once
  (`VersionOnce`), and what is stored agrees with it (`CapsWhenQuiet`); readers
  without the lock may see fields before that, which is why the property speaks
  of quiet states only. Calls of the first three return.
* **operations.** Outside the pairs of the exception sets: every return leaves nothing held
  (`AllReleased`), nothing is released twice (`ReleasedOnce`), a refused call
  has changed nothing (`RefusedFirst`), and a failed call has changed nothing or
  taken it back (`FailsWhole`).

Findings, each with the run that exhibits it (quoted in full in `PROJECT.json`):

1. The generated loader stores `dlsym ()`'s NULL into the live pointer before
   it restores the stub; a concurrent call jumps through NULL.
2. With SIGCHLD ignored a failing program is reported as a success.
3. `bd_lvm_config_get` without a section drops `--valuesonly` and `--config`.
4. `bd_btrfs_list_subvolumes` can put a subvolume before its parent, which its
   own comment excludes (`btrfs.c:744`).
5. `bd_lvm_lvs` without a VG drops an LV that has the name of an LV of another
   VG (`lvm.c:1893`).
6. `bd_lvm_cache_pool_convert` of the D-Bus plugin renames the LV exactly when
   its conversion has failed (`lvm-dbus.c:3711`).

Observations without a run:

* A failed `bd_ensure_init` or `bd_reinit` for one plugin makes
  `bd_is_initialized` FALSE while other plugins stay loaded; `bd_init` with only
  unknown plugins returns TRUE and the library is not initialized.
* Version components with leading zeros are read as octal (`exec.c:706`): 09 as 0,
  010 as 8. The revision `-R` may only have one digit (`exec.c:678`).
* `bd_loop_set_autoclear` on a device between LOOP_SET_FD and the end of its setup
  reads the offset 0 and writes it back later, although the setup says TRUE; and it
  can clear the AUTOCLEAR by which a failed setup was to be detached (`loop.c:499`).
* A method of lvmdbusd that answers with neither object nor job is a failure, a
  job that ends that way a success.
* lvmdevices commands do not get `--config` although the documentation of
  `bd_lvm_set_global_config` speaks of all calls.
* `bd_zfs_pool_list_importable` frees `cur_id` and `cur_state` a second time, or
  hands the freed id out, when a `pool:` line follows an incomplete entry, which
  frees them and keeps the pointers (`zfs.c:1179`, `1188-1193`).
* `bd_mpath_get_mpath_members` loses the names of earlier maps when a later one
  fails (`mpath.c:458`).
* A parser of smartctl's output may fail without an error, whose message is read
  all the same (`smartmontools.c:285`).
* The other pairs of `MCOperations`, such as `cd` freed twice in
  `bd_crypto_luks_info`.

### Fairness

Fairness is assumed of what the operating system schedules, never of what the
application chooses to call.

* `PluginLoader`: weak fairness of the steps of the lock's holder. They never
  block; candidates are finite in number.
* `DepsCheck`: weak fairness of the loop, strong fairness of taking the lock (a
  `GMutex` that is free again and again is eventually obtained).
* `ExecCall`: weak fairness of caller and child. Scripts are finite, so a child
  that runs for ever is excluded; for it the code has no timeout.
* `LvmConfig`: strong fairness of taking the lock, and of the end of a command
  or job, that is: it ends after finitely many callbacks.
* `LoopSetup`: weak fairness of each thread's steps; ioctls return.
* `MountAsUser`: weak fairness of parent and child, and of `Continue`: a stopped
  child is continued some time. Without that the parent rightly waits.
* `LvmDbusJob`: weak fairness of the client, whose D-Bus calls time out, and of
  `Finish`: an LVM command that runs comes to an end. No fairness of the daemon's
  answers: unanswered calls time out.

`CHECK_DEADLOCK FALSE` is set where the system really stops: an `ExecCall` that
has returned, or is in the embrace, an `LvmConfig` whose callbacks block on
their own lock, and the components of `MCComponents`, each of which models a
bounded number of calls.

## 4. Proofs

The theorems hold for every value of the constants that satisfies the named
assumptions: any number of threads, plugins, functions and candidate objects;
any requests, configurations, dependencies and changes; pipes of any size and
children with any script; any number of loop devices, crashes, tries and stops.

| Module | Theorems | Assumptions |
|---|---|---|
| `PluginLoaderProofs` | `IndInvCorrect`, `TypeCorrect`, `DispatchCorrect`, `MappingsCorrect`, `PointersCorrect`, `ReadersCorrect`, `DanglesCorrect`, `SuccessCorrect`, `InitializedCorrect`, `UnloadCorrect`, `RegistryCorrect` | `ConstantsAssumption`, `AddressAssumption` |
| `DepsCheckProofs` | `IndInvCorrect`, `AnswersCorrect`, `ErrorCorrect`, `NoErrorCorrect`, `HonestCorrect`, `NoReprobeCorrect`, `CacheCorrect` | `DepsAssumption` |
| `LvmConfigProofs` | `IndInvCorrect`, `ConfigFixedCorrect`, `OverrideCorrect`, `NoLostCorrect`, `KeptCorrect` | `LvmAssumption` |
| `ExecCallProofs` | `IndInvCorrect`, `HonestCorrect`, `NothingLeftCorrect`, `OutputCorrect` | `ExecAssumption` |
| `LoopSetupProofs` | `LoopInvCorrect`, `OwnDeviceCorrect`, `WindowKeptCorrect`, `FailureDetachesCorrect` | `LoopAssumption` |
| `OutcomeProofs` | `MountInvCorrect`, `OutcomeCorrect`, `ReapedCorrect`; `JobInvCorrect`, `JobOutcomeCorrect`; `PartInvCorrect`, `LockHelpsCorrect`; `ZfsInvCorrect`, `VersionOnceCorrect`, `CapsCorrect` | `MountAssumption`, `JobAssumption`, `PartAssumption`, `ZfsAssumption` |
| `ComponentsProofs` | `ComponentsCorrect`, `RoundedCorrect`, `OrderCorrect` | those of the components, `SizesAssumption`, `AsksAssumption`; `NumeralsRead` for `OrderCorrect` |
| `OperationsProofs` | `ReleasedCorrect`, `OnceCorrect`, `RefusedCorrect`, `WholeCorrect`; `ThreePassesSuffice` | `PathsAssumption`; `PathsKeep` |

The assumptions say what the constants are (threads are not the mark of a free
lock, requests name natural numbers, the addresses NULL, stub and freed memory
are not shared objects; a child's script is not empty, ends with its exit and
writes only to what it has open;
loop devices are finitely many and numbered). Nothing is assumed of `Quiesced`; the properties of
readers have it as a hypothesis.

**Loader.** `IndInv` is the conjunction of `TypeOK`; `LockInv`, at most one
thread is at a loader's step and holds the lock; `LoopInv`; `CallInv`, only
calls with reload unload, and only a thread in an API call executes something;
`QuiesceInv`; and `ChoiceInv`. The
properties between calls are not inductive, because the loader passes through
every intermediate state. `LoopInv` therefore says, for each place the
holder can be (`Phase`), which plugins are `Settled` (handle, name, pointers
and count agree), that those before `cur` have been `Emptied` during an
unload, and what holds of `cur` itself: `Unloading`, `Opened` up to a function,
or `Freeing` its name. `QuiesceInv` says that an object somebody executes in is
still open unless a reload could run, which `Quiesced` excludes. Each conjunct
has one lemma, each lemma one step per action; the properties follow from
`IndInv` at "lock free", the action properties from `IndInv` and one step.

**Refinement.** `RegistryCorrect` is `Spec => RegistrySpec`. The abstract step of
a call happens at `Finish`, long after the call has read its request and the
configuration, so the invariant must remember what the call may do: `ChoiceInv`
says that the names still to be tried, the object being resolved and every
handle set so far may serve their plugin under the request (`MayServe` of
`PluginRegistry`), that without reload what was loaded when the lock was taken
still is, and that a call of `bd_init` that found the library initialized is not
here. With it `EnterAndReturn` implements `Decline` (`NotMissing`: what
`bd_ensure_init` looks at covers what the registry wants), `Finish` implements
`Load` (`SettledTable`: settled pointers are the table of the handles),
`CallInit` is `Invoke`, API calls and queries are at most `Query`, and taking the
lock and every step of `load_plugins` change nothing that the mapping shows
(`OutsideStep`, `InsideStep`).

**Dependency checks.** `LockInv` puts the loop under the lock; `CacheInv` says
masks contain exactly the found bits; `LoopInv` that what the mask has more than the
local copy lies behind the loop counter, and that every requested dependency
behind it is in the mask or has failed; `FailInv` ties the message to the failed probes; `StaticInv` that
without changes found dependencies are present and failed ones are not. The
third load of the mask needs them together: it may see bits other threads set.

**LVM configuration.** `LockInv` says who holds the lock; `ConfigInv` that the
configuration is the application's, except while the VDO operation that holds the
lock has it replaced, and that this operation's `old` then is the
application's; `ArgvInv` that a call which runs nothing yet has no options. One lemma
per action.

**Running programs.** `HonestEnd` and `NothingLeft` speak of the end of a call
only. The invariant says for every place of the caller which pipe ends are open
(`FdsInv`), which reports have been made and whether `success`, the error and the
report of the end go together (`ReportInv`), and who has reaped the child
(`ReapInv`: a child that is gone before the end was reaped by the kernel, for a
process that ignores SIGCHLD).

`OutputExact` needs to know where every byte is at every moment. `StreamInv` says
of each output that what the child sent is what was taken in whole lines, what
waits in the buffer, and what waits in the pipe, in this order, and that the
result picks the wanted bytes of the first part (`Picks`: a rising map from the
result onto their places, which does without a fold). Whether a byte is
wanted depends on its whole line, so the part that was taken must end with a line
end: otherwise a byte written later could still turn text into progress. That
an output that is done stays complete needs that nobody writes to it any more:
`EventsInv` says that after a hang-up the pipe is closed on the child's side and
the `read ()`s after it have emptied it, `ClosedInv` that a running child has open
what its script has not closed. `QuoteInv` ties the message to the outputs.
`LineTaken` is the lemma about one pass of the line loop, also for the last
line; `WantedKept` and `PicksKept` the ones about a further byte.

**Loop devices.** `OwnDevice`, `WindowKept` and `FailureDetaches` depend on one
another: a failed setup detaches the right device because it is its own, and it
is its own because nobody can detach a device others have open. `OpenInv` says
that a thread has open what it works on; `CallsInv` and `BoundInv` that a call
without a result has attached at most the device it is configuring; `NamedInv`
that a device whose status a thread has read is still attached by the setup it was
read of, which has succeeded unless the read was early: the thread has it open, so
nobody can detach it in between; `StatusInv`
that whoever is about to write a status has the offset of the device's present
owner in it, unless it was read early. Nothing is assumed of which devices
callers name, or when. The proof has frame lemmas, one per variable (what a step may
change), and per conjunct only the steps that can disturb it.

**Mounting, jobs, labels.** `MountInv`: the child's place tells what it has
done, also after its end (`ChildInv`), `waitpid ()` has told nothing it could not know
(`NewsInv`), and the result follows from the status that was read
(`ReturnInv`). `JobInv`: the daemon's answers and job are true of the work and
stay so (`DaemonInv`), the client removes only jobs that have done their work
(`ClientInv`). `PartInv`: a writer that got the lock still has it when it tells
the kernel (`FlockInv`, `LabelInv`).

**OpenZFS.** `VersionInv`: the version is cached exactly if it was answered, and
whoever runs `zfs version` holds the lock and has found nothing cached. `SeenInv`:
what a thread carries from one locked section to the next is right unless a run
failed. `StoreInv`: the fields not yet stored belong to the one thread that is
storing.

**Sizes.** `RoundedCorrect` states for every size and extent size what the run
checks for sizes up to 31. It needs that a number and its remainder determine
a multiple and that there is none between two neighbours (`Remainder`,
`NoRemainder`, `Neighbours`), which the provers do not find by themselves, the
divisor being a variable.

**Versions.** `OrderCorrect` is about versions of any length. Its hypothesis
`NumeralsRead` says that decimal numerals are read as they are written, none being too
large for the type, and the ones read as octal as no more than that. For two versions in decimal
the argument takes the first component in which they differ, which the code's loop
finds as well. If only the second is, what the loop finds larger in the first really
is larger (`LargerAfterAll`: some component up to there is, and the first such one
decides), so the first is never taken for newer than it is (`NeverNewer`).

**Components together.** `ComponentsCorrect` puts the five invariants of
`MCComponents` into one: a step of one component leaves the variables of the
others alone.

**Operations.** The theorems are about any table of functions, under the
hypothesis `PathsKeep` on the table. `FollowsPath` is the inductive part, no result by itself: at every
step the state is what the path says, read up to there (`SinceStep`: what one more
step does to what was brought and not taken away). The promises then
follow at each end. `ThreePassesSuffice` is about a loop that runs any number of
times, possibly another way through its body each time. Suppose a promise is
broken on a path with four passes or more, and on no shorter one. Whether it is
broken at a step depends on at most two earlier ones, which acquired and which
released something, or which made a change; of the last four passes one other
than the pass of the step itself holds neither of them, and without it
the path is shorter and breaks the same promise (`WithoutHeld`, `WithoutGone`,
`WithoutDone`: leaving out steps takes nothing away that others brought).

Only model-checked:

* liveness (`LockReleased`, `CallReturns`, `CallEnds`, `CallsReturn`,
  `LoopCallsReturn`, `MountReturns`, `JobReturns`): TLAPS does not reason about
  fairness and `ENABLED` here;
* `PluginConfig` and `Listings` (`CandidatesInOrder`, `ListingsFaithful`): they fold
  over sequences, and what a fold computes needs induction over data;
* `PathsKeep`, the hypothesis on the real table of paths: the table is
  finite, and TLC looks at every entry; the run visits every end of every path.

## 5. Not modelled

* Logging, boxed types and plugin specs, extra arguments and their merging,
  Python overrides, the generator's text processing: no state and no failure
  handling that a property could be about.
* Which progress function a thread has, and the task numbers: a task that
  lvmdbusd's call gives number 0 and reports as finished all the same
  (`lvm-dbus.c:585`), a progress function exchanged while a task runs
  (`exec.c:915`).
* A log callback that uses the loader while the loader holds `init_lock`
  (`blockdev.c.in:461`, a self-deadlock), and background processes that keep a
  child's pipes open (`exec.c:489`).
* The kernel version that `module.c` caches without a lock; the choice of a free
  region in `part.c` (857-940); metadata and padding sizes (`lvm-common.c:414`).
* The contents of what is read: NVMe statuses, SMART attributes, the fields of
  information records.
* Memory is modelled where a freed pointer could be used (`so_name`), and in
  `Operations` where an error path has to free it by hand.

`PROJECT.json` lists the hazards with the properties that cover them, and says of
each exception what it leaves open; the ones named here have no property.

## 6. Plan

The models stand for roughly half of the library's lines: the core that all
plugins share step by step, the plugins by their paths. The safety properties
that the runs check are proved, apart from the two about folds. What is left:

1. Action properties the invariants already imply: cached versions and
   capabilities of OpenZFS stay until the plugin is closed; a child that was
   reaped stays so; a device that was set up is detached by a teardown or the
   last close only.
2. Which progress function a thread has, and the task numbers.
3. The choice of a free region in `part.c`, as operators with a reference.
