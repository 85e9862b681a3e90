# Formal models of the practice repository

The repository collects Linux kernel modules (`custom_drivers/`), user programs
around cJSON (`ravi/c_program/`), a hwmon driver and kernel patches
(`ravi/custom-drivers/`, `ravi/recipes/`), and a Yocto build script
(`ravi/Yocto_install/`). The modules in this directory model the kernel
modules and what programs get from them, and the JSON programs with their files.
TLC checks small instances; TLAPS proves their safety properties and both
refinements for all values of the constants.

## Inventory

| Part | State it keeps | Operations | What is hard about it | What makes it correct |
| --- | --- | --- | --- | --- |
| `002 pcd.c` file operations | `device_buffer[512]`; per open file `f_pos` | open, release, lseek, read, write | no lock anywhere: threads that share a file race on `f_pos`, threads that share the device race on its bytes; mixed signed and unsigned arithmetic; copies that fault half way | positions and transfers stay in the device; a private file behaves like an atomic memory |
| `003 pcd_drv.c` file operations | four buffers with size, permission and cdev | the same, and `check_permission` in open | the same; the permission is checked once | the same for each device; read-only memory stays |
| module load and unload of 002, 003, 010, 011 | region of device numbers, class, cdevs, nodes | init or probe, error path, exit or remove | failure at each step; programs open a node while init or exit still runs | nothing leaks but what is known of the error path, the layers are in order, open files are backed, nothing is released twice |
| `003 dev_read.c` | counters, an open file | open, two reads at most, close | opens `/dev/pcdev-0`, a device of 004 that may be missing or go; the sign of a result | ends whatever becomes of the device; its file keeps the driver |
| `004` platform driver and device setup (`005` is a copy) | `pcdrv_data`, per device `dev_data`, cdev, node; the driver core's bindings | two modules' init and exit, probe and remove per device | probes and removes run in the thread of either module, at the same time; unchecked results, that of `platform_add_devices` among them | each device is bound as a whole or not at all, none is missed but when adding them failed, teardown waits for every user |
| `010 i2c_client_driver_0.c` file operations | i2c client | read, write | 16-bit length, allocation results | transfers what was asked for |
| `011 i2c_client_driver_LM75A.c` read | i2c client, `*ppos` | open, read, release | a text read in chunks is sampled anew each time, and its length changes; sign | chunks follow one another and end; a steady temperature is read whole |
| `lm75a` hwmon, `EAAPMST3923A2` patches | i2c client, registers | show | shifts and signs | the value shown is the value measured |
| `json_generic.c` (two identical copies), `employee_data.c`, `sample_2.c` | a JSON tree, its file | load, edit, save after every choice, every edit, or at the exit | truncation before the write, kills, any failing `fopen` taken for a missing file, a NULL root, two notions of equal keys | the file is a whole document of some session; an edit touches what it names |
| `yocto-custom-build.sh` | directories as markers of progress | clone, create layer, copy recipes, build | interrupted runs | a later run completes an interrupted one |
| hello world, samples, exercises, recipes, configuration | none or straight-line | | | |

How they interact: programs call the file operations through the kernel (VFS),
which checks modes and positions, hands `read` and `write` a copy of the
position and stores it back afterwards. A module registers its cdevs and nodes
with the kernel, which pins the module while a file is open. In 004, the module
`pcd_device_setup` puts platform devices on the bus and `pcd_platform_driver`
the driver; the driver core calls probe and remove under a lock per device, in
whichever thread caused the match. `dev_read` opens `/dev/pcdev-0`, which is
what `pcd_platform_driver_probe` calls the node of its first device
(`pcd_platform_driver.c:201`); the nodes of `pcd_drv.c`, in whose directory the
program lies, are `pcdevm-1` to `pcdevm-4` (`pcd_drv.c:283`). The JSON programs
and the build script share nothing with the drivers.

`PROJECT.json` lists every part with its status, and under `hazards` each thing
that is hard to test, at its line, with the properties that would catch it.

## Plan

Done, in this order:

1. `PcdFile`, `SeekableMemory`, `PcdFileRefinement`, proofs in `PcdFileProofs`.
2. `CharDriver`, `CharResources`, `DriverTables`, proofs in `CharDriverProofs`.
3. `PcdPlatform`.
4. `JsonDoc`, `JsonEdits`, `JsonStore` and what it implements, `SessionStore`.
5. `DevRead`, a client of the platform driver, composed with `PcdPlatform`.
6. `Lm75aRegister` and `I2cClients`: the reads of the i2c chips.

Each model has proofs in a module of its own (`PcdFileProofs`,
`PcdFileRefinementProofs`, `CharDriverProofs`, `PcdPlatformProofs`,
`DevReadProofs`, `I2cClientsProofs`, `JsonEditsProofs`, `JsonStoreProofs`),
described under "Proofs". What is left is to widen the models: unbinding an i2c
driver under open files, and the failures of `kmalloc` in the ds3231 driver, as
far as they can be told apart from undefined behaviour.

## Modules

### PcdFile

Models `pcd_lseek`, `pcd_read`, `pcd_write`, open and release of `pcd.c` and
`pcd_drv.c`. One instance is one device; `Perm` and `Size` are its entry of
`pcdev_data` (`pcd.c` is `Perm = "RDWR"`).

| Model | Code |
| --- | --- |
| `buffer` | `device_buffer`, `pcdev_data->buffer` |
| `f_pos[f]`, `f_mode[f]` | `filp->f_pos`, `filp->f_mode` of an open file; `{}` is a free slot |
| `call[t]` | the call thread `t` is in: its copy of the position, the clamped length, what it has copied; or the result of the last call |
| `pcd_read`, `pcd_write` | entry of the handler up to the copy: clamp, `-ENOMEM` for nothing to write, `-EFAULT` when the copy functions refuse the length |
| `copy_to_user`, `copy_from_user` | one byte of the copy |
| `ReadFault`, `WriteFault` | the copy ends early |
| `ReadReturn`, `WriteReturn` | `*f_pos += count`, return, and the kernel's store of the position |
| `pcd_lseek`, `SeekStore`, `SeekReturn` | load and check; store; `return filp->f_pos` |

`own` is TRUE for `read` and `write` and FALSE for `pread` and `pwrite`, which
bring a position of their own. `Wrap` and `ULong` are the C conversions: the
kernel wraps signed overflow, and `*f_pos + count` is unsigned. The kernel's own
checks (`rw_verify_area`, the mode of the file, the 2 GiB limit of a user copy)
are `Accepted`, the guards on `f_mode`, and `CopyMax`. Any byte of a buffer may
be written by several threads in any order.

### SeekableMemory, PcdFileRefinement

`SeekableMemory` is a memory with positioned files whose calls are one step
each. `PcdFileRefinement` adds a history variable to `PcdFile` with a single
thread (the memory and result as of its last moment outside the driver) and
states that `PcdFile` implements `SeekableMemory` under it: read and write take
effect when they return, a seek when it stores. With two threads this is false,
and not claimed: bytes of concurrent writes mix.

### CharResources, CharDriver, DriverTables

`CharDriver` walks through the tables of a driver: what init acquires in order,
what the error path releases after a failure of each step, what exit releases.
Every load picks one of `Drivers` and every step of it can fail. Programs open
and close nodes at any moment; the kernel finds the cdev by number and pins the
module, which fails once `rmmod` has begun (`Pinned`). `DriverTables` holds the
tables, each read off one driver; `FallThrough` builds those that are goto
chains.

Two of the error paths do not recover from every failure. Their tables say what
they do all the same, and `leaves` and `unmade` name what is wrong with it:
`PcdDrvLeaves` the cdevs and nodes of the devices before the one that failed in
the loop of `pcd_drv.c`, `Ds3231Leaves` the cdev that `ds3231_probe` forgets when
`class_create` or `device_create` fails, `Ds3231Unmade` the node and the class it
destroys without having made them when `cdev_add` fails. The properties are stated
relative to them, so that a leak more, or one less, or one at another step
refutes them; for `pcd.c` and the LM75A driver both are empty. What stays
registered of a driver that is gone leads into freed memory; loading on top of it
is undefined, so that the model clears it by a `Reboot` first. Programs may open
such a node meanwhile, and `OpenBacked` says that these are the only files
without their code.

### PcdPlatform

Two threads, one for each module's `insmod` and `rmmod`. Probe and remove are
steps (`work[t].pc`) in whichever thread runs them, under `lock[d]`; their
shared state is `pcdrv_data` (`class`, `region`, `total_device`) and their
device's own `dev_data`, cdev and node. `total_device++` is a load and a store,
as the compiled module has no lock prefix. `refused` is a history variable: the
devices whose last probe failed, which no code keeps and `NoneMissed` speaks of.
The driver core's part is external: attach on either side, the wait for probes
under way in `driver_unregister` (`DriverDrained`), the release of bound
devices, the lock of each device. `pcdrv_data.device_pcd` is left out: the
compiled probe tests the pointer just returned. Whether `class_create` can fail
is not academic: `pcd.c` and this driver create a class of the same name.

`platform_add_devices` takes the devices it has added off the bus again when one
cannot be added (`AddDeviceFails`, `UndoDevice`), which removes the driver from
those it was bound to; `pcdev_platform_init` ignores the result and the module
stays, `empty`. Its exit then unregisters devices that are not there. The one
that could not be added has no private part (`device_add` frees it), the kernel
faults on it, and the module is neither loaded nor unloaded any more: `dead`
(`ExitWithoutDevices`). That no device is missed therefore means: all are on the
bus, or none because of that failure.

`serial` is chosen once, at the start: whether the user runs one `insmod` or
`rmmod` at a time. `CountExact` speaks of those who do.

### DevRead

`dev_read.c` beside the two platform modules, which it extends: `client` holds
its locals, where it is and its exit status. `Open` needs the node and the cdev of
device 0 and a driver that is not being unloaded; otherwise `OpenFails` and the
program exits with what `open` returned. An open file holds a reference on the
driver's module (`PinsModule`, from `pcd_fops.owner`), so that `rmmod` of the
driver fails meanwhile (`Modules`); nothing keeps `pcd_device_setup` from taking
the device away. `Read` is the whole call: the stub of the driver returns 0, and
a negative length is refused by the kernel with -1 before the driver sees it.
`Handled` has the tests in the code's order: the end of the file, what is at most
`remaining`, an error. The driver never returns more than it is asked for, and
`Requests` are numbers on the command line.

### JsonDoc, JsonEdits, JsonStore, SessionStore

`JsonDoc` holds documents (a list of members, for objects and arrays alike, as
in cJSON) and the functions of cJSON the programs call, with the two ways of
looking up a key; cJSON is not in the repository and these are external.
`JsonEdits` says what a choice makes of a document: the sets of results of the
add functions, `update_item` and `remove_from_object` of `json_generic.c` (their
recursion is one level deep, as `nested_object` adds no objects to an object),
and the records of `employee_data.c` and `sample_2.c`, each a key (GID or name)
and the part that update changes. `JsonStore` is a session:

| Model | Code |
| --- | --- |
| `program` | which of the three is used, with a file of its own |
| `file` | the file: a document, missing, cut short, or the text `(null)` |
| `root`, `pc`, `leaving` | the tree in memory; at the menu, about to save, file truncated; the choice was to exit |
| `Begins`, `Parsed`, `Start` | `main` up to the loop; `load_json` when it reads the file, or finds none |
| `LoadOpenFails` | `fopen` fails though there is a file (permission, descriptors, memory): `load_json` makes an empty document |
| `LoadReadFails` | `fread`, whose result nobody looks at, stops early: a part of the text does not parse |
| `add_string` .. `remove_record` | the functions of the menus |
| `SaveOpens`, `SaveWrites` | `fopen(.., "w")`; `fprintf` and `fclose`: the text reaches the file when the stream is flushed |
| `SaveOpenFails`, `SaveWriteFails`, `Crash` | the failures no program reports, and a kill at any step |

`saved` and `missed` are history: what was in the file before the save under
way, and whether the session's load or its latest save has failed.
`SessionStore` is what the programs promise: one document that sessions copy,
change and commit whole. A session that can read the file begins with what it
holds, or is told that it is lost; only one that could not read it begins blind
(`SBeginBlind`), empty or broken, and may replace the document by saving. A
document is lost only by a save that has begun and does not finish (`SLose`,
guarded by `saving`), and then no later session takes it for an empty one. The
refinement reads a truncated file as the document of before while its session
lives, and as lost when the session dies.

### Lm75aRegister, I2cClients

`Lm75aRegister` is what the two drivers of the LM75A make of the two bytes of
its register: the text of `lm75a_read` as the numbers it prints and its length
(`Text`, `TextLength`), the value of `lm75a_read_temp` (`temp_val`), both with
C's division, shift and conversion to 16 bits; `Millidegrees` is the definition
they are compared with. `I2cClients` puts programs on top: `Measure` changes the
register at any moment, `driver` says which of the two drivers is bound,
`lm75a_read`, `i2c_master_recv`, `CopyFault` and `ReadReturn` are the steps of one
call, and a program calls until it gets 0, or gives up after `MaxErrors`
failures. `pieces` is what it has collected: of which text, from where, to where.
The clock's programs call `my_read` and `my_write`; of their bytes the model
counts those that crossed the bus. A transfer is one step, under the adapter's
lock.

## Runs

| Run | Bounds | What it shows |
| --- | --- | --- |
| `pcd_files` | 2 threads, 2 files (one shared), 2 bytes; lengths 1 and 4; positions inside, behind the end and near the largest; offsets 1, -1 and the extremes of `loff_t` | positions and transfers stay in the device, for pread and pwrite where the clamp wraps too; private files move exactly |
| `shared_readers` | 2 threads, one file they share, 3 bytes, RDONLY; lengths 1 and 2, faults in one thread's buffer | memory of an RDONLY device never changes; both readers reach the end for good |
| `pcd_memory` | 1 thread, 2 files, faults, all calls | implements `SeekableMemory` |
| `char_load` | the four drivers, one at a time and in any order, every step failing; 3 file slots | what leaks, what is released unmade and which files outlive the code is what the tables say; layers |
| `platform_race` | 3 devices, both modules at once or one at a time, all failures but `class_create`; dev_read asking for -2, -1 or 3 bytes | bound as a whole, layers, numbers owned, none missed, the open file keeps the driver, modules and dev_read settle; `total_device` exact one at a time |
| `json_files` | 3 keys, two of them twins; documents of up to 2 members with arrays of up to 2 elements and objects of 1 member, or 3 records; indices -1 to 2; kills everywhere, failed loads of up to 1 member or 2 records, failed saves for up to 1 record and for documents without members | files hold what the menu works on, edits touch what they name, implements `SessionStore` |
| `sensor_read` | 1 reader of the thermometer, 1 of the clock; 4 temperatures with texts of 22 to 25 bytes; calls of 8 and 40 bytes, 1 failure per reading; `msg.len` of 8 values with lengths below and above | readings are contiguous and end, a steady temperature is read right, lengths tell what moved |
| `pcd_write_only`, `pcd_drv_loop_fails`, `platform_class_fails`, `json_boolean`, `hwmon_negative` | | refuted, see below |

Why these bounds are enough: two bytes give every relation of a position to the
device (start, inside, end, behind it), `LoffMax = 7` and `CopyMax = 4` keep the
order of the real limits (device <= INT_MAX <= largest `loff_t`, `size_t` twice
that), and lengths reach beyond the device. Every race of the file operations is
between two calls. Load and unload have a fixed number of steps, all of them
enumerated, and drivers share nothing, so that one at a time is enough. Three
platform devices let one module work on a device before, on and behind the one
the other works on.

`shared_readers`: two threads are enough to lose each other's updates.
`platform_race`: a request of -1 is the number that a refused read returns, -2
one below it, and all positive ones are alike to a stub that returns 0; dev_read
has device 0 only, and `class_create` is left to its own run. `json_files`:
`MaxMembers` of two allows a member before or behind the one that is named, and
a twin; of three records one can be first, last or in between. `MaxElements` of
two gives an array an index inside, its size (2) and one below 0. `MaxNested` is
one because edits of nested objects use the same functions as the root, whose
lists are longer. `MaxFailing` restricts failed saves to short documents, since
a failed save treats all documents alike, and `MaxUnread` failed loads: the
session they begin does not depend on the document they missed, and one member
tells a document from the empty one it is replaced by. `MaxErrors` of one puts
the failure before, between and behind the good calls of a reading.
`sensor_read`: -0.5 and -128 degrees have the lengths 22 and 25, 9.5 and 10 the
lengths 22 and 23, so that a text may grow and shrink around a position; calls
of 8 bytes take up to four for a text, calls of 40 one.

The proofs below remove these bounds for every invariant, action property and
refinement of the passing runs. Only for the four liveness properties are the
bounds all there is.

### Fairness

`shared_readers` (`PcdFile!FairSpec`): a thread inside the driver goes on (it
runs in the kernel and nothing blocks it), and the readers call read again, as
every program that reads to the end does. `sensor_read`: a program that has
opened its file is scheduled; transfers may fail, and the program gives up after
`MaxErrors` of them. `json_files` needs none. `platform_race`: a thread inside
`insmod`, `rmmod`, probe or remove goes on; acquiring a device lock has strong
fairness, because the other module may come and go for ever and the lock be free
only now and then. The kernel's mutexes hand over to the waiter, which is that
assumption. Nobody has to load or unload anything, and dev_read is scheduled
once it has opened its file.

### Refuted statements

- `WriteOnlyHonoured` (`pcd_drv.c:200`): `check_permission` has the read flag in
  the branch of `WRONLY`; the device its data calls `WRONLY` can only be read.
- `NothingLeaks` for `pcd_drv.c` (`:300`): the loop of the error path never runs.
- `NumbersOwned` (`pcd_platform_driver.c:282`): `pcd_init` goes on after it has
  given its device numbers back.
- `BooleanAsTyped` (`json_generic.c:221`): 0 is typed for false, true is added.
- `HwmonMillidegrees` (`lm75a.c:34` of the hwmon driver): negative temperatures
  come out 256 degrees too high.

More facts that the properties except, or that have none. `dev_read -1` counts
the error of its only read as -1 bytes. The text of -0.5 degrees is that of 0.5.
A reading of the thermometer in several calls may be made of several
temperatures. The clock's driver moves lengths of 65536 and more only in part.
In a document with keys that differ in case only, `json_generic` edits or
deletes the twin of the member that was named, or takes the key away from a
member of an object. In `ds3231_probe` a failure of `class_create` or
`device_create` leaves the cdev registered, and one of `cdev_add` destroys a
device and a class that were not made (`Ds3231Leaves`, `Ds3231Unmade`);
`NothingLeaks` fails of that driver as it does of `pcd_drv.c`. A JSON program
that cannot open its file begins with an empty document, and its next save
replaces the one the file holds: `FileUpToDate` and the store except such a
session. A device that `platform_add_devices` cannot add takes all others with
it, and the module stays loaded for good. `total_device` loses updates when two
modules load or unload at once (`CountExact` fails without `serial`). And the
platform driver's buffer is as large as an `int`, not as the device
(`pcd_platform_driver.c:183`); nothing uses it.

## Proofs

Every safety property of a passing run is stated by a theorem, for all values of
the constants that the named assumptions of the modules allow. The assumptions
are those of the code's types and of the kernel's limits; no theorem assumes a
property. There is one further hypothesis, in `NumbersAreOwned` (below).

In each module an inductive invariant implies what the run checks. TLC checked
these invariants before they were proved, as they would be false for a bug of
the model as well.

### PcdFileProofs

From `SizeAssumption` and its neighbours (sizes are naturals in the kernel's
order, arguments in the ranges of their C types), for any number of threads and
files:

- `TypeCorrect`, `PositionSafe`, `TransferSafe`: the invariants of the runs;
- `PositionExact`: `MovesFromStart`; `ReadOnlyKept`: `ReadOnlyMemory`.

The inductive invariant `IInv` joins the three invariants with what they need to
be inductive: a call in progress is on an open file its thread has a descriptor
of (`CallsHoldFiles`, so nobody reopens the file under it), a file of one thread
stands where its call began (`PrivateUnmoved`), and on an RDONLY device no call
is a write (`NoWriter`). `ClampBounds` is the arithmetic of the clamp;
`CallBegins` says which calls a handler's entry can lead to; `CallChanges` and
`PositionChanges` are the two ways a step touches the invariant.

### PcdFileRefinementProofs

`ActsAtomically`: used by one thread, through any number of files, the
byte-by-byte driver implements `SeekableMemory`. `HInv` adds to `IInv` what the
call under way has done so far: `before` is the present whenever the thread is
outside the driver (`BeforeInv`), a read has copied the beginning of its range
(`ReadInv`), a write has overwritten the beginning of its range and nothing else
(`WriteInv`), and a stored seek stays until it returns (`TellInv`). A second
thread would break every one of them. A step then is one step of the memory
(open, release, the return of a read or write, a fault, the store of a seek) or
leaves the memory as it was (copies, and the entry of a handler that goes on).

### DevReadProofs

`ModulesAreKept`: with dev_read beside them the two modules implement
`PcdPlatform`, so that everything proved of it holds with the client too.
`FileKeepsTheDriver`: `FileKeepsDriver` for any number of devices, any failures,
`class_create` included, and any request. The invariant is `PcdPlatform`'s
`IInv` (a node there is implies a class), `NumbersHeld` (a driver with a class
has its numbers until `pcd_exit` gives them back) and the property itself;
`DriverStays` is what an open file relies on: only the step that begins the
unload, which the reference forbids, takes a driver out of attaching or loaded.

### CharDriverProofs

`Disciplined` says when the tables of a driver are safe: everything is acquired
after what it needs; the error path of each step gives back what is held but for
`leaves`, and `unmade` besides, each once and users first; the exit gives back
everything; and a node made before a step that fails is in that step's `leaves`
with its cdev. `DisciplineKeepsLayers` proves that this is enough for
`LeaksAsKnown`, `Layered` and `ReleasesHeld` even if files do not pin the module
(as when a client is unbound through sysfs), and `DisciplineSuffices` adds
`OpenBacked` under `Pinned`; both for any set of drivers, whichever steps fail,
and any programs. The invariant says that what is held is a prefix of `acquire`,
or what remains of it after a prefix of the releases, or what has been left
behind. `ChainDisciplined`, `PcdDrvDisciplined` and `Ds3231Disciplined` show
that the tables of the repository follow it; `RepositoryDriversLayered` and
`RepositoryDriversSafe` draw the conclusions of the four, and
`ChainsLeakNothing` that of the two without `leaves`: nothing stays behind at
all. `TypeCorrect` needs no discipline.

### PcdPlatformProofs

For any number of devices and any calls that may fail. The invariant `IInv`
speaks of a device through its lock: who holds it is in a probe or remove of it
(`LockInv`); where that thread is says which of data, cdev, node and binding the
device has (`HoldInv`); a device nobody holds has all of them or none
(`WholeInv`). The rest is about the two modules: which phases make probes and
removes (`PhaseInv`), which devices are registered, while they are added, undone
and removed (`RegisteredInv`), that what is bound or refused is registered, but
for the device being removed (`PresentInv`), and that a registered device is
bound, refused, being probed, or ahead of the driver's walk over the bus
(`ReachInv`): the statement that survives every overlap of the two loads and of
which `NoneMissed` is the end. Steps are of two classes: `Local` ones change one
device under its lock, `Outside` ones change no device, and one lemma for each
says that they disturb nobody else.

`NumbersAreOwned` assumes `"class" \notin MayFail`. The code refutes the
statement without it (run `platform_class_fails`). `CountIsExact` needs
`CountInv`, that under `serial` one of the modules rests and a loaded count is
still the right one when it is stored.

### I2cClientsProofs

For any content of the register, any lengths, any number of programs and errors.
`HalfDegrees` is C's arithmetic on the two bytes: the short and its shift give a
multiple of half a degree between -128 and 127.5. `TextNames` concludes that the
text has 22 to 25 bytes, which `kbuf[32]` holds, and names the temperature, -0.5
degrees excepted. `Good` is the invariant of a reading: its pieces follow one
another up to the position, each inside the text it was cut from (`Chain`), and if
the temperature has not moved since the open, all are of one text. `ClockInv`
says that `msg.len` is the length asked for, cut to its width.

### JsonEditsProofs, JsonStoreProofs

For any keys, strings and numbers, and lists of any length in documents of two
levels. `JsonEditsProofs` shows that every edit makes a document of a document,
that printing does and is idempotent, and that both searches find a first item of
the name or 0 (`LaxSearch` and its neighbours; that a first one exists is
well-foundedness of `<` on the naturals).

`StoreInvariant` says when the file and the tree agree (`Match`): at the menu of
a program that saves each change, unless the latest load or save failed, the
file holds the tree, or neither can be read. A session without a tree missed its
file or could not read it (`RootInv`); sample_2 saves only on its way out, and a
file that is being written is torn (`SaveInv`). The invariant gives
`TypeCorrect`, `FilesUpToDate` and, with views of the file and the session in
each of these cases (`Views`), `KeepsSessions`: each step of a session, a kill,
a failing load and a failing save included, is a step of `SessionStore` or none.

`OthersStay` holds with twins too. For `update_item` and `remove_from_object` it
follows from what they do to the children of an item (`UpdateItemDiffers`,
`RemoveFromDiffers`): one place of the root changes, and its key is the typed one
up to case. `OneLeafRemoved` and `NamesUpdated` are about documents without twins,
in which the two searches find the same item (`SearchesAgree`) and `Paths` can be
compared place by place (`PathsSame`, `RemoveFlatNames`).

### Only model-checked

Liveness (`EventuallyAtEnd`, `DevReadEnds`, `ModulesSettle`, `ReadingEnds`): the
proof system has no rules for fairness and ENABLED that its provers support. The
refuted statements are TLC's as well: their runs show a behaviour of the code.

## Not modelled

`kmalloc` and `memdup_user` failing in the ds3231 driver, whose result it does
not look at: what follows is undefined. Unbinding an i2c driver through sysfs
while its files are open (`Pinned`). An `i2c_transfer` that returns 0, which no
adapter does for one message. What a program finds of a cdev whose device was
removed under its open file: the platform driver's operations touch nothing of
it. The EAAPMST3923A2 driver, which exists only as patches to patches. The
earlier draft `i2c_client_driver.c`, which does not compile. The build script:
its state is the tree of files that git and bitbake make, none of it described
in the repository; what its restarts miss is listed under `hazards`. A menu's
input that ends or is no number: choices are nondeterministic. A second program
on the same JSON file. Left out for good: the hello world module, the
straight-line exercises and samples, the recipes and configuration fragments,
and generated files. What the modelled drivers print is left out everywhere.
`cdev_add` and the like are assumed to do what their documentation says when
they succeed.
