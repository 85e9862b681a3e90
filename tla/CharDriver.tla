----------------------------- MODULE CharDriver -----------------------------
(***************************************************************************)
(* How a character driver of this repository comes and goes: its init (or  *)
(* probe) acquires a region of device numbers, a cdev, a class and a       *)
(* device node in some order, unwinds when one of these steps fails, and   *)
(* its exit (or remove) releases them; meanwhile programs open and close   *)
(* its nodes.  Every step of init may fail.  The drivers differ in their   *)
(* tables, which DriverTables translates from each of them:                *)
(*   acquire    the resources acquired by init or probe, in its order      *)
(*   unwind     unwind[i]: what is released, in order, after step i failed *)
(*   release    what exit or remove releases, in order                     *)
(* and in what their error paths are known to do wrong:                    *)
(*   leaves     leaves[i]: what stays registered for good after step i     *)
(*              failed                                                     *)
(*   unmade     unmade[i]: what is released after step i failed, although  *)
(*              it has not been made                                       *)
(***************************************************************************)
EXTENDS Integers, Sequences, CharResources

CONSTANTS
  Drivers,   \* the tables of the drivers that may be loaded, one at a time
  Pinned,    \* TRUE: released by rmmod only, which open files forbid;
             \* FALSE: the device may also be unbound under its users
  Files      \* slots for open files

Closed == -1
Steps(d) == 1 .. Len(d.acquire)

ASSUME TableAssumption ==
  /\ \A d \in Drivers :
       /\ d.acquire \in Seq(Resources) /\ d.release \in Seq(Resources)
       /\ d.unwind \in [Steps(d) -> Seq(Resources)]
       /\ d.leaves \in [Steps(d) -> SUBSET Resources]
       /\ d.unmade \in [Steps(d) -> SUBSET Resources]
  /\ Pinned \in BOOLEAN

VARIABLES
  driver,  \* the driver that is loaded, or was last
  phase,   \* where the driver is in its life
  at,      \* the step of the running sequence that is next
  failed,  \* the step at which the latest init failed, or 0
  held,    \* the resources the kernel has registered for the driver
  files    \* files[f]: the minor that f is open on, or Closed

vars == <<driver, phase, at, failed, held, files>>

Phases == {"absent", "acquiring", "ready", "unwinding", "releasing"}

Init ==
  /\ driver \in Drivers
  /\ phase = "absent" /\ at = 1 /\ failed = 0
  /\ held = {}
  /\ files = [f \in Files |-> Closed]

NoOpenFile == \A f \in Files : files[f] = Closed

(* What a load meets of a driver that is gone and still registered is not   *)
(* defined: its cdevs lie in memory that has been freed.                    *)
Load ==
  /\ phase = "absent" /\ held = {}
  /\ driver' \in Drivers
  /\ phase' = "acquiring" /\ at' = 1 /\ failed' = 0
  /\ UNCHANGED <<held, files>>

AcquireNext ==
  /\ phase = "acquiring" /\ at \in Steps(driver)
  /\ held' = held \cup {driver.acquire[at]}
  /\ at' = at + 1
  /\ UNCHANGED <<driver, phase, failed, files>>

(* Mutant: the label of the step before is jumped to. *)
AcquireFailsLate ==
  /\ phase = "acquiring" /\ at \in Steps(driver)
  /\ phase' = "unwinding" /\ failed' = at - 1 /\ at' = 1
  /\ UNCHANGED <<driver, held, files>>

AcquireFails ==
  /\ phase = "acquiring" /\ at \in Steps(driver)
  /\ phase' = "unwinding" /\ failed' = at /\ at' = 1
  /\ UNCHANGED <<driver, held, files>>

Loaded ==
  /\ phase = "acquiring" /\ at \notin Steps(driver)
  /\ phase' = "ready"
  /\ UNCHANGED <<driver, at, failed, held, files>>

Unload ==
  /\ phase = "ready"
  /\ Pinned => NoOpenFile
  /\ phase' = "releasing" /\ at' = 1
  /\ UNCHANGED <<driver, failed, held, files>>

(* The sequence that is giving resources back. *)
Returning == IF phase = "unwinding" THEN driver.unwind[failed] ELSE driver.release

ReleaseNext ==
  /\ phase \in {"unwinding", "releasing"} /\ at \in 1 .. Len(Returning)
  /\ held' = held \ {Returning[at]}
  /\ at' = at + 1
  /\ UNCHANGED <<driver, phase, failed, files>>

Gone ==
  /\ phase \in {"unwinding", "releasing"} /\ at \notin 1 .. Len(Returning)
  /\ phase' = "absent"
  /\ UNCHANGED <<driver, at, failed, held, files>>

(* Only a new start of the machine clears what a driver has left behind.    *)
Reboot ==
  /\ phase = "absent" /\ held # {}
  /\ held' = {} /\ failed' = 0
  /\ files' = [f \in Files |-> Closed]
  /\ UNCHANGED <<driver, phase, at>>

(* The node is looked up in /dev, the cdev by its number, and the module is *)
(* pinned, which fails once rmmod has begun but not while init still runs.  *)
Open(f, minor) ==
  /\ files[f] = Closed /\ phase # "absent"
  /\ Node(minor) \in held /\ Cdev(minor) \in held
  /\ Pinned => phase # "releasing"
  /\ files' = [files EXCEPT ![f] = minor]
  /\ UNCHANGED <<driver, phase, at, failed, held>>

Close(f) ==
  /\ files[f] # Closed
  /\ files' = [files EXCEPT ![f] = Closed]
  /\ UNCHANGED <<driver, phase, at, failed, held>>

Life == Load \/ AcquireNext \/ AcquireFails \/ Loaded \/ Unload \/ ReleaseNext \/ Gone
  \/ Reboot

Next ==
  \/ Life
  \/ \E f \in Files : Close(f) \/ \E r \in held : r.kind = "node" /\ Open(f, r.minor)

Spec == Init /\ [][Next]_vars

-----------------------------------------------------------------------------
TypeOK ==
  /\ driver \in Drivers /\ phase \in Phases /\ at \in Nat \ {0} /\ failed \in Nat
  /\ phase = "unwinding" => failed \in Steps(driver)
  /\ held \subseteq Resources
  /\ files \in [Files -> Nat \cup {Closed}]

(* What the latest load, if it failed, leaves behind, and what it releases  *)
(* without having made it.                                                  *)
Left == IF failed = 0 THEN {} ELSE driver.leaves[failed]
Unmade == IF failed = 0 THEN {} ELSE driver.unmade[failed]

(* After a load that failed at whatever step, and after an unload, nothing  *)
(* of the driver stays registered in the kernel.                            *)
NothingLeaks == phase = "absent" => held = {}

(* After an unload nothing of the driver stays registered in the kernel,    *)
(* and after a load that failed at any step exactly what the error path of  *)
(* that step is known to forget.                                            *)
LeaksAsKnown == phase = "absent" => held = Left

(* At every moment of loading, unwinding and unloading, what is registered  *)
(* has what it needs, no cdev outlives its numbers and no node its class,   *)
(* apart from what a failed load forgets.                                   *)
Layered == \A r \in held \ Left : Needs(r) \subseteq held

(* A file that is open works through a cdev that is registered, and no      *)
(* failing load or unload takes the code away under it, but when a load     *)
(* fails after it has made the node of the file, and forgets that node.     *)
OpenBacked == \A f \in Files :
  files[f] # Closed =>
    /\ Cdev(files[f]) \in held
    /\ phase = "absent" => Node(files[f]) \in Left

(* Only what is held is given back, nothing is destroyed twice, and what is *)
(* destroyed without having been created is what the error path of the      *)
(* failing step is known to confuse.                                        *)
ReleasesHeld == [][ReleaseNext => Returning[at] \in held \cup Unmade]_vars
=============================================================================
