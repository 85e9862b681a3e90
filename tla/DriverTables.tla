---------------------------- MODULE DriverTables ----------------------------
(***************************************************************************)
(* The order in which each driver of the repository acquires its           *)
(* resources, what its error path releases after each step, any of which   *)
(* can fail, and what its exit or remove function releases; and what the   *)
(* error paths of two of them forget or confuse.                           *)
(***************************************************************************)
EXTENDS Integers, Sequences, CharResources

(* A chain of goto labels: a failure at step i enters the chain so that it  *)
(* runs the last i - 1 of its releases.                                     *)
FallThrough(chain) ==
  [i \in 1 .. Len(chain) + 1 |->
     [k \in 1 .. i - 1 |-> chain[Len(chain) + 1 - i + k]]]

(* At none of n steps. *)
Never(n) == [i \in 1 .. n |-> {}]

-----------------------------------------------------------------------------
(* pcd.c *)
PcdAcquire == <<Region, Cdev(0), Class, Node(0)>>
PcdUnwind == FallThrough(<<Class, Cdev(0), Region>>)
(* Mutant: the class goes before its node. *)
PcdReleaseSwapped == <<Class, Node(0), Cdev(0), Region>>

PcdRelease == <<Node(0), Class, Cdev(0), Region>>

Pcd == [acquire |-> PcdAcquire, unwind |-> PcdUnwind, release |-> PcdRelease,
        leaves |-> Never(4), unmade |-> Never(4)]

-----------------------------------------------------------------------------
(* pcd_drv.c: the devices are added in a loop.  The error path's loop over  *)
(* the devices has a counter without an initial value and a condition that  *)
(* is false for it; the build drops it.                                     *)
NO_OF_DEVICES == 4

PcdDrvAcquire ==
  <<Region, Class>> \o
  [i \in 1 .. 2 * NO_OF_DEVICES |->
     IF i % 2 = 1 THEN Cdev((i - 1) \div 2) ELSE Node((i - 2) \div 2)]

(* Mutant: the failure of alloc_chrdev_region enters the chain. *)
PcdDrvUnwindEarly ==
  [i \in 1 .. 2 + 2 * NO_OF_DEVICES |->
     IF i <= 2 THEN <<Region>> ELSE <<Class, Region>>]

PcdDrvUnwind ==
  [i \in 1 .. 2 + 2 * NO_OF_DEVICES |->
     CASE i = 1 -> <<>>
       [] i = 2 -> <<Region>>
       [] OTHER -> <<Class, Region>>]

PcdDrvRelease ==
  [i \in 1 .. 2 * NO_OF_DEVICES |->
     IF i % 2 = 1 THEN Node((i - 1) \div 2) ELSE Cdev((i - 2) \div 2)]
  \o <<Class, Region>>

(* Mutant: the error path deletes the devices made so far, although         *)
(* programs may have opened the first nodes by then.                        *)
PcdDrvRepaired ==
  [acquire |-> PcdDrvAcquire, release |-> PcdDrvRelease,
   unwind |-> [i \in 1 .. 2 + 2 * NO_OF_DEVICES |->
                 IF i <= 2 THEN PcdDrvUnwind[i]
                 ELSE SelectSeq(PcdDrvRelease, LAMBDA r : \E j \in 1 .. i - 1 : PcdDrvAcquire[j] = r)],
   leaves |-> Never(2 + 2 * NO_OF_DEVICES), unmade |-> Never(2 + 2 * NO_OF_DEVICES)]

(* A failure inside the loop leaves the cdevs and nodes made so far. *)
PcdDrvLeaves ==
  [i \in 1 .. 2 + 2 * NO_OF_DEVICES |-> {PcdDrvAcquire[j] : j \in 3 .. i - 1}]

PcdDrv == [acquire |-> PcdDrvAcquire, unwind |-> PcdDrvUnwind, release |-> PcdDrvRelease,
           leaves |-> PcdDrvLeaves, unmade |-> Never(2 + 2 * NO_OF_DEVICES)]

-----------------------------------------------------------------------------
(* i2c_client_driver_LM75A.c: lm75a_probe and lm75a_remove. *)
Lm75aAcquire == <<Region, Cdev(0), Class, Node(0)>>
(* Mutant: class_create's failure skips cdev_del. *)
Lm75aUnwindSkips == << <<>>, <<Region>>, <<Region>>, <<Class, Cdev(0), Region>> >>

Lm75aUnwind == FallThrough(<<Class, Cdev(0), Region>>)
Lm75aRelease == <<Node(0), Class, Cdev(0), Region>>

Lm75a == [acquire |-> Lm75aAcquire, unwind |-> Lm75aUnwind, release |-> Lm75aRelease,
          leaves |-> Never(4), unmade |-> Never(4)]

-----------------------------------------------------------------------------
(* i2c_client_driver_0.c: ds3231_probe, whose error paths forget the cdev,  *)
(* and when cdev_add fails destroy a device and a class that have not been  *)
(* made (class is still NULL then, and the kernel does nothing); and        *)
(* ds3231_remove.                                                           *)
Ds3231Acquire == <<Region, Cdev(0), Class, Node(0)>>
Ds3231Unwind == << <<>>, <<Node(0), Class, Region>>, <<Region>>, <<Class, Region>> >>
Ds3231Release == <<Cdev(0), Node(0), Class, Region>>

Ds3231Leaves == [i \in 1 .. 4 |-> IF i >= 3 THEN {Cdev(0)} ELSE {}]
Ds3231Unmade == [i \in 1 .. 4 |-> IF i = 2 THEN {Node(0), Class} ELSE {}]

Ds3231 == [acquire |-> Ds3231Acquire, unwind |-> Ds3231Unwind, release |-> Ds3231Release,
           leaves |-> Ds3231Leaves, unmade |-> Ds3231Unmade]
=============================================================================
