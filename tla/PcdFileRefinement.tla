------------------------- MODULE PcdFileRefinement -------------------------
(***************************************************************************)
(* A device used by one thread (through any number of open files) is a     *)
(* SeekableMemory, although its calls are many steps.  The history         *)
(* variable before remembers the memory and the result as they were when   *)
(* the thread was last outside the driver.                                 *)
(***************************************************************************)
EXTENDS PcdFile

VARIABLE before

CONSTANT Sole   \* the thread

ASSUME SoleAssumption == Threads = {Sole}

hvars == <<buffer, f_pos, f_mode, call, before>>

Snapshot == [mem |-> buffer, result |-> call[Sole]]

HInit == Init /\ before = Snapshot

HNext == Next /\ before' = IF call'[Sole].op = "idle" THEN Snapshot' ELSE before

HSpec == HInit /\ [][HNext]_hvars

(* A read or write takes effect when it returns, a seek when it stores. *)
SM == INSTANCE SeekableMemory WITH
  mem <- before.mem,
  pos <- f_pos,
  result <- IF call[Sole].op = "tell" THEN Idle(call[Sole].target, <<>>)
            ELSE before.result

(* Used by one thread, pcd_read, pcd_write and pcd_lseek together behave as *)
(* atomic reads, writes and seeks of a memory with a position: what is read *)
(* is what was last written there, at and around the end of the device, and *)
(* after calls that failed.                                                 *)
ImplementsMemory == SM!Spec
=============================================================================
