--------------------------- MODULE CharResources ---------------------------
(***************************************************************************)
(* What a character driver registers with the kernel.                      *)
(***************************************************************************)
EXTENDS Naturals

Resource(kind, minor) == [kind |-> kind, minor |-> minor]

Region == Resource("region", 0)         \* its range of device numbers
Class == Resource("class", 0)           \* its class in sysfs
Cdev(minor) == Resource("cdev", minor)  \* the cdev that serves one number
Node(minor) == Resource("node", minor)  \* the device file of that number

Resources == [kind : {"region", "class", "cdev", "node"}, minor : Nat]

(* What must be registered for a resource to make sense: a cdev serves      *)
(* numbers of the region, a node is a member of the class.  A node whose    *)
(* cdev is missing answers that there is no such device.                    *)
Needs(r) == CASE r.kind = "cdev" -> {Region}
              [] r.kind = "node" -> {Class}
              [] OTHER -> {}
=============================================================================
