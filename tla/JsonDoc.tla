------------------------------ MODULE JsonDoc ------------------------------
(***************************************************************************)
(* The documents the JSON programs keep, and the operations of cJSON they  *)
(* use on them.  An object and an array are both a list of members: those  *)
(* of an object have a key, those of an array do not.  A key is looked up  *)
(* as it is written or without regard to case, depending on the call.      *)
(* The text of a key, a string or a number is an opaque value.             *)
(***************************************************************************)
EXTENDS Integers, Sequences, SequencesExt

CONSTANTS
  Keys,      \* keys that are typed
  Fold,      \* Fold[k]: key k in lower case
  NoKey,     \* the key of an item that has none
  EmptyKey   \* what such a key is read back as: ""

ASSUME KeyAssumption ==
  /\ EmptyKey \notin Keys /\ NoKey \notin Keys \cup {EmptyKey}
  /\ DOMAIN Fold = Keys \cup {EmptyKey}
  /\ \A k \in Keys : Fold[k] # Fold[EmptyKey]

String(s) == [kind |-> "string", text |-> s]
Number(n) == [kind |-> "number", text |-> n]
True  == [kind |-> "true"]
False == [kind |-> "false"]
Null  == [kind |-> "null"]
Array(c)  == [kind |-> "array", child |-> c]
Object(c) == [kind |-> "object", child |-> c]
Member(k, v) == [key |-> k, val |-> v]

Children(v) == IF v.kind \in {"array", "object"} THEN v.child ELSE <<>>
SameKey(k, l) == NoKey \notin {k, l} /\ Fold[k] = Fold[l]

(* cJSON_True and cJSON_False are bits of a type, neither is 0. *)
cJSON_False == 1
cJSON_True == 2
CreateBool(b) == IF b # 0 THEN True ELSE False

(* The place of the first member with this key, 0 if there is none.  The    *)
(* exact search gives up at an item without a key.                          *)
GetObjectItem(o, k) == SelectInSeq(o, LAMBDA m : SameKey(m.key, k))
GetObjectItemCaseSensitive(o, k) ==
  LET i == SelectInSeq(o, LAMBDA m : m.key \in {k, NoKey})
  IN IF i # 0 /\ o[i].key = k THEN i ELSE 0

AddItemToObject(o, k, v) == Append(o, Member(k, v))

(* The three below look without regard to case, and do nothing when there   *)
(* is nothing to find.  A replaced member gets the key as it was typed.     *)
DeleteItemFromObject(o, k) ==
  LET i == GetObjectItem(o, k) IN IF i = 0 THEN o ELSE RemoveAt(o, i)

ReplaceItemInObject(o, k, v) ==
  LET i == GetObjectItem(o, k) IN IF i = 0 THEN o ELSE [o EXCEPT ![i] = Member(k, v)]

(* The children of the i-th item become c, if it is one that has children.  *)
WithChildren(o, i, c) ==
  IF o[i].val.kind \in {"array", "object"} THEN [o EXCEPT ![i].val.child = c] ELSE o

(* index counts from 0; what is not there is not replaced.  The new item    *)
(* has no key, whatever the list is.                                        *)
ReplaceItemInArray(c, index, v) ==
  IF index \in 0 .. Len(c) - 1 THEN [c EXCEPT ![index + 1] = Member(NoKey, v)] ELSE c

(* What the text of a document is read back as. *)
Reread(c) == [i \in DOMAIN c |-> IF c[i].key = NoKey THEN [c[i] EXCEPT !.key = EmptyKey] ELSE c[i]]
Printed(o) ==
  [i \in DOMAIN o |-> IF o[i].val.kind = "object"
                      THEN [o[i] EXCEPT !.val.child = Reread(@)] ELSE o[i]]
=============================================================================
