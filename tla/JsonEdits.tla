----------------------------- MODULE JsonEdits -----------------------------
(***************************************************************************)
(* What a choice of the menu makes of the document, for the programs       *)
(* json_generic (an object of any members), employee_data (an array of     *)
(* employees by GID) and sample_2 (an array of students by name).  What a  *)
(* user types beyond the key is a set of possible results.                 *)
(*                                                                         *)
(* nested_object makes objects of scalars and arrays only, so that the     *)
(* recursion of update_item and remove_from_object is one level deep.      *)
(***************************************************************************)
EXTENDS JsonDoc

CONSTANTS
  Strings,     \* strings that are typed
  Numbers,     \* numbers that are typed
  Indices,     \* indices given to update_item
  MaxElements, \* bound: elements of an array
  NestedKeys,  \* bound: keys of the members of a nested object
  MaxNested    \* bound: their number

ASSUME EditsAssumption ==
  /\ NestedKeys \subseteq Keys /\ Indices \subseteq Int
  /\ MaxElements \in Nat /\ MaxNested \in Nat

(* The documents: their items have a key that was typed, those of a list in *)
(* them may have none, and a list in such a list holds scalars.             *)
Scalars == [kind : {"string", "number"}, text : Strings \cup Numbers]
             \cup [kind : {"true", "false", "null"}]
Lists(V) == [kind : {"array", "object"}, child : Seq([key : Keys \cup {NoKey, EmptyKey}, val : V])]
Documents == Seq([key : Keys, val : Scalars \cup Lists(Scalars \cup Lists(Scalars))])

Strs == {String(s) : s \in Strings}
Nums == {Number(n) : n \in Numbers}

-----------------------------------------------------------------------------
(* json_generic: what each of its add functions adds, in the root or in the *)
(* object nested_object builds.                                             *)

(* typed ? cJSON_True : cJSON_False goes where a truth value is expected.   *)
Bool(typed) == CreateBool(IF typed # 0 THEN cJSON_True ELSE cJSON_False)

Arrays == {Array(c) : c \in SeqOf({Member(NoKey, v) : v \in Strs}, MaxElements)}
Flat == Strs \cup Nums \cup {Bool(typed) : typed \in 0 .. 1} \cup {Null} \cup Arrays
Objects == {Object(c) : c \in SeqOf([key : NestedKeys, val : Flat], MaxNested)}

(* update_item: the values an item of this kind may be given. *)
NewValues(v) ==
  CASE v.kind = "string" -> Strs
    [] v.kind = "number" -> Nums
    [] v.kind \in {"true", "false"} -> {True, False}
    [] v.kind = "null" -> {Null, True, False} \cup Nums \cup Strs
    [] OTHER -> {}

(* Mutant: the element is replaced in the list the array is a member of. *)
UpdateElementAbove(o, i, index, v) ==
  IF index > Len(Children(o[i].val)) THEN o ELSE ReplaceItemInArray(o, index, v)

(* index = size passes the test and replaces nothing. *)
UpdateElement(o, i, index, v) ==
  LET array == Children(o[i].val)
  IN IF index > Len(array) THEN o ELSE WithChildren(o, i, ReplaceItemInArray(array, index, v))

(* The item is chosen by its exact key, and replaced without regard to      *)
(* case; any other text leaves a boolean as it is.                          *)
UpdateFlat(o, k) ==
  LET exact == GetObjectItemCaseSensitive(o, k)
      found == GetObjectItem(o, k)
      v == o[exact].val
  IN IF exact = 0 THEN {o}
     ELSE {ReplaceItemInObject(o, k, w) : w \in NewValues(v)}
          \cup {o : w \in {v} \cap {True, False}}
          \cup {UpdateElement(o, found, index, w) :
                  index \in {n \in Indices : v.kind = "array"}, w \in Strs}

UpdateItem(o, k) ==
  LET exact == GetObjectItemCaseSensitive(o, k)
      found == GetObjectItem(o, k)
  IN IF exact # 0 /\ o[exact].val.kind = "object"
     THEN {WithChildren(o, found, c) : c \in UNION {UpdateFlat(Children(o[found].val), l) : l \in Keys}}
     ELSE UpdateFlat(o, k)

RemoveFlat(o, k) ==
  IF GetObjectItemCaseSensitive(o, k) = 0 THEN o ELSE DeleteItemFromObject(o, k)

(* Mutant: an object is deleted whatever it holds. *)
RemoveWhole(o, k) == {RemoveFlat(o, k)}

(* A further key is asked for until the item is no object, or an empty one. *)
RemoveFrom(o, k) ==
  LET exact == GetObjectItemCaseSensitive(o, k)
  IN IF exact # 0 /\ Children(o[exact].val) # <<>> /\ o[exact].val.kind = "object"
     THEN {WithChildren(o, exact, RemoveFlat(Children(o[exact].val), l)) : l \in Keys}
     ELSE {RemoveFlat(o, k)}

-----------------------------------------------------------------------------
(* employee_data and sample_2: the key is a GID or a name, compared as it   *)
(* is, and the value the part of a record that update changes.              *)

Info == Strs \cup Nums

RecordOf(o, id) == SelectInSeq(o, LAMBDA m : m.key = id)

UpdateRecord(o, id, v) ==
  LET i == RecordOf(o, id) IN IF i = 0 THEN o ELSE [o EXCEPT ![i].val = v]

(* Mutant: the record behind the one found is deleted. *)
RemoveRecordAfter(o, id) ==
  LET i == RecordOf(o, id) IN IF i = 0 THEN o ELSE RemoveAt(o, i + 1)

RemoveRecord(o, id) ==
  LET i == RecordOf(o, id) IN IF i = 0 THEN o ELSE RemoveAt(o, i)
=============================================================================
