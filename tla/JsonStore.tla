----------------------------- MODULE JsonStore -----------------------------
(***************************************************************************)
(* The sessions of the JSON programs json_generic, employee_data and       *)
(* sample_2, each with its own file: load_json at the start, a menu whose  *)
(* choices edit the document in memory, and save_to_file, which truncates  *)
(* the file (fopen "w") and writes it when the stream is closed.  A        *)
(* program may be killed at any step, and no result of a save or of the    *)
(* reading is looked at: a file that cannot be opened counts as none.  A   *)
(* file that was truncated and not written, or written or read in part,    *)
(* does not parse: the brace that ends a document comes last.              *)
(***************************************************************************)
EXTENDS JsonEdits, FiniteSets

CONSTANTS
  Missing, Torn, NullText,  \* a file that is not there; cut short; "(null)"
  NULL, NoRoot,             \* root when the file did not parse; no session
  MaxMembers,  \* MaxMembers[p]: bound of the members of p's document
  MaxFailing,  \* MaxFailing[p]: bound of the members of a document whose save fails
  MaxUnread    \* MaxUnread[p]: bound of the members of a document whose load fails

Programs == {"json_generic", "employee_data", "sample_2"}
Unreadable == {Torn, NullText}

ASSUME MarkAssumption ==
  /\ Missing \notin Unreadable /\ Torn # NullText /\ NULL # NoRoot
  /\ {Missing, Torn, NullText, NULL, NoRoot} \cap Documents = {}

VARIABLES
  program,  \* the program that is used
  file,     \* its file: a document, or one of Missing, Torn, NullText
  pc,       \* "off", "menu", "save" (about to open the file), "write" (truncated)
  leaving,  \* the choice was to exit
  root,     \* the document in memory
  saved,    \* history: while the file is being written, what was in it before
  missed    \* history: the session's load or a save has failed, and no save
            \* has succeeded since

vars == <<program, file, pc, leaving, root, saved, missed>>

Init ==
  /\ program \in Programs
  /\ file = Missing /\ pc = "off" /\ leaving = FALSE /\ root = NoRoot
  /\ saved = <<>> /\ missed = FALSE

-----------------------------------------------------------------------------
(* What load_json makes of the file when it reads all of it. *)
Parsed == CASE file = Missing -> <<>>
            [] file \in Unreadable -> NULL
            [] OTHER -> file

(* A session starts with document d; json_generic also without one, the     *)
(* others exit.  failed: d is not what the file holds.                      *)
Begins(d, failed) ==
  /\ pc = "off"
  /\ IF d = NULL /\ program # "json_generic"
     THEN UNCHANGED <<root, pc, missed>>
     ELSE root' = d /\ pc' = "menu" /\ missed' = failed
  /\ UNCHANGED <<program, file, leaving, saved>>

(* Mutant: no program notices that its file did not parse. *)
StartUnchecked ==
  /\ pc = "off"
  /\ root' = Parsed /\ pc' = "menu" /\ missed' = FALSE
  /\ UNCHANGED <<program, file, leaving, saved>>

Start == Begins(Parsed, FALSE)

MayNotLoad == file \notin {Missing} \cup Unreadable => Len(file) <= MaxUnread[program]

(* fopen fails for another reason than that there is no file. *)
LoadOpenFails == file # Missing /\ MayNotLoad /\ Begins(<<>>, TRUE)

(* fread stops early, and a part of the text does not parse. *)
LoadReadFails == file \notin {Missing} \cup Unreadable /\ MayNotLoad /\ Begins(NULL, TRUE)

(* Mutants: employee_data does not save an edit; sample_2 saves each. *)
SavesOnlyExits(p) == p = "json_generic"
SavesAlways(p) == TRUE

(* Whether an edit is saved at once. *)
Saves(p) == p \in {"json_generic", "employee_data"}

(* A choice that makes d of the document. *)
Edit(d) ==
  /\ pc = "menu" /\ root' = d
  /\ pc' = IF Saves(program) THEN "save" ELSE "menu"
  /\ UNCHANGED <<program, file, leaving, saved, missed>>

(* cJSON does nothing with a NULL root. *)
EditNothing == root = NULL /\ Edit(root)

Editing(p) == program = p /\ pc = "menu" /\ root # NULL

(* json_generic saves after display and after an invalid choice, too. *)
Display == Editing("json_generic") /\ Edit(root)

Add(k, values) ==
  /\ Editing("json_generic") /\ Len(root) < MaxMembers[program]
  /\ \E v \in values : Edit(AddItemToObject(root, k, v))

add_string(k) == Add(k, Strs)
add_number(k) == Add(k, Nums)
add_boolean(k, typed) == Add(k, {Bool(typed)})
add_null(k) == Add(k, {Null})
add_array_string(k) == Add(k, Arrays)
nested_object(k) == Add(k, Objects)

update_item(k) == Editing("json_generic") /\ \E d \in UpdateItem(root, k) : Edit(d)
remove_from_object(k) == Editing("json_generic") /\ \E d \in RemoveFrom(root, k) : Edit(d)

EditingRecords == Editing("employee_data") \/ Editing("sample_2")

add_record(id) ==
  /\ EditingRecords /\ Len(root) < MaxMembers[program]
  /\ \E v \in Info : Edit(AddItemToObject(root, id, v))
update_record(id) == EditingRecords /\ \E v \in Info : Edit(UpdateRecord(root, id, v))
remove_record(id) == EditingRecords /\ Edit(RemoveRecord(root, id))

Exit ==
  /\ pc = "menu"
  /\ pc' = "save" /\ leaving' = TRUE
  /\ UNCHANGED <<program, file, root, saved, missed>>

-----------------------------------------------------------------------------
(* save_to_file, and the end of the program when the choice was to exit.    *)

SaveReturns ==
  /\ pc' = IF leaving THEN "off" ELSE "menu"
  /\ root' = IF leaving THEN NoRoot ELSE root
  /\ leaving' = FALSE

MayFail == root # NULL => Len(root) <= MaxFailing[program]

(* What the file is worth: a document, or what no session can read.         *)
Contents == CASE file = Missing -> <<>>
              [] file \in Unreadable -> NullText
              [] OTHER -> file

SaveOpens ==
  /\ pc = "save"
  /\ file' = Torn /\ pc' = "write"
  /\ saved' = Contents
  /\ UNCHANGED <<program, leaving, root, missed>>

SaveOpenFails ==
  /\ pc = "save" /\ MayFail
  /\ missed' = ~leaving /\ SaveReturns
  /\ UNCHANGED <<program, file, saved>>

(* fprintf prints a NULL text as "(null)". *)
SaveWrites ==
  /\ pc = "write"
  /\ file' = IF root = NULL THEN NullText ELSE Printed(root)
  /\ missed' = FALSE /\ saved' = <<>> /\ SaveReturns
  /\ UNCHANGED program

SaveWriteFails ==
  /\ pc = "write" /\ MayFail
  /\ missed' = ~leaving /\ saved' = <<>> /\ SaveReturns
  /\ UNCHANGED <<program, file>>

(* The program is killed, or prints the text of a NULL root. *)
Crash ==
  /\ pc # "off"
  /\ pc' = "off" /\ root' = NoRoot /\ leaving' = FALSE /\ saved' = <<>> /\ missed' = FALSE
  /\ UNCHANGED <<program, file>>

-----------------------------------------------------------------------------
EditDocument ==
  \E k \in Keys :
    \/ add_string(k) \/ add_number(k) \/ \E typed \in 0 .. 1 : add_boolean(k, typed)
    \/ add_null(k) \/ add_array_string(k) \/ nested_object(k)
    \/ update_item(k) \/ remove_from_object(k)
    \/ add_record(k) \/ update_record(k) \/ remove_record(k)

Next ==
  \/ Start \/ LoadOpenFails \/ LoadReadFails \/ EditDocument \/ Display \/ EditNothing \/ Exit
  \/ SaveOpens \/ SaveOpenFails \/ SaveWrites \/ SaveWriteFails \/ Crash

Spec == Init /\ [][Next]_vars

-----------------------------------------------------------------------------
Values(o) == {o[i].val : i \in DOMAIN o}
Nested(v) == IF v.kind = "object" THEN v.child ELSE <<>>
KeysOf(o) == {o[i].key : i \in DOMAIN o}

(* The variables have their types, only json_generic works on without a     *)
(* document, and no item of the root or of a document on file lacks a key.  *)
TypeOK ==
  /\ program \in Programs /\ pc \in {"off", "menu", "save", "write"}
  /\ leaving \in BOOLEAN /\ missed \in BOOLEAN
  /\ root = NoRoot <=> pc = "off"
  /\ root = NULL => program = "json_generic" /\ (missed \/ file \in Unreadable)
  /\ \A o \in {file, root, saved} \ {Missing, Torn, NullText, NULL, NoRoot} :
       /\ KeysOf(o) \subseteq Keys
       /\ \A v \in Values(o) : v.kind = "object" =>
            KeysOf(v.child) \subseteq Keys \cup {EmptyKey} \cup (IF o = root THEN {NoKey} ELSE {})

(* However loads and saves fail and programs are killed, whoever sees the   *)
(* menu of a program that saves each change has a file that holds what the  *)
(* menu works on, unless the session's latest load or save failed (and      *)
(* nobody said so).                                                         *)
FileUpToDate ==
  pc = "menu" /\ program # "sample_2" /\ ~missed =>
    CASE file = Missing -> root = <<>>
      [] file \in Unreadable -> root = NULL
      [] OTHER -> root # NULL /\ file = Printed(root)

(* Lists o and d differ in one member called k, up to case, at most: in d it *)
(* is gone, or another of that name is in its place.                        *)
DifferInOne(o, d, k) ==
  d # o =>
    \E i \in DOMAIN o :
      /\ SameKey(o[i].key, k)
      /\ \/ d = RemoveAt(o, i)
         \/ /\ DOMAIN d = DOMAIN o
            /\ SameKey(d[i].key, k)
            /\ \A j \in DOMAIN o \ {i} : d[j] = o[j]

(* Whichever of its lookups respects case, a choice that names a key leaves *)
(* all members of another name alone, and in their order.                   *)
OthersKept == [][
  \A k \in Keys :
    update_item(k) \/ remove_from_object(k) \/ update_record(k) \/ remove_record(k)
      => DifferInOne(root, root', k) ]_vars

(* No two members of a list have a name that differs in case at most. *)
Distinct(o) == \A i, j \in DOMAIN o : SameKey(o[i].key, o[j].key) => i = j
TwinFree(o) == Distinct(o) /\ \A v \in Values(o) : Distinct(Nested(v))

(* The paths to the named items of a document. *)
Paths(o) ==
  {<<k>> : k \in KeysOf(o)}
    \cup UNION {{<<m.key, k>> : k \in KeysOf(Nested(m.val))} : m \in ToSet(o)}

(* remove_from_object deletes by a lookup that is laxer than the one that   *)
(* found the item.  In a document without twins it still takes away exactly *)
(* one item or none, and one that was named exactly and held nothing.       *)
RemovesOneLeaf == [][
  \A k \in Keys : remove_from_object(k) /\ TwinFree(root) =>
    LET gone == Paths(root) \ Paths(root')
    IN /\ Paths(root') \subseteq Paths(root)
       /\ Cardinality(gone) <= 1
       /\ \A p \in gone : p[1] = k ]_vars

(* Without twins update_item keeps every name and place: what it replaces   *)
(* is found again under the key that was typed.                             *)
UpdateKeepsNames == [][
  \A k \in Keys : update_item(k) /\ TwinFree(root) => Paths(root') = Paths(root) ]_vars

(* The prompt of add_boolean: 0 for false, 1 for true. *)
BooleanAsTyped == [][
  \A k \in Keys, typed \in 0 .. 1 : add_boolean(k, typed) =>
    Last(root').val = IF typed = 0 THEN False ELSE True ]_vars

-----------------------------------------------------------------------------
(* A file that is being written still counts as the document it held until *)
(* the save is over.                                                        *)
Durable == IF pc = "write" THEN saved ELSE Contents

Session == IF pc = "off" \/ root = NULL THEN root ELSE Printed(root)

Store == INSTANCE SessionStore WITH
  Empty <- <<>>, Lost <- NullText, NoSession <- NoRoot, Broken <- NULL,
  durable <- Durable, session <- Session, saving <- pc = "write", failed <- missed,
  batch <- program = "sample_2"

(* With kills and failures at every step of load and save, the programs     *)
(* keep their documents as the atomic store does: what can be read from the *)
(* file was the whole document of one session, that of sample_2 only at its *)
(* exit; a document is lost only by a save that began and did not finish;   *)
(* and a session that could read the file begins with what it holds.        *)
ImplementsSessions == Store!SSpec
=============================================================================
