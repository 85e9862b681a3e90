-------------------------- MODULE JsonStoreProofs --------------------------
(***************************************************************************)
(* Proofs about JsonStore, for every set of keys, strings and numbers and  *)
(* documents of any size: what the programs' files hold while loads and    *)
(* saves fail and programs are killed.                                                *)
(***************************************************************************)
EXTENDS JsonStore, JsonEditsProofs, FiniteSetTheorems

(* Documents as they are on file.                                           *)
Stored == {d \in Documents : Printed(d) = d}

KindInv ==
  /\ program \in Programs /\ pc \in {"off", "menu", "save", "write"}
  /\ leaving \in BOOLEAN /\ missed \in BOOLEAN
  /\ file \in {Missing, Torn, NullText} \cup Stored
  /\ root \in {NULL, NoRoot} \cup Documents
  /\ saved \in {NullText} \cup Stored

(* A session has a document, or json_generic works on without one because   *)
(* the file did not parse, or was not read.                                 *)
RootInv ==
  /\ root = NoRoot <=> pc = "off"
  /\ root = NULL => program = "json_generic" /\ (missed \/ file \in Unreadable)

(* sample_2 saves as it exits; a file that is being written is torn.        *)
SaveInv ==
  /\ program = "sample_2" /\ pc \in {"save", "write"} => leaving
  /\ pc = "write" => file = Torn

(* The file holds what the menu works on.                                   *)
Match ==
  \/ file = Missing /\ root = <<>>
  \/ file \in Unreadable /\ root = NULL
  \/ root \in Documents /\ file = Printed(root)

IInv ==
  /\ KindInv /\ RootInv /\ SaveInv
  /\ pc = "menu" /\ program # "sample_2" /\ ~missed => Match

-----------------------------------------------------------------------------
(* No mark is a document; the empty document is one, on file too.           *)
LEMMA Marks ==
  /\ \A d \in Documents : d \notin {Missing, Torn, NullText, NULL, NoRoot}
  /\ <<>> \in Stored
  /\ \A d \in Documents : Printed(d) \in Stored
<1>1. \A d \in Documents : d \notin {Missing, Torn, NullText, NULL, NoRoot}
  BY MarkAssumption
<1>2. <<>> \in Documents
  BY Levels
<1>3. Printed(<<>>) = <<>>
  BY DEF Printed
<1>4. \A d \in Documents : Printed(d) \in Stored
  BY PrintedOnce DEF Stored
<1> QED BY <1>1, <1>2, <1>3, <1>4 DEF Stored

(* What load_json makes of the three kinds of file.                         *)
LEMMA ParsedKinds ==
  ASSUME KindInv
  PROVE  \/ file = Missing /\ Parsed = <<>>
         \/ file \in Unreadable /\ Parsed = NULL
         \/ file \in Stored /\ Parsed = file
<1>1. CASE file = Missing
  BY <1>1 DEF Parsed
<1>2. CASE file \in Unreadable
  BY <1>2, MarkAssumption DEF Parsed, Unreadable
<1>3. CASE file \in Stored
  BY <1>3, Marks DEF Parsed, Unreadable, Stored
<1> QED BY <1>1, <1>2, <1>3 DEF KindInv, Unreadable

(* Every choice of a menu makes a document of the session's document.       *)
LEMMA EditMakesDocument ==
  ASSUME IInv, EditDocument \/ Display
  PROVE  root \in Documents /\ \E d \in Documents : Edit(d)
<1>1. ASSUME pc = "menu", root # NULL
      PROVE  root \in Documents
  BY <1>1 DEF IInv, KindInv, RootInv
<1>2. CASE Display
  BY <1>1, <1>2 DEF Display, Editing
<1>3. ASSUME NEW k \in Keys, NEW values \in SUBSET Vals(Inner), Add(k, values)
      PROVE  root \in Documents /\ \E d \in Documents : Edit(d)
  <2>1. root \in Documents
    BY <1>1, <1>3 DEF Add, Editing
  <2>2. PICK v \in values : Edit(AddItemToObject(root, k, v))
    BY <1>3 DEF Add
  <2> QED BY <2>1, <2>2, AddKeeps
<1>4. ASSUME NEW k \in Keys, update_item(k)
      PROVE  root \in Documents /\ \E d \in Documents : Edit(d)
  <2>1. root \in Documents
    BY <1>1, <1>4 DEF update_item, Editing
  <2>2. PICK d \in UpdateItem(root, k) : Edit(d)
    BY <1>4 DEF update_item
  <2> QED BY <2>1, <2>2, UpdateItemKeeps
<1>5. ASSUME NEW k \in Keys, remove_from_object(k)
      PROVE  root \in Documents /\ \E d \in Documents : Edit(d)
  <2>1. root \in Documents
    BY <1>1, <1>5 DEF remove_from_object, Editing
  <2>2. PICK d \in RemoveFrom(root, k) : Edit(d)
    BY <1>5 DEF remove_from_object
  <2> QED BY <2>1, <2>2, RemoveFromKeeps
<1>6. ASSUME NEW k \in Keys, add_record(k) \/ update_record(k) \/ remove_record(k)
      PROVE  root \in Documents /\ \E d \in Documents : Edit(d)
  <2>1. root \in Documents
    BY <1>1, <1>6 DEF add_record, update_record, remove_record, EditingRecords, Editing
  <2>2. CASE add_record(k)
    <3>1. PICK v \in Info : Edit(AddItemToObject(root, k, v))
      BY <2>2 DEF add_record
    <3> QED BY <2>1, <3>1, RecordsKeep
  <2>3. CASE update_record(k)
    <3>1. PICK v \in Info : Edit(UpdateRecord(root, k, v))
      BY <2>3 DEF update_record
    <3> QED BY <2>1, <3>1, RecordsKeep
  <2>4. CASE remove_record(k)
    <3>1. Edit(RemoveRecord(root, k))
      BY <2>4 DEF remove_record
    <3> QED BY <2>1, <3>1, RemoveRecordKeeps
  <2> QED BY <1>6, <2>2, <2>3, <2>4
<1>7. ASSUME NEW k \in Keys, \/ add_string(k) \/ add_number(k) \/ add_null(k)
                             \/ add_array_string(k) \/ nested_object(k)
                             \/ \E typed \in 0 .. 1 : add_boolean(k, typed)
      PROVE  root \in Documents /\ \E d \in Documents : Edit(d)
  <2>1. \E values \in SUBSET Vals(Inner) : Add(k, values)
    BY <1>7, AddedValues
    DEF add_string, add_number, add_null, add_array_string, nested_object, add_boolean
  <2> QED BY <1>3, <2>1
<1>8. CASE EditDocument
  BY <1>4, <1>5, <1>6, <1>7, <1>8 DEF EditDocument
<1> QED BY <1>2, <1>8

-----------------------------------------------------------------------------
(* Nothing is on file, and no session runs.                                 *)
LEMMA InitIInv == Init => IInv
<1> SUFFICES ASSUME Init
             PROVE  IInv
  OBVIOUS
<1>1. /\ program \in Programs /\ file = Missing /\ pc = "off" /\ leaving = FALSE
      /\ root = NoRoot /\ saved = <<>> /\ missed = FALSE
  BY DEF Init
<1>2. KindInv
  BY <1>1, Marks DEF KindInv
<1>3. RootInv /\ SaveInv
  BY <1>1, MarkAssumption DEF RootInv, SaveInv
<1> QED BY <1>1, <1>2, <1>3 DEF IInv

(* A session starts with a document that its file holds, or knows no better, *)
(* or does not start.                                                       *)
LEMMA BeginsKeeps ==
  ASSUME IInv, NEW d \in {NULL} \cup Documents, NEW f \in BOOLEAN, Begins(d, f),
         f \/ \/ file = Missing /\ d = <<>>
              \/ file \in Unreadable /\ d = NULL
              \/ d \in Documents /\ file = Printed(d)
  PROVE  IInv'
<1>1. /\ pc = "off" /\ root = NoRoot
      /\ program' = program /\ file' = file /\ leaving' = leaving /\ saved' = saved
  BY DEF Begins, IInv, RootInv
<1>2. CASE d = NULL /\ program # "json_generic"
  <2>1. root' = root /\ pc' = pc /\ missed' = missed
    BY <1>2 DEF Begins
  <2> QED BY <1>1, <2>1 DEF IInv, KindInv, RootInv, SaveInv
<1>3. CASE ~(d = NULL /\ program # "json_generic")
  <2>1. root' = d /\ pc' = "menu" /\ missed' = f
    BY <1>3 DEF Begins
  <2>2. KindInv'
    BY <1>1, <2>1 DEF IInv, KindInv
  <2>3. d # NoRoot
    BY Marks, MarkAssumption
  <2>4. d = NULL => f \/ file \in Unreadable
    <3>1. <<>> # NULL
      BY Marks DEF Stored
    <3> QED BY <3>1, Marks
  <2>5. RootInv'
    BY <1>1, <1>3, <2>1, <2>3, <2>4 DEF RootInv
  <2>6. SaveInv' /\ (~missed' => Match')
    BY <1>1, <2>1 DEF SaveInv, Match
  <2> QED BY <2>1, <2>2, <2>5, <2>6 DEF IInv
<1> QED BY <1>2, <1>3

(* The ways a session starts preserve the invariant. *)
LEMMA StartKeeps == IInv /\ (Start \/ LoadOpenFails \/ LoadReadFails) => IInv'
<1>1. <<>> \in Documents /\ Printed(<<>>) = <<>>
  BY Marks DEF Stored
<1>2. ASSUME IInv, Start
      PROVE  IInv'
  <2>1. \/ file = Missing /\ Parsed = <<>>
        \/ file \in Unreadable /\ Parsed = NULL
        \/ Parsed \in Documents /\ file = Printed(Parsed)
    BY <1>2, ParsedKinds DEF IInv, Stored
  <2>2. Begins(Parsed, FALSE) /\ Parsed \in {NULL} \cup Documents
    BY <1>1, <1>2, <2>1 DEF Start
  <2> QED BY <1>2, <2>1, <2>2, BeginsKeeps
<1>3. ASSUME IInv, LoadOpenFails \/ LoadReadFails
      PROVE  IInv'
  <2>1. Begins(<<>>, TRUE) \/ Begins(NULL, TRUE)
    BY <1>3 DEF LoadOpenFails, LoadReadFails
  <2> QED BY <1>1, <1>3, <2>1, BeginsKeeps
<1> QED BY <1>2, <1>3

(* An edit is saved at once, or the program is sample_2.                    *)
LEMMA EditKeeps ==
  ASSUME IInv, NEW d, (root \in Documents /\ d \in Documents) \/ (root = NULL /\ d = NULL),
         Edit(d)
  PROVE  IInv'
<1>1. /\ root' = d /\ pc' = IF Saves(program) THEN "save" ELSE "menu"
      /\ program' = program /\ file' = file /\ leaving' = leaving /\ saved' = saved
      /\ missed' = missed
  BY DEF Edit
<1>2. program \in Programs
  BY DEF IInv, KindInv
<1>3. (program = "sample_2" /\ pc' = "menu") \/ (program # "sample_2" /\ pc' = "save")
  <2>1. Saves(program) <=> program # "sample_2"
    BY <1>2 DEF Saves, Programs
  <2>2. CASE program = "sample_2"
    BY <1>1, <2>1, <2>2
  <2>3. CASE program # "sample_2"
    BY <1>1, <2>1, <2>3
  <2> QED BY <2>2, <2>3
<1>4. d # NoRoot
  BY Marks, MarkAssumption
<1>5. d = NULL => root = NULL
  BY Marks
<1>6. KindInv' /\ RootInv'
  BY <1>1, <1>3, <1>4, <1>5, Marks DEF IInv, KindInv, RootInv
<1>7. SaveInv'
  BY <1>1, <1>3 DEF IInv, SaveInv
<1> QED BY <1>1, <1>3, <1>6, <1>7 DEF IInv

(* Leaving the menu leads to a save.                                        *)
LEMMA ExitKeeps == IInv /\ Exit => IInv'
<1> SUFFICES ASSUME IInv, Exit
             PROVE  IInv'
  OBVIOUS
<1>1. /\ pc = "menu" /\ pc' = "save" /\ leaving' = TRUE
      /\ program' = program /\ file' = file /\ root' = root /\ saved' = saved /\ missed' = missed
  BY DEF Exit
<1>2. KindInv' /\ RootInv' /\ SaveInv'
  BY <1>1 DEF IInv, KindInv, RootInv, SaveInv
<1> QED BY <1>1, <1>2 DEF IInv

(* What a file is worth, by its kind.                                       *)
LEMMA ContentsKinds ==
  ASSUME KindInv
  PROVE  \/ file = Missing /\ Contents = <<>>
         \/ file \in Unreadable /\ Contents = NullText
         \/ file \in Stored /\ Contents = file
<1>1. CASE file = Missing
  BY <1>1 DEF Contents
<1>2. CASE file \in Unreadable
  BY <1>2, MarkAssumption DEF Contents, Unreadable
<1>3. CASE file \in Stored
  BY <1>3, Marks DEF Contents, Unreadable, Stored
<1> QED BY <1>1, <1>2, <1>3 DEF KindInv, Unreadable

(* fopen has truncated the file.                                            *)
LEMMA SaveOpensKeeps == IInv /\ SaveOpens => IInv'
<1> SUFFICES ASSUME IInv, SaveOpens
             PROVE  IInv'
  OBVIOUS
<1>1. /\ pc = "save" /\ file' = Torn /\ pc' = "write" /\ saved' = Contents
      /\ program' = program /\ leaving' = leaving /\ root' = root /\ missed' = missed
  BY DEF SaveOpens
<1>2. Torn \in Unreadable
  BY DEF Unreadable
<1>3. saved' \in {NullText} \cup Stored
  BY <1>1, ContentsKinds, Marks DEF IInv
<1>4. KindInv' /\ RootInv' /\ SaveInv'
  BY <1>1, <1>2, <1>3 DEF IInv, KindInv, RootInv, SaveInv
<1> QED BY <1>1, <1>4 DEF IInv

(* A save returns: to the menu with the document it was called with, or the *)
(* program ends.                                                            *)
LEMMA SaveReturnsKeeps ==
  ASSUME IInv, SaveReturns, pc # "off", program' = program, missed' \in BOOLEAN,
         saved' \in Stored \cup {NullText},
         file' \in {Missing, Torn, NullText} \cup Stored,
         leaving \/ missed' \/ (IF root = NULL THEN file' \in Unreadable
                                            ELSE file' = Printed(root))
  PROVE  IInv'
<1>1. leaving \in BOOLEAN /\ leaving' = FALSE /\ root # NoRoot
  BY DEF IInv, KindInv, RootInv, SaveReturns
<1>2. CASE leaving
  <2>1. pc' = "off" /\ root' = NoRoot
    BY <1>2 DEF SaveReturns
  <2>2. KindInv' /\ RootInv' /\ SaveInv'
    BY <1>1, <2>1, Marks, MarkAssumption DEF IInv, KindInv, RootInv, SaveInv
  <2> QED BY <2>1, <2>2 DEF IInv
<1>3. CASE ~leaving
  <2>1. pc' = "menu" /\ root' = root
    BY <1>3 DEF SaveReturns
  <2>2. KindInv' /\ RootInv' /\ SaveInv'
    BY <1>1, <1>3, <2>1 DEF IInv, KindInv, RootInv, SaveInv
  <2>3. ~missed' => Match'
    BY <1>1, <1>3, <2>1 DEF IInv, KindInv, Match
  <2> QED BY <2>1, <2>2, <2>3 DEF IInv
<1> QED BY <1>1, <1>2, <1>3

(* The steps in which a save ends preserve the invariant.                   *)
LEMMA SaveEndsKeeps == IInv /\ (SaveOpenFails \/ SaveWrites \/ SaveWriteFails) => IInv'
<1>1. ASSUME IInv, SaveOpenFails \/ SaveWriteFails
      PROVE  IInv'
  <2>1. /\ SaveReturns /\ pc # "off" /\ missed' = ~leaving
        /\ program' = program /\ file' = file /\ saved' \in {saved, <<>>}
    BY <1>1 DEF SaveOpenFails, SaveWriteFails
  <2>2. /\ saved' \in Stored \cup {NullText} /\ leaving \in BOOLEAN
        /\ file' \in {Missing, Torn, NullText} \cup Stored
    BY <1>1, <2>1, Marks DEF IInv, KindInv
  <2>3. missed' \in BOOLEAN /\ (leaving \/ missed')
    BY <2>1, <2>2
  <2> QED BY <1>1, <2>1, <2>2, <2>3, SaveReturnsKeeps
<1>2. ASSUME IInv, SaveWrites
      PROVE  IInv'
  <2>1. /\ SaveReturns /\ pc = "write" /\ missed' = FALSE
        /\ file' = (IF root = NULL THEN NullText ELSE Printed(root))
        /\ program' = program /\ saved' = <<>>
    BY <1>2 DEF SaveWrites
  <2>2. root = NULL \/ root \in Documents
    BY <1>2, <2>1 DEF IInv, KindInv, RootInv
  <2>3. /\ saved' \in Stored /\ file' \in {NullText} \cup Stored
        /\ IF root = NULL THEN file' \in Unreadable ELSE file' = Printed(root)
    BY <2>1, <2>2, Marks DEF Unreadable, Stored
  <2> QED BY <1>2, <2>1, <2>3, SaveReturnsKeeps
<1> QED BY <1>1, <1>2

(* A killed program leaves its file as it is.                               *)
LEMMA CrashKeeps == IInv /\ Crash => IInv'
<1> SUFFICES ASSUME IInv, Crash
             PROVE  IInv'
  OBVIOUS
<1>1. /\ pc' = "off" /\ root' = NoRoot /\ leaving' = FALSE /\ saved' = <<>> /\ missed' = FALSE
      /\ program' = program /\ file' = file
  BY DEF Crash
<1>2. KindInv' /\ RootInv' /\ SaveInv'
  BY <1>1, Marks, MarkAssumption DEF IInv, KindInv, RootInv, SaveInv
<1> QED BY <1>1, <1>2 DEF IInv

(* The invariant is inductive.                                              *)
LEMMA NextIInv == IInv /\ [Next]_vars => IInv'
<1> SUFFICES ASSUME IInv, [Next]_vars
             PROVE  IInv'
  OBVIOUS
<1>1. CASE UNCHANGED vars
  BY <1>1 DEF vars, IInv, KindInv, RootInv, SaveInv, Match
<1>2. CASE EditDocument \/ Display
  <2>1. root \in Documents
    BY <1>2, EditMakesDocument
  <2>2. PICK d \in Documents : Edit(d)
    BY <1>2, EditMakesDocument
  <2> QED BY <2>1, <2>2, EditKeeps, Zenon
<1>3. CASE EditNothing
  BY <1>3, EditKeeps DEF EditNothing
<1> QED
  BY <1>1, <1>2, <1>3, StartKeeps, ExitKeeps, SaveOpensKeeps, SaveEndsKeeps, CrashKeeps
  DEF Next

(* The inductive invariant holds in every behaviour.                        *)
THEOREM StoreInvariant == Spec => []IInv
BY InitIInv, NextIInv, PTL DEF Spec

(* The programs keep documents whose items have keys that were typed, and   *)
(* only json_generic works on when its file does not parse.                 *)
THEOREM TypeCorrect == Spec => []TypeOK
<1>1. ASSUME NEW o \in Documents
      PROVE  /\ KeysOf(o) \subseteq Keys
             /\ \A v \in Values(o) : v.kind = "object" => KeysOf(v.child) \subseteq Names
  <2>1. ASSUME NEW i \in DOMAIN o
        PROVE  /\ o[i].key \in Keys
               /\ o[i].val.kind = "object" => KeysOf(o[i].val.child) \subseteq Names
    <3>1. o[i] \in Items(Keys, Vals(Inner))
      BY Levels
    <3>2. o[i].val \in Vals(Inner) /\ o[i].key \in Keys
      BY <3>1 DEF Items
    <3>3. ASSUME o[i].val.kind = "object"
          PROVE  o[i].val.child \in Seq(Items(Names, Inner))
      BY <3>2, <3>3, ChildrenKind DEF Lists, Items, Names
    <3>4. ASSUME NEW c \in Seq(Items(Names, Inner))
          PROVE  KeysOf(c) \subseteq Names
      <4>1. \A j \in DOMAIN c : c[j] \in Items(Names, Inner)
        OBVIOUS
      <4> QED BY <4>1 DEF KeysOf, Items
    <3> QED BY <3>2, <3>3, <3>4
  <2> QED BY <2>1 DEF KeysOf, Values
<1>2. ASSUME NEW o \in Stored
      PROVE  \A v \in Values(o) : v.kind = "object" =>
               KeysOf(v.child) \subseteq Keys \cup {EmptyKey}
  <2>1. o \in Documents /\ Printed(o) = o
    BY DEF Stored
  <2>2. ASSUME NEW i \in DOMAIN o, o[i].val.kind = "object"
        PROVE  KeysOf(o[i].val.child) \subseteq Keys \cup {EmptyKey}
    BY <2>1, <2>2, PrintedKeys DEF KeysOf
  <2> QED BY <2>2 DEF Values
<1>3. IInv => TypeOK
  <2> SUFFICES ASSUME IInv
               PROVE  TypeOK
    OBVIOUS
  <2>1. ASSUME NEW o \in {file, root, saved} \ {Missing, Torn, NullText, NULL, NoRoot}
        PROVE  /\ KeysOf(o) \subseteq Keys
               /\ \A v \in Values(o) : v.kind = "object" =>
                    KeysOf(v.child)
                      \subseteq Keys \cup {EmptyKey} \cup (IF o = root THEN {NoKey} ELSE {})
    <3>1. o \in Stored \/ (o = root /\ o \in Documents)
      <4>1. CASE o = file
        BY <4>1 DEF IInv, KindInv
      <4>2. CASE o = root
        BY <4>2 DEF IInv, KindInv
      <4>3. CASE o = saved
        BY <4>3 DEF IInv, KindInv
      <4> QED BY <4>1, <4>2, <4>3
    <3>2. CASE o \in Stored
      <4>1. o \in Documents
        BY <3>2 DEF Stored
      <4>2. \A v \in Values(o) : v.kind = "object" =>
               KeysOf(v.child) \subseteq Keys \cup {EmptyKey}
        BY <1>2, <3>2
      <4> QED BY <1>1, <4>1, <4>2
    <3>3. CASE o = root /\ o \in Documents
      BY <1>1, <3>3 DEF Names
    <3> QED BY <3>1, <3>2, <3>3
  <2>2. /\ program \in Programs /\ pc \in {"off", "menu", "save", "write"}
        /\ leaving \in BOOLEAN /\ missed \in BOOLEAN
        /\ root = NoRoot <=> pc = "off"
        /\ root = NULL => program = "json_generic" /\ (missed \/ file \in Unreadable)
    BY DEF IInv, KindInv, RootInv
  <2> QED BY <2>1, <2>2, Zenon DEF TypeOK
<1> QED BY <1>3, StoreInvariant, PTL

(* Whoever sees the menu of a program that saves each change has a file     *)
(* that holds what the menu works on, unless the session's latest load or   *)
(* save failed, for every sequence of edits, failures, kills and restarts.  *)
THEOREM FilesUpToDate == Spec => []FileUpToDate
<1>1. IInv => FileUpToDate
  <2> SUFFICES ASSUME IInv, pc = "menu", program # "sample_2", ~missed
               PROVE  CASE file = Missing -> root = <<>>
                        [] file \in Unreadable -> root = NULL
                        [] OTHER -> root # NULL /\ file = Printed(root)
    BY Zenon DEF FileUpToDate
  <2>1. Match
    BY DEF IInv
  <2>2. CASE file = Missing /\ root = <<>>
    <3>1. file \notin Unreadable
      BY <2>2, MarkAssumption
    <3> QED BY <2>2, <3>1
  <2>3. CASE file \in Unreadable /\ root = NULL
    <3>1. file # Missing
      BY <2>3, MarkAssumption
    <3> QED BY <2>3, <3>1, Zenon
  <2>4. CASE root \in Documents /\ file = Printed(root)
    <3>1. file # Missing /\ file \notin Unreadable /\ root # NULL
      BY <2>4, Marks DEF Stored, Unreadable
    <3> QED BY <2>4, <3>1, Zenon
  <2> QED BY <2>1, <2>2, <2>3, <2>4 DEF Match
<1> QED BY <1>1, StoreInvariant, PTL

-----------------------------------------------------------------------------
(* Where no document is on its way to the file, a step of a program is one  *)
(* of the abstract store, or none.                                          *)

(* What counts as the file's document, and as the session's.                *)
Views ==
  /\ pc = "write" => Durable = saved
  /\ pc # "write" => Durable = Contents
  /\ root \notin Documents => Session = root
  /\ root \in Documents => Session = Printed(root) /\ Session \in Stored

(* The invariant leaves one view of each kind of file and session.          *)
LEMMA ViewsHold == IInv => Views
<1> SUFFICES ASSUME IInv
             PROVE  Views
  OBVIOUS
<1>1. root \in Documents <=> ~(pc = "off" \/ root = NULL)
  BY Marks DEF IInv, KindInv, RootInv
<1>2. /\ root \notin Documents => Session = root
      /\ root \in Documents => Session = Printed(root) /\ Session \in Stored
  BY <1>1, Marks DEF Session
<1>3. /\ pc = "write" => Durable = saved
      /\ pc # "write" => Durable = Contents
  BY DEF Durable
<1> QED BY <1>2, <1>3 DEF Views

(* It does so after the step as well.                                       *)
LEMMA ViewsNext == IInv' => Views'
BY ViewsHold, PTL

(* Where the file and the place of the program stay, so does the document.  *)
LEMMA SameDurable ==
  ASSUME file' = file, IInv, IInv', pc # "write", pc' # "write"
  PROVE  Durable' = Durable
<1>1. Contents' = Contents
  BY DEF Contents
<1> QED BY <1>1, ViewsHold, ViewsNext DEF Views

(* A file that is still torn when its save is over holds no document.       *)
LEMMA TornIsLost ==
  ASSUME IInv, IInv', pc = "write", file' = file, pc' # "write"
  PROVE  Durable' = NullText
<1>1. file = Torn
  BY DEF IInv, SaveInv
<1>2. Contents' = NullText
  BY <1>1, MarkAssumption DEF Contents, Unreadable
<1> QED BY <1>2, ViewsNext DEF Views

(* A step that changes nothing changes nothing of the store.                *)
LEMMA StutterRefines ==
  ASSUME pc' = pc, root' = root, program' = program, file' = file, saved' = saved,
         missed' = missed
  PROVE  UNCHANGED Store!svars
<1>1. Durable' = Durable
  BY DEF Durable, Contents
<1>2. Session' = Session
  BY DEF Session
<1>3. (pc' = "write") = (pc = "write") /\ (program' = "sample_2") = (program = "sample_2")
  OBVIOUS
<1> QED BY <1>1, <1>2, <1>3, Zenon DEF Store!svars

(* The store starts empty, without a session.                               *)
LEMMA InitRefines == Init => Store!SInit
<1> SUFFICES ASSUME Init
             PROVE  Store!SInit
  OBVIOUS
<1>1. file = Missing /\ pc = "off" /\ root = NoRoot /\ missed = FALSE
  BY DEF Init
<1>2. Contents = <<>> /\ pc # "write" /\ root \notin Documents
  BY <1>1, Marks, MarkAssumption DEF Contents, Unreadable
<1>3. Durable = <<>> /\ Session = NoRoot
  BY <1>1, <1>2, InitIInv, ViewsHold DEF Views
<1>4. (pc = "write") = FALSE /\ (program = "sample_2") \in BOOLEAN
  BY <1>2
<1> QED BY <1>1, <1>3, <1>4, Zenon DEF Store!SInit

(* The program starts to work on document d.                                *)
LEMMA BeginsRefines ==
  ASSUME IInv, IInv', NEW d \in {NULL} \cup Stored, NEW f \in BOOLEAN, Begins(d, f),
         \/ ~f /\ d = (IF Contents = NullText THEN NULL ELSE Contents)
         \/ f /\ d \in {<<>>, NULL}
  PROVE  [Store!SNext]_Store!svars
<1>1. pc = "off" /\ root = NoRoot /\ program' = program /\ file' = file
  BY DEF Begins, IInv, RootInv
<1>2. root \notin Documents /\ Session = NoRoot
  BY <1>1, ViewsHold, Marks DEF Views
<1>3. CASE d = NULL /\ program # "json_generic"
  <2>1. root' = root /\ pc' = pc /\ missed' = missed /\ saved' = saved
    BY <1>3 DEF Begins
  <2> QED BY <1>1, <2>1, StutterRefines
<1>4. CASE ~(d = NULL /\ program # "json_generic")
  <2>1. root' = d /\ pc' = "menu" /\ missed' = f
    BY <1>4 DEF Begins
  <2>2. Durable = Contents /\ Durable' = Durable
    BY <1>1, <2>1, SameDurable, ViewsHold DEF Views
  <2>3. Session' = d
    <3>1. CASE d = NULL
      BY <2>1, <3>1, Marks, ViewsNext DEF Views
    <3>2. CASE d \in Stored
      BY <2>1, <3>2, ViewsNext DEF Views, Stored
    <3> QED BY <3>1, <3>2
  <2>4. (pc' = "write") = (pc = "write") /\ (program' = "sample_2") = (program = "sample_2")
    BY <1>1, <2>1
  <2>5. CASE ~f
    <3>1. missed' = FALSE
      BY <2>1, <2>5
    <3>2. Session' = IF Durable = NullText THEN NULL ELSE Durable
      BY <2>2, <2>3, <2>5
    <3>3. Store!SBegin
      BY <1>2, <2>2, <2>4, <3>1, <3>2, Zenon DEF Store!SBegin
    <3> QED BY <3>3 DEF Store!SNext
  <2>6. CASE f
    <3>1. missed' = TRUE /\ Session' \in {<<>>, NULL}
      BY <2>1, <2>3, <2>6
    <3>2. Store!SBeginBlind
      BY <1>2, <2>2, <2>4, <3>1, Zenon DEF Store!SBeginBlind
    <3> QED BY <3>2 DEF Store!SNext
  <2> QED BY <2>5, <2>6
<1> QED BY <1>3, <1>4

(* A session that starts has the store's document, or has not looked.       *)
LEMMA StartRefines ==
  ASSUME IInv, IInv', Start \/ LoadOpenFails \/ LoadReadFails
  PROVE  [Store!SNext]_Store!svars
<1>1. <<>> \in Stored /\ NullText \notin Stored /\ <<>> # NullText
  BY Marks DEF Stored
<1>2. KindInv
  BY DEF IInv
<1>3. CASE Start
  <2>1. /\ Parsed \in {NULL} \cup Stored
        /\ Parsed = (IF Contents = NullText THEN NULL ELSE Contents)
    <3>1. CASE file = Missing
      <4>1. Parsed = <<>> /\ Contents = <<>>
        BY <3>1, MarkAssumption DEF Parsed, Contents, Unreadable
      <4> QED BY <1>1, <4>1
    <3>2. CASE file \in Unreadable
      <4>1. Parsed = NULL /\ Contents = NullText
        BY <3>2, MarkAssumption DEF Parsed, Contents, Unreadable
      <4> QED BY <4>1
    <3>3. CASE file \in Stored
      <4>1. Parsed = file /\ Contents = file
        BY <3>3, Marks DEF Parsed, Contents, Unreadable, Stored
      <4> QED BY <1>1, <3>3, <4>1
    <3> QED BY <1>2, <3>1, <3>2, <3>3 DEF KindInv, Unreadable
  <2>2. Begins(Parsed, FALSE)
    BY <1>3 DEF Start
  <2> QED BY <2>1, <2>2, BeginsRefines
<1>4. CASE LoadOpenFails \/ LoadReadFails
  <2>1. Begins(<<>>, TRUE) \/ Begins(NULL, TRUE)
    BY <1>4 DEF LoadOpenFails, LoadReadFails
  <2> QED BY <1>1, <2>1, BeginsRefines
<1> QED BY <1>3, <1>4

(* An edit changes the session's copy only.                                 *)
LEMMA EditRefines ==
  ASSUME IInv, IInv', EditDocument \/ Display
  PROVE  [Store!SNext]_Store!svars
<1>1. PICK d \in Documents : Edit(d) /\ root \in Documents
  BY EditMakesDocument
<1>2. /\ root' \in Documents /\ program' = program /\ file' = file /\ missed' = missed
      /\ pc = "menu" /\ pc' \in {"save", "menu"}
  BY <1>1 DEF Edit
<1>3. Session \in Documents /\ Session' \in Documents
  BY <1>1, <1>2, ViewsHold, ViewsNext DEF Views, Stored
<1>4. Session \notin {NoRoot, NULL} /\ Session' \notin {NoRoot, NULL}
  BY <1>3, Marks
<1>5. Durable' = Durable
  BY <1>2, SameDurable
<1>6. /\ pc # "write" /\ (pc' = "write") = (pc = "write")
      /\ (program' = "sample_2") = (program = "sample_2")
  BY <1>2
<1>7. Store!SEdit
  BY <1>2, <1>4, <1>5, <1>6, Zenon DEF Store!SEdit, Store!Working
<1> QED BY <1>7 DEF Store!SNext

(* Until a save begins, the store stands still.                             *)
LEMMA WaitRefines ==
  ASSUME IInv, IInv', EditNothing \/ Exit
  PROVE  UNCHANGED Store!svars
<1>1. /\ root' = root /\ program' = program /\ file' = file /\ missed' = missed
      /\ pc = "menu" /\ pc' \in {"save", "menu"}
  BY DEF EditNothing, Edit, Exit
<1>2. Session' = Session
  BY <1>1, ViewsHold, ViewsNext DEF Views
<1>3. Durable' = Durable
  BY <1>1, SameDurable
<1>4. (pc' = "write") = (pc = "write") /\ (program' = "sample_2") = (program = "sample_2")
  BY <1>1
<1> QED BY <1>1, <1>2, <1>3, <1>4, Zenon DEF Store!svars

(* A session is a document, or that of a program that works on without one. *)
LEMMA SessionRuns ==
  ASSUME IInv, pc # "off"
  PROVE  /\ Session # NoRoot /\ (Session = NULL <=> root = NULL)
         /\ root # NULL => Session = Printed(root)
<1>1. root = NULL \/ root \in Documents
  BY DEF IInv, KindInv, RootInv
<1>2. CASE root = NULL
  BY <1>2, ViewsHold, Marks, MarkAssumption DEF Views
<1>3. CASE root \in Documents
  BY <1>3, ViewsHold, Marks DEF Views, Stored
<1> QED BY <1>1, <1>2, <1>3

(* A save begins as fopen truncates the file.                               *)
LEMMA SaveRefines == ASSUME IInv, IInv', SaveOpens
                     PROVE  Store!SNext
<1>1. /\ root' = root /\ program' = program /\ missed' = missed /\ saved' = Contents
      /\ pc = "save" /\ pc' = "write"
  BY DEF SaveOpens
<1>2. Session' = Session /\ Session # NoRoot
  BY <1>1, SessionRuns, ViewsHold, ViewsNext DEF Views
<1>3. Durable' = Durable
  BY <1>1, ViewsHold, ViewsNext DEF Views
<1>4. pc # "write" /\ (pc' = "write") = TRUE /\ (program' = "sample_2") = (program = "sample_2")
  BY <1>1
<1>5. Store!SSave
  BY <1>1, <1>2, <1>3, <1>4, Zenon DEF Store!SSave
<1> QED BY <1>5 DEF Store!SNext

(* A save that is over leaves the session as it was, but of a program that  *)
(* saves at its exit nothing is left.                                       *)
LEMMA ReturnRefines ==
  ASSUME IInv, IInv', SaveReturns, pc \in {"save", "write"}, program' = program,
         NEW f \in BOOLEAN, missed' = (f /\ ~leaving)
  PROVE  /\ (pc' = "write") = FALSE /\ pc' # "write"
         /\ (program' = "sample_2") = (program = "sample_2")
         /\ Store!GoesOn(f) \/ Store!Ends
<1>1. leaving \in BOOLEAN
  BY DEF IInv, KindInv
<1>2. pc' # "write" /\ (program' = "sample_2") = (program = "sample_2")
  BY DEF SaveReturns
<1>3. CASE leaving
  <2>1. root' = NoRoot /\ root' \notin Documents /\ missed' = FALSE
    BY <1>3, Marks DEF SaveReturns
  <2>2. Session' = NoRoot
    BY <2>1, ViewsNext DEF Views
  <2>3. Store!Ends
    BY <2>1, <2>2, Zenon DEF Store!Ends
  <2> QED BY <1>2, <2>3
<1>4. CASE ~leaving
  <2>1. root' = root /\ missed' = f /\ program # "sample_2"
    BY <1>1, <1>4 DEF SaveReturns, IInv, SaveInv
  <2>2. Session' = Session
    BY <2>1, ViewsHold, ViewsNext DEF Views
  <2>3. Store!GoesOn(f)
    BY <2>1, <2>2, Zenon DEF Store!GoesOn
  <2> QED BY <1>2, <2>3
<1> QED BY <1>1, <1>3, <1>4

(* A save that does not begin changes nothing; one that does not finish     *)
(* loses the document.                                                      *)
LEMMA FailureRefines ==
  ASSUME IInv, IInv', SaveOpenFails \/ SaveWriteFails
  PROVE  Store!SNext
<1>1. SaveReturns /\ program' = program /\ file' = file /\ missed' = (TRUE /\ ~leaving)
  BY DEF SaveOpenFails, SaveWriteFails
<1>2. pc \in {"save", "write"}
  BY DEF SaveOpenFails, SaveWriteFails
<1>3. /\ (pc' = "write") = FALSE /\ pc' # "write"
      /\ (program' = "sample_2") = (program = "sample_2")
      /\ Store!GoesOn(TRUE) \/ Store!Ends
  BY <1>1, <1>2, ReturnRefines
<1>4. Session # NoRoot
  BY <1>2, SessionRuns
<1>5. CASE SaveOpenFails
  <2>1. pc # "write" /\ (pc' = "write") = (pc = "write")
    BY <1>3, <1>5 DEF SaveOpenFails
  <2>2. Durable' = Durable
    BY <1>1, <1>3, <2>1, SameDurable
  <2>3. Store!SFail \/ Store!SEnd
    BY <1>3, <1>4, <2>1, <2>2, Zenon DEF Store!SFail, Store!SEnd
  <2> QED BY <2>3 DEF Store!SNext
<1>6. CASE SaveWriteFails
  <2>1. pc = "write"
    BY <1>6 DEF SaveWriteFails
  <2>2. Durable' = NullText
    BY <1>1, <1>3, <2>1, TornIsLost
  <2>3. Store!SLose
    BY <1>3, <2>1, <2>2, Zenon DEF Store!SLose
  <2> QED BY <2>3 DEF Store!SNext
<1> QED BY <1>5, <1>6

(* A save that is written commits the session's document whole.             *)
LEMMA CommitRefines ==
  ASSUME IInv, IInv', SaveWrites
  PROVE  Store!SNext
<1>1. /\ pc = "write" /\ program' = program /\ SaveReturns /\ missed' = FALSE
      /\ file' = IF root = NULL THEN NullText ELSE Printed(root)
  BY DEF SaveWrites
<1>2. /\ (pc' = "write") = FALSE /\ pc' # "write"
      /\ (program' = "sample_2") = (program = "sample_2")
      /\ Store!GoesOn(FALSE) \/ Store!Ends
  <2>1. missed' = (FALSE /\ ~leaving) /\ pc \in {"save", "write"}
    BY <1>1
  <2> QED BY <1>1, <2>1, ReturnRefines
<1>3. (Session = NULL <=> root = NULL) /\ (root # NULL => Session = Printed(root))
  BY <1>1, SessionRuns
<1>4. Durable' = IF Session = NULL THEN NullText ELSE Session
  <2>1. Durable' = Contents'
    BY <1>2, ViewsNext DEF Views
  <2>2. CASE root = NULL
    <3>1. file' = NullText /\ NullText # Missing
      BY <1>1, <2>2, MarkAssumption DEF Unreadable
    <3>2. Contents' = NullText
      BY <3>1 DEF Contents, Unreadable
    <3> QED BY <1>3, <2>1, <2>2, <3>2
  <2>3. CASE root # NULL
    <3>1. root \in Documents /\ file' = Printed(root)
      BY <1>1, <2>3 DEF IInv, KindInv, RootInv
    <3>2. file' # Missing /\ file' \notin Unreadable
      BY <3>1, Marks DEF Stored, Unreadable
    <3>3. Contents' = file'
      BY <3>2 DEF Contents
    <3> QED BY <1>3, <2>1, <2>3, <3>1, <3>3
  <2> QED BY <2>2, <2>3
<1>5. Store!SCommit
  BY <1>1, <1>2, <1>4, Zenon DEF Store!SCommit
<1> QED BY <1>5 DEF Store!SNext

(* A kill ends the session, and loses the document in the middle of a save. *)
LEMMA CrashRefines ==
  ASSUME IInv, IInv', Crash
  PROVE  Store!SNext
<1>1. /\ pc # "off" /\ pc' = "off" /\ root' = NoRoot /\ missed' = FALSE
      /\ program' = program /\ file' = file
  BY DEF Crash
<1>2. Session # NoRoot /\ Session' = NoRoot
  BY <1>1, SessionRuns, Marks, ViewsNext DEF Views
<1>3. /\ (pc' = "write") = FALSE /\ pc' # "write"
      /\ (program' = "sample_2") = (program = "sample_2")
  BY <1>1
<1>4. Store!Ends
  BY <1>1, <1>2, Zenon DEF Store!Ends
<1>5. CASE pc = "write"
  <2>1. Durable' = NullText
    BY <1>1, <1>3, <1>5, TornIsLost
  <2>2. Store!SLose
    BY <1>3, <1>4, <1>5, <2>1, Zenon DEF Store!SLose
  <2> QED BY <2>2 DEF Store!SNext
<1>6. CASE pc # "write"
  <2>1. Durable' = Durable /\ (pc' = "write") = (pc = "write")
    BY <1>1, <1>3, <1>6, SameDurable
  <2>2. Store!SEnd
    BY <1>2, <1>3, <1>4, <1>6, <2>1, Zenon DEF Store!SEnd
  <2> QED BY <2>2 DEF Store!SNext
<1> QED BY <1>5, <1>6

(* The programs, killed at any step and with loads and saves that fail at   *)
(* any step, keep their documents as the atomic store does.                 *)
THEOREM KeepsSessions == Spec => ImplementsSessions
<1>1. IInv /\ IInv' /\ [Next]_vars => [Store!SNext]_Store!svars
  <2> SUFFICES ASSUME IInv, IInv', [Next]_vars
               PROVE  [Store!SNext]_Store!svars
    OBVIOUS
  <2>1. CASE UNCHANGED vars
    BY <2>1, StutterRefines DEF vars
  <2> QED
    BY <2>1, StartRefines, EditRefines, WaitRefines, SaveRefines, FailureRefines,
       CommitRefines, CrashRefines
    DEF Next
<1> QED BY <1>1, InitRefines, StoreInvariant, PTL DEF Spec, ImplementsSessions, Store!SSpec

-----------------------------------------------------------------------------
(* What the choices that name a key change.                                 *)

(* Lists o and d differ at place i at most. *)
DifferAt(o, d, i) == DOMAIN d = DOMAIN o /\ \A j \in DOMAIN o \ {i} : d[j] = o[j]

(* A list in which one item was put in another's place differs there.       *)
LEMMA PutDiffers ==
  ASSUME NEW S, NEW o \in Seq(S), NEW i \in 1 .. Len(o), NEW m
  PROVE  LET d == [o EXCEPT ![i] = m] IN DifferAt(o, d, i) /\ d[i] = m
BY DEF DifferAt

(* Giving an item other children changes nothing else of the list.          *)
LEMMA WithChildrenDiffers ==
  ASSUME NEW K, NEW V, NEW o \in Seq(Items(K, Vals(V))), NEW i \in 1 .. Len(o), NEW c
  PROVE  LET d == WithChildren(o, i, c)
         IN /\ DifferAt(o, d, i) /\ d[i].key = o[i].key /\ d[i].val.kind = o[i].val.kind
            /\ o[i].val.kind = "object" => Nested(d[i].val) = c
<1>1. o[i] \in Items(K, Vals(V))
  OBVIOUS
<1>0. o[i].val \in Vals(V)
  BY <1>1 DEF Items
<1>2. CASE o[i].val.kind \in {"array", "object"}
  <2> DEFINE v == [o[i].val EXCEPT !.child = c]
             m == [o[i] EXCEPT !.val = v]
  <2>1. o[i].val \in Lists(V)
    BY <1>0, <1>2, ChildrenKind
  <2>2. v.kind = o[i].val.kind /\ v.child = c
    BY <2>1 DEF Lists
  <2>3. WithChildren(o, i, c) = [o EXCEPT ![i] = m]
    BY <1>2, Zenon DEF WithChildren
  <2> HIDE DEF v
  <2>4. m.key = o[i].key /\ m.val = v
    BY <1>1 DEF Items
  <2> HIDE DEF m
  <2>5. DifferAt(o, WithChildren(o, i, c), i) /\ WithChildren(o, i, c)[i] = m
    <3>1. DifferAt(o, [o EXCEPT ![i] = m], i) /\ [o EXCEPT ![i] = m][i] = m
      BY PutDiffers
    <3> QED BY <2>3, <3>1, Zenon
  <2> QED BY <2>2, <2>4, <2>5 DEF Nested
<1>3. CASE o[i].val.kind \notin {"array", "object"}
  BY <1>3 DEF WithChildren, DifferAt
<1> QED BY <1>2, <1>3

(* Keys that are the same as a third, up to case, are the same.             *)
LEMMA SameKeys ==
  ASSUME NEW a, NEW b, NEW k
  PROVE  /\ SameKey(a, k) /\ SameKey(b, k) => SameKey(a, b)
         /\ k \in Keys => SameKey(k, k)
BY KeyAssumption DEF SameKey

(* In a list without twins both searches find the same item.                *)
LEMMA SearchesAgree ==
  ASSUME NEW S, NEW o \in Seq(S), NEW k \in Keys, Distinct(o),
         GetObjectItemCaseSensitive(o, k) # 0
  PROVE  GetObjectItem(o, k) = GetObjectItemCaseSensitive(o, k)
<1> DEFINE i == GetObjectItemCaseSensitive(o, k)
           j == GetObjectItem(o, k)
<1>1. i \in DOMAIN o /\ o[i].key = k
  BY ExactSearch
<1>2. j \in DOMAIN o
  BY LaxFindsExact
<1>3. j # 0 => SameKey(o[j].key, k)
  BY LaxSearch
<1>4. SameKey(o[i].key, k)
  BY <1>1, SameKeys
<1> HIDE DEF i, j
<1>5. j # 0
  BY <1>2
<1>6. SameKey(o[j].key, o[i].key)
  BY <1>3, <1>4, <1>5, SameKeys
<1>7. j = i
  BY <1>1, <1>2, <1>6, Zenon DEF Distinct
<1> QED BY <1>7 DEF i, j

-----------------------------------------------------------------------------
(* Scalars hold no named items.                                             *)
LEMMA ScalarsHoldNothing ==
  ASSUME NEW V, NEW v \in Vals(V)
  PROVE  /\ \A w \in NewValues(v) : Nested(v) = <<>> /\ Nested(w) = <<>>
         /\ v.kind = "array" => Nested(v) = <<>>
<1>1. ASSUME NEW w \in Scalars
      PROVE  Nested(w) = <<>>
  BY DEF Scalars, Nested
<1>2. v.kind = "object" => NewValues(v) = {}
  BY DEF NewValues
<1>3. NewValues(v) \subseteq Scalars
  BY NewScalars
<1> HIDE DEF Scalars
<1> QED BY <1>1, <1>2, <1>3 DEF Nested

(* update_item one level deep changes an item of the typed name, up to      *)
(* case; without twins it keeps that item's key and what it holds by name.  *)
LEMMA UpdateFlatDiffers ==
  ASSUME NEW K, NEW V, NEW o \in Seq(Items(K, Vals(V))), NEW k \in Keys,
         NEW d \in UpdateFlat(o, k), d # o
  PROVE  LET i == GetObjectItem(o, k)
         IN /\ i \in DOMAIN o /\ SameKey(o[i].key, k)
            /\ DifferAt(o, d, i) /\ SameKey(d[i].key, k)
            /\ Distinct(o) => d[i].key = o[i].key /\ Nested(d[i].val) = Nested(o[i].val)
<1> DEFINE exact == GetObjectItemCaseSensitive(o, k)
           i == GetObjectItem(o, k)
           v == o[exact].val
           Goal == /\ DifferAt(o, d, i) /\ SameKey(d[i].key, k)
                   /\ Distinct(o) => d[i].key = o[i].key /\ Nested(d[i].val) = Nested(o[i].val)
<1>1. /\ exact # 0
      /\ \/ \E w \in NewValues(v) : d = ReplaceItemInObject(o, k, w)
         \/ \E index \in Indices, w \in Strs :
              v.kind = "array" /\ d = UpdateElement(o, i, index, w)
  <2> DEFINE Replaced == {ReplaceItemInObject(o, k, w) : w \in NewValues(v)}
             Same == {o : w \in {v} \cap {True, False}}
             Arrayed == {UpdateElement(o, i, index, w) :
                           index \in {n \in Indices : v.kind = "array"}, w \in Strs}
  <2>1. UpdateFlat(o, k) = IF exact = 0 THEN {o} ELSE Replaced \cup Same \cup Arrayed
    BY DEF UpdateFlat
  <2>2. d \in Replaced => \E w \in NewValues(v) : d = ReplaceItemInObject(o, k, w)
    OBVIOUS
  <2>3. d \notin Same
    OBVIOUS
  <2>4. d \in Arrayed => \E index \in Indices, w \in Strs :
                           v.kind = "array" /\ d = UpdateElement(o, i, index, w)
    OBVIOUS
  <2> HIDE DEF exact, i, v, Replaced, Same, Arrayed
  <2> QED BY <2>1, <2>2, <2>3, <2>4
<1>2. i \in 1 .. Len(o) /\ i # 0
  BY <1>1, LaxFindsExact
<1>3. SameKey(o[i].key, k)
  BY <1>2, LaxSearch
<1>4. exact \in 1 .. Len(o) /\ o[exact].key = k
  BY <1>1, ExactSearch
<1>5. Distinct(o) => i = exact
  BY <1>1, SearchesAgree
<1>6. v \in Vals(V)
  <2> HIDE DEF exact
  <2>1. o[exact] \in Items(K, Vals(V))
    BY <1>4
  <2> QED BY <2>1 DEF Items
<1>7. ASSUME NEW w \in NewValues(v), d = ReplaceItemInObject(o, k, w)
      PROVE  Goal
  <2>1. d = [o EXCEPT ![i] = Member(k, w)]
    BY <1>2, <1>7, Zenon DEF ReplaceItemInObject
  <2>2. DifferAt(o, d, i) /\ d[i] = Member(k, w)
    <3> HIDE DEF i
    <3> QED BY <1>2, <2>1, PutDiffers
  <2>3. d[i].key = k /\ d[i].val = w
    BY <2>2 DEF Member
  <2>4. Nested(v) = <<>> /\ Nested(w) = <<>>
    BY <1>6, ScalarsHoldNothing
  <2> HIDE DEF i, exact
  <2>5. Distinct(o) => o[i].key = k /\ Nested(o[i].val) = <<>>
    BY <1>4, <1>5, <2>4
  <2>6. SameKey(k, k)
    BY SameKeys
  <2> QED BY <2>2, <2>3, <2>4, <2>5, <2>6
<1>8. ASSUME NEW index \in Indices, NEW w \in Strs, v.kind = "array",
             d = UpdateElement(o, i, index, w)
      PROVE  Goal
  <2>1. PICK c : d = WithChildren(o, i, c)
    BY <1>8, Zenon DEF UpdateElement
  <2> HIDE DEF i, exact
  <2>2. DifferAt(o, d, i) /\ d[i].key = o[i].key /\ d[i].val.kind = o[i].val.kind
    BY <1>2, <2>1, WithChildrenDiffers
  <2>3. Distinct(o) => o[i].val.kind = "array"
    BY <1>5, <1>8
  <2>4. Distinct(o) => Nested(d[i].val) = Nested(o[i].val)
    BY <2>2, <2>3 DEF Nested
  <2> QED BY <1>3, <2>2, <2>4
<1>9. Goal
  BY <1>1, <1>7, <1>8
<1>10. i \in DOMAIN o
  BY <1>2
<1> HIDE DEF i
<1> QED BY <1>3, <1>9, <1>10 DEF i

-----------------------------------------------------------------------------
(* Documents of which each item keeps its key and the names it holds have   *)
(* the same paths.                                                          *)
LEMMA PathsSame ==
  ASSUME NEW S, NEW T, NEW o \in Seq(S), NEW d \in Seq(T), DOMAIN d = DOMAIN o,
         \A i \in DOMAIN o : /\ d[i].key = o[i].key
                             /\ KeysOf(Nested(d[i].val)) = KeysOf(Nested(o[i].val))
  PROVE  Paths(d) = Paths(o)
<1>1. KeysOf(d) = KeysOf(o)
  BY DEF KeysOf
<1>2. ToSet(o) = {o[i] : i \in DOMAIN o} /\ ToSet(d) = {d[i] : i \in DOMAIN o}
  BY DEF ToSet
<1> DEFINE Below(m) == {<<m.key, k>> : k \in KeysOf(Nested(m.val))}
<1>3. \A i \in DOMAIN o : Below(d[i]) = Below(o[i])
  BY Zenon
<1>4. /\ Paths(o) = {<<k>> : k \in KeysOf(o)} \cup UNION {Below(m) : m \in ToSet(o)}
      /\ Paths(d) = {<<k>> : k \in KeysOf(d)} \cup UNION {Below(m) : m \in ToSet(d)}
  BY DEF Paths
<1> HIDE DEF Below
<1>5. {Below(m) : m \in ToSet(d)} = {Below(m) : m \in ToSet(o)}
  BY <1>2, <1>3
<1> QED BY <1>1, <1>4, <1>5

(* What update_item changes of the root is an item of the name that was     *)
(* typed, and without twins no path.                                        *)
LEMMA UpdateItemDiffers ==
  ASSUME NEW o \in Documents, NEW k \in Keys, NEW d \in UpdateItem(o, k)
  PROVE  DifferInOne(o, d, k) /\ (TwinFree(o) => Paths(d) = Paths(o))
<1> SUFFICES ASSUME d # o
             PROVE  DifferInOne(o, d, k) /\ (TwinFree(o) => Paths(d) = Paths(o))
  BY DEF DifferInOne
<1> DEFINE exact == GetObjectItemCaseSensitive(o, k)
           i == GetObjectItem(o, k)
<1>1. o \in Seq(Items(Keys, Vals(Inner))) /\ d \in Seq(Items(Keys, Vals(Inner)))
  BY UpdateItemKeeps, Levels
<1>2. /\ i \in DOMAIN o /\ SameKey(o[i].key, k) /\ DifferAt(o, d, i) /\ SameKey(d[i].key, k)
      /\ TwinFree(o) => /\ d[i].key = o[i].key
                        /\ KeysOf(Nested(d[i].val)) = KeysOf(Nested(o[i].val))
  <2>1. CASE d \in UpdateFlat(o, k)
    <3> HIDE DEF i
    <3> QED BY <1>1, <2>1, UpdateFlatDiffers DEF TwinFree, i
  <2>2. CASE exact # 0 /\ o[exact].val.kind = "object"
             /\ \E l \in Keys : \E c \in UpdateFlat(Children(o[i].val), l) :
                  d = WithChildren(o, i, c)
    <3>1. PICK l \in Keys : \E c \in UpdateFlat(Children(o[i].val), l) : d = WithChildren(o, i, c)
      BY <2>2
    <3>2. PICK c \in UpdateFlat(Children(o[i].val), l) : d = WithChildren(o, i, c)
      BY <3>1
    <3>3. i \in 1 .. Len(o) /\ i # 0
      BY <1>1, <2>2, LaxFindsExact
    <3>4. SameKey(o[i].key, k)
      BY <1>1, <3>3, LaxSearch
    <3>5. Distinct(o) => i = exact
      BY <1>1, <2>2, SearchesAgree
    <3> HIDE DEF i, exact
    <3>6. /\ DifferAt(o, d, i) /\ d[i].key = o[i].key
          /\ o[i].val.kind = "object" => Nested(d[i].val) = c
      BY <1>1, <3>2, <3>3, WithChildrenDiffers
    <3>7. TwinFree(o) => KeysOf(Nested(d[i].val)) = KeysOf(Nested(o[i].val))
      <4> SUFFICES ASSUME TwinFree(o)
                   PROVE  KeysOf(c) = KeysOf(o[i].val.child)
        BY <2>2, <3>5, <3>6 DEF TwinFree, Nested
      <4> DEFINE children == o[i].val.child
      <4>1. o[i].val.kind = "object"
        BY <2>2, <3>5 DEF TwinFree
      <4>2. o[i] \in Items(Keys, Vals(Inner))
        BY <1>1, <3>3
      <4>3. o[i].val \in Vals(Inner)
        BY <4>2 DEF Items
      <4>4. Children(o[i].val) = children /\ children \in Seq(Items(Names, Vals(Scalars)))
        BY <4>1, <4>3, ChildrenKind DEF Children, Inner
      <4>5. Distinct(children)
        <5>1. o[i].val \in Values(o)
          BY <3>3 DEF Values
        <5> QED BY <4>1, <5>1 DEF TwinFree, Nested
      <4> HIDE DEF children
      <4> DEFINE j == GetObjectItem(children, l)
      <4>6. CASE c = children
        BY <4>6 DEF children
      <4>7. CASE c # children
        <5>1. DifferAt(children, c, j) /\ j \in DOMAIN children /\ c[j].key = children[j].key
          BY <3>2, <4>4, <4>5, <4>7, UpdateFlatDiffers
        <5> HIDE DEF j
        <5>2. \A n \in DOMAIN children : c[n].key = children[n].key
          BY <5>1 DEF DifferAt
        <5>3. DOMAIN c = DOMAIN children
          BY <5>1 DEF DifferAt
        <5> QED BY <5>2, <5>3 DEF KeysOf, children
      <4> QED BY <4>6, <4>7
    <3>8. i \in DOMAIN o
      BY <3>3
    <3> QED BY <3>4, <3>6, <3>7, <3>8
  <2> QED BY <2>1, <2>2, Zenon DEF UpdateItem
<1> HIDE DEF i
<1>3. DifferInOne(o, d, k)
  BY <1>2 DEF DifferInOne, DifferAt
<1>4. ASSUME TwinFree(o)
      PROVE  Paths(d) = Paths(o)
  <2>1. \A n \in DOMAIN o : /\ d[n].key = o[n].key
                            /\ KeysOf(Nested(d[n].val)) = KeysOf(Nested(o[n].val))
    BY <1>2, <1>4 DEF DifferAt
  <2>2. DOMAIN d = DOMAIN o
    BY <1>2 DEF DifferAt
  <2> QED BY <1>1, <2>1, <2>2, PathsSame
<1> QED BY <1>3, <1>4

-----------------------------------------------------------------------------
(* A list from which an item was removed has the other items.               *)
LEMMA RemoveAtItems ==
  ASSUME NEW S, NEW o \in Seq(S), NEW i \in 1 .. Len(o)
  PROVE  LET d == RemoveAt(o, i)
         IN /\ \A j \in DOMAIN d : \E n \in DOMAIN o \ {i} : d[j] = o[n]
            /\ \A n \in DOMAIN o \ {i} : \E j \in DOMAIN d : d[j] = o[n]
<1> DEFINE d == RemoveAt(o, i)
           a == SubSeq(o, 1, i - 1)
           b == SubSeq(o, i + 1, Len(o))
<1>1. /\ a \in Seq(S) /\ Len(a) = i - 1 /\ \A j \in 1 .. i - 1 : a[j] = o[j]
      /\ b \in Seq(S) /\ Len(b) = Len(o) - i /\ \A j \in 1 .. Len(o) - i : b[j] = o[i + j]
  OBVIOUS
<1>2. d = a \o b
  BY DEF RemoveAt
<1> HIDE DEF a, b, d
<1>3. /\ d \in Seq(S) /\ Len(d) = Len(o) - 1
      /\ \A j \in 1 .. i - 1 : d[j] = o[j]
      /\ \A j \in i .. Len(o) - 1 : d[j] = o[j + 1]
  <2>1. d \in Seq(S) /\ Len(d) = Len(o) - 1
    BY <1>1, <1>2
  <2>2. ASSUME NEW j \in 1 .. i - 1
        PROVE  d[j] = o[j]
    BY <1>1, <1>2
  <2>3. ASSUME NEW j \in i .. Len(o) - 1
        PROVE  d[j] = o[j + 1]
    <3>1. d[j] = b[j - (i - 1)]
      BY <1>1, <1>2
    <3>2. j - (i - 1) \in 1 .. Len(o) - i /\ i + (j - (i - 1)) = j + 1
      OBVIOUS
    <3> QED BY <1>1, <3>1, <3>2
  <2> QED BY <2>1, <2>2, <2>3
<1>4. ASSUME NEW j \in DOMAIN d
      PROVE  \E n \in DOMAIN o \ {i} : d[j] = o[n]
  <2>1. j \in 1 .. Len(o) - 1
    BY <1>3
  <2>2. CASE j < i
    <3>1. j \in DOMAIN o \ {i} /\ d[j] = o[j]
      BY <1>3, <2>1, <2>2
    <3> QED BY <3>1
  <2>3. CASE ~(j < i)
    <3>1. j + 1 \in DOMAIN o \ {i} /\ d[j] = o[j + 1]
      BY <1>3, <2>1, <2>3
    <3> QED BY <3>1
  <2> QED BY <2>2, <2>3
<1>5. ASSUME NEW n \in DOMAIN o \ {i}
      PROVE  \E j \in DOMAIN d : d[j] = o[n]
  <2>1. CASE n < i
    <3>1. n \in DOMAIN d /\ d[n] = o[n]
      BY <1>3, <2>1
    <3> QED BY <3>1
  <2>2. CASE ~(n < i)
    <3>1. n - 1 \in DOMAIN d /\ n - 1 \in i .. Len(o) - 1 /\ (n - 1) + 1 = n
      BY <1>3, <2>2
    <3> QED BY <1>3, <3>1
  <2> QED BY <2>1, <2>2
<1> QED BY <1>4, <1>5 DEF d

(* remove_from_object one level deep removes nothing or one item of the     *)
(* typed name, up to case; without twins the one that has it exactly.       *)
LEMMA RemoveFlatRemoves ==
  ASSUME NEW S, NEW o \in Seq(S), NEW k \in Keys, RemoveFlat(o, k) # o
  PROVE  LET i == GetObjectItem(o, k)
         IN /\ i \in 1 .. Len(o) /\ RemoveFlat(o, k) = RemoveAt(o, i)
            /\ SameKey(o[i].key, k)
            /\ Distinct(o) => i = GetObjectItemCaseSensitive(o, k) /\ o[i].key = k
<1> DEFINE i == GetObjectItem(o, k)
           exact == GetObjectItemCaseSensitive(o, k)
<1>1. exact # 0 /\ RemoveFlat(o, k) = DeleteItemFromObject(o, k)
  BY DEF RemoveFlat
<1>2. i \in 1 .. Len(o) /\ i # 0
  BY <1>1, LaxFindsExact
<1>3. SameKey(o[i].key, k)
  BY <1>2, LaxSearch
<1>4. DeleteItemFromObject(o, k) = RemoveAt(o, i)
  BY <1>2, Zenon DEF DeleteItemFromObject
<1>5. o[exact].key = k
  BY <1>1, ExactSearch
<1>6. Distinct(o) => i = exact
  BY <1>1, SearchesAgree
<1> HIDE DEF i, exact
<1> QED BY <1>1, <1>2, <1>3, <1>4, <1>5, <1>6 DEF i, exact

(* Removing from the children of an item takes away the name at most.       *)
LEMMA RemoveFlatNames ==
  ASSUME NEW S, NEW o \in Seq(S), NEW k \in Keys
  PROVE  /\ KeysOf(RemoveFlat(o, k)) \subseteq KeysOf(o)
         /\ Distinct(o) => KeysOf(o) \ KeysOf(RemoveFlat(o, k)) \subseteq {k}
<1>1. CASE RemoveFlat(o, k) = o
  BY <1>1
<1>2. CASE RemoveFlat(o, k) # o
  <2> DEFINE i == GetObjectItem(o, k)
             d == RemoveFlat(o, k)
  <2>1. i \in 1 .. Len(o) /\ d = RemoveAt(o, i) /\ (Distinct(o) => o[i].key = k)
    BY <1>2, RemoveFlatRemoves
  <2> HIDE DEF i, d
  <2>2. /\ \A j \in DOMAIN d : \E n \in DOMAIN o \ {i} : d[j] = o[n]
        /\ \A n \in DOMAIN o \ {i} : \E j \in DOMAIN d : d[j] = o[n]
    BY <2>1, RemoveAtItems
  <2>3. KeysOf(d) \subseteq KeysOf(o)
    BY <2>2 DEF KeysOf
  <2>4. ASSUME Distinct(o), NEW x \in KeysOf(o) \ KeysOf(d)
        PROVE  x = k
    <3>1. PICK n \in DOMAIN o : x = o[n].key
      BY DEF KeysOf
    <3>2. n = i
      BY <2>2, <3>1 DEF KeysOf
    <3> QED BY <2>1, <2>4, <3>1, <3>2
  <2> QED BY <2>3, <2>4 DEF d
<1> QED BY <1>1, <1>2

-----------------------------------------------------------------------------
(* A path is the name of an item or leads to one through another.           *)
LEMMA PathIs ==
  ASSUME NEW S, NEW o \in Seq(S), NEW p
  PROVE  p \in Paths(o) <=>
           \/ \E n \in DOMAIN o : p = <<o[n].key>>
           \/ \E n \in DOMAIN o : \E k \in KeysOf(Nested(o[n].val)) : p = <<o[n].key, k>>
<1> DEFINE Below(m) == {<<m.key, k>> : k \in KeysOf(Nested(m.val))}
<1>1. Paths(o) = {<<k>> : k \in KeysOf(o)} \cup UNION {Below(m) : m \in ToSet(o)}
  BY DEF Paths
<1>2. ToSet(o) = {o[i] : i \in DOMAIN o}
  BY DEF ToSet
<1>3. p \in {<<k>> : k \in KeysOf(o)} <=> \E n \in DOMAIN o : p = <<o[n].key>>
  BY DEF KeysOf
<1>4. \A m : p \in Below(m) <=> \E k \in KeysOf(Nested(m.val)) : p = <<m.key, k>>
  OBVIOUS
<1> HIDE DEF Below
<1>5. p \in UNION {Below(m) : m \in ToSet(o)} <=> \E n \in DOMAIN o : p \in Below(o[n])
  BY <1>2
<1> QED BY <1>1, <1>3, <1>4, <1>5

(* What remove_from_object changes of the root is an item of the name that  *)
(* was typed, and without twins one path to it or through it.               *)
LEMMA RemoveFromDiffers ==
  ASSUME NEW o \in Documents, NEW k \in Keys, NEW d \in RemoveFrom(o, k)
  PROVE  /\ DifferInOne(o, d, k)
         /\ TwinFree(o) => /\ Paths(d) \subseteq Paths(o)
                           /\ \E p : p[1] = k /\ Paths(o) \ Paths(d) \subseteq {p}
<1> DEFINE exact == GetObjectItemCaseSensitive(o, k)
           i == GetObjectItem(o, k)
           deep == /\ exact # 0 /\ Children(o[exact].val) # <<>>
                   /\ o[exact].val.kind = "object"
<1>0. \E p : p[1] = k
  <2>1. <<k>>[1] = k
    OBVIOUS
  <2> QED BY <2>1
<1>1. CASE d = o
  <2>1. Paths(d) \subseteq Paths(o) /\ Paths(o) \ Paths(d) = {}
    BY <1>1
  <2> QED BY <1>0, <1>1, <2>1 DEF DifferInOne
<1>2. o \in Seq(Items(Keys, Vals(Inner))) /\ d \in Seq(Items(Keys, Vals(Inner)))
  BY RemoveFromKeeps, Levels
<1>3. CASE ~deep /\ d = RemoveFlat(o, k) /\ d # o
  <2>1. /\ i \in 1 .. Len(o) /\ d = RemoveAt(o, i) /\ SameKey(o[i].key, k)
        /\ Distinct(o) => i = exact /\ o[i].key = k
    BY <1>2, <1>3, RemoveFlatRemoves
  <2>2. DifferInOne(o, d, k)
    <3> HIDE DEF i
    <3>1. i \in DOMAIN o
      BY <2>1
    <3> QED BY <2>1, <3>1 DEF DifferInOne
  <2>3. ASSUME TwinFree(o)
        PROVE  Paths(d) \subseteq Paths(o) /\ Paths(o) \ Paths(d) \subseteq {<<k>>}
    <3>1. i = exact /\ o[i].key = k /\ i # 0
      BY <2>1, <2>3 DEF TwinFree
    <3>2. KeysOf(Nested(o[i].val)) = {}
      <4> HIDE DEF i, exact
      <4>1. o[i].val.kind = "object" => o[i].val.child = <<>>
        BY <1>3, <3>1 DEF Children
      <4> QED BY <4>1 DEF Nested, KeysOf
    <3> HIDE DEF i, exact, deep
    <3>3. /\ \A j \in DOMAIN d : \E n \in DOMAIN o \ {i} : d[j] = o[n]
          /\ \A n \in DOMAIN o \ {i} : \E j \in DOMAIN d : d[j] = o[n]
      BY <1>2, <2>1, RemoveAtItems
    <3>4. ASSUME NEW p \in Paths(d)
          PROVE  p \in Paths(o)
      <4>1. \/ \E j \in DOMAIN d : p = <<d[j].key>>
            \/ \E j \in DOMAIN d : \E l \in KeysOf(Nested(d[j].val)) : p = <<d[j].key, l>>
        BY <1>2, PathIs
      <4>2. \/ \E n \in DOMAIN o : p = <<o[n].key>>
            \/ \E n \in DOMAIN o : \E l \in KeysOf(Nested(o[n].val)) : p = <<o[n].key, l>>
        BY <3>3, <4>1
      <4> QED BY <1>2, <4>2, PathIs
    <3>5. ASSUME NEW p \in Paths(o), p \notin Paths(d)
          PROVE  p = <<k>>
      <4>1. CASE \E n \in DOMAIN o : p = <<o[n].key>>
        <5>1. PICK n \in DOMAIN o : p = <<o[n].key>>
          BY <4>1
        <5>2. n = i
          BY <1>2, <3>3, <3>5, <5>1, PathIs
        <5> QED BY <3>1, <5>1, <5>2
      <4>2. CASE \E n \in DOMAIN o : \E l \in KeysOf(Nested(o[n].val)) : p = <<o[n].key, l>>
        <5>1. PICK n \in DOMAIN o : \E l \in KeysOf(Nested(o[n].val)) : p = <<o[n].key, l>>
          BY <4>2
        <5>2. n # i
          BY <3>2, <5>1
        <5>3. PICK j \in DOMAIN d : d[j] = o[n]
          BY <3>3, <5>2
        <5>4. p \in Paths(d)
          BY <1>2, <5>1, <5>3, PathIs
        <5> QED BY <3>5, <5>4
      <4> QED BY <1>2, <3>5, <4>1, <4>2, PathIs
    <3> QED BY <3>4, <3>5
  <2>4. <<k>>[1] = k
    OBVIOUS
  <2> QED BY <2>2, <2>3, <2>4
<1>4. ASSUME deep, NEW l \in Keys,
             d = WithChildren(o, exact, RemoveFlat(Children(o[exact].val), l))
      PROVE  /\ DifferInOne(o, d, k)
             /\ TwinFree(o) => /\ Paths(d) \subseteq Paths(o)
                               /\ \E p : p[1] = k /\ Paths(o) \ Paths(d) \subseteq {p}
  <2>1. exact \in 1 .. Len(o) /\ o[exact].key = k /\ o[exact].val.kind = "object"
    BY <1>2, <1>4, ExactSearch
  <2> HIDE DEF exact
  <2> DEFINE children == Children(o[exact].val)
             less == RemoveFlat(children, l)
  <2>2. children = Nested(o[exact].val) /\ children \in Seq(Items(Names, Inner))
    <3>1. o[exact] \in Items(Keys, Vals(Inner))
      BY <1>2, <2>1
    <3>2. o[exact].val \in Vals(Inner)
      BY <3>1 DEF Items
    <3> QED BY <2>1, <3>2, ChildrenKind DEF Children, Nested
  <2>3. DifferAt(o, d, exact) /\ d[exact].key = k /\ Nested(d[exact].val) = less
    BY <1>2, <1>4, <2>1, WithChildrenDiffers
  <2>4. exact \in DOMAIN o /\ SameKey(k, k)
    BY <2>1, SameKeys
  <2> HIDE DEF children, less, deep
  <2>5. DifferInOne(o, d, k)
    BY <2>1, <2>3, <2>4 DEF DifferInOne, DifferAt
  <2>6. ASSUME TwinFree(o)
        PROVE  Paths(d) \subseteq Paths(o) /\ Paths(o) \ Paths(d) \subseteq {<<k, l>>}
    <3>1. Distinct(children)
      <4>1. o[exact].val \in Values(o)
        BY <2>4 DEF Values
      <4> QED BY <2>2, <2>6, <4>1 DEF TwinFree
    <3>2. KeysOf(less) \subseteq KeysOf(children) /\ KeysOf(children) \ KeysOf(less) \subseteq {l}
      BY <2>2, <3>1, RemoveFlatNames DEF less
    <3>3. DOMAIN d = DOMAIN o /\ \A n \in DOMAIN o \ {exact} : d[n] = o[n]
      BY <2>3 DEF DifferAt
    <3>4. \A n \in DOMAIN o : /\ d[n].key = o[n].key
                              /\ KeysOf(Nested(d[n].val)) \subseteq KeysOf(Nested(o[n].val))
      BY <2>1, <2>2, <2>3, <3>2, <3>3
    <3>5. ASSUME NEW p \in Paths(d)
          PROVE  p \in Paths(o)
      <4>1. \/ \E n \in DOMAIN d : p = <<d[n].key>>
            \/ \E n \in DOMAIN d : \E m \in KeysOf(Nested(d[n].val)) : p = <<d[n].key, m>>
        BY <1>2, PathIs
      <4>2. \/ \E n \in DOMAIN o : p = <<o[n].key>>
            \/ \E n \in DOMAIN o : \E m \in KeysOf(Nested(o[n].val)) : p = <<o[n].key, m>>
        BY <3>3, <3>4, <4>1
      <4> QED BY <1>2, <4>2, PathIs
    <3>6. ASSUME NEW p \in Paths(o), p \notin Paths(d)
          PROVE  p = <<k, l>>
      <4>1. CASE \E n \in DOMAIN o : p = <<o[n].key>>
        <5>1. \E n \in DOMAIN d : p = <<d[n].key>>
          BY <3>3, <3>4, <4>1
        <5> QED BY <1>2, <3>6, <5>1, PathIs
      <4>2. ASSUME NEW n \in DOMAIN o, NEW m \in KeysOf(Nested(o[n].val)), p = <<o[n].key, m>>
            PROVE  p = <<k, l>>
        <5>1. m \notin KeysOf(Nested(d[n].val))
          BY <1>2, <3>3, <3>4, <3>6, <4>2, PathIs
        <5>2. n = exact
          BY <3>3, <5>1
        <5>3. m = l
          BY <2>2, <2>3, <3>2, <5>1, <5>2
        <5> QED BY <2>1, <4>2, <5>2, <5>3
      <4> QED BY <1>2, <3>6, <4>1, <4>2, PathIs
    <3> QED BY <3>5, <3>6
  <2>7. <<k, l>>[1] = k
    OBVIOUS
  <2> QED BY <2>5, <2>6, <2>7
<1>5. \/ deep /\ \E l \in Keys : d = WithChildren(o, exact, RemoveFlat(Children(o[exact].val), l))
      \/ ~deep /\ d = RemoveFlat(o, k)
  BY Zenon DEF RemoveFrom
<1> QED BY <1>1, <1>3, <1>4, <1>5

-----------------------------------------------------------------------------
(* Where there is a document to edit it is one of Documents. *)
LEMMA EditedDocument ==
  ASSUME IInv, pc = "menu", root # NULL
  PROVE  root \in Documents
BY DEF IInv, KindInv, RootInv

(* A choice that names a key touches one item of that name at most, and no  *)
(* other, though it looks items up in two ways that disagree.               *)
THEOREM OthersStay == Spec => OthersKept
<1>1. ASSUME IInv, NEW k \in Keys,
             update_item(k) \/ remove_from_object(k) \/ update_record(k) \/ remove_record(k)
      PROVE  DifferInOne(root, root', k)
  <2>0. root \in Documents
    BY <1>1, EditedDocument
    DEF update_item, remove_from_object, update_record, remove_record, EditingRecords, Editing
  <2>1. CASE update_item(k)
    BY <2>0, <2>1, UpdateItemDiffers DEF update_item, Edit
  <2>2. CASE remove_from_object(k)
    BY <2>0, <2>2, RemoveFromDiffers DEF remove_from_object, Edit
  <2> DEFINE i == RecordOf(root, k)
  <2>3. root \in Seq(Items(Keys, Vals(Inner)))
    BY <2>0, Levels
  <2>4. /\ i \in 0 .. Len(root) /\ Len(root) \in Nat
        /\ i # 0 => root[i].key = k
    BY <2>3, RecordSearch
  <2>5. SameKey(k, k)
    BY SameKeys
  <2>6. CASE update_record(k)
    <3>1. PICK v \in Info : root' = UpdateRecord(root, k, v)
      BY <2>6 DEF update_record, Edit
    <3>2. root' = root \/ (i # 0 /\ root' = [root EXCEPT ![i].val = v])
      BY <3>1, Zenon DEF UpdateRecord
    <3> DEFINE m == [root[i] EXCEPT !.val = v]
    <3>3. i # 0 => root[i] \in Items(Keys, Vals(Inner))
      <4> HIDE DEF i
      <4> QED BY <2>3, <2>4
    <3>4. i # 0 => m.key = k
      <4> HIDE DEF i
      <4> QED BY <2>4, <3>3 DEF Items
    <3>5. root' = root \/ (i # 0 /\ root' = [root EXCEPT ![i] = m])
      BY <3>2, Zenon
    <3> HIDE DEF i, m
    <3>6. i # 0 => i \in DOMAIN root
      BY <2>3, <2>4
    <3>7. root' # root => DOMAIN root' = DOMAIN root /\ root'[i] = m
                          /\ \A j \in DOMAIN root \ {i} : root'[j] = root[j]
      BY <2>3, <3>5, <3>6
    <3> QED BY <2>4, <2>5, <3>4, <3>5, <3>6, <3>7 DEF DifferInOne
  <2>7. CASE remove_record(k)
    <3>1. root' = root \/ (i # 0 /\ root' = RemoveAt(root, i))
      BY <2>7, Zenon DEF remove_record, Edit, RemoveRecord
    <3> HIDE DEF i
    <3>2. i # 0 => i \in DOMAIN root
      BY <2>3, <2>4
    <3> QED BY <2>4, <2>5, <3>1, <3>2 DEF DifferInOne
  <2> QED BY <1>1, <2>1, <2>2, <2>6, <2>7
<1>2. IInv => [\A k \in Keys :
                 update_item(k) \/ remove_from_object(k) \/ update_record(k) \/ remove_record(k)
                   => DifferInOne(root, root', k)]_vars
  BY <1>1
<1> QED BY <1>2, StoreInvariant, PTL DEF OthersKept

(* In a document without twins remove_from_object takes away one item at    *)
(* most, under the key that was typed first.                                *)
THEOREM OneLeafRemoved == Spec => RemovesOneLeaf
<1>1. ASSUME IInv, NEW k \in Keys, remove_from_object(k), TwinFree(root)
      PROVE  /\ Paths(root') \subseteq Paths(root)
             /\ Cardinality(Paths(root) \ Paths(root')) <= 1
             /\ \A p \in Paths(root) \ Paths(root') : p[1] = k
  <2>1. root \in Documents
    BY <1>1, EditedDocument DEF remove_from_object, Editing
  <2>2. root' \in RemoveFrom(root, k)
    BY <1>1 DEF remove_from_object, Edit
  <2>3. /\ Paths(root') \subseteq Paths(root)
        /\ \E p : p[1] = k /\ Paths(root) \ Paths(root') \subseteq {p}
    BY <1>1, <2>1, <2>2, RemoveFromDiffers
  <2>4. PICK p : p[1] = k /\ Paths(root) \ Paths(root') \subseteq {p}
    BY <2>3
  <2>5. IsFiniteSet({p}) /\ Cardinality({p}) = 1
    BY FS_Singleton
  <2>6. Cardinality(Paths(root) \ Paths(root')) <= Cardinality({p})
    BY <2>4, <2>5, FS_Subset
  <2> QED BY <2>3, <2>4, <2>5, <2>6
<1>2. IInv => [\A k \in Keys : remove_from_object(k) /\ TwinFree(root) =>
                 LET gone == Paths(root) \ Paths(root')
                 IN /\ Paths(root') \subseteq Paths(root)
                    /\ Cardinality(gone) <= 1
                    /\ \A p \in gone : p[1] = k]_vars
  BY <1>1
<1> QED BY <1>2, StoreInvariant, PTL DEF RemovesOneLeaf

(* In a document without twins update_item keeps every name and place.      *)
THEOREM NamesUpdated == Spec => UpdateKeepsNames
<1>1. ASSUME IInv, NEW k \in Keys, update_item(k), TwinFree(root)
      PROVE  Paths(root') = Paths(root)
  <2>1. root \in Documents
    BY <1>1, EditedDocument DEF update_item, Editing
  <2>2. root' \in UpdateItem(root, k)
    BY <1>1 DEF update_item, Edit
  <2> QED BY <1>1, <2>1, <2>2, UpdateItemDiffers
<1>2. IInv => [\A k \in Keys : update_item(k) /\ TwinFree(root)
                                 => Paths(root') = Paths(root)]_vars
  BY <1>1
<1> QED BY <1>2, StoreInvariant, PTL DEF UpdateKeepsNames
=============================================================================
