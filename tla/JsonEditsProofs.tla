-------------------------- MODULE JsonEditsProofs --------------------------
(***************************************************************************)
(* Every choice of the menus of the JSON programs makes a document of a    *)
(* document, and so does printing and parsing it, for all keys, strings    *)
(* and numbers.                                                            *)
(***************************************************************************)
EXTENDS JsonEdits, SequenceTheorems, WellFoundedInduction, TLAPS

Names == Keys \cup {NoKey, EmptyKey}
Items(K, V) == [key : K, val : V]
Vals(V) == Scalars \cup Lists(V)
Inner == Vals(Scalars)

(* Lists of fewer items are lists of more.                                  *)
LEMMA SeqGrows ==
  ASSUME NEW S, NEW T, S \subseteq T
  PROVE  Seq(S) \subseteq Seq(T)
OBVIOUS

(* The three levels of a document's values contain one another.             *)
LEMMA Levels ==
  /\ Documents = Seq(Items(Keys, Vals(Inner)))
  /\ Keys \subseteq Names
  /\ Scalars \subseteq Inner /\ Inner \subseteq Vals(Inner)
<1>1. Documents = Seq(Items(Keys, Vals(Inner)))
  BY DEF Documents, Items, Vals, Inner
<1>2. Scalars \subseteq Inner
  BY DEF Vals, Inner
<1>3. ASSUME NEW v \in Lists(Scalars)
      PROVE  v \in Lists(Inner)
  <2>1. [key : Names, val : Scalars] \subseteq [key : Names, val : Inner]
    BY <1>2
  <2>2. Seq([key : Names, val : Scalars]) \subseteq Seq([key : Names, val : Inner])
    BY <2>1, SeqGrows, Zenon
  <2> QED BY <2>2 DEF Lists, Names
<1> QED BY <1>1, <1>2, <1>3 DEF Names, Vals, Inner

-----------------------------------------------------------------------------
(* Searches.                                                                *)

(* A non-empty set of places has a first one: where no item was found, the  *)
(* place is 0, and else one of them.                                        *)
LEMMA FirstPlace ==
  ASSUME NEW n \in Nat, NEW I, I \subseteq 1 .. n, NEW first,
         first = IF I # {} THEN Min(I) ELSE 0
  PROVE  /\ first \in 0 .. n
         /\ I # {} => first \in I /\ first # 0
<1> DEFINE R == OpToRel(<, Nat)
<1>1. CASE I = {}
  <2>1. first = 0
    BY <1>1, Zenon
  <2> QED BY <1>1, <2>1
<1>2. CASE I # {}
  <2>1. \A a, b \in Nat : a < b => <<a, b>> \in R
    BY DEF OpToRel
  <2>2. IsWellFoundedOn(R, Nat)
    BY NatLessThanWellFounded
  <2> HIDE DEF R
  <2>3. I \subseteq Nat
    OBVIOUS
  <2>4. PICK x \in I : \A y \in I : <<y, x>> \notin R
    BY <1>2, <2>2, <2>3, WFMin
  <2>5. ASSUME NEW y \in I
        PROVE  x =< y
    <3>1. x \in Nat /\ y \in Nat
      BY <2>3, <2>4
    <3>2. ~(y < x)
      BY <2>1, <2>4, <3>1, Zenon
    <3> QED BY <3>1, <3>2
  <2>6. (CHOOSE z \in I : \A y \in I : z =< y) \in I
    BY <2>4, <2>5, Zenon
  <2>7. first \in I
    BY <1>2, <2>6, Zenon DEF Min
  <2> QED BY <2>7
<1> QED BY <1>1, <1>2

(* The lax search finds a member of the list with the same key up to case,  *)
(* and one if there is one.                                                 *)
LEMMA LaxSearch ==
  ASSUME NEW S, NEW o \in Seq(S), NEW k
  PROVE  /\ GetObjectItem(o, k) \in 0 .. Len(o)
         /\ GetObjectItem(o, k) # 0 => SameKey(o[GetObjectItem(o, k)].key, k)
         /\ (\E i \in 1 .. Len(o) : SameKey(o[i].key, k)) => GetObjectItem(o, k) # 0
<1> DEFINE I == {i \in 1 .. Len(o) : SameKey(o[i].key, k)}
<1>1. Len(o) \in Nat
  OBVIOUS
<1>2. GetObjectItem(o, k) = IF I # {} THEN Min(I) ELSE 0
  BY Zenon DEF GetObjectItem, SelectInSeq
<1>3. (\E i \in 1 .. Len(o) : SameKey(o[i].key, k)) => I # {}
  OBVIOUS
<1>4. I \subseteq 1 .. Len(o) /\ \A i \in I : SameKey(o[i].key, k)
  OBVIOUS
<1> HIDE DEF I
<1> QED BY <1>1, <1>2, <1>3, <1>4, FirstPlace

(* What the exact search finds has the key.                                 *)
LEMMA ExactSearch ==
  ASSUME NEW S, NEW o \in Seq(S), NEW k
  PROVE  /\ GetObjectItemCaseSensitive(o, k) \in 0 .. Len(o)
         /\ GetObjectItemCaseSensitive(o, k) # 0 => o[GetObjectItemCaseSensitive(o, k)].key = k
<1> DEFINE I == {i \in 1 .. Len(o) : o[i].key \in {k, NoKey}}
           first == IF I # {} THEN Min(I) ELSE 0
<1>1. Len(o) \in Nat
  OBVIOUS
<1>2. GetObjectItemCaseSensitive(o, k) = IF first # 0 /\ o[first].key = k THEN first ELSE 0
  BY Zenon DEF GetObjectItemCaseSensitive, SelectInSeq
<1>3. I \subseteq 1 .. Len(o)
  OBVIOUS
<1> HIDE DEF I
<1>4. first \in 0 .. Len(o)
  BY <1>1, <1>3, FirstPlace
<1> HIDE DEF first
<1> QED BY <1>1, <1>2, <1>4

(* What the exact search finds, the lax search finds or another before it.  *)
LEMMA LaxFindsExact ==
  ASSUME NEW S, NEW o \in Seq(S), NEW k \in Keys, GetObjectItemCaseSensitive(o, k) # 0
  PROVE  GetObjectItem(o, k) \in 1 .. Len(o)
<1> DEFINE i == GetObjectItemCaseSensitive(o, k)
<1>1. i \in 1 .. Len(o) /\ o[i].key = k
  BY ExactSearch
<1>2. SameKey(k, k)
  BY KeyAssumption DEF SameKey
<1> HIDE DEF i
<1>3. GetObjectItem(o, k) \in 0 .. Len(o) /\ GetObjectItem(o, k) # 0
  BY <1>1, <1>2, LaxSearch
<1> QED BY <1>3

(* A record is found in the list, under its key, or not at all.             *)
LEMMA RecordSearch ==
  ASSUME NEW S, NEW o \in Seq(S), NEW id
  PROVE  /\ RecordOf(o, id) \in 0 .. Len(o)
         /\ RecordOf(o, id) # 0 => o[RecordOf(o, id)].key = id
<1> DEFINE I == {i \in 1 .. Len(o) : o[i].key = id}
<1>1. Len(o) \in Nat
  OBVIOUS
<1>2. RecordOf(o, id) = IF I # {} THEN Min(I) ELSE 0
  BY Zenon DEF RecordOf, SelectInSeq
<1>3. I \subseteq 1 .. Len(o) /\ \A i \in I : o[i].key = id
  OBVIOUS
<1> HIDE DEF I
<1> QED BY <1>1, <1>2, <1>3, FirstPlace

-----------------------------------------------------------------------------
(* The operations on a list of items.                                       *)

(* Removing an item leaves a list of the same kind of items.                *)
LEMMA RemoveKeeps ==
  ASSUME NEW S, NEW o \in Seq(S), NEW i \in 1 .. Len(o)
  PROVE  RemoveAt(o, i) \in Seq(S)
<1>1. SubSeq(o, 1, i - 1) \in Seq(S)
  OBVIOUS
<1>2. SubSeq(o, i + 1, Len(o)) \in Seq(S)
  OBVIOUS
<1> QED BY <1>1, <1>2 DEF RemoveAt

(* So does putting one of these items in a place of the list.               *)
LEMMA PutKeeps ==
  ASSUME NEW S, NEW o \in Seq(S), NEW i \in 1 .. Len(o), NEW m \in S
  PROVE  [o EXCEPT ![i] = m] \in Seq(S)
OBVIOUS

(* An item with a key of K and a value of V is one of Items(K, V).          *)
LEMMA MemberItem ==
  ASSUME NEW K, NEW V, NEW k \in K, NEW v \in V
  PROVE  Member(k, v) \in Items(K, V)
BY DEF Member, Items

(* DeleteItemFromObject keeps the items' kind.                              *)
LEMMA DeleteKeeps ==
  ASSUME NEW S, NEW o \in Seq(S), NEW k
  PROVE  DeleteItemFromObject(o, k) \in Seq(S)
<1>1. GetObjectItem(o, k) \in 0 .. Len(o)
  BY LaxSearch
<1>2. ASSUME GetObjectItem(o, k) # 0
      PROVE  RemoveAt(o, GetObjectItem(o, k)) \in Seq(S)
  BY <1>1, <1>2, RemoveKeeps
<1> QED BY <1>2 DEF DeleteItemFromObject

(* ReplaceItemInObject keeps it for a key and a value of that kind.         *)
LEMMA ReplaceKeeps ==
  ASSUME NEW K, NEW V, NEW o \in Seq(Items(K, V)), NEW k \in K, NEW v \in V
  PROVE  ReplaceItemInObject(o, k, v) \in Seq(Items(K, V))
<1>1. GetObjectItem(o, k) \in 0 .. Len(o)
  BY LaxSearch
<1>2. ASSUME GetObjectItem(o, k) # 0
      PROVE  [o EXCEPT ![GetObjectItem(o, k)] = Member(k, v)] \in Seq(Items(K, V))
  BY <1>1, <1>2, MemberItem, PutKeeps
<1> QED BY <1>2 DEF ReplaceItemInObject

(* ReplaceItemInArray keeps it in a list of items that need no key.         *)
LEMMA ReplaceElementKeeps ==
  ASSUME NEW V, NEW c \in Seq(Items(Names, V)), NEW index \in Int, NEW v \in V
  PROVE  ReplaceItemInArray(c, index, v) \in Seq(Items(Names, V))
<1>1. Member(NoKey, v) \in Items(Names, V)
  BY MemberItem DEF Names
<1>2. ASSUME index \in 0 .. Len(c) - 1
      PROVE  [c EXCEPT ![index + 1] = Member(NoKey, v)] \in Seq(Items(Names, V))
  <2>1. index + 1 \in 1 .. Len(c)
    BY <1>2
  <2> QED BY <1>1, <2>1, PutKeeps
<1> QED BY <1>2 DEF ReplaceItemInArray

(* The children of an item are a list one level down.                       *)
LEMMA ChildrenKind ==
  ASSUME NEW V, NEW v \in Vals(V)
  PROVE  /\ Children(v) \in Seq(Items(Names, V))
         /\ v.kind \in {"array", "object"} => v \in Lists(V)
<1>1. CASE v \in Scalars
  <2>1. v.kind \notin {"array", "object"}
    BY <1>1 DEF Scalars
  <2> QED BY <2>1 DEF Children
<1>2. CASE v \in Lists(V)
  <2>1. v.kind \in {"array", "object"} /\ v.child \in Seq(Items(Names, V))
    BY <1>2 DEF Lists, Items, Names
  <2> QED BY <1>2, <2>1 DEF Children
<1> QED BY <1>1, <1>2 DEF Vals

(* Giving an item another list of children keeps the list of items.         *)
LEMMA WithChildrenKeeps ==
  ASSUME NEW K, NEW V, NEW o \in Seq(Items(K, Vals(V))), NEW i \in 1 .. Len(o), NEW c,
         o[i].val.kind \in {"array", "object"} => c \in Seq(Items(Names, V))
  PROVE  WithChildren(o, i, c) \in Seq(Items(K, Vals(V)))
<1>1. CASE o[i].val.kind \in {"array", "object"}
  <2> DEFINE v == [o[i].val EXCEPT !.child = c]
             m == [o[i] EXCEPT !.val = v]
  <2>1. o[i] \in Items(K, Vals(V)) /\ o[i].val \in Lists(V)
    <3>1. o[i] \in Items(K, Vals(V))
      OBVIOUS
    <3>2. o[i].val \in Vals(V)
      BY <3>1 DEF Items
    <3> QED BY <1>1, <3>1, <3>2, ChildrenKind
  <2>2. v \in Vals(V)
    BY <1>1, <2>1 DEF Lists, Vals, Items, Names
  <2> HIDE DEF v
  <2>3. m \in Items(K, Vals(V))
    BY <2>1, <2>2 DEF Items
  <2>4. WithChildren(o, i, c) = [o EXCEPT ![i] = m]
    BY <1>1, Zenon DEF WithChildren, v
  <2> HIDE DEF m
  <2> QED BY <2>3, <2>4, PutKeeps
<1>2. CASE ~(o[i].val.kind \in {"array", "object"})
  BY <1>2 DEF WithChildren
<1> QED BY <1>1, <1>2

-----------------------------------------------------------------------------
(* What update_item types are scalars.                                      *)
LEMMA NewScalars ==
  ASSUME NEW v
  PROVE  NewValues(v) \subseteq Scalars /\ Strs \subseteq Scalars /\ Nums \subseteq Scalars
<1>1. Strs \subseteq Scalars /\ Nums \subseteq Scalars
  BY DEF Strs, Nums, Scalars, String, Number
<1>2. {True, False, Null} \subseteq Scalars
  BY DEF Scalars, True, False, Null
<1> HIDE DEF Scalars
<1> QED BY <1>1, <1>2 DEF NewValues

(* update_item keeps a list of items one level deep, whether its items need *)
(* a key (K is Keys in the root) or not.                                    *)
LEMMA UpdateFlatKeeps ==
  ASSUME NEW K, Keys \subseteq K, NEW V, Scalars \subseteq V,
         NEW o \in Seq(Items(K, Vals(V))), NEW k \in Keys, NEW d \in UpdateFlat(o, k)
  PROVE  d \in Seq(Items(K, Vals(V)))
<1> DEFINE exact == GetObjectItemCaseSensitive(o, k)
           found == GetObjectItem(o, k)
           S == Seq(Items(K, Vals(V)))
<1>1. CASE d = o
  BY <1>1
<1>2. CASE \E w \in NewValues(o[exact].val) : d = ReplaceItemInObject(o, k, w)
  <2>1. PICK w \in NewValues(o[exact].val) : d = ReplaceItemInObject(o, k, w)
    BY <1>2
  <2>2. w \in Vals(V) /\ k \in K
    BY <2>1, NewScalars DEF Vals
  <2> QED BY <2>1, <2>2, ReplaceKeeps
<1>3. CASE exact # 0 /\ \E index \in Indices, w \in Strs : d = UpdateElement(o, found, index, w)
  <2>1. PICK index \in Indices, w \in Strs : d = UpdateElement(o, found, index, w)
    BY <1>3
  <2>2. found \in 1 .. Len(o)
    BY <1>3, LaxFindsExact
  <2> HIDE DEF found
  <2> DEFINE array == Children(o[found].val)
  <2>3. array \in Seq(Items(Names, V))
    <3>1. o[found] \in Items(K, Vals(V))
      BY <2>2
    <3>2. o[found].val \in Vals(V)
      BY <3>1 DEF Items
    <3> QED BY <3>2, ChildrenKind
  <2>4. ReplaceItemInArray(array, index, w) \in Seq(Items(Names, V))
    <3>1. w \in V /\ index \in Int
      BY NewScalars, EditsAssumption
    <3> QED BY <2>3, <3>1, ReplaceElementKeeps
  <2>5. WithChildren(o, found, ReplaceItemInArray(array, index, w)) \in S
    BY <2>2, <2>4, WithChildrenKeeps
  <2> QED BY <2>1, <2>5, Zenon DEF UpdateElement
<1> DEFINE Replaced == {ReplaceItemInObject(o, k, w) : w \in NewValues(o[exact].val)}
           Same == {o : w \in {o[exact].val} \cap {True, False}}
           Arrayed == {UpdateElement(o, found, index, w) :
                         index \in {n \in Indices : o[exact].val.kind = "array"}, w \in Strs}
<1>4. UpdateFlat(o, k) = IF exact = 0 THEN {o} ELSE Replaced \cup Same \cup Arrayed
  BY DEF UpdateFlat
<1>5. d \in Replaced => \E w \in NewValues(o[exact].val) : d = ReplaceItemInObject(o, k, w)
  OBVIOUS
<1>6. d \in Same => d = o
  OBVIOUS
<1>7. d \in Arrayed => \E index \in Indices, w \in Strs : d = UpdateElement(o, found, index, w)
  OBVIOUS
<1> HIDE DEF exact, found, Replaced, Same, Arrayed
<1> QED BY <1>1, <1>2, <1>3, <1>4, <1>5, <1>6, <1>7

(* update_item makes documents of a document.                               *)
LEMMA UpdateItemKeeps ==
  ASSUME NEW o \in Documents, NEW k \in Keys, NEW d \in UpdateItem(o, k)
  PROVE  d \in Documents
<1> DEFINE exact == GetObjectItemCaseSensitive(o, k)
           found == GetObjectItem(o, k)
<1>1. o \in Seq(Items(Keys, Vals(Inner)))
  BY Levels
<1>2. CASE d \in UpdateFlat(o, k)
  BY <1>1, <1>2, Levels, UpdateFlatKeeps
<1>3. CASE exact # 0 /\ \E l \in Keys : \E c \in UpdateFlat(Children(o[found].val), l) :
                          d = WithChildren(o, found, c)
  <2>1. PICK l \in Keys : \E c \in UpdateFlat(Children(o[found].val), l) :
                             d = WithChildren(o, found, c)
    BY <1>3
  <2>2. PICK c \in UpdateFlat(Children(o[found].val), l) : d = WithChildren(o, found, c)
    BY <2>1
  <2>3. found \in 1 .. Len(o)
    BY <1>1, <1>3, LaxFindsExact
  <2> HIDE DEF found
  <2>4. Children(o[found].val) \in Seq(Items(Names, Vals(Scalars)))
    <3>1. o[found] \in Items(Keys, Vals(Inner))
      BY <1>1, <2>3
    <3>2. o[found].val \in Vals(Inner)
      BY <3>1 DEF Items
    <3> QED BY <3>2, ChildrenKind DEF Inner
  <2>5. c \in Seq(Items(Names, Inner))
    BY <2>2, <2>4, Levels, UpdateFlatKeeps DEF Inner
  <2>6. d \in Seq(Items(Keys, Vals(Inner)))
    BY <1>1, <2>2, <2>3, <2>5, WithChildrenKeeps
  <2> QED BY <2>6, Levels
<1> QED BY <1>2, <1>3, Zenon DEF UpdateItem

(* So does remove_from_object,                                              *)
LEMMA RemoveFromKeeps ==
  ASSUME NEW o \in Documents, NEW k \in Keys, NEW d \in RemoveFrom(o, k)
  PROVE  d \in Documents
<1> DEFINE exact == GetObjectItemCaseSensitive(o, k)
<1>1. o \in Seq(Items(Keys, Vals(Inner)))
  BY Levels
<1>2. ASSUME NEW S, NEW c \in Seq(S), NEW l
      PROVE  RemoveFlat(c, l) \in Seq(S)
  BY DeleteKeeps DEF RemoveFlat
<1>3. CASE d = RemoveFlat(o, k)
  BY <1>1, <1>2, <1>3, Levels
<1>4. CASE exact # 0 /\ \E l \in Keys :
             d = WithChildren(o, exact, RemoveFlat(Children(o[exact].val), l))
  <2>1. PICK l \in Keys : d = WithChildren(o, exact, RemoveFlat(Children(o[exact].val), l))
    BY <1>4
  <2>2. exact \in 1 .. Len(o)
    BY <1>1, <1>4, ExactSearch
  <2> HIDE DEF exact
  <2>3. Children(o[exact].val) \in Seq(Items(Names, Inner))
    <3>1. o[exact] \in Items(Keys, Vals(Inner))
      BY <1>1, <2>2
    <3>2. o[exact].val \in Vals(Inner)
      BY <3>1 DEF Items
    <3> QED BY <3>2, ChildrenKind
  <2>4. d \in Seq(Items(Keys, Vals(Inner)))
    BY <1>1, <1>2, <2>1, <2>2, <2>3, WithChildrenKeeps
  <2> QED BY <2>4, Levels
<1> QED BY <1>3, <1>4, Zenon DEF RemoveFrom

(* the removal of a record                                                  *)
LEMMA RemoveRecordKeeps ==
  ASSUME NEW o \in Documents, NEW id
  PROVE  RemoveRecord(o, id) \in Documents
<1>1. o \in Seq(Items(Keys, Vals(Inner)))
  BY Levels
<1>2. RecordOf(o, id) \in 0 .. Len(o)
  BY <1>1, RecordSearch
<1>3. RecordOf(o, id) # 0 => RemoveAt(o, RecordOf(o, id)) \in Documents
  BY <1>1, <1>2, RemoveKeeps, Levels
<1> QED BY <1>3, Zenon DEF RemoveRecord

(* and the other choices of the programs that keep records.                 *)
LEMMA RecordsKeep ==
  ASSUME NEW o \in Documents, NEW id \in Keys, NEW v \in Info
  PROVE  /\ AddItemToObject(o, id, v) \in Documents
         /\ UpdateRecord(o, id, v) \in Documents
<1> DEFINE S == Items(Keys, Vals(Inner))
           i == RecordOf(o, id)
<1>1. o \in Seq(S) /\ Documents = Seq(S)
  BY Levels
<1>2. v \in Vals(Inner)
  BY NewScalars DEF Info, Vals
<1>3. Member(id, v) \in S
  BY <1>2, MemberItem
<1>4. i \in 0 .. Len(o)
  BY <1>1, RecordSearch
<1> HIDE DEF i
<1>5. i # 0 => [o EXCEPT ![i].val = v] \in Seq(S)
  <2> SUFFICES ASSUME i # 0
               PROVE  [o EXCEPT ![i].val = v] \in Seq(S)
    OBVIOUS
  <2> DEFINE m == [o[i] EXCEPT !.val = v]
  <2>1. i \in 1 .. Len(o)
    BY <1>4
  <2>2. o[i] \in S
    BY <1>1, <2>1
  <2>3. m \in S
    BY <1>2, <2>2 DEF Items
  <2>4. [o EXCEPT ![i].val = v] = [o EXCEPT ![i] = m]
    BY Zenon
  <2> HIDE DEF m
  <2> QED BY <1>1, <2>1, <2>3, <2>4, PutKeeps
<1>6. Append(o, Member(id, v)) \in Seq(S)
  BY <1>1, <1>3
<1> QED BY <1>1, <1>5, <1>6, Zenon DEF i, AddItemToObject, UpdateRecord

-----------------------------------------------------------------------------
(* What json_generic adds is a value of a document.                         *)
LEMMA AddedValues ==
  /\ Strs \subseteq Vals(Inner) /\ Nums \subseteq Vals(Inner) /\ Null \in Vals(Inner)
  /\ \A typed : Bool(typed) \in Vals(Inner)
  /\ Arrays \subseteq Vals(Inner) /\ Objects \subseteq Vals(Inner)
<1>1. /\ Strs \subseteq Scalars /\ Nums \subseteq Scalars /\ Null \in Scalars
      /\ \A typed : Bool(typed) \in Scalars
  <2>1. Strs \subseteq Scalars /\ Nums \subseteq Scalars
    BY NewScalars
  <2>2. {True, False, Null} \subseteq Scalars
    BY DEF Scalars, True, False, Null
  <2> HIDE DEF Scalars
  <2> QED BY <2>1, <2>2 DEF Bool, CreateBool
<1>2. ASSUME NEW S, NEW T, S \subseteq T, NEW n \in Nat, NEW c \in SeqOf(S, n)
      PROVE  c \in Seq(T)
  BY <1>2 DEF SeqOf
<1>3. Arrays \subseteq Inner
  <2> SUFFICES ASSUME NEW c \in SeqOf({Member(NoKey, v) : v \in Strs}, MaxElements)
               PROVE  Array(c) \in Lists(Scalars)
    BY DEF Arrays, Inner, Vals
  <2>1. {Member(NoKey, v) : v \in Strs} \subseteq Items(Names, Scalars)
    BY <1>1, MemberItem DEF Names
  <2>2. c \in Seq(Items(Names, Scalars))
    BY <1>2, <2>1, EditsAssumption
  <2> QED BY <2>2 DEF Array, Lists, Items, Names
<1>4. Flat \subseteq Inner
  BY <1>1, <1>3, Levels DEF Flat
<1>5. Objects \subseteq Vals(Inner)
  <2> SUFFICES ASSUME NEW c \in SeqOf([key : NestedKeys, val : Flat], MaxNested)
               PROVE  Object(c) \in Lists(Inner)
    BY DEF Objects, Vals
  <2>1. [key : NestedKeys, val : Flat] \subseteq Items(Names, Inner)
    BY <1>4, EditsAssumption DEF Items, Names
  <2>2. c \in Seq(Items(Names, Inner))
    BY <1>2, <2>1, EditsAssumption
  <2> QED BY <2>2 DEF Object, Lists, Items, Names
<1> QED BY <1>1, <1>3, <1>5, Levels

(* A value of a document is added to it.                                    *)
LEMMA AddKeeps ==
  ASSUME NEW o \in Documents, NEW k \in Keys, NEW v \in Vals(Inner)
  PROVE  AddItemToObject(o, k, v) \in Documents
<1>1. Member(k, v) \in Items(Keys, Vals(Inner))
  BY MemberItem
<1> QED BY <1>1, Levels DEF AddItemToObject

-----------------------------------------------------------------------------
(* Printing and parsing.                                                    *)

(* The items of an object get the key "" if they have none: what is read    *)
(* back is read back as it is.                                              *)
LEMMA RereadOnce ==
  ASSUME NEW V, NEW c \in Seq(Items(Names, V))
  PROVE  /\ Reread(c) \in Seq(Items(Names, V))
         /\ Reread(Reread(c)) = Reread(c)
         /\ \A i \in DOMAIN Reread(c) : Reread(c)[i].key # NoKey
<1> DEFINE item(i) == IF c[i].key = NoKey THEN [c[i] EXCEPT !.key = EmptyKey] ELSE c[i]
<1>1. ASSUME NEW i \in 1 .. Len(c)
      PROVE  item(i) \in Items(Names, V) /\ item(i).key # NoKey
  <2>1. c[i] \in Items(Names, V)
    OBVIOUS
  <2>2. EmptyKey # NoKey /\ EmptyKey \in Names
    BY KeyAssumption DEF Names
  <2> QED BY <2>1, <2>2 DEF Items
<1>2. Reread(c) = [i \in 1 .. Len(c) |-> item(i)]
  BY DEF Reread
<1> HIDE DEF item
<1>3. /\ Reread(c) \in Seq(Items(Names, V)) /\ DOMAIN Reread(c) = 1 .. Len(c)
      /\ \A i \in 1 .. Len(c) : Reread(c)[i] = item(i)
  BY <1>1, <1>2
<1>4. \A i \in DOMAIN Reread(c) : Reread(c)[i].key # NoKey
  BY <1>1, <1>3
<1>5. Reread(Reread(c)) = [i \in DOMAIN Reread(c) |-> Reread(c)[i]]
  BY <1>4, Zenon DEF Reread
<1>6. Reread(Reread(c)) = Reread(c)
  BY <1>3, <1>5
<1> QED BY <1>3, <1>4, <1>6

(* The text of a document is that of a document, and a file that was        *)
(* written from what was read does not change.                              *)
LEMMA PrintedOnce ==
  ASSUME NEW o \in Documents
  PROVE  /\ Printed(o) \in Documents
         /\ Printed(Printed(o)) = Printed(o)
<1> DEFINE S == Items(Keys, Vals(Inner))
           item(i) == IF o[i].val.kind = "object"
                      THEN [o[i] EXCEPT !.val.child = Reread(@)] ELSE o[i]
<1>1. o \in Seq(S) /\ Documents = Seq(S)
  BY Levels
<1>2. ASSUME NEW i \in 1 .. Len(o)
      PROVE  /\ item(i) \in S
             /\ item(i).val.kind = "object" => Reread(item(i).val.child) = item(i).val.child
             /\ item(i).val.kind = "object" =>
                  [item(i) EXCEPT !.val.child = Reread(@)] = item(i)
  <2>1. o[i] \in S
    BY <1>1
  <2>2. o[i].val \in Vals(Inner)
    BY <2>1 DEF Items
  <2>3. CASE o[i].val.kind = "object"
    <3> DEFINE c == Reread(o[i].val.child)
               v == [o[i].val EXCEPT !.child = c]
    <3>1. o[i].val \in Lists(Inner)
      BY <2>2, <2>3, ChildrenKind
    <3>2. o[i].val.child \in Seq(Items(Names, Inner))
      BY <3>1 DEF Lists, Items, Names
    <3>3. c \in Seq(Items(Names, Inner)) /\ Reread(c) = c
      BY <3>2, RereadOnce
    <3> HIDE DEF c
    <3>4. v \in Lists(Inner) /\ v.child = c /\ v.kind = "object" /\ [v EXCEPT !.child = c] = v
      BY <2>3, <3>1, <3>3 DEF Lists, Items, Names
    <3>5. item(i) = [o[i] EXCEPT !.val = v]
      BY <2>3, Zenon DEF c
    <3> HIDE DEF v, item
    <3>6. item(i) \in S /\ item(i).val = v
      BY <2>1, <3>4, <3>5 DEF Items, Vals
    <3>7. [item(i) EXCEPT !.val.child = Reread(@)] = [item(i) EXCEPT !.val = v]
      BY <3>3, <3>4, <3>6, Zenon
    <3>8. [item(i) EXCEPT !.val = v] = item(i)
      BY <3>6 DEF Items
    <3> QED BY <3>3, <3>4, <3>6, <3>7, <3>8
  <2>4. CASE o[i].val.kind # "object"
    BY <2>1, <2>4
  <2> QED BY <2>3, <2>4
<1>3. Printed(o) = [i \in 1 .. Len(o) |-> item(i)]
  BY <1>1 DEF Printed
<1> HIDE DEF item
<1>4. /\ Printed(o) \in Seq(S) /\ DOMAIN Printed(o) = 1 .. Len(o)
      /\ \A i \in 1 .. Len(o) : Printed(o)[i] = item(i)
  BY <1>1, <1>2, <1>3
<1>5. ASSUME NEW i \in DOMAIN Printed(o)
      PROVE  (IF Printed(o)[i].val.kind = "object"
              THEN [Printed(o)[i] EXCEPT !.val.child = Reread(@)] ELSE Printed(o)[i])
               = Printed(o)[i]
  BY <1>2, <1>4, Zenon
<1>6. Printed(Printed(o)) = [i \in DOMAIN Printed(o) |-> Printed(o)[i]]
  BY <1>5, Zenon DEF Printed
<1> QED BY <1>1, <1>4, <1>6

(* In a document that was printed no item of an object lacks a key.         *)
LEMMA PrintedKeys ==
  ASSUME NEW o \in Documents, Printed(o) = o, NEW i \in DOMAIN o, o[i].val.kind = "object",
         NEW j \in DOMAIN o[i].val.child
  PROVE  o[i].val.child[j].key \in Keys \cup {EmptyKey}
<1>1. o[i] \in Items(Keys, Vals(Inner))
  BY Levels
<1>2. o[i].val \in Lists(Inner)
  BY <1>1, ChildrenKind DEF Items
<1>3. o[i].val.child \in Seq(Items(Names, Inner))
  BY <1>2 DEF Lists, Items, Names
<1>4. o[i] = [o[i] EXCEPT !.val.child = Reread(@)]
  BY Zenon DEF Printed
<1>5. o[i].val.child = Reread(o[i].val.child)
  BY <1>1, <1>2, <1>4 DEF Items, Lists
<1>6. o[i].val.child[j].key # NoKey
  BY <1>3, <1>5, RereadOnce
<1>7. o[i].val.child[j] \in Items(Names, Inner)
  BY <1>3
<1> QED BY <1>6, <1>7 DEF Items, Names
=============================================================================
