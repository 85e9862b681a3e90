-------------------------- MODULE CharDriverProofs --------------------------
(***************************************************************************)
(* A discipline of a driver's tables that makes every load, failed load    *)
(* and unload safe, apart from what the error paths are known to do wrong, *)
(* and proofs that the drivers of the repository follow it, whichever step *)
(* of their loads fails.                                                   *)
(***************************************************************************)
EXTENDS CharDriver, DriverTables, SequenceTheorems, TLAPS

Before(d, i) == {d.acquire[j] : j \in 1 .. i - 1}
All(d) == Before(d, Len(d.acquire) + 1)
Returned(seq, i) == {seq[j] : j \in 1 .. i - 1}

(* seq gives back the set S but for what it keeps, each member once and     *)
(* none before what needs it, and some extra things that are not in S.      *)
Undoes(seq, S, kept, extra) ==
  /\ kept \subseteq S /\ extra \cap S = {}
  /\ Returned(seq, Len(seq) + 1) = (S \ kept) \cup extra
  /\ \A i, j \in 1 .. Len(seq) : i < j => seq[i] # seq[j]
  /\ \A i \in 1 .. Len(seq) : \A r \in S \ kept : seq[i] \in Needs(r) => r \in Returned(seq, i)

(* Everything is acquired after what it needs and given back as a whole, by *)
(* a failing load but for what it is known to forget; a node it has made by *)
(* then is forgotten together with its cdev.                                *)
Disciplined(d) ==
  /\ \A i \in Steps(d) : d.acquire[i] \in Resources /\ Needs(d.acquire[i]) \subseteq Before(d, i)
  /\ \A i \in Steps(d) : Undoes(d.unwind[i], Before(d, i), d.leaves[i], d.unmade[i])
  /\ Undoes(d.release, All(d), {}, {})
  /\ \A i \in Steps(d) : \A r \in Before(d, i) :
       r.kind = "node" => {r, Cdev(r.minor)} \subseteq d.leaves[i]

-----------------------------------------------------------------------------
(* The resources held are those acquired so far, or those not yet returned, *)
(* or those left behind.                                                    *)
HeldInv ==
  /\ phase = "absent" => failed \in {0} \cup Steps(driver) /\ held = Left
  /\ phase \in {"acquiring", "ready", "releasing"} => failed = 0
  /\ phase = "acquiring" => at \in 1 .. Len(driver.acquire) + 1 /\ held = Before(driver, at)
  /\ phase = "ready" => held = All(driver)
  /\ phase = "unwinding" =>
       /\ failed \in Steps(driver) /\ at \in 1 .. Len(driver.unwind[failed]) + 1
       /\ held = Before(driver, failed) \ Returned(driver.unwind[failed], at)
  /\ phase = "releasing" =>
       /\ at \in 1 .. Len(driver.release) + 1
       /\ held = All(driver) \ Returned(driver.release, at)

(* A file is open only while init runs or the driver is up, or its node is  *)
(* one that is left behind.                                                 *)
FileInv == \A f \in Files : files[f] # Closed =>
  /\ Node(files[f]) \in held /\ Cdev(files[f]) \in held
  /\ \/ phase \in {"acquiring", "ready"}
     \/ phase \in {"unwinding", "absent"} /\ {Node(files[f]), Cdev(files[f])} \subseteq Left

(* The part that does not depend on what programs do, and so not on whether *)
(* open files pin the driver.                                               *)
LifeInv == driver \in Drivers /\ phase \in Phases /\ HeldInv

Inv ==
  /\ LifeInv
  /\ files \in [Files -> Nat \cup {Closed}]
  /\ FileInv

AllDisciplined == \A d \in Drivers : Disciplined(d)

(* Lengths of the tables are numbers, and a step is not 0.                  *)
LEMMA TableFacts == \A d \in Drivers :
  /\ Len(d.acquire) \in Nat /\ Len(d.release) \in Nat
  /\ \A i \in Steps(d) : i # 0 /\ Len(d.unwind[i]) \in Nat
BY TableAssumption DEF Steps

(* What a step of init adds to the resources acquired before it.            *)
LEMMA BeforeNext ==
  ASSUME NEW d \in Drivers, NEW i \in Steps(d)
  PROVE  Before(d, i + 1) = Before(d, i) \cup {d.acquire[i]}
BY TableFacts DEF Before, Steps

(* What a step of a releasing sequence adds to those returned before it.    *)
LEMMA ReturnedNext ==
  ASSUME NEW seq, NEW i \in 1 .. Len(seq), Len(seq) \in Nat
  PROVE  Returned(seq, i + 1) = Returned(seq, i) \cup {seq[i]}
BY DEF Returned

(* Taking away one more is taking away a set with one more. *)
LEMMA LessOne ==
  ASSUME NEW S, NEW A, NEW B, NEW r, B = A \cup {r}
  PROVE  (S \ A) \ {r} = S \ B
OBVIOUS

(* Before the first step nothing is acquired and nothing returned.          *)
LEMMA NothingBefore == (\A d : Before(d, 1) = {}) /\ \A seq : Returned(seq, 1) = {}
BY DEF Before, Returned

(* The invariant holds before the first load.                               *)
LEMMA InvInit == Init => Inv
BY DEF Init, Inv, LifeInv, HeldInv, FileInv, Phases, Left

(* What is held is unaffected by what programs do.                          *)
LEMMA HeldInvKept ==
  ASSUME HeldInv, UNCHANGED <<driver, phase, at, failed, held>>
  PROVE  HeldInv'
<1>1. /\ Before(driver, at)' = Before(driver, at) /\ All(driver)' = All(driver)
      /\ Before(driver, failed)' = Before(driver, failed)
      /\ Left' = Left /\ Steps(driver)' = Steps(driver)
  BY DEF Before, All, Left, Steps
<1>2. /\ Returned(driver.unwind[failed], at)' = Returned(driver.unwind[failed], at)
      /\ Returned(driver.release, at)' = Returned(driver.release, at)
  BY DEF Returned
<1> QED BY <1>1, <1>2 DEF HeldInv

(* Every step of loading, unwinding and unloading keeps what is held in     *)
(* line with where the driver is, even when its users do not pin it.        *)
LEMMA LifeNext == AllDisciplined /\ LifeInv /\ [Next]_vars => LifeInv'
<1> SUFFICES ASSUME AllDisciplined, LifeInv, [Next]_vars PROVE LifeInv'
  OBVIOUS
<1>0. /\ driver \in Drivers /\ Disciplined(driver)
      /\ Len(driver.acquire) \in Nat /\ Len(driver.release) \in Nat
      /\ \A i \in Steps(driver) : i # 0 /\ Len(driver.unwind[i]) \in Nat
  BY TableFacts DEF LifeInv, AllDisciplined
<1> USE <1>0
<1>1. CASE Load
  <2>1. HeldInv'
    <3>1. /\ driver' \in Drivers /\ phase' = "acquiring" /\ at' = 1 /\ held' = {}
          /\ failed' = 0
      BY <1>1 DEF Load, LifeInv, HeldInv
    <3>2. Len(driver'.acquire) \in Nat
      BY <3>1, TableFacts
    <3>3. Before(driver', 1) = {}
      BY NothingBefore
    <3> QED BY <3>1, <3>2, <3>3 DEF HeldInv, Before, Returned, All
  <2> QED BY <1>1, <2>1 DEF Load, LifeInv, Phases
<1>2. CASE AcquireNext
  <2>1. Before(driver, at + 1) = Before(driver, at) \cup {driver.acquire[at]}
    BY <1>2, BeforeNext DEF AcquireNext
  <2>2. at + 1 \in 1 .. Len(driver.acquire) + 1
    BY <1>2 DEF AcquireNext, Steps
  <2>3. HeldInv'
    BY <1>2, <2>1, <2>2 DEF AcquireNext, LifeInv, HeldInv, Before, All, Returned
  <2> QED BY <1>2, <2>3 DEF AcquireNext, LifeInv
<1>3. CASE AcquireFails
  <2>1. held = Before(driver, at) /\ at \in Steps(driver)
    BY <1>3 DEF AcquireFails, LifeInv, HeldInv
  <2>2. HeldInv'
    BY <1>3, <2>1, NothingBefore DEF AcquireFails, HeldInv, Before, All, Returned, Steps
  <2> QED BY <1>3, <2>2 DEF AcquireFails, LifeInv, Phases
<1>4. CASE Loaded
  <2>1. at = Len(driver.acquire) + 1
    BY <1>4 DEF Loaded, LifeInv, HeldInv, Steps
  <2>2. HeldInv'
    BY <1>4, <2>1 DEF Loaded, LifeInv, HeldInv, All, Before, Returned
  <2> QED BY <1>4, <2>2 DEF Loaded, LifeInv, Phases
<1>5. CASE Unload
  <2>1. HeldInv'
    BY <1>5, NothingBefore DEF Unload, LifeInv, HeldInv, All, Before, Returned
  <2> QED BY <1>5, <2>1 DEF Unload, LifeInv, Phases
<1>6. CASE ReleaseNext
  <2>1. Returned(Returning, at + 1) = Returned(Returning, at) \cup {Returning[at]}
    BY <1>6, ReturnedNext DEF ReleaseNext, Returning, LifeInv, HeldInv
  <2>2. /\ at \in 1 .. Len(Returning) /\ at' = at + 1 /\ held' = held \ {Returning[at]}
        /\ driver' = driver /\ phase' = phase /\ failed' = failed
    BY <1>6 DEF ReleaseNext
  <2>3. ASSUME phase = "unwinding" PROVE HeldInv'
    <3>1. Returning = driver.unwind[failed] /\ failed \in Steps(driver)
          /\ held = Before(driver, failed) \ Returned(driver.unwind[failed], at)
      BY <2>3 DEF Returning, LifeInv, HeldInv
    <3>2. Returned(driver.unwind[failed], at + 1)
            = Returned(driver.unwind[failed], at) \cup {driver.unwind[failed][at]}
      BY <2>1, <3>1
    <3>3. held' = (Before(driver, failed) \ Returned(driver.unwind[failed], at))
                    \ {driver.unwind[failed][at]}
      BY <2>2, <3>1
    <3>4. held' = Before(driver, failed) \ Returned(driver.unwind[failed], at + 1)
      BY <3>2, <3>3, LessOne
    <3>5. /\ Before(driver, failed)' = Before(driver, failed)
          /\ Returned(driver.unwind[failed], at)' = Returned(driver.unwind[failed], at + 1)
      BY <2>2 DEF Before, Returned
    <3>6. failed' \in Steps(driver)' /\ at' \in 1 .. Len(driver.unwind[failed])' + 1
      <4>1. Returning = driver.unwind[failed] /\ Len(driver.unwind[failed]) \in Nat
        BY <3>1
      <4>2. at + 1 \in 1 .. Len(driver.unwind[failed]) + 1
        BY <2>2, <4>1
      <4> QED BY <2>2, <3>1, <4>2 DEF Steps
    <3>7. held' = Before(driver, failed)' \ Returned(driver.unwind[failed], at)'
      BY <3>4, <3>5
    <3>8. phase' = "unwinding"
      BY <2>2, <2>3
    <3> QED BY <3>6, <3>7, <3>8 DEF HeldInv
  <2>4. ASSUME phase = "releasing" PROVE HeldInv'
    <3>1. Returning = driver.release /\ held = All(driver) \ Returned(driver.release, at)
      BY <2>4 DEF Returning, LifeInv, HeldInv
    <3>2. Returned(driver.release, at + 1) = Returned(driver.release, at) \cup {driver.release[at]}
      BY <2>1, <3>1
    <3>3. held' = (All(driver) \ Returned(driver.release, at)) \ {driver.release[at]}
      BY <2>2, <3>1
    <3>4. held' = All(driver) \ Returned(driver.release, at + 1)
      BY <3>2, <3>3, LessOne
    <3>5. /\ All(driver)' = All(driver)
          /\ Returned(driver.release, at)' = Returned(driver.release, at + 1)
      BY <2>2 DEF All, Before, Returned
    <3>6. at' \in 1 .. Len(driver.release)' + 1
      BY <2>2, <3>1
    <3>7. held' = All(driver)' \ Returned(driver.release, at)'
      BY <3>4, <3>5
    <3>8. phase' = "releasing" /\ failed' = 0
      BY <2>2, <2>4 DEF LifeInv, HeldInv
    <3> QED BY <3>6, <3>7, <3>8 DEF HeldInv
  <2>5. HeldInv'
    BY <1>6, <2>3, <2>4 DEF ReleaseNext
  <2> QED BY <1>6, <2>5 DEF ReleaseNext, LifeInv, Phases
<1>7. CASE Gone
  <2>1. at = Len(Returning) + 1 /\ held' = held
    BY <1>7 DEF Gone, LifeInv, HeldInv, Returning
  <2>2. held = Left /\ failed \in {0} \cup Steps(driver)
    <3>1. CASE phase = "unwinding"
      <4>1. failed \in Steps(driver) /\ Left = driver.leaves[failed]
        BY <3>1 DEF LifeInv, HeldInv, Left
      <4>2. held = Before(driver, failed)
                     \ ((Before(driver, failed) \ driver.leaves[failed]) \cup driver.unmade[failed])
        BY <2>1, <3>1, <4>1 DEF LifeInv, HeldInv, Returning, Disciplined, Undoes
      <4>3. /\ driver.leaves[failed] \subseteq Before(driver, failed)
            /\ driver.unmade[failed] \cap Before(driver, failed) = {}
        BY <4>1 DEF Disciplined, Undoes
      <4> QED BY <4>1, <4>2, <4>3
    <3>2. CASE phase = "releasing"
      BY <2>1, <3>2 DEF LifeInv, HeldInv, Returning, Disciplined, Undoes, Left
    <3> QED BY <1>7, <3>1, <3>2 DEF Gone
  <2>3. Left' = Left /\ Steps(driver)' = Steps(driver)
    BY <1>7 DEF Gone, Left, Steps
  <2> QED BY <1>7, <2>1, <2>2, <2>3 DEF Gone, LifeInv, HeldInv, Phases
<1>10. CASE Reboot
  <2>1. failed' = 0 /\ held' = {} /\ phase' = "absent" /\ driver' = driver
    BY <1>10 DEF Reboot
  <2>2. HeldInv'
    BY <2>1 DEF HeldInv, Left
  <2> QED BY <2>1, <2>2 DEF LifeInv, Phases
<1>8. ASSUME NEW f \in Files, NEW minor, Close(f) \/ Open(f, minor) PROVE LifeInv'
  BY <1>8, HeldInvKept DEF Close, Open, LifeInv
<1>9. CASE UNCHANGED vars
  BY <1>9, HeldInvKept DEF vars, LifeInv
<1> QED BY <1>1, <1>2, <1>3, <1>4, <1>5, <1>6, <1>7, <1>8, <1>9, <1>10 DEF Next, Life

(* Every step of loading, unwinding, unloading, opening and closing keeps   *)
(* the invariant, if the driver goes only when no file is open.             *)
LEMMA InvNext == AllDisciplined /\ Pinned /\ Inv /\ [Next]_vars => Inv'
<1> SUFFICES ASSUME AllDisciplined, Pinned, Inv, [Next]_vars PROVE Inv'
  OBVIOUS
<1>0. /\ driver \in Drivers /\ Disciplined(driver) /\ HeldInv /\ phase \in Phases /\ LifeInv'
      /\ Len(driver.acquire) \in Nat /\ Len(driver.release) \in Nat
      /\ \A i \in Steps(driver) : i # 0 /\ Len(driver.unwind[i]) \in Nat
      /\ files \in [Files -> Nat \cup {Closed}] /\ FileInv
  BY LifeNext, TableFacts DEF Inv, LifeInv, AllDisciplined
<1> SUFFICES files' \in [Files -> Nat \cup {Closed}] /\ FileInv'
  BY <1>0 DEF Inv
<1>1. CASE Load
  <2>1. \A f \in Files : files[f] = Closed
    BY <1>0, <1>1 DEF Load, FileInv
  <2> QED BY <1>0, <1>1, <2>1 DEF Load, FileInv
<1>2. CASE AcquireNext
  BY <1>0, <1>2 DEF AcquireNext, FileInv
<1>3. CASE AcquireFails
  <2>1. held = Before(driver, at) /\ at \in Steps(driver) /\ phase = "acquiring" /\ at # 0
    BY <1>0, <1>3 DEF AcquireFails, HeldInv
  <2>2. Left' = driver.leaves[at]
    BY <1>3, <2>1 DEF AcquireFails, Left
  <2>3. ASSUME NEW f \in Files, files[f] # Closed
        PROVE  {Node(files[f]), Cdev(files[f])} \subseteq driver.leaves[at]
    <3>1. Node(files[f]) \in Before(driver, at)
      BY <1>0, <2>1, <2>3 DEF FileInv
    <3>2. Node(files[f]).kind = "node" /\ Node(files[f]).minor = files[f]
      BY DEF Node, Resource
    <3> QED BY <1>0, <2>1, <3>1, <3>2 DEF Disciplined
  <2> QED BY <1>0, <1>3, <2>2, <2>3 DEF AcquireFails, FileInv
<1>4. CASE Loaded
  BY <1>0, <1>4 DEF Loaded, FileInv
<1>5. CASE Unload
  BY <1>0, <1>5 DEF Unload, FileInv, NoOpenFile
<1>6. CASE ReleaseNext
  <2>1. Left' = Left /\ files' = files /\ phase' = phase /\ held' = held \ {Returning[at]}
    BY <1>6 DEF ReleaseNext, Left
  <2>2. ASSUME NEW f \in Files, files[f] # Closed
        PROVE  /\ phase = "unwinding" /\ {Node(files[f]), Cdev(files[f])} \subseteq Left
               /\ Returning[at] \notin {Node(files[f]), Cdev(files[f])}
    <3>1. phase = "unwinding" /\ {Node(files[f]), Cdev(files[f])} \subseteq Left
      BY <1>0, <1>6, <2>2 DEF ReleaseNext, FileInv
    <3>2. failed \in Steps(driver) /\ at \in 1 .. Len(driver.unwind[failed])
      BY <1>0, <1>6, <3>1 DEF ReleaseNext, Returning, HeldInv
    <3>3. driver.unwind[failed][at] \notin Left
      <4>1. driver.unwind[failed][at] \in Returned(driver.unwind[failed], Len(driver.unwind[failed]) + 1)
        BY <1>0, <3>2 DEF Returned
      <4>2. Undoes(driver.unwind[failed], Before(driver, failed), driver.leaves[failed],
                   driver.unmade[failed])
        BY <1>0, <3>2 DEF Disciplined
      <4>3. Left = driver.leaves[failed]
        BY <1>0, <3>2 DEF Left
      <4> QED BY <4>1, <4>2, <4>3 DEF Undoes
    <3> QED BY <3>1, <3>3 DEF Returning
  <2> QED BY <1>0, <2>1, <2>2 DEF FileInv
<1>7. CASE Gone
  BY <1>0, <1>7 DEF Gone, FileInv, Left
<1>11. CASE Reboot
  BY <1>0, <1>11 DEF Reboot, FileInv
<1>8. ASSUME NEW f \in Files, Close(f) PROVE files' \in [Files -> Nat \cup {Closed}] /\ FileInv'
  <2>1. \A g \in Files : files'[g] # Closed => files'[g] = files[g]
    BY <1>0, <1>8 DEF Close, Closed
  <2> QED BY <1>0, <1>8, <2>1 DEF Close, FileInv, Closed, Left
<1>9. ASSUME NEW f \in Files, NEW r \in held, r.kind = "node", Open(f, r.minor)
      PROVE  files' \in [Files -> Nat \cup {Closed}] /\ FileInv'
  <2>1. phase \in {"acquiring", "ready", "unwinding"}
    BY <1>0, <1>9 DEF Phases, Open
  <2>2. r \in Resources /\ (phase = "unwinding" => {r, Cdev(r.minor)} \subseteq Left)
    <3>1. \A i \in 1 .. Len(driver.acquire) + 1 : Before(driver, i) \subseteq Resources
      BY <1>0 DEF Before, Disciplined, Steps
    <3>2. CASE phase = "acquiring"
      BY <1>0, <1>9, <3>1, <3>2 DEF HeldInv
    <3>3. CASE phase = "ready"
      BY <1>0, <1>9, <3>1, <3>3 DEF HeldInv, All
    <3>4. CASE phase = "unwinding"
      <4>1. failed \in Steps(driver) /\ r \in Before(driver, failed) /\ failed # 0
        BY <1>0, <1>9, <3>4 DEF HeldInv
      <4>2. {r, Cdev(r.minor)} \subseteq driver.leaves[failed]
        BY <1>0, <1>9, <4>1 DEF Disciplined
      <4> QED BY <1>0, <3>1, <4>1, <4>2 DEF Steps, Left
    <3> QED BY <2>1, <3>2, <3>3, <3>4
  <2>3. r.minor \in Nat /\ r = Node(r.minor)
    BY <1>9, <2>2 DEF Resources, Node, Resource
  <2>4. /\ Node(r.minor) \in held /\ Cdev(r.minor) \in held
        /\ held' = held /\ phase' = phase /\ Left' = Left
        /\ files' = [files EXCEPT ![f] = r.minor]
    BY <1>9 DEF Open, Left
  <2>5. \A g \in Files : files'[g] = IF g = f THEN r.minor ELSE files[g]
    BY <1>0, <2>4
  <2>6. files' \in [Files -> Nat \cup {Closed}]
    BY <1>0, <2>3, <2>4
  <2> QED BY <1>0, <2>1, <2>2, <2>3, <2>4, <2>5, <2>6 DEF FileInv
<1>10. CASE UNCHANGED vars
  BY <1>0, <1>10 DEF vars, FileInv, Left
<1> QED BY <1>1, <1>2, <1>3, <1>4, <1>5, <1>6, <1>7, <1>8, <1>9, <1>10, <1>11 DEF Next, Life

(* The layers: what LifeInv allows to be held is closed under Needs.        *)
LEMMA LifeLayered == AllDisciplined /\ LifeInv => Layered
<1> SUFFICES ASSUME AllDisciplined, LifeInv, NEW r \in held \ Left, NEW n \in Needs(r)
             PROVE  n \in held
  BY DEF Layered
<1>0. /\ driver \in Drivers /\ Disciplined(driver)
      /\ Len(driver.acquire) \in Nat /\ Len(driver.release) \in Nat
      /\ \A i \in Steps(driver) : i # 0 /\ Len(driver.unwind[i]) \in Nat
  BY TableFacts DEF LifeInv, AllDisciplined
<1> USE <1>0
<1>1. ASSUME NEW i \in 1 .. Len(driver.acquire) + 1, NEW s \in Before(driver, i), NEW m \in Needs(s)
      PROVE  m \in Before(driver, i)
  <2>1. PICK j \in 1 .. i - 1 : s = driver.acquire[j]
    BY <1>1 DEF Before
  <2>2. j \in Steps(driver)
    BY <2>1 DEF Steps
  <2>3. m \in Before(driver, j)
    BY <1>1, <2>1, <2>2 DEF Disciplined
  <2> QED BY <2>2, <2>3 DEF Before
<1>2. ASSUME NEW i \in 1 .. Len(driver.acquire) + 1, NEW seq, NEW kept, NEW extra,
             Undoes(seq, Before(driver, i), kept, extra),
             Len(seq) \in Nat, NEW k \in 1 .. Len(seq) + 1,
             r \in Before(driver, i) \ Returned(seq, k), r \notin kept
      PROVE  n \in Before(driver, i) \ Returned(seq, k)
  <2>1. n \in Before(driver, i)
    BY <1>1, <1>2
  <2>2. SUFFICES ASSUME n \in Returned(seq, k) PROVE FALSE
    BY <2>1
  <2>3. PICK j \in 1 .. k - 1 : n = seq[j]
    BY <2>2 DEF Returned
  <2>4. j \in 1 .. Len(seq)
    BY <1>2, <2>3
  <2>5. r \in Returned(seq, j)
    BY <1>2, <2>3, <2>4 DEF Undoes
  <2>6. r \in Returned(seq, k)
    BY <1>2, <2>3, <2>5 DEF Returned
  <2> QED BY <1>2, <2>6
<1>3. CASE phase = "acquiring"
  BY <1>1, <1>3 DEF LifeInv, HeldInv
<1>4. CASE phase = "ready"
  BY <1>1, <1>4 DEF LifeInv, HeldInv, All
<1>5. CASE phase = "unwinding"
  <2>1. /\ failed \in Steps(driver) /\ failed \in 1 .. Len(driver.acquire) + 1
        /\ at \in 1 .. Len(driver.unwind[failed]) + 1
        /\ held = Before(driver, failed) \ Returned(driver.unwind[failed], at)
    BY <1>5 DEF LifeInv, HeldInv, Steps
  <2>2. /\ Left = driver.leaves[failed] /\ Len(driver.unwind[failed]) \in Nat
        /\ Undoes(driver.unwind[failed], Before(driver, failed), driver.leaves[failed],
                  driver.unmade[failed])
    BY <2>1 DEF Disciplined, Left
  <2> QED BY <1>2, <2>1, <2>2
<1>6. CASE phase = "releasing"
  BY <1>2, <1>6 DEF LifeInv, HeldInv, Disciplined, All
<1>7. CASE phase = "absent"
  BY <1>7 DEF LifeInv, HeldInv
<1> QED BY <1>3, <1>4, <1>5, <1>6, <1>7 DEF LifeInv, HeldInv, Phases

(* A step gives back something that is still held.                          *)
LEMMA LifeReleases ==
  AllDisciplined /\ LifeInv /\ ReleaseNext => Returning[at] \in held \cup Unmade
<1> SUFFICES ASSUME AllDisciplined, LifeInv, ReleaseNext
             PROVE  Returning[at] \in held \cup Unmade
  OBVIOUS
<1>0. /\ driver \in Drivers /\ Disciplined(driver)
      /\ Len(driver.acquire) \in Nat /\ Len(driver.release) \in Nat
      /\ \A i \in Steps(driver) : i # 0 /\ Len(driver.unwind[i]) \in Nat
  BY TableFacts DEF LifeInv, AllDisciplined
<1> USE <1>0
<1>1. ASSUME NEW S, NEW seq, NEW kept, NEW extra, Undoes(seq, S, kept, extra),
             Len(seq) \in Nat, NEW i \in 1 .. Len(seq)
      PROVE  seq[i] \in (S \ Returned(seq, i)) \cup extra
  <2>1. seq[i] \in S \cup extra
    BY <1>1 DEF Undoes, Returned
  <2>2. seq[i] \notin Returned(seq, i)
    BY <1>1 DEF Undoes, Returned
  <2> QED BY <2>1, <2>2
<1>2. CASE phase = "unwinding"
  <2>1. /\ failed \in Steps(driver) /\ at \in 1 .. Len(driver.unwind[failed])
        /\ Returning = driver.unwind[failed]
        /\ held = Before(driver, failed) \ Returned(driver.unwind[failed], at)
    BY <1>2 DEF LifeInv, HeldInv, ReleaseNext, Returning
  <2>2. /\ Undoes(driver.unwind[failed], Before(driver, failed), driver.leaves[failed],
                  driver.unmade[failed])
        /\ Unmade = driver.unmade[failed] /\ Len(driver.unwind[failed]) \in Nat
    BY <2>1 DEF Disciplined, Unmade
  <2> QED BY <1>1, <2>1, <2>2
<1>3. CASE phase = "releasing"
  <2>1. /\ Returning = driver.release /\ at \in 1 .. Len(driver.release)
        /\ held = All(driver) \ Returned(driver.release, at)
    BY <1>3 DEF LifeInv, HeldInv, ReleaseNext, Returning
  <2>2. Undoes(driver.release, All(driver), {}, {})
    BY DEF Disciplined
  <2> QED BY <1>1, <2>1, <2>2
<1> QED BY <1>2, <1>3 DEF ReleaseNext

-----------------------------------------------------------------------------
(* A driver whose tables follow the discipline leaks nothing but what its   *)
(* error paths are known to forget, keeps its layers in order and never     *)
(* gives back what it does not hold, wherever its loads fail, even when it  *)
(* is unbound while its nodes are open.                                     *)
THEOREM DisciplineKeepsLayers ==
  ASSUME AllDisciplined
  PROVE  Spec => []LeaksAsKnown /\ []Layered /\ ReleasesHeld
<1>1. Init => LifeInv
  BY InvInit DEF Inv
<1>2. LifeInv /\ [Next]_vars => LifeInv'
  BY LifeNext
<1>3. LifeInv => LeaksAsKnown /\ Layered
  BY LifeLayered DEF LifeInv, HeldInv, LeaksAsKnown
<1>4. LifeInv => (ReleaseNext => Returning[at] \in held \cup Unmade)
  BY LifeReleases
<1> QED BY <1>1, <1>2, <1>3, <1>4, PTL DEF Spec, ReleasesHeld

(* When moreover open files pin its module, no file is ever open without a  *)
(* cdev behind it, whenever programs open and close the nodes and whichever *)
(* step of a load fails, and none outlives the code but on a node that was  *)
(* forgotten.                                                               *)
THEOREM DisciplineSuffices ==
  ASSUME AllDisciplined, Pinned
  PROVE  Spec => []LeaksAsKnown /\ []Layered /\ []OpenBacked /\ ReleasesHeld
<1>1. Inv /\ [Next]_vars => Inv'
  BY InvNext
<1>2. Inv => OpenBacked
  BY DEF Inv, FileInv, OpenBacked
<1> QED BY InvInit, <1>1, <1>2, DisciplineKeepsLayers, PTL DEF Spec

(* Whatever the tables say, the state of the driver and of the open files   *)
(* keeps its types, and what is held are resources of the kernel.           *)
THEOREM TypeCorrect == Spec => []TypeOK
<1>1. Init => TypeOK
  BY DEF Init, TypeOK, Phases
<1>2. TypeOK /\ [Next]_vars => TypeOK'
  <2> SUFFICES ASSUME TypeOK, [Next]_vars PROVE TypeOK'
    OBVIOUS
  <2>1. CASE Load
    BY <2>1 DEF TypeOK, Load, Phases
  <2>7. CASE Reboot
    BY <2>7 DEF TypeOK, Reboot, Phases
  <2>2. CASE AcquireNext
    <3>1. driver.acquire[at] \in Resources
      BY <2>2, TableAssumption DEF TypeOK, AcquireNext, Steps
    <3> QED BY <2>2, <3>1 DEF TypeOK, AcquireNext
  <2>3. CASE AcquireFails
    <3>1. at \in Nat \ {0}
      BY DEF TypeOK
    <3> QED BY <2>3, <3>1 DEF TypeOK, AcquireFails, Phases
  <2>4. CASE Loaded \/ Unload \/ ReleaseNext \/ Gone \/ UNCHANGED vars
    BY <2>4 DEF TypeOK, Loaded, Unload, ReleaseNext, Gone, Phases, vars
  <2>5. ASSUME NEW f \in Files, Close(f) PROVE TypeOK'
    BY <2>5 DEF TypeOK, Close, Closed
  <2>6. ASSUME NEW f \in Files, NEW r \in held, Open(f, r.minor) PROVE TypeOK'
    <3>1. r.minor \in Nat
      BY <2>6 DEF TypeOK, Resources
    <3> QED BY <2>6, <3>1 DEF TypeOK, Open
  <2> QED BY <2>1, <2>2, <2>3, <2>4, <2>5, <2>6, <2>7 DEF Next, Life
<1> QED BY <1>1, <1>2, PTL DEF Spec

-----------------------------------------------------------------------------
(* What three of the drivers acquire: the numbers, the cdev, the class and  *)
(* the node.                                                                *)
LEMMA FourKinds ==
  /\ {Region, Cdev(0), Class, Node(0)} \subseteq Resources
  /\ Region.kind = "region" /\ Cdev(0).kind = "cdev" /\ Class.kind = "class"
  /\ Node(0).kind = "node"
  /\ Needs(Region) = {} /\ Needs(Cdev(0)) = {Region} /\ Needs(Class) = {}
  /\ Needs(Node(0)) = {Class}
BY DEF Region, Class, Cdev, Node, Resource, Resources, Needs

LEMMA FourAcquired ==
  ASSUME NEW d, d.acquire = <<Region, Cdev(0), Class, Node(0)>>
  PROVE  /\ Steps(d) = 1 .. 4
         /\ Before(d, 1) = {} /\ Before(d, 2) = {Region} /\ Before(d, 3) = {Region, Cdev(0)}
         /\ Before(d, 4) = {Region, Cdev(0), Class} /\ All(d) = {Region, Cdev(0), Class, Node(0)}
         /\ \A i \in Steps(d) : d.acquire[i] \in Resources /\ Needs(d.acquire[i]) \subseteq Before(d, i)
         /\ \A i \in Steps(d) : \A s \in Before(d, i) : s.kind # "node"
<1> DEFINE r == Region
           c == Cdev(0)
           k == Class
           n == Node(0)
<1>1. /\ r.kind = "region" /\ c.kind = "cdev" /\ k.kind = "class" /\ n.kind = "node"
      /\ {r, c, k, n} \subseteq Resources
      /\ Needs(r) = {} /\ Needs(c) = {r} /\ Needs(k) = {} /\ Needs(n) = {k}
  BY FourKinds
<1>2. d.acquire = <<r, c, k, n>>
  OBVIOUS
<1> HIDE DEF r, c, k, n
<1>3. /\ Steps(d) = 1 .. 4
      /\ d.acquire[1] = r /\ d.acquire[2] = c /\ d.acquire[3] = k /\ d.acquire[4] = n
  BY <1>2 DEF Steps
<1>4. /\ Before(d, 1) = {} /\ Before(d, 2) = {r} /\ Before(d, 3) = {r, c}
      /\ Before(d, 4) = {r, c, k} /\ All(d) = {r, c, k, n}
  BY <1>2 DEF Before, All
<1>5. \A i \in Steps(d) : d.acquire[i] \in Resources /\ Needs(d.acquire[i]) \subseteq Before(d, i)
  BY <1>1, <1>3, <1>4
<1>6. \A i \in Steps(d) : \A s \in Before(d, i) : s.kind # "node"
  BY <1>1, <1>3, <1>4
<1> QED BY <1>3, <1>4, <1>5, <1>6 DEF r, c, k, n

(* The order of pcd.c and i2c_client_driver_LM75A.c, whose error paths are  *)
(* goto chains.                                                             *)
LEMMA ChainDisciplined ==
  ASSUME NEW d, d.acquire = <<Region, Cdev(0), Class, Node(0)>>,
         d.release = <<Node(0), Class, Cdev(0), Region>>,
         d.unwind = FallThrough(<<Class, Cdev(0), Region>>),
         d.leaves = Never(4), d.unmade = Never(4)
  PROVE  Disciplined(d)
<1> DEFINE r == Region
           c == Cdev(0)
           k == Class
           n == Node(0)
<1>1. /\ r.kind = "region" /\ c.kind = "cdev" /\ k.kind = "class" /\ n.kind = "node"
      /\ Needs(r) = {} /\ Needs(c) = {r} /\ Needs(k) = {} /\ Needs(n) = {k}
  BY FourKinds
<1>2. d.release = <<n, k, c, r>> /\ d.unwind = FallThrough(<<k, c, r>>)
  OBVIOUS
<1>3. /\ Steps(d) = 1 .. 4
      /\ Before(d, 1) = {} /\ Before(d, 2) = {r} /\ Before(d, 3) = {r, c}
      /\ Before(d, 4) = {r, c, k} /\ All(d) = {r, c, k, n}
      /\ \A i \in Steps(d) : d.acquire[i] \in Resources /\ Needs(d.acquire[i]) \subseteq Before(d, i)
      /\ \A i \in Steps(d) : \A s \in Before(d, i) : s.kind # "node"
  BY FourAcquired
<1> HIDE DEF r, c, k, n
<1>4. \A i \in 1 .. 4 : d.leaves[i] = {} /\ d.unmade[i] = {}
  BY DEF Never
<1>5. Undoes(d.release, All(d), {}, {})
  BY <1>1, <1>2, <1>3 DEF Undoes, Returned
<1>6. /\ Len(d.unwind[1]) = 0
      /\ Len(d.unwind[2]) = 1 /\ d.unwind[2][1] = r
      /\ Len(d.unwind[3]) = 2 /\ d.unwind[3][1] = c /\ d.unwind[3][2] = r
      /\ Len(d.unwind[4]) = 3 /\ d.unwind[4][1] = k /\ d.unwind[4][2] = c
      /\ d.unwind[4][3] = r
  <2>1. d.unwind = FallThrough(<<k, c, r>>) /\ Len(<<k, c, r>>) = 3
    BY <1>2
  <2>2. ASSUME NEW i \in 1 .. 4
        PROVE  d.unwind[i] = [m \in 1 .. i - 1 |-> <<k, c, r>>[4 - i + m]] /\ Len(d.unwind[i]) = i - 1
    <3> DEFINE ch == <<k, c, r>>
    <3>4. Len(ch) = 3 /\ d.unwind = FallThrough(ch)
      BY <2>1
    <3> HIDE DEF ch
    <3>5. i \in 1 .. Len(ch) + 1
      BY <3>4
    <3>6. d.unwind[i] = [m \in 1 .. i - 1 |-> ch[Len(ch) + 1 - i + m]]
      BY <3>4, <3>5 DEF FallThrough
    <3>1. d.unwind[i] = [m \in 1 .. i - 1 |-> <<k, c, r>>[3 + 1 - i + m]]
      BY <3>4, <3>6 DEF ch
    <3>2. \A m \in 1 .. i - 1 : 3 + 1 - i + m = 4 - i + m
      OBVIOUS
    <3>3. d.unwind[i] = [m \in 1 .. i - 1 |-> <<k, c, r>>[4 - i + m]]
      BY <3>1, <3>2
    <3> QED BY <3>3
  <2>3. /\ d.unwind[1] = [m \in 1 .. 0 |-> <<k, c, r>>[3 + m]]
        /\ d.unwind[2] = [m \in 1 .. 1 |-> <<k, c, r>>[2 + m]]
    BY <2>2
  <2>4. /\ d.unwind[3] = [m \in 1 .. 2 |-> <<k, c, r>>[1 + m]]
        /\ d.unwind[4] = [m \in 1 .. 3 |-> <<k, c, r>>[m]]
    BY <2>2
  <2> QED BY <2>2, <2>3, <2>4
<1>7. Undoes(d.unwind[1], Before(d, 1), {}, {})
  BY <1>3, <1>6 DEF Undoes, Returned
<1>8. Undoes(d.unwind[2], Before(d, 2), {}, {})
  BY <1>1, <1>3, <1>6 DEF Undoes, Returned
<1>9. Undoes(d.unwind[3], Before(d, 3), {}, {})
  BY <1>1, <1>3, <1>6 DEF Undoes, Returned
<1>10. Undoes(d.unwind[4], Before(d, 4), {}, {})
  <2>1. \A i \in 1 .. 4 : Returned(d.unwind[4], i) = {d.unwind[4][j] : j \in 1 .. i - 1}
    BY DEF Returned
  <2>2. /\ Returned(d.unwind[4], 2) = {k} /\ Returned(d.unwind[4], 3) = {k, c}
        /\ Returned(d.unwind[4], 4) = {k, c, r}
    BY <1>6, <2>1
  <2>3. \A i, j \in 1 .. 3 : i < j => d.unwind[4][i] # d.unwind[4][j]
    BY <1>1, <1>6
  <2>4. ASSUME NEW i \in 1 .. 3, NEW s \in {r, c, k}, d.unwind[4][i] \in Needs(s)
        PROVE  s \in Returned(d.unwind[4], i)
    <3>1. i = 3 /\ s = c
      BY <1>1, <1>6, <2>4
    <3> QED BY <2>2, <3>1
  <2>5. Len(d.unwind[4]) = 3 /\ Before(d, 4) = {r, c, k}
    BY <1>3, <1>6
  <2>6. Returned(d.unwind[4], 3 + 1) = ({r, c, k} \ {}) \cup {}
    BY <2>2
  <2> DEFINE u == d.unwind[4]
  <2> HIDE DEF u
  <2>7. Undoes(u, {r, c, k}, {}, {})
    <3>1. Len(u) = 3
      BY <2>5 DEF u
    <3>2. Returned(u, Len(u) + 1) = ({r, c, k} \ {}) \cup {}
      BY <2>6, <3>1 DEF u
    <3>3. \A i, j \in 1 .. Len(u) : i < j => u[i] # u[j]
      BY <2>3, <3>1 DEF u
    <3>4. \A i \in 1 .. Len(u) : \A s \in {r, c, k} \ {} : u[i] \in Needs(s) => s \in Returned(u, i)
      BY <2>4, <3>1 DEF u
    <3> QED BY <3>2, <3>3, <3>4 DEF Undoes
  <2> QED BY <2>5, <2>7 DEF u
<1>11. \A i \in Steps(d) : Undoes(d.unwind[i], Before(d, i), d.leaves[i], d.unmade[i])
  <2> TAKE i \in Steps(d)
  <2>1. d.leaves[i] = {} /\ d.unmade[i] = {} /\ (i = 1 \/ i = 2 \/ i = 3 \/ i = 4)
    BY <1>3, <1>4
  <2>2. Undoes(d.unwind[i], Before(d, i), {}, {})
    BY <1>7, <1>8, <1>9, <1>10, <2>1
  <2> QED BY <2>1, <2>2
<1> QED BY <1>3, <1>5, <1>11 DEF Disciplined

(* i2c_client_driver_0.c: it forgets its cdev when class_create or          *)
(* device_create fails, and when cdev_add fails it destroys what has not    *)
(* been made.                                                               *)
LEMMA Ds3231Disciplined == Disciplined(Ds3231)
<1> DEFINE d == Ds3231
           r == Region
           c == Cdev(0)
           k == Class
           n == Node(0)
<1>1. /\ r.kind = "region" /\ c.kind = "cdev" /\ k.kind = "class" /\ n.kind = "node"
      /\ Needs(r) = {} /\ Needs(c) = {r} /\ Needs(k) = {} /\ Needs(n) = {k}
  BY FourKinds
<1>2. /\ d.acquire = <<Region, Cdev(0), Class, Node(0)>> /\ d.release = <<c, n, k, r>>
      /\ d.unwind[1] = <<>> /\ d.unwind[2] = <<n, k, r>> /\ d.unwind[3] = <<r>>
      /\ d.unwind[4] = <<k, r>>
  BY DEF Ds3231, Ds3231Acquire, Ds3231Unwind, Ds3231Release
<1>3. /\ d.leaves[1] = {} /\ d.leaves[2] = {} /\ d.leaves[3] = {c} /\ d.leaves[4] = {c}
      /\ d.unmade[1] = {} /\ d.unmade[2] = {n, k} /\ d.unmade[3] = {} /\ d.unmade[4] = {}
  BY DEF Ds3231, Ds3231Leaves, Ds3231Unmade
<1> HIDE DEF d
<1>4. /\ Steps(d) = 1 .. 4
      /\ Before(d, 1) = {} /\ Before(d, 2) = {r} /\ Before(d, 3) = {r, c}
      /\ Before(d, 4) = {r, c, k} /\ All(d) = {r, c, k, n}
      /\ \A i \in Steps(d) : d.acquire[i] \in Resources /\ Needs(d.acquire[i]) \subseteq Before(d, i)
      /\ \A i \in Steps(d) : \A s \in Before(d, i) : s.kind # "node"
  BY <1>2, FourAcquired
<1> HIDE DEF r, c, k, n
<1>5. Undoes(d.release, All(d), {}, {})
  BY <1>1, <1>2, <1>4 DEF Undoes, Returned
<1>6. Undoes(d.unwind[1], Before(d, 1), d.leaves[1], d.unmade[1])
  BY <1>2, <1>3, <1>4 DEF Undoes, Returned
<1>7. Undoes(d.unwind[2], Before(d, 2), d.leaves[2], d.unmade[2])
  BY <1>1, <1>2, <1>3, <1>4 DEF Undoes, Returned
<1>8. Undoes(d.unwind[3], Before(d, 3), d.leaves[3], d.unmade[3])
  BY <1>1, <1>2, <1>3, <1>4 DEF Undoes, Returned
<1>9. Undoes(d.unwind[4], Before(d, 4), d.leaves[4], d.unmade[4])
  BY <1>1, <1>2, <1>3, <1>4 DEF Undoes, Returned
<1>10. \A i \in Steps(d) : Undoes(d.unwind[i], Before(d, i), d.leaves[i], d.unmade[i])
  BY <1>4, <1>6, <1>7, <1>8, <1>9
<1>11. Disciplined(d)
  BY <1>4, <1>5, <1>10 DEF Disciplined
<1> QED BY <1>11 DEF d

(* pcd_drv.c: its loops add and delete the nodes and cdevs of four minors.  *)
LEMMA PcdDrvRows ==
  /\ Len(PcdDrvAcquire) = 10 /\ PcdDrvAcquire[1] = Region /\ PcdDrvAcquire[2] = Class
  /\ \A m \in 0 .. 3 : PcdDrvAcquire[2 * m + 3] = Cdev(m) /\ PcdDrvAcquire[2 * m + 4] = Node(m)
  /\ Len(PcdDrvRelease) = 10 /\ PcdDrvRelease[9] = Class /\ PcdDrvRelease[10] = Region
  /\ \A m \in 0 .. 3 : PcdDrvRelease[2 * m + 1] = Node(m) /\ PcdDrvRelease[2 * m + 2] = Cdev(m)
<1> DEFINE add == [i \in 1 .. 8 |-> IF i % 2 = 1 THEN Cdev((i - 1) \div 2) ELSE Node((i - 2) \div 2)]
           del == [i \in 1 .. 8 |-> IF i % 2 = 1 THEN Node((i - 1) \div 2) ELSE Cdev((i - 2) \div 2)]
<1>1. PcdDrvAcquire = <<Region, Class>> \o add /\ PcdDrvRelease = del \o <<Class, Region>>
  BY DEF PcdDrvAcquire, PcdDrvRelease, NO_OF_DEVICES
<1>2. /\ \A m \in 0 .. 3 : add[2 * m + 1] = Cdev(m) /\ add[2 * m + 2] = Node(m)
      /\ \A m \in 0 .. 3 : del[2 * m + 1] = Node(m) /\ del[2 * m + 2] = Cdev(m)
  OBVIOUS
<1>3. /\ add \in Seq(Resources) /\ Len(add) = 8
      /\ del \in Seq(Resources) /\ Len(del) = 8
  <2>1. \A m \in Nat : Cdev(m) \in Resources /\ Node(m) \in Resources
    BY DEF Cdev, Node, Resource, Resources
  <2>2. add \in [1 .. 8 -> Resources] /\ del \in [1 .. 8 -> Resources]
    BY <2>1
  <2> QED BY <2>2
<1> HIDE DEF add, del
<1>4. Region \in Resources /\ Class \in Resources
  BY DEF Region, Class, Resource, Resources
<1>5. /\ Len(<<Region, Class>> \o add) = 10
      /\ \A i \in 1 .. 10 : (<<Region, Class>> \o add)[i] =
           IF i <= 2 THEN <<Region, Class>>[i] ELSE add[i - 2]
  <2>1. <<Region, Class>> \in Seq(Resources) /\ Len(<<Region, Class>>) = 2
    BY <1>4
  <2>2. /\ Len(<<Region, Class>> \o add) = Len(<<Region, Class>>) + Len(add)
        /\ \A i \in 1 .. Len(<<Region, Class>>) + Len(add) : (<<Region, Class>> \o add)[i] =
             IF i <= Len(<<Region, Class>>) THEN <<Region, Class>>[i] ELSE add[i - Len(<<Region, Class>>)]
    BY <1>3, <2>1, ConcatProperties, Zenon
  <2> QED BY <1>3, <2>1, <2>2
<1>6. /\ Len(del \o <<Class, Region>>) = 10
      /\ \A i \in 1 .. 10 : (del \o <<Class, Region>>)[i] =
           IF i <= 8 THEN del[i] ELSE <<Class, Region>>[i - 8]
  <2>1. <<Class, Region>> \in Seq(Resources) /\ Len(<<Class, Region>>) = 2
    BY <1>4
  <2>2. /\ Len(del \o <<Class, Region>>) = Len(del) + Len(<<Class, Region>>)
        /\ \A i \in 1 .. Len(del) + Len(<<Class, Region>>) : (del \o <<Class, Region>>)[i] =
             IF i <= Len(del) THEN del[i] ELSE <<Class, Region>>[i - Len(del)]
    BY <1>3, <2>1, ConcatProperties, Zenon
  <2> QED BY <1>3, <2>1, <2>2
<1> QED BY <1>1, <1>2, <1>5, <1>6

(* The tables of pcd_drv.c: a failure in the loop over the devices forgets  *)
(* all cdevs and nodes made so far, and gives back the class under them.    *)
LEMMA PcdDrvDisciplined == Disciplined(PcdDrv)
<1> DEFINE a == PcdDrvAcquire
           b == PcdDrvRelease
<1>0. /\ PcdDrv.unwind = PcdDrvUnwind /\ PcdDrv.leaves = PcdDrvLeaves
      /\ PcdDrv.unmade = Never(10)
  BY DEF PcdDrv, NO_OF_DEVICES
<1>1. /\ PcdDrv.acquire = a /\ PcdDrv.release = b
      /\ PcdDrv.unwind[1] = <<>> /\ PcdDrv.unwind[2] = <<Region>>
      /\ \A i \in 3 .. 10 : PcdDrv.unwind[i] = <<Class, Region>>
      /\ \A i \in 1 .. 10 : PcdDrv.leaves[i] = {a[j] : j \in 3 .. i - 1}
      /\ \A i \in 1 .. 10 : PcdDrv.unmade[i] = {}
  <2>1. PcdDrv.acquire = a /\ PcdDrv.release = b
    BY DEF PcdDrv
  <2>2. /\ PcdDrvUnwind[1] = <<>> /\ PcdDrvUnwind[2] = <<Region>>
        /\ \A i \in 3 .. 10 : PcdDrvUnwind[i] = <<Class, Region>>
    BY DEF PcdDrvUnwind, NO_OF_DEVICES
  <2>3. \A i \in 1 .. 10 : PcdDrvLeaves[i] = {a[j] : j \in 3 .. i - 1}
    BY DEF PcdDrvLeaves, NO_OF_DEVICES
  <2>4. \A i \in 1 .. 10 : Never(10)[i] = {}
    BY DEF Never
  <2> QED BY <1>0, <2>1, <2>2, <2>3, <2>4
<1>2. /\ Len(a) = 10 /\ a[1] = Region /\ a[2] = Class
      /\ \A m \in 0 .. 3 : a[2 * m + 3] = Cdev(m) /\ a[2 * m + 4] = Node(m)
  BY PcdDrvRows
<1>3. /\ Len(b) = 10 /\ b[9] = Class /\ b[10] = Region
      /\ \A m \in 0 .. 3 : b[2 * m + 1] = Node(m) /\ b[2 * m + 2] = Cdev(m)
  BY PcdDrvRows
<1> HIDE DEF a, b
<1>4. \A m \in Nat :
        /\ Cdev(m).kind = "cdev" /\ Cdev(m).minor = m /\ Cdev(m) \in Resources
        /\ Node(m).kind = "node" /\ Node(m).minor = m /\ Node(m) \in Resources
  BY DEF Cdev, Node, Resource, Resources
<1>5. /\ Region.kind = "region" /\ Class.kind = "class"
      /\ Region \in Resources /\ Class \in Resources
      /\ Needs(Region) = {} /\ Needs(Class) = {}
      /\ \A m \in Nat : Needs(Cdev(m)) = {Region} /\ Needs(Node(m)) = {Class}
  BY <1>4 DEF Region, Class, Resource, Resources, Needs
<1>6. \A i \in 1 .. 10 :
        \/ i = 1 /\ a[i] = Region
        \/ i = 2 /\ a[i] = Class
        \/ \E m \in 0 .. 3 : i = 2 * m + 3 /\ a[i] = Cdev(m)
        \/ \E m \in 0 .. 3 : i = 2 * m + 4 /\ a[i] = Node(m)
  <2>1. ASSUME NEW i \in 3 .. 10
        PROVE  \/ \E m \in 0 .. 3 : i = 2 * m + 3 /\ a[i] = Cdev(m)
               \/ \E m \in 0 .. 3 : i = 2 * m + 4 /\ a[i] = Node(m)
    <3>1. (i - 3) \div 2 \in 0 .. 3 /\ (i = 2 * ((i - 3) \div 2) + 3 \/ i = 2 * ((i - 3) \div 2) + 4)
      OBVIOUS
    <3> QED BY <1>2, <3>1
  <2>2. TAKE i \in 1 .. 10
  <2>3. CASE i \in 3 .. 10
    BY <2>1, <2>3
  <2>4. CASE i = 1 \/ i = 2
    BY <1>2, <2>4
  <2> QED BY <2>3, <2>4
<1>7. \A i \in 1 .. 10 :
        \/ i = 10 /\ b[i] = Region
        \/ i = 9 /\ b[i] = Class
        \/ \E m \in 0 .. 3 : i = 2 * m + 2 /\ b[i] = Cdev(m)
        \/ \E m \in 0 .. 3 : i = 2 * m + 1 /\ b[i] = Node(m)
  <2>1. ASSUME NEW i \in 1 .. 8
        PROVE  \/ \E m \in 0 .. 3 : i = 2 * m + 2 /\ b[i] = Cdev(m)
               \/ \E m \in 0 .. 3 : i = 2 * m + 1 /\ b[i] = Node(m)
    <3>1. (i - 1) \div 2 \in 0 .. 3 /\ (i = 2 * ((i - 1) \div 2) + 1 \/ i = 2 * ((i - 1) \div 2) + 2)
      OBVIOUS
    <3> QED BY <1>3, <3>1
  <2>2. TAKE i \in 1 .. 10
  <2>3. CASE i \in 1 .. 8
    BY <2>1, <2>3
  <2>4. CASE i = 9 \/ i = 10
    BY <1>3, <2>4
  <2> QED BY <2>3, <2>4
<1>8. /\ All(PcdDrv) = {a[i] : i \in 1 .. 10} /\ Returned(b, 11) = {b[i] : i \in 1 .. 10}
      /\ Before(PcdDrv, 1) = {} /\ Before(PcdDrv, 2) = {Region} /\ Steps(PcdDrv) = 1 .. 10
  BY <1>1, <1>2 DEF All, Before, Returned, Steps
<1>9. Undoes(b, All(PcdDrv), {}, {})
  <2>1. Returned(b, Len(b) + 1) = All(PcdDrv)
    <3>1. \A i \in 1 .. 10 : \E j \in 1 .. 10 : a[i] = b[j]
      BY <1>2, <1>3, <1>6
    <3>2. \A i \in 1 .. 10 : \E j \in 1 .. 10 : b[i] = a[j]
      BY <1>2, <1>3, <1>7
    <3> QED BY <1>3, <1>8, <3>1, <3>2
  <2>2. ASSUME NEW i \in 1 .. 10, NEW j \in 1 .. 10, i < j PROVE b[i] # b[j]
    BY <1>4, <1>5, <1>7, <2>2
  <2>3. ASSUME NEW i \in 1 .. 10, NEW j \in 1 .. 10, b[i] \in Needs(b[j]) PROVE j < i
    BY <1>4, <1>5, <1>7, <2>3
  <2>4. \A i \in 1 .. 10 : \A r \in All(PcdDrv) : b[i] \in Needs(r) => r \in Returned(b, i)
    BY <1>3, <1>8, <2>1, <2>3 DEF Returned
  <2> QED BY <1>3, <2>1, <2>2, <2>4 DEF Undoes
<1>10. \A i \in 1 .. 10 :
         Undoes(PcdDrv.unwind[i], Before(PcdDrv, i), PcdDrv.leaves[i], PcdDrv.unmade[i])
  <2>1. Undoes(PcdDrv.unwind[1], Before(PcdDrv, 1), {}, {}) /\ PcdDrv.leaves[1] = {}
    BY <1>1, <1>8 DEF Undoes, Returned
  <2>2. Undoes(PcdDrv.unwind[2], Before(PcdDrv, 2), {}, {}) /\ PcdDrv.leaves[2] = {}
    BY <1>1, <1>5, <1>8 DEF Undoes, Returned
  <2>3. ASSUME NEW i \in 3 .. 10
        PROVE  Undoes(PcdDrv.unwind[i], Before(PcdDrv, i), PcdDrv.leaves[i], {})
    <3> DEFINE kept == {a[j] : j \in 3 .. i - 1}
               u == <<Class, Region>>
    <3>1. PcdDrv.unwind[i] = u /\ PcdDrv.leaves[i] = kept
      BY <1>1
    <3>2. Before(PcdDrv, i) = {Region, Class} \cup kept
      <4>1. Before(PcdDrv, i) = {a[j] : j \in 1 .. i - 1}
        BY <1>1 DEF Before
      <4>2. \A j \in 1 .. i - 1 : j = 1 \/ j = 2 \/ j \in 3 .. i - 1
        OBVIOUS
      <4> QED BY <1>2, <4>1, <4>2
    <3>3. Region \notin kept /\ Class \notin kept
      <4>1. \A j \in 3 .. 10 : a[j] # Region /\ a[j] # Class
        BY <1>4, <1>5, <1>6
      <4> QED BY <4>1
    <3> HIDE DEF kept
    <3>4. Region # Class /\ Returned(u, 3) = {Class, Region} /\ Len(u) = 2 /\ u[1] = Class
          /\ u[2] = Region
      BY <1>5 DEF Returned
    <3>5. ({Region, Class} \cup kept) \ kept = {Class, Region}
      BY <3>3
    <3>6. Undoes(u, {Region, Class} \cup kept, kept, {})
      BY <1>5, <3>4, <3>5 DEF Undoes
    <3> QED BY <3>1, <3>2, <3>6
  <2>4. TAKE i \in 1 .. 10
  <2>5. PcdDrv.unmade[i] = {}
    BY <1>1
  <2>6. CASE i \in 3 .. 10
    BY <2>3, <2>5, <2>6
  <2>7. CASE i = 1
    BY <2>1, <2>5, <2>7
  <2>8. CASE i = 2
    BY <2>2, <2>5, <2>8
  <2> QED BY <2>6, <2>7, <2>8
<1>11. \A i \in 1 .. 10 : a[i] \in Resources /\ Needs(a[i]) \subseteq Before(PcdDrv, i)
  <2>1. \A i \in 1 .. 10 :
          /\ i > 1 => Region \in Before(PcdDrv, i)
          /\ i > 2 => Class \in Before(PcdDrv, i)
    BY <1>1, <1>2 DEF Before
  <2> QED BY <1>4, <1>5, <1>6, <2>1
<1>12. ASSUME NEW i \in 1 .. 10, NEW r \in Before(PcdDrv, i), r.kind = "node"
       PROVE  {r, Cdev(r.minor)} \subseteq PcdDrv.leaves[i]
  <2>1. PICK j \in 1 .. i - 1 : r = a[j]
    BY <1>1 DEF Before
  <2>2. PICK m \in 0 .. 3 : j = 2 * m + 4 /\ r = Node(m)
    BY <1>4, <1>5, <1>6, <1>12, <2>1
  <2>3. 2 * m + 3 \in 3 .. i - 1 /\ a[2 * m + 3] = Cdev(r.minor) /\ j \in 3 .. i - 1
    BY <1>2, <1>4, <2>2
  <2> QED BY <1>1, <2>1, <2>3
<1> QED BY <1>1, <1>8, <1>9, <1>10, <1>11, <1>12 DEF Disciplined

-----------------------------------------------------------------------------
(* The drivers of the repository follow the discipline.                     *)
LEMMA RepositoryDisciplined ==
  ASSUME Drivers \subseteq {Pcd, PcdDrv, Lm75a, Ds3231}
  PROVE  AllDisciplined
<1>1. Disciplined(Pcd)
  BY ChainDisciplined DEF Pcd, PcdAcquire, PcdUnwind, PcdRelease
<1>2. Disciplined(Lm75a)
  BY ChainDisciplined DEF Lm75a, Lm75aAcquire, Lm75aUnwind, Lm75aRelease
<1> QED BY <1>1, <1>2, Ds3231Disciplined, PcdDrvDisciplined DEF AllDisciplined

(* In the four drivers, whichever step of a load fails, nothing is held     *)
(* without what it rests on but what a failed load forgets, also when the   *)
(* i2c client of a driver is unbound while programs have its node open.     *)
THEOREM RepositoryDriversLayered ==
  ASSUME Drivers \subseteq {Pcd, PcdDrv, Lm75a, Ds3231}
  PROVE  Spec => []Layered
BY RepositoryDisciplined, DisciplineKeepsLayers, PTL

(* pcd.c, pcd_drv.c, i2c_client_driver_LM75A.c and i2c_client_driver_0.c,   *)
(* loaded in any order, every step of every load failing at will, with any  *)
(* number of open files: what stays behind, what is released unmade and     *)
(* which files outlive the code is what Left and Unmade say and no more.    *)
THEOREM RepositoryDriversSafe ==
  ASSUME Drivers \subseteq {Pcd, PcdDrv, Lm75a, Ds3231}, Pinned
  PROVE  Spec => []LeaksAsKnown /\ []Layered /\ []OpenBacked /\ ReleasesHeld
BY RepositoryDisciplined, DisciplineSuffices

(* pcd.c and i2c_client_driver_LM75A.c, whose error paths are goto chains,  *)
(* leave nothing behind at all, whichever step of a load fails.             *)
THEOREM ChainsLeakNothing ==
  ASSUME Drivers \subseteq {Pcd, Lm75a}
  PROVE  Spec => []NothingLeaks
<1>1. AllDisciplined
  BY RepositoryDisciplined
<1>2. LifeInv => NothingLeaks
  <2> SUFFICES ASSUME LifeInv, phase = "absent"
               PROVE  held = {}
    BY DEF NothingLeaks
  <2>1. driver.leaves = Never(4) /\ Steps(driver) = 1 .. 4
    <3>1. driver \in {Pcd, Lm75a}
      BY DEF LifeInv
    <3>2. Pcd.leaves = Never(4) /\ Pcd.acquire = <<Region, Cdev(0), Class, Node(0)>>
      BY DEF Pcd, PcdAcquire
    <3>3. Lm75a.leaves = Never(4) /\ Lm75a.acquire = <<Region, Cdev(0), Class, Node(0)>>
      BY DEF Lm75a, Lm75aAcquire
    <3> QED BY <3>1, <3>2, <3>3, FourAcquired
  <2>2. failed \in {0} \cup 1 .. 4 /\ held = Left
    BY <2>1 DEF LifeInv, HeldInv
  <2> QED BY <2>1, <2>2 DEF Left, Never
<1>3. Init => LifeInv
  BY InvInit DEF Inv
<1>4. LifeInv /\ [Next]_vars => LifeInv'
  BY <1>1, LifeNext
<1> QED BY <1>2, <1>3, <1>4, PTL DEF Spec
=============================================================================
