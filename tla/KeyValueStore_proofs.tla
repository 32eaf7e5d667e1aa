------------------------- MODULE KeyValueStore_proofs -------------------------
(* Proofs about KeyValueStore: its clean store is saved, and it implements  *)
(* AtomicStore, for every set of keys and values, backend and capacity.     *)
EXTENDS KeyValueStore, TLAPS

(* Every variable has the values its comment gives it.                      *)
KvTypeOK ==
  /\ backend \in Backends
  /\ data \in Contents \cup {None}
  /\ last \in Contents \cup {Blank}
  /\ saving \in Contents \cup {None}
  /\ kept \in Contents \cup {Blank, Torn}
  /\ beside \in Contents \cup {None, Torn}
  /\ dirty \in BOOLEAN /\ corrupt \in BOOLEAN /\ staged \in BOOLEAN /\ doubt \in BOOLEAN

(* A save under way is one of the dict, and what it staged is its payload;  *)
(* only nvs and littlefs stage, and nvs leaves nothing torn.                *)
SaveInv ==
  /\ saving # None => saving = data
  /\ staged => saving # None /\ beside = saving
  /\ beside # None => backend \in {"nvs", "littlefs"}
  /\ beside = Torn => backend = "littlefs"

(* What is clean is as it was last loaded or saved; what was last loaded or *)
(* saved is what a load finds, but while a blob waits to be committed.      *)
CleanInv ==
  /\ On /\ ~doubt /\ ~dirty => data = Dict(last)
  /\ On /\ ~doubt /\ ~corrupt /\ ~(staged /\ backend = "nvs") => Dict(last) = Dict(Loaded)

KvInv == KvTypeOK /\ SaveInv /\ CleanInv

-----------------------------------------------------------------------------
LEMMA EmptyContents == Empty \in Contents /\ Absent \in Values \cup {Absent}
  BY DEF Empty, Contents

(* A payload that does not decode shows as an empty dict.                   *)
LEMMA DictType ==
  /\ \A p : Dict(p) \in Contents
  /\ \A p \in Contents : Dict(p) = p
  /\ Dict(Blank) = Empty /\ Dict(Torn) = Empty
  BY EmptyContents, StoreAssumption DEF Dict

LEMMA EditType ==
  ASSUME KvTypeOK, Edit
  PROVE  /\ Idle /\ data' \in Contents /\ dirty' = TRUE
         /\ UNCHANGED <<backend, staged, kept, beside, last, corrupt, saving, doubt>>
<1>1. data \in Contents
  BY DEF Edit, Idle, On, KvTypeOK
<1>2. CASE \E k \in Keys : (\E v \in Values : SetItem(k, v)) \/ DelItem(k) \/ PopDefault(k)
  BY <1>1, <1>2 DEF SetItem, DelItem, PopDefault, Changed, Contents, Medium
<1>3. CASE Clear
  BY <1>3, EmptyContents DEF Clear, Changed, Medium
<1>4. CASE \E other \in Contents : Update(other)
  BY <1>1, <1>4 DEF Update, Changed, Contents, Medium
<1>5. QED
  BY <1>2, <1>3, <1>4 DEF Edit

LEMMA InitInv == KvInit => KvInv
  BY StoreAssumption DEF KvInit, KvInv, KvTypeOK, SaveInv, CleanInv, On

LEMMA NextInv == KvInv /\ [KvNext]_kvVars => KvInv'
<1> SUFFICES ASSUME KvInv, [KvNext]_kvVars PROVE KvInv'
  OBVIOUS
<1> USE StoreAssumption
<1> None \notin Contents /\ Blank \notin Contents /\ Torn \notin Contents
  OBVIOUS
<1>1. CASE Construct
  BY <1>1, DictType, EmptyContents
  DEF Construct, KvInv, KvTypeOK, SaveInv, CleanInv, Medium, On, Loaded
<1>2. CASE Reload
  BY <1>2, DictType DEF Reload, KvInv, KvTypeOK, SaveInv, CleanInv, Medium, Idle, On, Loaded
<1>3. CASE Edit
  <2>1. /\ Idle /\ data' \in Contents /\ dirty' = TRUE
        /\ UNCHANGED <<backend, staged, kept, beside, last, corrupt, saving, doubt>>
    BY <1>3, EditType DEF KvInv
  <2>2. Loaded' = Loaded
    BY <2>1 DEF Loaded
  <2>3. KvTypeOK' /\ SaveInv'
    BY <2>1 DEF KvInv, KvTypeOK, SaveInv, Idle
  <2>4. CleanInv'
    BY <2>1, <2>2 DEF KvInv, CleanInv, Idle, On, Dict
  <2>5. QED
    BY <2>3, <2>4 DEF KvInv
<1>4. CASE Commit \/ CommitIfChanged
  <2>1. /\ Idle /\ UNCHANGED <<backend, staged, kept, beside, data, last, corrupt, doubt>>
        /\ \/ saving' = saving /\ dirty' = FALSE /\ data = last
           \/ saving' = data /\ dirty' = dirty
    BY <1>4 DEF Commit, CommitIfChanged, Persist, Medium
  <2>2. Loaded' = Loaded
    BY <2>1 DEF Loaded
  <2>3. KvTypeOK' /\ SaveInv'
    BY <2>1 DEF KvInv, KvTypeOK, SaveInv, Idle, On
  <2>4. CleanInv'
    BY <2>1, <2>2, DictType DEF KvInv, KvTypeOK, CleanInv, Idle, On, Dict
  <2>5. QED
    BY <2>3, <2>4 DEF KvInv
<1>5. CASE WriteInPlace
  BY <1>5, DictType DEF WriteInPlace, Saved, KvInv, KvTypeOK, SaveInv, CleanInv, On, Loaded
<1>6. CASE WriteTmp
  <2>1. /\ saving # None /\ backend = "littlefs" /\ saving' \in {saving, None}
        /\ UNCHANGED <<backend, data, last, dirty, corrupt, kept, doubt>>
        /\ \/ saving' = saving /\ beside' = saving /\ staged' = TRUE
           \/ beside' \in {None, Torn} /\ staged' = FALSE
    BY <1>6 DEF WriteTmp, SaveFails
  <2>2. KvTypeOK'
    BY <2>1 DEF KvInv, KvTypeOK
  <2>3. SaveInv'
    BY <2>1 DEF KvInv, SaveInv
  <2>4. CleanInv'
    BY <2>1 DEF KvInv, CleanInv, On, Loaded, Dict
  <2>5. QED
    BY <2>2, <2>3, <2>4 DEF KvInv
<1>7. CASE RenameTmp
  <2>1. saving # None /\ backend = "littlefs" /\ beside = saving /\ saving = data
    BY <1>7 DEF RenameTmp, KvInv, SaveInv
  <2>2. KvTypeOK' /\ SaveInv'
    BY <1>7, <2>1 DEF RenameTmp, Saved, SaveFails, KvInv, KvTypeOK, SaveInv
  <2>3. CASE kept' = beside /\ beside' = None /\ Saved
    BY <2>1, <2>2, <2>3, DictType DEF Saved, KvInv, KvTypeOK, CleanInv, On, Loaded, Dict
  <2>4. CASE UNCHANGED <<beside, doubt>> /\ SaveFails
    BY <2>1, <2>2, <2>4 DEF SaveFails, KvInv, CleanInv, On, Loaded, Dict
  <2>5. QED
    BY <1>7, <2>3, <2>4 DEF RenameTmp
<1>8. CASE SetBlob
  <2>1. saving # None /\ backend = "nvs" /\ ~staged /\ saving = data
    BY <1>8 DEF SetBlob, KvInv, SaveInv
  <2>2. KvTypeOK' /\ SaveInv'
    BY <1>8, <2>1 DEF SetBlob, SaveFails, KvInv, KvTypeOK, SaveInv
  <2>3. CASE staged' = TRUE /\ UNCHANGED <<backend, data, last, dirty, corrupt, doubt>>
    BY <2>1, <2>2, <2>3 DEF KvInv, CleanInv, On, Dict
  <2>4. CASE UNCHANGED <<beside, doubt>> /\ SaveFails
    BY <2>1, <2>2, <2>4 DEF SaveFails, KvInv, CleanInv, On, Loaded, Dict
  <2>5. QED
    BY <1>8, <2>3, <2>4 DEF SetBlob
<1>9. CASE CommitBlob
  BY <1>9, DictType DEF CommitBlob, Saved, SaveFails, KvInv, KvTypeOK, SaveInv, CleanInv, On, Loaded
<1>10. CASE PowerFails
  BY <1>10 DEF PowerFails, KvInv, KvTypeOK, SaveInv, CleanInv, On
<1>11. CASE UNCHANGED kvVars
  BY <1>11 DEF kvVars, KvInv, KvTypeOK, SaveInv, CleanInv, On, Loaded, Dict
<1>12. QED
  BY <1>1, <1>2, <1>3, <1>4, <1>5, <1>6, <1>7, <1>8, <1>9, <1>10, <1>11 DEF KvNext, Save

LEMMA KvInvariant == KvSpec => []KvInv
  BY InitInv, NextInv, PTL DEF KvSpec

(* commit_if_changed() skips nothing that matters, whatever the backend.    *)
THEOREM CleanCorrect == KvSpec => []CleanIsSaved
<1>1. KvInv => CleanIsSaved
  BY DictType DEF KvInv, SaveInv, CleanInv, CleanIsSaved, Idle
<1>2. QED
  BY <1>1, KvInvariant, PTL

-----------------------------------------------------------------------------
(* The refinement: every step of the store is a step of AtomicStore.        *)
LEMMA StoreInit == KvInit => Atomic!Init
<1> SUFFICES ASSUME KvInit PROVE Atomic!Init
  OBVIOUS
<1>1. data = None /\ last = Blank /\ saving = None /\ kept = Blank /\ beside = None
  BY DEF KvInit
<1>2. QED
  BY <1>1, DictType DEF MayFind, Atomic!Init

LEMMA StoreStep == KvInv /\ [KvNext]_kvVars => [Atomic!Next]_Atomic!view
<1> SUFFICES ASSUME KvInv, [KvNext]_kvVars PROVE Atomic!Next \/ UNCHANGED Atomic!view
  OBVIOUS
<1> USE StoreAssumption, DictType
<1> None \notin Contents /\ Blank \notin Contents /\ Torn \notin Contents
  OBVIOUS
<1>1. CASE Construct
  BY <1>1 DEF Construct, Medium, Loaded, KvInv, KvTypeOK, SaveInv, MayFind, Dict, Atomic!Next, Atomic!Start
<1>2. CASE Reload
  BY <1>2 DEF Reload, Medium, Loaded, Idle, On, KvInv, KvTypeOK, SaveInv, MayFind, Dict, Atomic!view, Atomic!Next, Atomic!Reload
<1>3. CASE Edit
  BY <1>3, EditType DEF Idle, On, KvInv, KvTypeOK, SaveInv, MayFind, Dict, Atomic!Next, Atomic!Change
<1>4. CASE Commit \/ CommitIfChanged
  BY <1>4 DEF Commit, CommitIfChanged, Persist, Medium, Idle, On, KvInv, KvTypeOK, SaveInv, MayFind, Dict,
       Atomic!view, Atomic!Next, Atomic!Begin
<1>5. CASE WriteInPlace
  BY <1>5 DEF WriteInPlace, Saved, KvInv, KvTypeOK, SaveInv, MayFind, Dict, Atomic!Next, Atomic!Confirm
<1>6. CASE WriteTmp
  <2>1. saving # None /\ backend = "littlefs"
    BY <1>6 DEF WriteTmp
  <2>2. UNCHANGED <<backend, data, last, kept>> /\ saving' \in {saving, None}
    BY <1>6 DEF WriteTmp, SaveFails
  <2>3. MayFind' \subseteq MayFind /\ MayFind' # {}
    BY <2>1, <2>2 DEF MayFind, Dict
  <2>4. UNCHANGED <<data, Dict(last), backend>> /\ saving # None /\ (saving' # None) \in BOOLEAN
    BY <2>1, <2>2 DEF Dict
  <2>5. Atomic!Continue
    BY <2>3, <2>4 DEF Atomic!Continue
  <2>6. QED
    BY <2>5 DEF Atomic!Next
<1>7. CASE RenameTmp
  <2>1. saving # None /\ backend = "littlefs" /\ beside = saving /\ saving = data
    BY <1>7 DEF RenameTmp, KvInv, SaveInv
  <2>2. CASE kept' = beside /\ beside' = None /\ Saved
    BY <2>1, <2>2 DEF Saved, KvInv, KvTypeOK, MayFind, Dict, Atomic!Next, Atomic!Confirm
  <2>3. CASE UNCHANGED <<beside, doubt>> /\ SaveFails
    <3>1. MayFind' \subseteq MayFind /\ MayFind' # {}
      BY <2>1, <2>3 DEF SaveFails, MayFind, Dict
    <3>2. UNCHANGED <<data, Dict(last), backend>> /\ saving # None /\ saving' = None
      BY <2>1, <2>3 DEF SaveFails, Dict
    <3>3. QED
      BY <3>1, <3>2 DEF Atomic!Next, Atomic!Continue
  <2>4. QED
    BY <1>7, <2>2, <2>3 DEF RenameTmp
<1>8. CASE SetBlob
  <2>1. saving # None /\ backend = "nvs" /\ UNCHANGED <<backend, data, last, kept>>
    BY <1>8 DEF SetBlob, SaveFails
  <2>2. \/ beside' = saving /\ saving' = saving
        \/ beside' = beside /\ saving' = None
    BY <1>8 DEF SetBlob, SaveFails
  <2>3. MayFind' \subseteq MayFind /\ MayFind' # {}
    BY <2>1, <2>2 DEF MayFind, Dict
  <2>4. UNCHANGED <<data, Dict(last), backend>> /\ saving # None /\ (saving' # None) \in BOOLEAN
    BY <2>1, <2>2 DEF Dict
  <2>5. Atomic!Continue
    BY <2>3, <2>4 DEF Atomic!Continue
  <2>6. QED
    BY <2>5 DEF Atomic!Next
<1>9. CASE CommitBlob
  <2>1. saving # None /\ backend = "nvs" /\ beside = saving /\ saving = data
    BY <1>9 DEF CommitBlob, KvInv, SaveInv
  <2>2. CASE kept' = beside /\ beside' = None /\ Saved
    BY <2>1, <2>2 DEF Saved, KvInv, KvTypeOK, MayFind, Dict, Atomic!Next, Atomic!Confirm
  <2>3. CASE UNCHANGED beside /\ SaveFails
    <3>1. MayFind' \subseteq MayFind /\ MayFind' # {}
      BY <2>1, <2>3 DEF SaveFails, MayFind, Dict
    <3>2. UNCHANGED <<data, Dict(last), backend>> /\ saving # None /\ saving' = None
      BY <2>1, <2>3 DEF SaveFails, Dict
    <3>3. QED
      BY <3>1, <3>2 DEF Atomic!Next, Atomic!Continue
  <2>4. QED
    BY <1>9, <2>2, <2>3 DEF CommitBlob
<1>10. CASE PowerFails
  BY <1>10 DEF PowerFails, On, KvInv, KvTypeOK, SaveInv, MayFind, Dict, Atomic!Next, Atomic!PowerFails
<1>11. CASE UNCHANGED kvVars
  BY <1>11 DEF kvVars, Atomic!view, MayFind, Dict
<1>12. QED
  BY <1>1, <1>2, <1>3, <1>4, <1>5, <1>6, <1>7, <1>8, <1>9, <1>10, <1>11 DEF KvNext, Save

(* A start finds the dict last confirmed, or one whose save was begun since,*)
(* for every backend; but on nvm, which is written in place, a save that is *)
(* cut short by the power may lose both.                                    *)
THEOREM StoreIsAtomic == KvSpec => ImplementsAtomicStore
  BY StoreInit, StoreStep, KvInvariant, PTL DEF KvSpec, ImplementsAtomicStore, Atomic!Spec
=============================================================================
