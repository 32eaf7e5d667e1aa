---------------------------- MODULE KeyValueStore ----------------------------
(***************************************************************************)
(* KVStore of chumicro_kvstore over each of its backends: the dict, what is *)
(* known of the medium, and the steps of a save, between any two of which   *)
(* the power may fail.  A payload is the dict it encodes; dicts keep no     *)
(* order on the boards, so that equal dicts may have payloads that differ.  *)
(***************************************************************************)
EXTENDS Naturals, FiniteSets

CONSTANTS
  Keys, Values,
  Absent,    \* the value of a key that is not in the dict
  Backends,  \* subset of "nvm", "littlefs", "nvs", "memory"
  Capacity,  \* the number of entries whose payload fits
  None,
  Blank, Torn  \* a medium without a payload: erased, or cut off

Contents == [Keys -> Values \cup {Absent}]
Empty    == [k \in Keys |-> Absent]

ASSUME StoreAssumption ==
  /\ Absent \notin Values /\ Capacity \in Nat
  /\ Backends \subseteq {"nvm", "littlefs", "nvs", "memory"}
  /\ {None, Blank, Torn} \cap Contents = {}
  /\ None # Blank /\ None # Torn /\ Blank # Torn

VARIABLES
  backend,
  data, last, dirty, corrupt,  \* _data, _last_payload, _dirty, is_corrupt
  saving,  \* the payload of the save under way, or None
  staged,  \* the first of its two steps is done
  kept,    \* what the medium holds: a payload, Blank or Torn
  beside,  \* littlefs: the temporary file; nvs: the blob not committed yet
  doubt    \* history: a failed call left the medium or the dict as _dirty does not tell

kvVars == <<backend, data, last, dirty, corrupt, saving, staged, kept, beside, doubt>>

KvInit ==
  /\ backend \in Backends
  /\ data = None /\ last = Blank /\ dirty = FALSE /\ corrupt = FALSE
  /\ saving = None /\ staged = FALSE /\ kept = Blank /\ beside = None /\ doubt = FALSE

Medium == <<backend, staged, kept, beside>>
On     == data # None
Idle   == On /\ saving = None

-----------------------------------------------------------------------------
(* load(): nvs shows its blob before it is committed.                       *)
Loaded == IF backend = "nvs" /\ beside # None THEN beside ELSE kept
Dict(payload) == IF payload \in Contents THEN payload ELSE Empty

(* __init__: the constructor parks the store empty over what is corrupt;    *)
(* also nvs that cannot be read counts as corrupt.                          *)
Construct ==
  /\ data = None
  /\ dirty' = FALSE /\ doubt' = FALSE
  /\ \/ /\ Loaded # Torn
        /\ data' = Dict(Loaded) /\ last' = Loaded /\ corrupt' = FALSE
     \/ /\ Loaded = Torn \/ backend = "nvs"
        /\ data' = Empty /\ last' = Blank /\ corrupt' = TRUE
  /\ UNCHANGED <<Medium, saving>>

(* reload(): _dirty is cleared before the load, which may raise.            *)
Reload ==
  /\ Idle /\ dirty' = FALSE
  /\ \/ /\ Loaded # Torn
        /\ data' = Dict(Loaded) /\ last' = Loaded /\ corrupt' = FALSE /\ doubt' = FALSE
     \/ /\ Loaded = Torn \/ backend \in {"nvs", "littlefs"}
        /\ doubt' = TRUE /\ UNCHANGED <<data, last, corrupt>>
  /\ UNCHANGED <<Medium, saving>>

-----------------------------------------------------------------------------
(* The dict operations.  A KeyError changes nothing.                        *)
Changed(dict) ==
  /\ Idle /\ data' = dict /\ dirty' = TRUE
  /\ UNCHANGED <<Medium, last, corrupt, saving, doubt>>

SetItem(k, v)  == Changed([data EXCEPT ![k] = v])
DelItem(k)     == data[k] # Absent /\ Changed([data EXCEPT ![k] = Absent])
PopDefault(k)  == Changed([data EXCEPT ![k] = Absent])
Clear          == Changed(Empty)
Update(other)  == Changed([k \in Keys |-> IF other[k] = Absent THEN data[k] ELSE other[k]])

Edit ==
  /\ Idle
  /\ \/ \E k \in Keys : (\E v \in Values : SetItem(k, v)) \/ DelItem(k) \/ PopDefault(k)
     \/ Clear
     \/ \E other \in Contents : Update(other)

-----------------------------------------------------------------------------
(* _persist: a payload that does not fit is refused, and nothing changes.   *)
Fits(dict) == Cardinality({k \in Keys : dict[k] # Absent}) <= Capacity

Persist ==
  /\ Fits(data) /\ saving' = data
  /\ UNCHANGED <<Medium, data, last, dirty, corrupt, doubt>>

Commit == Idle /\ Persist

(* commit_if_changed(): an equal payload is not written again.              *)
CommitIfChanged ==
  /\ Idle /\ dirty
  /\ \/ data = last /\ dirty' = FALSE
        /\ UNCHANGED <<Medium, data, last, corrupt, saving, doubt>>
     \/ Persist

(* A save that returns, and one that raises.                                *)
Saved ==
  /\ last' = saving /\ corrupt' = FALSE /\ dirty' = FALSE /\ saving' = None
  /\ staged' = FALSE /\ doubt' = FALSE /\ UNCHANGED <<backend, data>>

SaveFails_Forgets ==                          \* mutant: _dirty cleared before the save
  saving' = None /\ staged' = FALSE /\ dirty' = FALSE /\ UNCHANGED <<backend, data, last, corrupt, kept>>
SaveFails ==
  saving' = None /\ staged' = FALSE /\ UNCHANGED <<backend, data, last, dirty, corrupt, kept>>

(* cp_nvm, and memory: one assignment.                                      *)
WriteInPlace ==
  /\ saving # None /\ backend \in {"nvm", "memory"}
  /\ kept' = saving /\ UNCHANGED beside /\ Saved

(* mp_littlefs: the payload goes to a temporary file, which is removed      *)
(* again, if it can be, when the write fails; then it is renamed.           *)
WriteTmp ==
  /\ saving # None /\ backend = "littlefs" /\ ~staged
  /\ \/ beside' = saving /\ staged' = TRUE
        /\ UNCHANGED <<backend, data, last, dirty, corrupt, saving, kept, doubt>>
     \/ beside' \in {None, Torn} /\ UNCHANGED doubt /\ SaveFails

RenameTmp ==
  /\ saving # None /\ backend = "littlefs" /\ staged
  /\ \/ kept' = beside /\ beside' = None /\ Saved
     \/ UNCHANGED <<beside, doubt>> /\ SaveFails

(* mp_nvs: set_blob, then commit; a commit that fails leaves the blob.      *)
SetBlob ==
  /\ saving # None /\ backend = "nvs" /\ ~staged
  /\ \/ beside' = saving /\ staged' = TRUE
        /\ UNCHANGED <<backend, data, last, dirty, corrupt, saving, kept, doubt>>
     \/ UNCHANGED <<beside, doubt>> /\ SaveFails

CommitBlob_Unchecked ==                       \* mutant: an error of commit is swallowed
  /\ saving # None /\ backend = "nvs" /\ staged
  /\ \/ kept' = beside /\ beside' = None
     \/ UNCHANGED <<kept, beside>>
  /\ Saved
CommitBlob ==
  /\ saving # None /\ backend = "nvs" /\ staged
  /\ \/ kept' = beside /\ beside' = None /\ Saved
     \/ doubt' = TRUE /\ UNCHANGED beside /\ SaveFails

Save == WriteInPlace \/ WriteTmp \/ RenameTmp \/ SetBlob \/ CommitBlob

(* The power fails.  The slab of nvm is erased and written; a blob of nvs   *)
(* that was not committed may be there or not; a temporary file stays.      *)
PowerFails ==
  /\ On /\ backend # "memory"
  /\ data' = None /\ saving' = None /\ staged' = FALSE /\ last' = Blank
  /\ dirty' = FALSE /\ corrupt' = FALSE /\ doubt' = FALSE
  /\ kept' \in {kept}
       \cup (IF backend = "nvm" /\ saving # None THEN {saving, Torn, Blank} ELSE {})
       \cup (IF backend = "nvs" THEN {beside, saving} \ {None} ELSE {})
  /\ beside' = IF backend = "littlefs" THEN beside ELSE None
  /\ UNCHANGED backend

KvNext == Construct \/ Reload \/ Edit \/ Commit \/ CommitIfChanged \/ Save \/ PowerFails

KvSpec == KvInit /\ [][KvNext]_kvVars

-----------------------------------------------------------------------------
(* The dicts the next start may find.                                       *)
MayFind ==
  {Dict(kept)}
    \cup (IF saving = None THEN {} ELSE {saving})
    \cup (IF saving # None /\ backend = "nvm" THEN {Empty} ELSE {})
    \cup (IF backend = "nvs" /\ beside # None THEN {beside} ELSE {})

(* Saves are atomic and confirmed ones durable, whatever fails on the way;  *)
(* only nvm may lose its contents, in a power failure during a save.        *)
Atomic == INSTANCE AtomicStore WITH
  Off    <- None,
  now    <- data,
  known  <- Dict(last),
  may    <- MayFind,
  saving <- saving # None,
  lossy  <- backend = "nvm"
ImplementsAtomicStore == Atomic!Spec

(* commit_if_changed() skips nothing that matters: a store that is not      *)
(* dirty shows what a load would find, unless it told of corruption, or a   *)
(* failed reload or commit left the medium in doubt.                        *)
CleanIsSaved == Idle /\ ~dirty /\ ~corrupt /\ ~doubt => data = Dict(Loaded)
=============================================================================
