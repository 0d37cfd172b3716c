------------------------------- MODULE StoreFile -------------------------------
(***************************************************************************)
(* The controller's store.json.  Every mutation changes the memory under   *)
(* the store's lock and then writes all of it over the file: os.WriteFile  *)
(* truncates the file and writes, so that an error or a kill (there is no  *)
(* signal handler) between the two leaves the file empty or torn.          *)
(***************************************************************************)
EXTENDS Naturals

CONSTANTS
  Mutation,  \* the mutations that requests may ask for
  Careless   \* those whose handlers do not look whether the save failed

(* Binding a machine when an agent registers or reports, taking back a     *)
(* second active PBR policy, and POST /api/v1/entries.                     *)
ASSUME CarelessAssumption == Careless \subseteq Mutation

VARIABLES
  running,  \* "yes" while the controller runs
  memory,   \* the mutations that Store.data shows
  saving,   \* "no", or how far the save that holds the lock has come
  asked,    \* the mutations whose answer depends on that save: at most one
  file,     \* what is in the file: "missing", "empty", "torn" or "whole"
  data,     \* the mutations a whole file shows
  acked,    \* history: answered well, since the controller last began with nothing
  refused,  \* history: answered with an error (STORE_ERROR)
  unsaved,  \* history: answered well though the save failed, and not on file since
  last      \* history: what was answered last since the controller started

storeVars == <<running, memory, saving, asked, file, data, acked, refused, unsaved, last>>

StoreTypeOK ==
  /\ running \in {"yes", "no"}
  /\ memory \subseteq Mutation
  /\ saving \in {"no", "open", "write"}
  /\ asked \subseteq Mutation
  /\ file \in {"missing", "empty", "torn", "whole"}
  /\ data \subseteq Mutation
  /\ acked \subseteq Mutation /\ refused \subseteq Mutation
  /\ unsaved \subseteq Mutation /\ last \subseteq Mutation

StoreInit ==
  /\ running = "no" /\ memory = {} /\ saving = "no" /\ asked = {}
  /\ file = "missing" /\ data = {}
  /\ acked = {} /\ refused = {} /\ unsaved = {} /\ last = {}

(* OpenStore.  No file, an empty one and one that cannot be read (whatever *)
(* is in it) make an empty store; a torn one that is read is no JSON, and  *)
(* the controller exits again.                                             *)
Loads(m) ==
  \/ file = "whole" /\ m = data
  \/ m = {}

Start ==
  /\ running = "no"
  /\ running' = "yes"
  /\ Loads(memory')
  /\ acked' = IF memory' = {} THEN {} ELSE acked
  /\ refused' = IF memory' = {} THEN {} ELSE refused
  /\ unsaved' = IF memory' = {} THEN {} ELSE unsaved
  /\ UNCHANGED <<saving, asked, file, data, last>>

(* A handler takes the lock and changes the memory. *)
Mutant_ForgetsToSave(m) ==
  /\ running = "yes" /\ saving = "no" /\ m \notin acked \cup refused
  /\ memory' = memory \cup {m}
  /\ acked' = acked \cup {m} /\ last' = {m}
  /\ UNCHANGED <<running, saving, asked, file, data, refused, unsaved>>
Mutate(m) ==
  /\ running = "yes" /\ saving = "no" /\ m \notin acked \cup refused
  /\ memory' = memory \cup {m}
  /\ asked' = {m}
  /\ saving' = "open"
  /\ UNCHANGED <<running, file, data, acked, refused, unsaved, last>>

(* saveLocked: the file is opened, and truncated by that; *)
OpenFile ==
  /\ saving = "open"
  /\ saving' = "write"
  /\ file' = "empty" /\ data' = {}
  /\ UNCHANGED <<running, memory, asked, acked, refused, unsaved, last>>

(* some of the text is written; *)
WriteSome ==
  /\ saving = "write" /\ file = "empty"
  /\ file' = "torn"
  /\ UNCHANGED <<running, memory, saving, asked, data, acked, refused, unsaved, last>>

(* all of it is; *)
WriteAll ==
  /\ saving = "write"
  /\ file' = "whole" /\ data' = memory
  /\ saving' = "no" /\ asked' = {}
  /\ acked' = acked \cup asked /\ last' = asked
  /\ unsaved' = unsaved \ memory
  /\ UNCHANGED <<running, memory, refused>>

(* or there is an error.  The memory keeps what was changed; a handler     *)
(* answers STORE_ERROR, or goes on as if nothing had happened.             *)
Mutant_ErrorIgnored ==
  /\ saving \in {"open", "write"}
  /\ saving' = "no" /\ asked' = {}
  /\ acked' = acked \cup asked /\ last' = asked
  /\ UNCHANGED <<running, memory, file, data, refused, unsaved>>
Mutant_LockKept ==
  /\ saving \in {"open", "write"}
  /\ saving' = "failed" /\ asked' = {}
  /\ refused' = refused \cup asked /\ last' = asked
  /\ UNCHANGED <<running, memory, file, data, acked, unsaved>>
SaveFails ==
  /\ saving \in {"open", "write"}
  /\ saving' = "no" /\ asked' = {} /\ last' = asked
  /\ acked' = acked \cup (asked \cap Careless)
  /\ unsaved' = unsaved \cup (asked \cap Careless)
  /\ refused' = refused \cup (asked \ Careless)
  /\ UNCHANGED <<running, memory, file, data>>

(* The controller is stopped or killed. *)
Kill ==
  /\ running = "yes"
  /\ running' = "no" /\ memory' = {} /\ saving' = "no" /\ asked' = {} /\ last' = {}
  /\ UNCHANGED <<file, data, acked, refused, unsaved>>

StoreNext ==
  \/ Start
  \/ \E m \in Mutation : Mutate(m)
  \/ OpenFile
  \/ WriteSome
  \/ WriteAll
  \/ SaveFails
  \/ Kill

StoreSpec == StoreInit /\ [][StoreNext]_storeVars

-----------------------------------------------------------------------------
(* A restart is all or nothing: a controller that did not begin with an    *)
(* empty store shows every mutation it has acknowledged, whatever saves    *)
(* failed, and wherever earlier ones were cut short.  Only what a careless *)
(* handler acknowledged without a save is lost, if no later save wrote it. *)
AllOrNothing == running = "yes" => acked \ unsaved \subseteq memory

(* A good answer of a handler that looks at the error means that all of    *)
(* the memory is on file, until the next request: whatever saves failed    *)
(* before, and also what careless handlers have changed meanwhile.         *)
AckedIsOnFile ==
  running = "yes" /\ saving = "no" /\ last # {} /\ last \subseteq acked \ Careless
  => file = "whole" /\ data = memory
=============================================================================
