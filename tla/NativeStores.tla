---------------------------- MODULE NativeStores ----------------------------
(***************************************************************************)
(* What the command line tool keeps in the file system: profiles, which    *)
(* one command at a time edits, and imported root file systems.            *)
(***************************************************************************)
EXTENDS Integers

CONSTANTS
  Nothing,                  \* no document, no tree
  Ids, MaxVersion, Empty,   \* of the profile store
  Commands, MaxImports      \* of the rootfs store

VARIABLES
  profile, temporary, backup, pc, id, new_id, last, owed,
  r_pc, archive, tree, imports, staging, destination, opened, whole, emptied

Profiles == INSTANCE ProfileStore WITH Processes <- {"cli"}, Null <- Nothing

Rootfs == INSTANCE RootfsStore WITH None <- Nothing, pc <- r_pc

ASSUME StoresAssumption ==
  /\ Nothing \notin 0..MaxImports /\ {Nothing, Empty} \cap Ids = {} /\ Nothing # Empty
  /\ {MaxVersion, MaxImports} \subseteq Nat

profileVars == <<profile, temporary, backup, pc, id, new_id, last, owed>>
rootfsVars == <<r_pc, archive, tree, imports, staging, destination, opened, whole, emptied>>

-----------------------------------------------------------------------------

\* cli/mod.rs replace_profile_with_edited_copy: a saved document is in a profile
\* or in a rename backup until an edit replaces it or the user deletes it, also
\* when the command is killed between two file system calls.
NoProfileLost == Profiles!NothingLost

\* rootfs.rs import_into_staging: the tree under a name is complete and validated
\* unless a removal opened that very tree, whatever is killed, fails or runs at
\* the same time.
InstalledIsWhole == Rootfs!InstalledIsWhole
=============================================================================
