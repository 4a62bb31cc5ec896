---------------------------- MODULE RootfsStore -----------------------------
(***************************************************************************)
(* The store of imported root file systems: `trierarch` commands that      *)
(* import an archive under a name, or remove the name, one file-system     *)
(* call at a time.  Commands run concurrently and are killed at any call.  *)
(* One name is modelled, since commands on different names touch nothing   *)
(* in common.                                                              *)
(***************************************************************************)
EXTENDS Integers

CONSTANTS
  Commands,     \* commands that may run at the same time
  MaxImports,   \* bound on imports ever started
  None

\* What an archive holds: a rootfs, a rootfs in one wrapper directory, no
\* rootfs, or bytes that do not decode.
Archives == {"direct", "wrapped", "no_rootfs", "corrupt"}

VARIABLES
  pc, archive,
  tree,          \* the import a command works on, or the tree it removes
  imports,
  staging,       \* what stands in the staging directory of each import
  destination,   \* the tree under the name, None if the name is free
  opened,        \* history: trees a removal opened
  whole,         \* trees that are complete and validated
  emptied        \* trees whose directory has no entries left

vars == <<pc, archive, tree, imports, staging, destination, opened, whole, emptied>>

Goto(c, label) == pc' = [pc EXCEPT ![c] = label]

-----------------------------------------------------------------------------
(* import_xz_tar                                                           *)

\* The name is checked here, long before the rename.
import_xz_tar(c, a) ==
  /\ pc[c] = "idle" /\ destination = None /\ imports < MaxImports
  /\ imports' = imports + 1
  /\ tree' = [tree EXCEPT ![c] = imports']
  /\ archive' = [archive EXCEPT ![c] = a]
  /\ Goto(c, "create")
  /\ UNCHANGED <<staging, destination, opened, whole, emptied>>

\* Each step of import_into_staging leaves the staging directory as `made`, or
\* fails, the file system being full for instance, and leaves it half done.
Step(c, from, ok, made, to) ==
  /\ pc[c] = from
  /\ \/ ok /\ staging' = [staging EXCEPT ![tree[c]] = made] /\ Goto(c, to)
     \/ Goto(c, "fail") /\ UNCHANGED staging
  /\ UNCHANGED <<archive, tree, imports, destination, opened, whole, emptied>>

create_staging(c) == Step(c, "create", TRUE, "payload", "extract")

extract_xz_tar(c) == Step(c, "extract", archive[c] # "corrupt", "extracted", "select")

select_rootfs(c) ==
  Step(c, "select", archive[c] \in {"direct", "wrapped"}, "extracted", "setup")

setup_proot_compatibility(c) == Step(c, "setup", TRUE, "set_up", "validate")

validate_rootfs(c) == Step(c, "validate", staging[tree[c]] = "set_up", "valid", "restore")

restore_directory_permissions(c) == Step(c, "restore", TRUE, "valid", "rename")

MutInstallBeforeSetup(c) ==
  /\ pc[c] = "setup" /\ (destination = None \/ destination \in emptied)
  /\ destination' = tree[c]
  /\ whole' = IF staging[tree[c]] = "valid" THEN whole \cup {tree[c]} ELSE whole
  /\ staging' = [staging EXCEPT ![tree[c]] = "rest"]
  /\ Goto(c, "clean")
  /\ UNCHANGED <<archive, tree, imports, opened, emptied>>

\* rename(2) takes the place of an empty directory, never of one with entries.
install(c) ==
  /\ pc[c] = "rename"
  /\ \/ /\ destination = None \/ destination \in emptied
        /\ destination' = tree[c]
        /\ whole' = IF staging[tree[c]] = "valid" THEN whole \cup {tree[c]} ELSE whole
        /\ staging' = [staging EXCEPT ![tree[c]] = "rest"]
        /\ Goto(c, "clean")
     \/ Goto(c, "fail") /\ UNCHANGED <<destination, whole, staging>>
  /\ UNCHANGED <<archive, tree, imports, opened, emptied>>

\* remove_dir_all of the staging directory, after success or failure; its own
\* failure is ignored.
remove_staging(c) ==
  /\ pc[c] \in {"clean", "fail"}
  /\ \/ staging' = [staging EXCEPT ![tree[c]] = "none"]
     \/ UNCHANGED staging
  /\ Goto(c, "idle")
  /\ UNCHANGED <<archive, tree, imports, destination, opened, whole, emptied>>

-----------------------------------------------------------------------------
(* remove_imported: remove_dir_all opens the directory, empties what it    *)
(* opened, and removes the name.                                           *)

remove_imported(c) ==
  /\ pc[c] = "idle" /\ destination # None
  /\ tree' = [tree EXCEPT ![c] = destination]
  /\ opened' = opened \cup {destination}
  /\ Goto(c, "removing")
  /\ UNCHANGED <<archive, imports, staging, destination, whole, emptied>>

RemoveEntries(c) ==
  /\ pc[c] = "removing"
  /\ whole' = whole \ {tree[c]}
  /\ \/ emptied' = emptied \cup {tree[c]} /\ Goto(c, "rmdir")
     \/ UNCHANGED <<emptied, pc>>
     \/ Goto(c, "idle") /\ UNCHANGED emptied
  /\ UNCHANGED <<archive, tree, imports, staging, destination, opened>>

RemoveName(c) ==
  /\ pc[c] = "rmdir"
  /\ destination' = IF destination \in emptied THEN None ELSE destination
  /\ Goto(c, "idle")
  /\ UNCHANGED <<archive, tree, imports, staging, opened, whole, emptied>>

-----------------------------------------------------------------------------

Killed(c) ==
  /\ pc[c] # "idle"
  /\ Goto(c, "idle")
  /\ UNCHANGED <<archive, tree, imports, staging, destination, opened, whole, emptied>>

\* The name is free, or tree 0 was imported earlier.
Init ==
  /\ pc = [c \in Commands |-> "idle"]
  /\ archive = [c \in Commands |-> "direct"]
  /\ tree = [c \in Commands |-> 0]
  /\ imports = 0
  /\ staging = [i \in 0..MaxImports |-> "none"]
  /\ destination \in {None, 0}
  /\ whole = {0} /\ emptied = {} /\ opened = {}

Import(c) ==
  \/ \E a \in Archives : import_xz_tar(c, a)
  \/ create_staging(c) \/ extract_xz_tar(c) \/ select_rootfs(c)
  \/ setup_proot_compatibility(c) \/ validate_rootfs(c)
  \/ restore_directory_permissions(c) \/ install(c) \/ remove_staging(c)

Remove(c) == remove_imported(c) \/ RemoveEntries(c) \/ RemoveName(c)

Next == \E c \in Commands : Import(c) \/ Remove(c) \/ Killed(c)

Spec == Init /\ [][Next]_vars

-----------------------------------------------------------------------------

\* Commands are at a step of one of the two functions, trees are imports.
TypeOK ==
  /\ pc \in [Commands -> {"idle", "create", "extract", "select", "setup", "validate",
                          "restore", "rename", "clean", "fail", "removing", "rmdir"}]
  /\ archive \in [Commands -> Archives] /\ tree \in [Commands -> 0..MaxImports]
  /\ imports \in 0..MaxImports /\ destination \in {None} \cup 0..MaxImports
  /\ staging \in [0..MaxImports -> {"none", "payload", "extracted", "set_up", "valid", "rest"}]
  /\ whole \cup emptied \cup opened \subseteq 0..MaxImports

\* rootfs.rs import_into_staging: the tree under a name is complete and validated
\* unless a removal opened that very tree, whatever is killed, fails or runs at
\* the same time.
InstalledIsWhole == destination # None => destination \in whole \cup opened
=============================================================================
