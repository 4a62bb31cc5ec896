---------------------------- MODULE ProfileStore ----------------------------
(***************************************************************************)
(* The profile commands of the trierarch CLI: create, config (edit in a    *)
(* copy, then rename into place) and delete, run by processes that         *)
(* interleave at file system calls and may be killed between any two.      *)
(* A document is its id and a version that names its contents.             *)
(***************************************************************************)
EXTENDS Integers, FiniteSets

CONSTANTS
  Processes, Ids,
  MaxVersion,    \* bound on documents ever written
  Null,
  Empty          \* the contents of a file just created

Document == [id : Ids, version : 1..MaxVersion]

VARIABLES
  profile,    \* per id: the document in <id>.toml, or Null
  temporary,  \* per id: the document in .<id>.edit.tmp, or Null
  backup,     \* per id: the document in .<id>.rename-backup.tmp, or Null
  pc,         \* per process: the call it makes next
  id,         \* per process: its argument
  new_id,     \* per process: edited_profile_id
  last,       \* the last version written
  owed        \* history: documents saved and neither replaced by an edit nor deleted

files == <<profile, temporary, backup>>
vars == <<files, pc, id, new_id, last, owed>>

Goto(p, where) == pc' = [pc EXCEPT ![p] = where]
Fails(p) == Goto(p, "idle")
Put(f, i, d) == [f EXCEPT ![i] = d]

-----------------------------------------------------------------------------
\* profile.exists(), then create_new: the kernel refuses an existing file.
create_profile(p, i) ==
  /\ pc[p] = "idle" /\ profile[i] = Null /\ last < MaxVersion
  /\ profile' = Put(profile, i, Empty)
  /\ id' = [id EXCEPT ![p] = i]
  /\ Goto(p, "write")
  /\ UNCHANGED <<temporary, backup, new_id, last, owed>>

\* The template is written to the file, if the file is still where it was created.
write_template(p) ==
  /\ pc[p] = "write" /\ last < MaxVersion
  /\ last' = last + 1
  /\ IF profile[id[p]] = Empty
     THEN /\ profile' = Put(profile, id[p], [id |-> id[p], version |-> last'])
          /\ owed' = owed \cup {profile'[id[p]]}
     ELSE UNCHANGED <<profile, owed>>
  /\ Goto(p, "idle")
  /\ UNCHANGED <<temporary, backup, id, new_id>>

\* existing_profile_path, then a question that takes its time.
delete_ask(p, i) ==
  /\ pc[p] = "idle" /\ profile[i] # Null
  /\ id' = [id EXCEPT ![p] = i]
  /\ Goto(p, "delete")
  /\ UNCHANGED <<files, new_id, last, owed>>

delete_profile(p) ==
  /\ pc[p] = "delete"
  /\ profile' = Put(profile, id[p], Null)
  /\ owed' = owed \ {profile[id[p]]}
  /\ Goto(p, "idle")
  /\ UNCHANGED <<temporary, backup, id, new_id, last>>

-----------------------------------------------------------------------------
(* edit_profile.                                                           *)

\* The original and the absence of an edited copy are checked.
edit_profile(p, i) ==
  /\ pc[p] = "idle" /\ profile[i] # Null /\ temporary[i] = Null
  /\ id' = [id EXCEPT ![p] = i]
  /\ Goto(p, "copy")
  /\ UNCHANGED <<files, new_id, last, owed>>

copy(p) ==
  /\ pc[p] = "copy"
  /\ IF profile[id[p]] = Null THEN Fails(p) /\ UNCHANGED temporary
     ELSE Goto(p, "editor") /\ temporary' = Put(temporary, id[p], profile[id[p]])
  /\ UNCHANGED <<profile, backup, id, new_id, last, owed>>

\* The user writes another document, with the same or another id.
editor(p) ==
  /\ pc[p] = "editor" /\ last < MaxVersion
  /\ last' = last + 1
  /\ \E i \in Ids : temporary' = Put(temporary, id[p], [id |-> i, version |-> last'])
  /\ Goto(p, "check")
  /\ UNCHANGED <<profile, backup, id, new_id, owed>>

\* The editor fails, or the document has no valid id: the copy is kept.
editor_fails(p) ==
  /\ pc[p] = "editor"
  /\ Fails(p)
  /\ UNCHANGED <<files, id, new_id, last, owed>>

edited_profile_id(p) ==
  /\ pc[p] = "check"
  /\ IF temporary[id[p]] \notin Document THEN Fails(p) /\ UNCHANGED new_id
     ELSE /\ new_id' = [new_id EXCEPT ![p] = temporary[id[p]].id]
          /\ Goto(p, IF new_id'[p] = id[p] THEN "replace" ELSE "exists")
  /\ UNCHANGED <<files, id, last, owed>>

\* rename(temporary, original)
replace_profile(p) ==
  /\ pc[p] = "replace"
  /\ IF temporary[id[p]] = Null THEN UNCHANGED <<profile, temporary, owed>>
     ELSE /\ profile' = Put(profile, id[p], temporary[id[p]])
          /\ temporary' = Put(temporary, id[p], Null)
          /\ owed' = (owed \ {profile[id[p]]}) \cup {temporary[id[p]]}
  /\ Goto(p, "idle")
  /\ UNCHANGED <<backup, id, new_id, last>>

\* Neither the destination nor an old backup may exist.
ensure_destination(p) ==
  /\ pc[p] = "exists"
  /\ IF profile[new_id[p]] = Null /\ backup[id[p]] = Null THEN Goto(p, "backup") ELSE Fails(p)
  /\ UNCHANGED <<files, id, new_id, last, owed>>

MutRemoveInsteadOfBackup(p) ==
  /\ pc[p] = "backup"
  /\ profile' = Put(profile, id[p], Null)
  /\ Goto(p, "rename")
  /\ UNCHANGED <<temporary, backup, id, new_id, last, owed>>

\* rename(original, backup)
rename_to_backup(p) ==
  /\ pc[p] = "backup"
  /\ IF profile[id[p]] = Null THEN Fails(p) /\ UNCHANGED <<profile, backup>>
     ELSE /\ backup' = Put(backup, id[p], profile[id[p]])
          /\ profile' = Put(profile, id[p], Null)
          /\ Goto(p, "rename")
  /\ UNCHANGED <<temporary, id, new_id, last, owed>>

\* rename(temporary, destination)
rename_to_destination(p) ==
  /\ pc[p] = "rename" /\ temporary[id[p]] # Null
  /\ profile' = Put(profile, new_id[p], temporary[id[p]])
  /\ temporary' = Put(temporary, id[p], Null)
  /\ owed' = (owed \ {backup[id[p]]}) \cup {temporary[id[p]]}
  /\ Goto(p, "cleanup")
  /\ UNCHANGED <<backup, id, new_id, last>>

\* It fails: the original is put back.
restore_original(p) ==
  /\ pc[p] = "rename"
  /\ IF backup[id[p]] = Null THEN UNCHANGED <<profile, backup>>
     ELSE /\ profile' = Put(profile, id[p], backup[id[p]])
          /\ backup' = Put(backup, id[p], Null)
  /\ Goto(p, "idle")
  /\ UNCHANGED <<temporary, id, new_id, last, owed>>

remove_backup(p) ==
  /\ pc[p] = "cleanup"
  /\ backup' = Put(backup, id[p], Null)
  /\ Goto(p, "idle")
  /\ UNCHANGED <<profile, temporary, id, new_id, last, owed>>

-----------------------------------------------------------------------------
\* The process is killed.
Killed(p) ==
  /\ pc[p] # "idle"
  /\ Goto(p, "idle")
  /\ UNCHANGED <<files, id, new_id, last, owed>>

\* The user inspects and removes a leftover edited copy, as the message asks.
RemoveLeftover(i) ==
  /\ temporary[i] # Null /\ \A p \in Processes : pc[p] = "idle"
  /\ temporary' = Put(temporary, i, Null)
  /\ UNCHANGED <<profile, backup, pc, id, new_id, last, owed>>

Init ==
  /\ profile = [i \in Ids |-> Null] /\ temporary = profile /\ backup = profile
  /\ pc = [p \in Processes |-> "idle"]
  /\ id \in [Processes -> {Null}] /\ new_id = id
  /\ last = 0 /\ owed = {}

Edit(p) ==
  \/ copy(p) \/ editor(p) \/ editor_fails(p) \/ edited_profile_id(p) \/ replace_profile(p)
  \/ ensure_destination(p) \/ rename_to_backup(p) \/ rename_to_destination(p)
  \/ restore_original(p) \/ remove_backup(p)

Next ==
  \/ \E p \in Processes :
       \/ \E i \in Ids : create_profile(p, i) \/ delete_ask(p, i) \/ edit_profile(p, i)
       \/ write_template(p) \/ delete_profile(p) \/ Edit(p) \/ Killed(p)
  \/ \E i \in Ids : RemoveLeftover(i)

Spec == Init /\ [][Next]_vars

-----------------------------------------------------------------------------
(* Properties.                                                             *)

\* The state is well typed.
TypeOK ==
  /\ \A f \in {profile, temporary, backup} : f \in [Ids -> Document \cup {Null, Empty}]
  /\ pc \in [Processes -> {"idle", "write", "delete", "copy", "editor", "check", "replace", "exists",
                           "backup", "rename", "cleanup"}]
  /\ id \in [Processes -> Ids \cup {Null}] /\ new_id \in [Processes -> Ids \cup {Null}]

\* A saved document is in a profile or a rename backup until an edit of that
\* profile replaces it or the user deletes it, also when a command is killed.
NothingLost ==
  \A d \in owed : \E i \in Ids : profile[i] = d \/ backup[i] = d

\* Changing an id never replaces a profile that has the new id.
RenamesToFreeId == \A p \in Processes : rename_to_destination(p) => profile[new_id[p]] = Null
RenameNeverReplaces == [][RenamesToFreeId]_vars
=============================================================================
