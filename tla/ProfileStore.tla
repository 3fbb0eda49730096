---------------------------- MODULE ProfileStore ----------------------------
(***************************************************************************)
(* ProfileStore (gui-gtk/src/profile_store.rs) with its two users: the     *)
(* windows, whose lists are as old as their last refresh, and the logins   *)
(* they start, which read the file of a profile twice, once per phase.     *)
(*                                                                         *)
(* A profile is a directory with config.ovpn and meta.json.  The store     *)
(* writes them one after the other, removes them in any order, and drops   *)
(* every error.  All calls of the store come from the user interface's     *)
(* thread, one at a time; a second start of the program opens a second     *)
(* window with a list and a service of its own in the same process.  The   *)
(* program may be killed between any two steps; the directory stays.       *)
(***************************************************************************)
EXTENDS Naturals

CONSTANTS
  Ids,       \* what Uuid::new_v4() may return
  Contents,  \* what the user may import
  Windows,
  None, Part \* a file that is not there; a file that was not written to its end

ASSUME ProfileStoreAssumption ==
  /\ None \notin Ids \cup Windows \cup Contents \cup {Part}
  /\ Part \notin Contents

VARIABLES
  dir,      \* dir[id]: the two files of a profile
  op,       \* the call of the store that is running
  rows,     \* rows[w][id]: is there a row, with the path of a config.ovpn
  login,    \* login[w]: a login, and what each of its phases has read
  imported, \* imported[id]: what was imported as id
  kept,     \* the profiles whose import has come to its end
  hurt      \* those that an I/O error or a call of delete() has touched

vars == <<dir, op, rows, login, imported, kept, hurt>>

-----------------------------------------------------------------------------

Files == {"config", "meta"}

order_mutant_meta_first == <<"meta", "config">>

\* import() writes the one that makes the profile visible last.
Order == <<"config", "meta">>

Resting == [call |-> "none", id |-> None, window |-> None, file |-> 1,
            opened |-> FALSE]

NoLogin == [pc |-> "none", id |-> None, path |-> FALSE, first |-> None,
            second |-> None]

NoRows == [id \in Ids |-> "none"]

Data == Contents \cup {None, Part}

TypeOK ==
  /\ dir \in [Ids -> [Files -> Data]]
  /\ op \in [call : {"none", "import", "delete"}, id : Ids \cup {None},
             window : Windows \cup {None}, file : 1..3, opened : BOOLEAN]
  /\ op.call # "none" => op.id # None /\ op.window # None
  /\ rows \in [Windows -> [Ids -> {"none", "bare", "path"}]]
  /\ login \in [Windows -> [pc : {"none", "phase1", "saml", "phase2"},
                            id : Ids \cup {None}, path : BOOLEAN, first : Data,
                            second : Data]]
  /\ \A w \in Windows : login[w].pc # "none" => login[w].id # None
  /\ imported \in [Ids -> Contents \cup {None}]
  /\ kept \subseteq Ids
  /\ hurt \subseteq Ids

Init ==
  /\ dir = [id \in Ids |-> [file \in Files |-> None]]
  /\ op = Resting
  /\ rows = [w \in Windows |-> NoRows]
  /\ login = [w \in Windows |-> NoLogin]
  /\ imported = [id \in Ids |-> None]
  /\ kept = {}
  /\ hurt = {}

-----------------------------------------------------------------------------
(* The store.                                                              *)

\* list(): the directories with a meta.json that can be parsed, as far as the
\* directory and the files could be read; a row has a path if config.ovpn exists.
list(readable) ==
  [id \in Ids |->
     IF id \notin readable \/ dir[id]["meta"] \in {None, Part} THEN "none"
     ELSE IF dir[id]["config"] = None THEN "bare" ELSE "path"]

fresh_mutant_by_name(id) == TRUE

\* An id is new whatever the name of the profile is.
Fresh(id) == imported[id] = None

Import(w, id, content) ==
  /\ op = Resting
  /\ Fresh(id)
  /\ imported' = [imported EXCEPT ![id] = content]
  /\ op' = [Resting EXCEPT !.call = "import", !.id = id, !.window = w]
  /\ UNCHANGED <<dir, rows, login, kept, hurt>>

\* An import that has a file left to write.
Writing == op.call = "import" /\ op.file \in DOMAIN Order

\* fs::write() creates or truncates the file ...
Creates ==
  /\ Writing /\ ~op.opened
  /\ dir' = [dir EXCEPT ![op.id][Order[op.file]] = Part]
  /\ op' = [op EXCEPT !.opened = TRUE]
  /\ UNCHANGED <<rows, login, imported, kept, hurt>>

\* ... and fills it, with what comes from the import.
Fills ==
  /\ Writing /\ op.opened
  /\ dir' = [dir EXCEPT ![op.id][Order[op.file]] = imported[op.id]]
  /\ op' = [op EXCEPT !.file = @ + 1, !.opened = FALSE]
  /\ UNCHANGED <<rows, login, imported, kept, hurt>>

write_fails_mutant_unbounded ==
  /\ op.call = "import"
  /\ hurt' = hurt \cup {op.id}
  /\ op' = [op EXCEPT !.file = @ + 1, !.opened = FALSE]
  /\ UNCHANGED <<dir, rows, login, imported, kept>>

\* Either may fail, and import() goes on: .ok().
WriteFails ==
  /\ Writing
  /\ hurt' = hurt \cup {op.id}
  /\ op' = [op EXCEPT !.file = @ + 1, !.opened = FALSE]
  /\ UNCHANGED <<dir, rows, login, imported, kept>>

\* import() returns, and the list of its window is refreshed.
Imported ==
  /\ op.call = "import" /\ op.file > 2
  /\ kept' = kept \cup {op.id}
  /\ \E readable \in SUBSET Ids :
       rows' = [rows EXCEPT ![op.window] = list(readable)]
  /\ op' = Resting
  /\ UNCHANGED <<dir, login, imported, hurt>>

\* From the menu of a row, which may be old.  Which rows have the menu depends
\* on the state that is shown, and that may lag behind the login or be wrong
\* (module VpnService), so any row may have it.
Delete(w, id) ==
  /\ op = Resting
  /\ rows[w][id] # "none"
  /\ op' = [Resting EXCEPT !.call = "delete", !.id = id, !.window = w]
  /\ hurt' = hurt \cup {id}
  /\ UNCHANGED <<dir, rows, login, imported, kept>>

removes_mutant_everything == Ids

\* remove_dir_all(base_dir.join(id)) reaches no other profile.
Removes == {op.id}

RemovesFile ==
  /\ op.call = "delete"
  /\ \E id \in Removes, file \in Files :
       /\ dir[id][file] # None
       /\ dir' = [dir EXCEPT ![id][file] = None]
  /\ UNCHANGED <<op, rows, login, imported, kept, hurt>>

\* It is done, or stops at an error, which is dropped; no list is refreshed.
Deleted ==
  /\ op.call = "delete"
  /\ op' = Resting
  /\ UNCHANGED <<dir, rows, login, imported, kept, hurt>>

-----------------------------------------------------------------------------
(* The windows and their logins.                                           *)

\* The window is opened, or an event of its service arrives.
Refresh(w) ==
  /\ op = Resting
  /\ \E readable \in SUBSET Ids : rows' = [rows EXCEPT ![w] = list(readable)]
  /\ UNCHANGED <<dir, op, login, imported, kept, hurt>>

\* The command holds the path the row was built with, "" if there was none.
Connect(w, id) ==
  /\ op = Resting
  /\ rows[w][id] # "none"
  /\ login[w].pc = "none"
  /\ login' = [login EXCEPT ![w] = [NoLogin EXCEPT !.pc = "phase1", !.id = id,
                                    !.path = (rows[w][id] = "path")]]
  /\ UNCHANGED <<dir, op, rows, imported, kept, hurt>>

\* read_and_filter_config() in connect_phase1() ...
Phase1Reads(w) ==
  LET l == login[w]
  IN  /\ l.pc = "phase1" /\ l.path /\ dir[l.id]["config"] # None
      /\ login' = [login EXCEPT ![w].pc = "saml",
                                ![w].first = dir[l.id]["config"]]
      /\ UNCHANGED <<dir, op, rows, imported, kept, hurt>>

\* ... and, when the user has logged in, in connect_phase2(), by either mode.
Phase2Reads(w) ==
  LET l == login[w]
  IN  /\ l.pc = "saml" /\ dir[l.id]["config"] # None
      /\ login' = [login EXCEPT ![w].pc = "phase2",
                                ![w].second = dir[l.id]["config"]]
      /\ UNCHANGED <<dir, op, rows, imported, kept, hurt>>

\* It fails, for want of the file or not, or the user ends it.
LoginEnds(w) ==
  /\ login[w].pc # "none"
  /\ login' = [login EXCEPT ![w] = NoLogin]
  /\ UNCHANGED <<dir, op, rows, imported, kept, hurt>>

-----------------------------------------------------------------------------
(* The process is killed; close-request is exit(0) as well.                *)

Killed ==
  /\ op' = Resting
  /\ rows' = [w \in Windows |-> NoRows]
  /\ login' = [w \in Windows |-> NoLogin]
  /\ UNCHANGED <<dir, imported, kept, hurt>>

-----------------------------------------------------------------------------

Next ==
  \/ \E w \in Windows, id \in Ids, content \in Contents : Import(w, id, content)
  \/ Creates
  \/ Fills
  \/ WriteFails
  \/ Imported
  \/ \E w \in Windows, id \in Ids : Delete(w, id)
  \/ RemovesFile
  \/ Deleted
  \/ \E w \in Windows : Refresh(w)
  \/ \E w \in Windows, id \in Ids : Connect(w, id)
  \/ \E w \in Windows : Phase1Reads(w)
  \/ \E w \in Windows : Phase2Reads(w)
  \/ \E w \in Windows : LoginEnds(w)
  \/ Killed

Spec == Init /\ [][Next]_vars

-----------------------------------------------------------------------------

\* A profile that is shown, in the list of any window however old, can be
\* connected with the whole file that was imported: not with a part of it, and
\* not with none, at whatever point earlier runs of the program were killed.
\* (Errors and deletions excepted: the code drops the former, and the lists
\* are not told of the latter.)
ShownIsWhole ==
  \A w \in Windows, id \in Ids :
    rows[w][id] # "none" /\ id \notin hurt =>
      rows[w][id] = "path" /\ dir[id]["config"] = imported[id]

\* An import that has come to its end is on the disk, whole, and in every later
\* list that can read it, across kills and whatever is imported, deleted or
\* fails after it, until it is deleted.
ImportIsKept ==
  \A id \in kept \ hurt :
    dir[id]["config"] = imported[id] /\ list({id})[id] = "path"

\* Both phases of a login read the same file, although minutes lie between
\* them in which the profile may be deleted and another one of the same name
\* imported, from either window.
OneConfiguration ==
  \A w \in Windows :
    login[w].pc = "phase2" => login[w].second = login[w].first

-----------------------------------------------------------------------------
(* The store as module AtomicStore has it.                                 *)

store_profile ==
  [id \in Ids |-> IF id \in hurt THEN Part
                  ELSE IF list(Ids)[id] = "none" THEN None
                  ELSE dir[id]["config"]]

store_shown == [w \in Windows |-> {id \in Ids : rows[w][id] # "none"}]

store_chosen == [w \in Windows |-> login[w].id]

\* What the phase that is running has read.
store_given ==
  [w \in Windows |-> CASE login[w].pc = "saml"   -> login[w].first
                       [] login[w].pc = "phase2" -> login[w].second
                       [] OTHER                  -> None]

Store == INSTANCE AtomicStore
           WITH profile <- store_profile, returned <- kept, shown <- store_shown,
                chosen <- store_chosen, given <- store_given

\* Two writes, two reads, dropped errors and kills at any point look like one
\* value per profile: a half-written profile is never seen, a listed one never
\* changes, an import returns only when its profile can be seen, and a login
\* has one configuration.
ImplementsAtomicStore == Store!Spec

=============================================================================
