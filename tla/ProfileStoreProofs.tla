------------------------- MODULE ProfileStoreProofs -------------------------
(***************************************************************************)
(* Proofs about the profile store: for any number of profiles and windows, *)
(* and any number of kills.                                                *)
(*                                                                         *)
(* The argument: a directory is written by one import only, which nobody   *)
(* can see before its meta.json is there; from then on its files can only  *)
(* vanish.                                                                 *)
(***************************************************************************)
EXTENDS ProfileStore, TLAPS

\* An id that was not given out is in nobody's hands.
Unused ==
  \A id \in Ids :
    imported[id] = None =>
      /\ id \notin kept /\ op.id # id
      /\ \A file \in Files : dir[id][file] = None
      /\ \A w \in Windows : rows[w][id] = "none" /\ login[w].id # id

\* Nobody sees an import before it has ended; delete() spares nobody else.
Unseen ==
  /\ op.call = "import" =>
       /\ op.id \notin kept
       /\ \A w \in Windows : rows[w][op.id] = "none" /\ login[w].id # op.id
  /\ op.call = "delete" => op.id \in hurt
  /\ op.call = "none" => op = Resting

\* meta.json is the last of the two files, and config.ovpn stays whole.
ConfigFirst ==
  \A id \in Ids \ hurt :
    /\ dir[id]["meta"] # None => dir[id]["config"] = imported[id]
    /\ op.call = "import" /\ op.id = id =>
         /\ op.file = 1 => dir[id]["meta"] = None
         /\ op.file > 1 => dir[id]["config"] = imported[id]
         /\ op.file > 2 => dir[id]["meta"] = imported[id]

Kept == \A id \in kept \ hurt : dir[id]["config"] = imported[id]
                                  /\ dir[id]["meta"] = imported[id]

\* A file that a login has read may vanish but does not change.
Reading ==
  \A w \in Windows :
    login[w].pc \in {"saml", "phase2"} =>
      dir[login[w].id]["config"] \in {None, login[w].first}

IInv ==
  /\ TypeOK
  /\ Unused
  /\ Unseen
  /\ ConfigFirst
  /\ ShownIsWhole
  /\ Kept
  /\ Reading
  /\ OneConfiguration

-----------------------------------------------------------------------------
(* Type correctness.                                                       *)

OpType ==
  [call : {"none", "import", "delete"}, id : Ids \cup {None},
   window : Windows \cup {None}, file : 1..3, opened : BOOLEAN]

LoginType ==
  [pc : {"none", "phase1", "saml", "phase2"}, id : Ids \cup {None},
   path : BOOLEAN, first : Data, second : Data]

RowType == [Ids -> {"none", "bare", "path"}]

LEMMA Types ==
  TypeOK <=>
    /\ dir \in [Ids -> [Files -> Data]]
    /\ op \in OpType
    /\ op.call # "none" => op.id # None /\ op.window # None
    /\ rows \in [Windows -> RowType]
    /\ login \in [Windows -> LoginType]
    /\ \A w \in Windows : login[w].pc # "none" => login[w].id # None
    /\ imported \in [Ids -> Contents \cup {None}]
    /\ kept \subseteq Ids
    /\ hurt \subseteq Ids
BY DEF TypeOK, OpType, LoginType, RowType

LEMMA Fixed ==
  /\ Resting \in OpType /\ Resting.call = "none" /\ Resting.id = None
  /\ NoLogin \in LoginType /\ NoLogin.pc = "none" /\ NoLogin.id = None
  /\ NoRows \in RowType /\ \A id \in Ids : NoRows[id] = "none"
  /\ \A R \in SUBSET Ids : list(R) \in RowType
  /\ "config" \in Files /\ "meta" \in Files /\ "config" # "meta"
<1>1. NoLogin \in LoginType /\ NoLogin.pc = "none" /\ NoLogin.id = None
  BY DEF NoLogin, LoginType, Data
<1>2. Resting \in OpType /\ Resting.call = "none" /\ Resting.id = None
  BY DEF Resting, OpType
<1>3. NoRows \in RowType /\ \A id \in Ids : NoRows[id] = "none"
  BY DEF NoRows, RowType
<1>4. \A R \in SUBSET Ids : list(R) \in RowType
  BY DEF list, RowType
<1> QED
  BY <1>1, <1>2, <1>3, <1>4 DEF Files

\* What a list shows is listed when all can be read.
LEMMA ShownIsListed ==
  ASSUME NEW R \in SUBSET Ids, NEW id \in Ids, list(R)[id] # "none"
  PROVE  list(R)[id] = list(Ids)[id]
BY DEF list

\* The file an import is at.
LEMMA FileAt ==
  ASSUME NEW f \in DOMAIN Order
  PROVE  f \in {1, 2} /\ Order[1] = "config" /\ Order[2] = "meta"
           /\ Order[f] \in Files
BY DEF Order, Files

\* The call that Import and Delete start.
Started(call, w, id) ==
  [Resting EXCEPT !.call = call, !.id = id, !.window = w]

LEMMA StartedFields ==
  \A w \in Windows, id \in Ids :
    /\ /\ Started("import", w, id) \in OpType
       /\ Started("import", w, id).call = "import"
       /\ Started("import", w, id).id = id
       /\ Started("import", w, id).window = w
       /\ Started("import", w, id).file = 1
    /\ /\ Started("delete", w, id) \in OpType
       /\ Started("delete", w, id).call = "delete"
       /\ Started("delete", w, id).id = id
       /\ Started("delete", w, id).window = w
<1>1. ASSUME NEW call \in {"import", "delete"}, NEW w \in Windows, NEW id \in Ids
      PROVE  /\ Started(call, w, id) \in OpType
             /\ Started(call, w, id).call = call
             /\ Started(call, w, id).id = id
             /\ Started(call, w, id).window = w
             /\ Started(call, w, id).file = 1
  <2>1. Resting \in [call : {"none"}, id : {None}, window : {None}, file : {1},
                     opened : {FALSE}]
    BY DEF Resting
  <2>2. Started(call, w, id) \in [call : {call}, id : {id}, window : {w},
                                  file : {1}, opened : {FALSE}]
    BY <2>1 DEF Started
  <2>3. {call} \subseteq {"none", "import", "delete"}
        /\ {id} \subseteq Ids \cup {None}
        /\ {w} \subseteq Windows \cup {None} /\ {1} \subseteq 1..3
        /\ {FALSE} \subseteq BOOLEAN
    OBVIOUS
  <2> QED
    BY <2>2, <2>3 DEF OpType
<1>2. "import" \in {"import", "delete"} /\ "delete" \in {"import", "delete"}
  OBVIOUS
<1> QED
  BY <1>1, <1>2

\* What a step does to the directories.
LEMMA DirMoves ==
  ASSUME TypeOK, [Next]_vars
  PROVE  \/ UNCHANGED dir
         \/ Creates \/ Fills
         \/ RemovesFile
BY DEF Next, Import, WriteFails, Imported, Delete, Deleted, Refresh, Connect,
     Phase1Reads, Phase2Reads, LoginEnds, Killed, vars

LEMMA CreatesFile ==
  ASSUME TypeOK, Creates
  PROVE  /\ op.id \in Ids /\ op.file \in {1, 2}
         /\ op.call = "import" /\ op.opened = FALSE
         /\ dir' = [dir EXCEPT ![op.id] = [dir[op.id] EXCEPT ![Order[op.file]] = Part]]
         /\ dir' \in [Ids -> [Files -> Data]]
         /\ \A id \in Ids : id # op.id => dir'[id] = dir[id]
         /\ op.file = 1 => dir'[op.id]["meta"] = dir[op.id]["meta"]
         /\ op.file = 2 => dir'[op.id]["config"] = dir[op.id]["config"]
<1>1. op.id \in Ids /\ dir \in [Ids -> [Files -> Data]]
  BY Types DEF Creates, Writing, OpType
<1>2. op.file \in {1, 2} /\ Order[1] = "config" /\ Order[2] = "meta"
      /\ Order[op.file] \in Files
  BY FileAt DEF Creates, Writing
<1>3. dir' = [dir EXCEPT ![op.id] = [dir[op.id] EXCEPT ![Order[op.file]] = Part]]
  BY DEF Creates
<1>4. op.call = "import" /\ op.opened = FALSE
  <2>1. op.opened \in BOOLEAN
    BY Types DEF OpType
  <2> QED BY <2>1 DEF Creates, Writing
<1>5. Part \in Data
  BY DEF Data
<1> QED
  BY <1>1, <1>2, <1>3, <1>4, <1>5, Fixed

LEMMA FillsFile ==
  ASSUME TypeOK, Fills
  PROVE  /\ op.id \in Ids /\ op.file \in {1, 2}
         /\ op.call = "import"
         /\ dir' \in [Ids -> [Files -> Data]]
         /\ \A id \in Ids : id # op.id => dir'[id] = dir[id]
         /\ op.file = 1 => /\ dir'[op.id]["meta"] = dir[op.id]["meta"]
                           /\ dir'[op.id]["config"] = imported[op.id]
         /\ op.file = 2 => /\ dir'[op.id]["config"] = dir[op.id]["config"]
                           /\ dir'[op.id]["meta"] = imported[op.id]
<1>1. op.id \in Ids /\ dir \in [Ids -> [Files -> Data]]
  BY Types DEF Fills, Writing, OpType
<1>2. op.file \in {1, 2} /\ Order[1] = "config" /\ Order[2] = "meta"
      /\ Order[op.file] \in Files
  BY FileAt DEF Fills, Writing
<1>3. dir' = [dir EXCEPT ![op.id] =
                [dir[op.id] EXCEPT ![Order[op.file]] = imported[op.id]]]
  BY DEF Fills
<1>4. op.call = "import"
  BY DEF Fills, Writing
<1>5. imported[op.id] \in Data
  BY <1>1, Types DEF Data
<1> QED
  BY <1>1, <1>2, <1>3, <1>4, <1>5, Fixed

LEMMA RemovesOne ==
  ASSUME TypeOK, RemovesFile
  PROVE  /\ op.id \in Ids /\ op.call = "delete"
         /\ dir' \in [Ids -> [Files -> Data]]
         /\ \A id \in Ids : id # op.id => dir'[id] = dir[id]
         /\ \A id \in Ids, file \in Files :
              dir'[id][file] = dir[id][file] \/ dir'[id][file] = None
<1>1. PICK file \in Files : dir' = [dir EXCEPT ![op.id][file] = None]
  BY DEF RemovesFile, Removes
<1>2. op.id \in Ids /\ dir \in [Ids -> [Files -> Data]] /\ op.call = "delete"
  BY Types DEF RemovesFile, OpType
<1>3. dir' = [dir EXCEPT ![op.id] = [dir[op.id] EXCEPT ![file] = None]]
  BY <1>1
<1> QED
  BY <1>1, <1>2, <1>3 DEF Data

\* The call moves on to the next file.
LEMMA NextFile ==
  ASSUME TypeOK, Fills \/ WriteFails
  PROVE  /\ op.id \in Ids /\ op.call = "import" /\ op.file \in {1, 2}
         /\ op' \in OpType
         /\ op'.call = "import" /\ op'.id = op.id /\ op'.window = op.window
         /\ op'.file = op.file + 1
<1>1. op \in OpType /\ op.call = "import" /\ op.id # None
  BY Types DEF Fills, WriteFails, Writing
<1>2. op.file \in {1, 2}
  BY FileAt DEF Fills, WriteFails, Writing
<1>3. op' = [[op EXCEPT !.file = op.file + 1] EXCEPT !.opened = FALSE]
  BY <1>1 DEF Fills, WriteFails, OpType
<1>4. [op EXCEPT !.file = op.file + 1] \in OpType
  BY <1>1, <1>2 DEF OpType
<1> QED
  BY <1>1, <1>2, <1>3, <1>4 DEF OpType

LEMMA OpensFile ==
  ASSUME TypeOK, Creates
  PROVE  /\ op' \in OpType /\ op'.call = op.call /\ op'.id = op.id
         /\ op'.window = op.window /\ op'.file = op.file
<1>1. op \in OpType
  BY Types
<1>2. op' = [op EXCEPT !.opened = TRUE]
  BY DEF Creates
<1> QED
  BY <1>1, <1>2 DEF OpType

\* What a step does to the call that is running.
LEMMA OpMoves ==
  ASSUME TypeOK, [Next]_vars
  PROVE  \/ UNCHANGED op
         \/ op' = Resting
         \/ Creates \/ Fills \/ WriteFails
         \/ \E w \in Windows, id \in Ids, content \in Contents :
              Import(w, id, content) /\ op' = Started("import", w, id)
         \/ \E w \in Windows, id \in Ids :
              Delete(w, id) /\ op' = Started("delete", w, id)
BY DEF Next, Import, Imported, Delete, RemovesFile, Deleted, Refresh, Connect,
     Phase1Reads, Phase2Reads, LoginEnds, Killed, Started, vars

LEMMA NextOp ==
  ASSUME TypeOK, [Next]_vars
  PROVE  op' \in OpType /\ (op'.call # "none" => op'.id # None /\ op'.window # None)
<1>a. op \in OpType /\ (op.call # "none" => op.id # None /\ op.window # None)
  BY Types
<1>b. None \notin Ids /\ None \notin Windows
  BY ProfileStoreAssumption DEF ProfileStoreAssumption
<1>1. CASE UNCHANGED op \/ op' = Resting
  BY <1>a, <1>1, Fixed
<1>2. CASE Creates
  BY <1>a, <1>2, OpensFile
<1>3. CASE Fills \/ WriteFails
  BY <1>a, <1>3, NextFile
<1>4. ASSUME NEW w \in Windows, NEW id \in Ids, NEW call \in {"import", "delete"},
             op' = Started(call, w, id)
      PROVE  op' \in OpType /\ op'.id # None /\ op'.window # None
  <2>0. /\ Started(call, w, id) \in OpType
        /\ Started(call, w, id).id = id /\ Started(call, w, id).window = w
    BY StartedFields
  <2>1. op' \in OpType /\ op'.id = id /\ op'.window = w
    BY <1>4, <2>0
  <2> QED BY <1>b, <2>1
<1> QED
  BY <1>1, <1>2, <1>3, <1>4, OpMoves

\* The login that Connect starts.
Starting(id, path) ==
  [NoLogin EXCEPT !.pc = "phase1", !.id = id, !.path = path]

LEMMA StartingFields ==
  ASSUME NEW id \in Ids, NEW path \in BOOLEAN
  PROVE  /\ Starting(id, path) \in LoginType
         /\ Starting(id, path).pc = "phase1"
         /\ Starting(id, path).id = id
<1>1. NoLogin \in [pc : {"none"}, id : {None}, path : {FALSE}, first : {None},
                   second : {None}]
  BY DEF NoLogin
<1>2. Starting(id, path) \in [pc : {"phase1"}, id : {id}, path : {path},
                              first : {None}, second : {None}]
  BY <1>1 DEF Starting
<1>3. {None} \subseteq Data /\ {id} \subseteq Ids \cup {None}
      /\ {path} \subseteq BOOLEAN
      /\ {"phase1"} \subseteq {"none", "phase1", "saml", "phase2"}
  BY DEF Data
<1> QED
  BY <1>2, <1>3 DEF LoginType

\* What a step does to a login.
LEMMA LoginMoves ==
  ASSUME TypeOK, [Next]_vars, NEW w \in Windows
  PROVE  \/ login'[w] = login[w]
         \/ login'[w] = NoLogin
         \/ \E id \in Ids, path \in BOOLEAN :
              Connect(w, id) /\ login'[w] = Starting(id, path)
         \/ /\ Phase1Reads(w)
            /\ login'[w].pc = "saml" /\ login'[w].id = login[w].id
            /\ login'[w].first = dir[login[w].id]["config"]
            /\ login'[w] \in LoginType
         \/ /\ Phase2Reads(w)
            /\ login'[w].pc = "phase2" /\ login'[w].id = login[w].id
            /\ login'[w].first = login[w].first
            /\ login'[w].second = dir[login[w].id]["config"]
            /\ login'[w] \in LoginType
<1>a. /\ login \in [Windows -> LoginType]
      /\ \A v \in Windows : login[v].pc # "none" => login[v].id # None
      /\ dir \in [Ids -> [Files -> Data]]
  BY Types
<1>b. \A v \in Windows : login[v].pc # "none" => login[v].id \in Ids
  BY <1>a DEF LoginType
<1>1. CASE UNCHANGED login
  BY <1>1
<1>2. CASE Killed
  BY <1>2 DEF Killed
<1>3. ASSUME NEW v \in Windows, LoginEnds(v)
      PROVE  login'[w] = login[w] \/ login'[w] = NoLogin
  BY <1>a, <1>3 DEF LoginEnds
<1>4. ASSUME NEW v \in Windows, NEW id \in Ids, Connect(v, id)
      PROVE  \/ login'[w] = login[w]
             \/ v = w /\ login'[w] = Starting(id, rows[w][id] = "path")
  BY <1>a, <1>4 DEF Connect, Starting
<1>5. ASSUME NEW v \in Windows, Phase1Reads(v)
      PROVE  \/ login'[w] = login[w]
             \/ /\ Phase1Reads(w)
                /\ login'[w].pc = "saml" /\ login'[w].id = login[w].id
                /\ login'[w].first = dir[login[w].id]["config"]
                /\ login'[w] \in LoginType
  <2>1. login' = [login EXCEPT ![v] = [login[v] EXCEPT
                    !.pc = "saml", !.first = dir[login[v].id]["config"]]]
    BY <1>a, <1>5 DEF Phase1Reads
  <2>2. CASE v # w
    BY <1>a, <2>1, <2>2
  <2>3. CASE v = w
    <3> DEFINE data == dir[login[w].id]["config"]
    <3>1. data \in Data
      <4>1. login[w].id \in Ids
        BY <1>b, <1>5, <2>3 DEF Phase1Reads
      <4> QED BY <1>a, <4>1, Fixed
    <3> HIDE DEF data
    <3>2. [login[w] EXCEPT !.pc = "saml"] \in LoginType
      BY <1>a DEF LoginType
    <3>3. login'[w] = [[login[w] EXCEPT !.pc = "saml"] EXCEPT !.first = data]
      BY <1>a, <2>1, <2>3 DEF data
    <3>4. login'[w].pc = "saml" /\ login'[w].id = login[w].id
          /\ login'[w].first = data /\ login'[w] \in LoginType
      BY <1>a, <3>1, <3>2, <3>3 DEF LoginType
    <3> QED BY <1>5, <2>3, <3>4 DEF data
  <2> QED BY <2>2, <2>3
<1>6. ASSUME NEW v \in Windows, Phase2Reads(v)
      PROVE  \/ login'[w] = login[w]
             \/ /\ Phase2Reads(w)
                /\ login'[w].pc = "phase2" /\ login'[w].id = login[w].id
                /\ login'[w].first = login[w].first
                /\ login'[w].second = dir[login[w].id]["config"]
                /\ login'[w] \in LoginType
  <2>1. login' = [login EXCEPT ![v] = [login[v] EXCEPT
                    !.pc = "phase2", !.second = dir[login[v].id]["config"]]]
    BY <1>a, <1>6 DEF Phase2Reads
  <2>2. CASE v # w
    BY <1>a, <2>1, <2>2
  <2>3. CASE v = w
    <3> DEFINE data == dir[login[w].id]["config"]
    <3>1. data \in Data
      <4>1. login[w].id \in Ids
        BY <1>b, <1>6, <2>3 DEF Phase2Reads
      <4> QED BY <1>a, <4>1, Fixed
    <3> HIDE DEF data
    <3>2. [login[w] EXCEPT !.pc = "phase2"] \in LoginType
      BY <1>a DEF LoginType
    <3>3. login'[w] = [[login[w] EXCEPT !.pc = "phase2"] EXCEPT !.second = data]
      BY <1>a, <2>1, <2>3 DEF data
    <3>4. login'[w].pc = "phase2" /\ login'[w].id = login[w].id
          /\ login'[w].first = login[w].first
          /\ login'[w].second = data /\ login'[w] \in LoginType
      BY <1>a, <3>1, <3>2, <3>3 DEF LoginType
    <3> QED BY <1>6, <2>3, <3>4 DEF data
  <2> QED BY <2>2, <2>3
<1>7. \/ UNCHANGED login \/ Killed
      \/ \E v \in Windows : \/ LoginEnds(v) \/ Phase1Reads(v) \/ Phase2Reads(v)
                            \/ \E id \in Ids : Connect(v, id)
  BY DEF Next, Import, Creates, Fills, WriteFails, Imported, Delete, RemovesFile,
     Deleted, Refresh, vars
<1>8. CASE \E v \in Windows, id \in Ids : Connect(v, id)
  <2>1. PICK v \in Windows, id \in Ids : Connect(v, id)
    BY <1>8
  <2>2. (rows[w][id] = "path") \in BOOLEAN
    OBVIOUS
  <2> QED BY <1>4, <2>1, <2>2
<1> QED
  BY <1>1, <1>2, <1>3, <1>5, <1>6, <1>7, <1>8

LEMMA NextType ==
  ASSUME TypeOK, [Next]_vars
  PROVE  TypeOK'
<1>a. /\ dir \in [Ids -> [Files -> Data]]
      /\ rows \in [Windows -> RowType]
      /\ login \in [Windows -> LoginType]
      /\ \A w \in Windows : login[w].pc # "none" => login[w].id # None
      /\ imported \in [Ids -> Contents \cup {None}]
      /\ kept \subseteq Ids
      /\ hurt \subseteq Ids
  BY Types
<1>1. dir' \in [Ids -> [Files -> Data]]
  BY <1>a, DirMoves, CreatesFile, FillsFile, RemovesOne
<1>2. op' \in OpType /\ (op'.call # "none" => op'.id # None /\ op'.window # None)
  BY NextOp
<1>3. rows' \in [Windows -> RowType]
  BY <1>a, Fixed DEF Next, Import, Creates, Fills, WriteFails, Imported, Delete,
     RemovesFile, Deleted, Refresh, Connect, Phase1Reads, Phase2Reads, LoginEnds,
     Killed, vars
<1>4. ASSUME NEW w \in Windows
      PROVE  login'[w] \in LoginType /\ (login'[w].pc # "none" => login'[w].id # None)
  <2>1. None \notin Ids
    BY ProfileStoreAssumption DEF ProfileStoreAssumption
  <2>2. ASSUME NEW id \in Ids, NEW path \in BOOLEAN, login'[w] = Starting(id, path)
        PROVE  login'[w] \in LoginType /\ login'[w].id # None
    <3>1. login'[w] \in LoginType /\ login'[w].id = id
      BY <2>2, StartingFields
    <3> QED BY <2>1, <3>1
  <2>3. Phase1Reads(w) \/ Phase2Reads(w) => login[w].pc # "none"
    BY DEF Phase1Reads, Phase2Reads
  <2> QED BY <1>a, <2>2, <2>3, LoginMoves, Fixed
<1>5. login' = [w \in Windows |-> login'[w]]
  BY <1>a DEF Next, Import, Creates, Fills, WriteFails, Imported, Delete,
     RemovesFile, Deleted, Refresh, Connect, Phase1Reads, Phase2Reads, LoginEnds,
     Killed, vars
<1>6. login' \in [Windows -> LoginType]
  BY <1>4, <1>5
<1>7. /\ imported' \in [Ids -> Contents \cup {None}]
      /\ hurt' \subseteq Ids
  <2>1. op.call # "none" => op.id \in Ids
    BY Types DEF OpType
  <2> QED BY <1>a, <2>1 DEF Next, Import, Creates, Fills, WriteFails, Writing,
     Imported, Delete, RemovesFile, Deleted, Refresh, Connect, Phase1Reads,
     Phase2Reads, LoginEnds, Killed, vars
<1>8. kept' \subseteq Ids
  <2>1. op.call # "none" => op.id \in Ids
    BY Types DEF OpType
  <2> QED BY <1>a, <2>1 DEF Next, Import, Creates, Fills, WriteFails,
     Imported, Delete, RemovesFile, Deleted, Refresh, Connect, Phase1Reads,
     Phase2Reads, LoginEnds, Killed, vars
<1>9. TypeOK' <=>
        /\ dir' \in [Ids -> [Files -> Data]]
        /\ op' \in OpType
        /\ op'.call # "none" => op'.id # None /\ op'.window # None
        /\ rows' \in [Windows -> RowType]
        /\ login' \in [Windows -> LoginType]
        /\ \A w \in Windows : login'[w].pc # "none" => login'[w].id # None
        /\ imported' \in [Ids -> Contents \cup {None}]
        /\ kept' \subseteq Ids
        /\ hurt' \subseteq Ids
  BY DEF TypeOK, OpType, LoginType, RowType
<1> QED
  BY <1>1, <1>2, <1>3, <1>4, <1>6, <1>7, <1>8, <1>9

LEMMA InitIInv == Init => IInv
<1> SUFFICES ASSUME Init PROVE IInv
  OBVIOUS
<1>1. TypeOK
  BY Fixed, Types DEF Init, Data
<1>2. /\ op = Resting /\ kept = {} /\ op.call = "none" /\ op.id = None
      /\ \A w \in Windows : login[w] = NoLogin /\ rows[w] = NoRows
      /\ \A id \in Ids : dir[id]["meta"] = None /\ dir[id]["config"] = None
  BY Fixed DEF Init
<1>3. None \notin Ids
  BY ProfileStoreAssumption DEF ProfileStoreAssumption
<1>4. Unused
  <2>1. \A id \in Ids, file \in Files : dir[id][file] = None
    BY DEF Init
  <2> QED BY <1>2, <1>3, <2>1, Fixed DEF Unused
<1>5. Unseen /\ ConfigFirst /\ ShownIsWhole /\ Kept
  BY <1>2, Fixed DEF Unseen, ConfigFirst, ShownIsWhole, Kept
<1>6. Reading /\ OneConfiguration
  BY <1>2, Fixed DEF Reading, OneConfiguration
<1> QED
  BY <1>1, <1>4, <1>5, <1>6 DEF IInv

-----------------------------------------------------------------------------
(* The invariant under every step.                                         *)

\* A login's profile was listed, and a row's was imported.
LEMMA InUse ==
  ASSUME TypeOK, Unused
  PROVE  /\ \A id \in Ids, w \in Windows : rows[w][id] # "none" => imported[id] # None
         /\ \A w \in Windows : login[w].pc # "none" =>
              login[w].id \in Ids /\ imported[login[w].id] # None
<1>1. \A w \in Windows : login[w].pc # "none" => login[w].id \in Ids
  BY Types DEF LoginType
<1> QED
  BY <1>1 DEF Unused

\* A row appears from the directory as it is.
LEMMA RowsMove ==
  ASSUME TypeOK, [Next]_vars, NEW w \in Windows
  PROVE  \/ rows'[w] = rows[w]
         \/ rows'[w] = NoRows
         \/ /\ \E R \in SUBSET Ids : rows'[w] = list(R)
            /\ UNCHANGED <<dir, imported, hurt>>
<1>1. rows \in [Windows -> RowType]
  BY Types
<1>2. ASSUME NEW v, NEW R \in SUBSET Ids, rows' = [rows EXCEPT ![v] = list(R)],
             UNCHANGED <<dir, imported, hurt>>
      PROVE  \/ rows'[w] = rows[w]
             \/ /\ \E S \in SUBSET Ids : rows'[w] = list(S)
                /\ UNCHANGED <<dir, imported, hurt>>
  BY <1>1, <1>2
<1>3. CASE Imported \/ \E v \in Windows : Refresh(v)
  BY <1>2, <1>3 DEF Imported, Refresh
<1>4. CASE Killed
  BY <1>4 DEF Killed
<1> QED
  BY <1>1, <1>3, <1>4 DEF Next, Import, Creates, Fills, WriteFails, Delete,
     RemovesFile, Deleted, Connect, Phase1Reads, Phase2Reads, LoginEnds, vars

\* What is imported stays, and what is new is only that.
LEMMA ImportedMoves ==
  ASSUME TypeOK, [Next]_vars, NEW id \in Ids
  PROVE  \/ imported'[id] = imported[id]
         \/ /\ imported[id] = None /\ imported'[id] # None
            /\ op = Resting /\ op'.id = id /\ op'.call = "import" /\ op'.file = 1
            /\ UNCHANGED <<dir, rows, login, kept, hurt>>
<1>1. ASSUME NEW w \in Windows, NEW i \in Ids, NEW content \in Contents,
             Import(w, i, content)
      PROVE  \/ imported'[id] = imported[id]
             \/ /\ imported[id] = None /\ imported'[id] # None
                /\ op = Resting /\ op'.id = id /\ op'.call = "import" /\ op'.file = 1
                /\ UNCHANGED <<dir, rows, login, kept, hurt>>
  <2>1. /\ imported' = [imported EXCEPT ![i] = content] /\ imported[i] = None
        /\ op' = Started("import", w, i) /\ op = Resting
        /\ UNCHANGED <<dir, rows, login, kept, hurt>>
    BY <1>1 DEF Import, Fresh, Started
  <2>2. /\ Started("import", w, i).id = i /\ Started("import", w, i).call = "import"
        /\ Started("import", w, i).file = 1
    BY StartedFields
  <2>3. content # None
    BY ProfileStoreAssumption DEF ProfileStoreAssumption
  <2>4. imported \in [Ids -> Contents \cup {None}]
    BY Types
  <2> QED BY <2>1, <2>2, <2>3, <2>4
<1>2. CASE UNCHANGED imported
  BY <1>2
<1> QED
  BY <1>1, <1>2 DEF Next, Creates, Fills, WriteFails, Imported, Delete, RemovesFile,
     Deleted, Refresh, Connect, Phase1Reads, Phase2Reads, LoginEnds, Killed, vars

LEMMA NextUnused ==
  ASSUME TypeOK, Unused, Unseen, [Next]_vars
  PROVE  Unused'
<1> SUFFICES ASSUME NEW id \in Ids, imported'[id] = None
             PROVE  /\ id \notin kept' /\ op'.id # id
                    /\ \A file \in Files : dir'[id][file] = None
                    /\ \A w \in Windows : rows'[w][id] = "none" /\ login'[w].id # id
  BY DEF Unused
<1>1. imported[id] = None
  BY ImportedMoves
<1>2. /\ id \notin kept /\ op.id # id
      /\ \A file \in Files : dir[id][file] = None
      /\ \A w \in Windows : rows[w][id] = "none" /\ login[w].id # id
  BY <1>1 DEF Unused
<1>3. id \notin kept'
  BY <1>2 DEF Next, Import, Creates, Fills, WriteFails, Imported, Delete, RemovesFile,
     Deleted, Refresh, Connect, Phase1Reads, Phase2Reads, LoginEnds, Killed, vars
<1>4. op'.id # id
  <2>1. None \notin Ids
    BY ProfileStoreAssumption DEF ProfileStoreAssumption
  <2>2. ASSUME NEW w \in Windows, NEW i \in Ids, NEW content \in Contents,
               Import(w, i, content), op' = Started("import", w, i)
        PROVE  op'.id # id
    <3>1. imported'[i] = content /\ content # None
      BY <2>2, Types, ProfileStoreAssumption DEF Import, ProfileStoreAssumption
    <3>2. Started("import", w, i).id = i
      BY StartedFields
    <3> QED BY <2>2, <3>1, <3>2
  <2>3. ASSUME NEW w \in Windows, NEW i \in Ids,
               Delete(w, i), op' = Started("delete", w, i)
        PROVE  op'.id # id
    <3>1. rows[w][i] # "none"
      BY <2>3 DEF Delete
    <3>2. Started("delete", w, i).id = i
      BY StartedFields
    <3> QED BY <1>2, <2>3, <3>1, <3>2
  <2>4. CASE UNCHANGED op \/ op' = Resting
    BY <1>2, <2>1, <2>4, Fixed
  <2> QED BY <1>2, <2>2, <2>3, <2>4, OpMoves, OpensFile, NextFile
<1>5. \A file \in Files : dir'[id][file] = None
  BY <1>2, DirMoves, CreatesFile, FillsFile, RemovesOne
<1>6. ASSUME NEW w \in Windows
      PROVE  rows'[w][id] = "none"
  <2>1. \A R \in SUBSET Ids : list(R)[id] = "none"
    BY <1>2, Fixed DEF list
  <2> QED BY <1>2, <2>1, Fixed, RowsMove
<1>7. ASSUME NEW w \in Windows
      PROVE  login'[w].id # id
  <2>1. None \notin Ids
    BY ProfileStoreAssumption DEF ProfileStoreAssumption
  <2>2. ASSUME NEW i \in Ids, NEW path \in BOOLEAN, Connect(w, i),
               login'[w] = Starting(i, path)
        PROVE  login'[w].id # id
    <3>1. rows[w][i] # "none"
      BY <2>2 DEF Connect
    <3>2. Starting(i, path).id = i
      BY StartingFields
    <3> QED BY <1>2, <2>2, <3>1, <3>2
  <2> QED BY <1>2, <2>1, <2>2, LoginMoves, Fixed
<1> QED
  BY <1>3, <1>4, <1>5, <1>6, <1>7

LEMMA NextUnseen ==
  ASSUME TypeOK, Unused, Unseen, [Next]_vars
  PROVE  Unseen'
<1>a. op.call = "none" => op = Resting
  BY DEF Unseen
<1>1. CASE op' = Resting
  BY <1>1, Fixed DEF Unseen
<1>2. CASE Creates \/ Fills \/ WriteFails
  <2>1. /\ op'.call = "import" /\ op'.id = op.id /\ op.call = "import"
        /\ UNCHANGED <<kept, rows, login>>
    BY <1>2, OpensFile, NextFile, CreatesFile DEF Creates, Fills, WriteFails
  <2> QED BY <2>1 DEF Unseen
<1>3. ASSUME NEW w \in Windows, NEW id \in Ids, NEW content \in Contents,
             Import(w, id, content), op' = Started("import", w, id)
      PROVE  Unseen'
  <2>1. imported[id] = None /\ UNCHANGED <<kept, rows, login>>
    BY <1>3 DEF Import, Fresh
  <2>2. op'.id = id /\ op'.call = "import"
    <3>1. Started("import", w, id).id = id /\ Started("import", w, id).call = "import"
      BY StartedFields
    <3> QED BY <1>3, <3>1
  <2> QED BY <2>1, <2>2 DEF Unused, Unseen
<1>4. ASSUME NEW w \in Windows, NEW id \in Ids,
             Delete(w, id), op' = Started("delete", w, id)
      PROVE  Unseen'
  <2>1. op'.id = id /\ op'.call = "delete"
    <3>1. Started("delete", w, id).id = id /\ Started("delete", w, id).call = "delete"
      BY StartedFields
    <3> QED BY <1>4, <3>1
  <2> QED BY <1>4, <2>1 DEF Unseen, Delete
<1>5. CASE UNCHANGED op
  <2>1. CASE op = Resting
    BY <1>5, <2>1, Fixed DEF Unseen
  <2>2. CASE op # Resting
    <3>1. /\ UNCHANGED <<rows, kept>>
          /\ hurt \subseteq hurt'
          /\ \A w \in Windows, id \in Ids : ~Connect(w, id)
      BY <1>5, <2>2 DEF Next, Import, Creates, Fills, WriteFails, Imported, Delete,
         RemovesFile, Deleted, Refresh, Connect, Phase1Reads, Phase2Reads, LoginEnds,
         Killed, vars
    <3>2. ASSUME NEW w \in Windows
          PROVE  login'[w].id = login[w].id \/ login'[w].id = None
      BY <3>1, LoginMoves, Fixed
    <3>3. op.call # "none" => op.id # None
      BY Types
    <3> QED BY <1>a, <1>5, <3>1, <3>2, <3>3 DEF Unseen
  <2> QED BY <2>1, <2>2
<1> QED
  BY <1>1, <1>2, <1>3, <1>4, <1>5, OpMoves

\* The files of a profile that is not being imported can only vanish, and they
\* do not if nobody deletes it.
LEMMA FilesStay ==
  ASSUME TypeOK, Unseen, [Next]_vars, NEW id \in Ids,
         op.call = "import" => op.id # id
  PROVE  /\ \A file \in Files : dir'[id][file] \in {dir[id][file], None}
         /\ id \notin hurt => dir'[id] = dir[id]
<1>1. CASE UNCHANGED dir
  BY <1>1
<1>2. CASE Creates
  BY <1>2, CreatesFile
<1>3. CASE Fills
  BY <1>3, FillsFile
<1>4. CASE RemovesFile
  BY <1>4, RemovesOne DEF Unseen
<1> QED
  BY <1>1, <1>2, <1>3, <1>4, DirMoves

LEMMA HurtStays ==
  ASSUME [Next]_vars
  PROVE  hurt \subseteq hurt'
BY DEF Next, Import, Creates, Fills, WriteFails, Imported, Delete, RemovesFile,
   Deleted, Refresh, Connect, Phase1Reads, Phase2Reads, LoginEnds, Killed, vars

LEMMA NextConfigFirst ==
  ASSUME TypeOK, Unused, Unseen, ConfigFirst, [Next]_vars
  PROVE  ConfigFirst'
<1> SUFFICES ASSUME NEW id \in Ids, id \notin hurt'
             PROVE  /\ dir'[id]["meta"] # None => dir'[id]["config"] = imported'[id]
                    /\ op'.call = "import" /\ op'.id = id =>
                         /\ op'.file = 1 => dir'[id]["meta"] = None
                         /\ op'.file > 1 => dir'[id]["config"] = imported'[id]
                         /\ op'.file > 2 => dir'[id]["meta"] = imported'[id]
  BY DEF ConfigFirst
<1>a. id \notin hurt
  BY HurtStays
<1>b. /\ dir[id]["meta"] # None => dir[id]["config"] = imported[id]
      /\ op.call = "import" /\ op.id = id =>
           /\ op.file = 1 => dir[id]["meta"] = None
           /\ op.file > 1 => dir[id]["config"] = imported[id]
           /\ op.file > 2 => dir[id]["meta"] = imported[id]
  BY <1>a DEF ConfigFirst
<1>1. CASE imported'[id] # imported[id]
  <2>1. /\ imported[id] = None /\ UNCHANGED dir
        /\ op'.file = 1
    BY <1>1, ImportedMoves
  <2>2. dir[id]["meta"] = None
    BY <2>1, Fixed DEF Unused
  <2> QED BY <2>1, <2>2
<1>2. CASE imported'[id] = imported[id] /\ op.call = "import" /\ op.id = id
  <2>1. CASE Creates
    <3>1. op.file \in {1, 2}
      BY <2>1, CreatesFile
    <3>2. op'.file = op.file
      BY <2>1, OpensFile
    <3>3. CASE op.file = 1
      BY <1>b, <1>2, <2>1, <3>2, <3>3, CreatesFile
    <3>4. CASE op.file = 2
      BY <1>b, <1>2, <2>1, <3>2, <3>4, CreatesFile
    <3> QED BY <3>1, <3>3, <3>4
  <2>2. CASE Fills
    <3>1. op.file \in {1, 2} /\ op'.file = op.file + 1
      BY <2>2, NextFile
    <3>2. CASE op.file = 1
      BY <1>b, <1>2, <2>2, <3>1, <3>2, FillsFile
    <3>3. CASE op.file = 2
      BY <1>b, <1>2, <2>2, <3>1, <3>3, FillsFile
    <3> QED BY <3>1, <3>2, <3>3
  <2>3. ~WriteFails
    BY <1>2 DEF WriteFails
  <2>4. ~RemovesFile /\ op # Resting
    BY <1>2, Fixed DEF RemovesFile
  <2>5. CASE ~Creates /\ ~Fills
    <3>1. UNCHANGED dir
      BY <2>4, <2>5, DirMoves
    <3>2. UNCHANGED op \/ op' = Resting
      BY <2>3, <2>4, <2>5, OpMoves DEF Import, Delete
    <3> QED BY <1>b, <1>2, <3>1, <3>2, Fixed
  <2> QED BY <2>1, <2>2, <2>5
<1>3. CASE imported'[id] = imported[id] /\ ~(op.call = "import" /\ op.id = id)
  <2>1. dir'[id] = dir[id]
    BY <1>a, <1>3, FilesStay
  <2>2. ~(op'.call = "import" /\ op'.id = id)
    <3>1. ASSUME NEW w \in Windows, NEW i \in Ids, NEW content \in Contents,
                 Import(w, i, content), op' = Started("import", w, i)
          PROVE  op'.id # id
      <4>1. imported'[i] = content /\ content # None /\ imported[i] = None
        BY <3>1, Types, ProfileStoreAssumption DEF Import, Fresh, ProfileStoreAssumption
      <4>2. op'.id = i
        <5>1. Started("import", w, i).id = i
          BY StartedFields
        <5> QED BY <3>1, <5>1
      <4> QED BY <1>3, <4>1, <4>2
    <3>2. ASSUME NEW w \in Windows, NEW i \in Ids,
                 Delete(w, i), op' = Started("delete", w, i)
          PROVE  op'.call # "import"
      <4>1. Started("delete", w, i).call = "delete"
        BY StartedFields
      <4> QED BY <3>2, <4>1
    <3>3. CASE UNCHANGED op \/ op' = Resting
      BY <1>3, <3>3, Fixed
    <3>4. CASE Creates \/ Fills \/ WriteFails
      BY <1>3, <3>4, OpensFile, NextFile
    <3> QED BY <3>1, <3>2, <3>3, <3>4, OpMoves
  <2> QED BY <1>b, <1>3, <2>1, <2>2
<1> QED
  BY <1>1, <1>2, <1>3

LEMMA NextShown ==
  ASSUME TypeOK, Unused, Unseen, ConfigFirst, ShownIsWhole, [Next]_vars
  PROVE  ShownIsWhole'
<1> SUFFICES ASSUME NEW w \in Windows, NEW id \in Ids,
                    rows'[w][id] # "none", id \notin hurt'
             PROVE  rows'[w][id] = "path" /\ dir'[id]["config"] = imported'[id]
  BY DEF ShownIsWhole
<1>a. id \notin hurt
  BY HurtStays
<1>1. CASE rows'[w] = rows[w]
  <2>1. rows[w][id] = "path" /\ dir[id]["config"] = imported[id]
    BY <1>a, <1>1 DEF ShownIsWhole
  <2>2. imported[id] # None
    BY <2>1, InUse
  <2>3. imported'[id] = imported[id]
    BY <2>2, ImportedMoves
  <2>4. op.call = "import" => op.id # id
    BY <2>1 DEF Unseen
  <2>5. dir'[id] = dir[id]
    BY <1>a, <2>4, FilesStay
  <2> QED BY <1>1, <2>1, <2>3, <2>5
<1>2. CASE rows'[w] = NoRows
  BY <1>2, Fixed
<1>3. CASE /\ \E R \in SUBSET Ids : rows'[w] = list(R)
           /\ UNCHANGED <<dir, imported, hurt>>
  <2>0. rows'[w][id] = list(Ids)[id]
    BY <1>3, ShownIsListed
  <2>1. dir[id]["meta"] # None
    BY <2>0 DEF list
  <2>2. dir[id]["config"] = imported[id]
    BY <1>a, <2>1 DEF ConfigFirst
  <2>3. imported[id] # None
    BY <2>1, Fixed DEF Unused
  <2>4. list(Ids)[id] = "path"
    BY <2>0, <2>2, <2>3 DEF list
  <2> QED BY <1>3, <2>0, <2>2, <2>4
<1> QED
  BY <1>1, <1>2, <1>3, RowsMove

LEMMA NextKept ==
  ASSUME TypeOK, Unused, Unseen, ConfigFirst, Kept, [Next]_vars
  PROVE  Kept'
<1> SUFFICES ASSUME NEW id \in Ids, id \in kept', id \notin hurt'
             PROVE  dir'[id]["config"] = imported'[id] /\ dir'[id]["meta"] = imported'[id]
  <2>1. kept' \subseteq Ids
    BY NextType, Types DEF TypeOK
  <2> QED BY <2>1 DEF Kept
<1>a. id \notin hurt
  BY HurtStays
<1>1. CASE id \in kept
  <2>1. dir[id]["config"] = imported[id] /\ dir[id]["meta"] = imported[id]
    BY <1>a, <1>1 DEF Kept
  <2>2. imported'[id] = imported[id]
    BY <1>1, ImportedMoves DEF Unused
  <2>3. op.call = "import" => op.id # id
    BY <1>1 DEF Unseen
  <2>4. dir'[id] = dir[id]
    BY <1>a, <2>3, FilesStay
  <2> QED BY <2>1, <2>2, <2>4
<1>2. CASE id \notin kept
  <2>1. /\ op.call = "import" /\ op.file > 2 /\ op.id = id
        /\ UNCHANGED <<dir, imported, hurt>>
    BY <1>2 DEF Next, Import, Creates, Fills, WriteFails, Imported, Delete, RemovesFile,
       Deleted, Refresh, Connect, Phase1Reads, Phase2Reads, LoginEnds, Killed, vars
  <2>2. op.file \in 1..3
    BY Types DEF OpType
  <2> QED BY <1>a, <2>1, <2>2 DEF ConfigFirst
<1> QED
  BY <1>1, <1>2

\* The only step into each of the last two stages of a login reads the file.
LEMMA NextReading ==
  ASSUME TypeOK, Unused, Unseen, Reading, OneConfiguration, [Next]_vars
  PROVE  Reading' /\ OneConfiguration'
<1> SUFFICES ASSUME NEW w \in Windows, login'[w].pc \in {"saml", "phase2"}
             PROVE  /\ dir'[login'[w].id]["config"] \in {None, login'[w].first}
                    /\ login'[w].pc = "phase2" => login'[w].second = login'[w].first
  BY DEF Reading, OneConfiguration
<1>1. CASE login'[w] = login[w]
  <2>1. login[w].id \in Ids /\ dir[login[w].id]["config"] \in {None, login[w].first}
    BY <1>1, InUse DEF Reading
  <2>2. op.call = "import" => op.id # login[w].id
    BY DEF Unseen
  <2>3. dir'[login[w].id]["config"] \in {dir[login[w].id]["config"], None}
    BY <2>1, <2>2, FilesStay, Fixed
  <2> QED BY <1>1, <2>1, <2>3 DEF OneConfiguration
<1>2. CASE login'[w] = NoLogin
  BY <1>2, Fixed
<1>3. CASE \E id \in Ids, path \in BOOLEAN : login'[w] = Starting(id, path)
  BY <1>3, StartingFields
<1>4. CASE /\ Phase1Reads(w)
           /\ login'[w].pc = "saml" /\ login'[w].id = login[w].id
           /\ login'[w].first = dir[login[w].id]["config"]
  <2>1. UNCHANGED dir
    BY <1>4 DEF Phase1Reads
  <2> QED BY <1>4, <2>1
<1>5. CASE /\ Phase2Reads(w)
           /\ login'[w].pc = "phase2" /\ login'[w].id = login[w].id
           /\ login'[w].first = login[w].first
           /\ login'[w].second = dir[login[w].id]["config"]
  <2>1. /\ UNCHANGED dir /\ login[w].pc = "saml"
        /\ dir[login[w].id]["config"] # None
    BY <1>5 DEF Phase2Reads
  <2>2. dir[login[w].id]["config"] = login[w].first
    BY <2>1 DEF Reading
  <2> QED BY <1>5, <2>1, <2>2
<1> QED
  BY <1>1, <1>2, <1>3, <1>4, <1>5, LoginMoves

-----------------------------------------------------------------------------
(* The theorems.                                                           *)

\* The invariant holds in every state the program and its restarts can reach.
THEOREM Invariance == Spec => []IInv
<1>1. Init => IInv
  BY InitIInv
<1>2. IInv /\ [Next]_vars => IInv'
  BY NextType, NextUnused, NextUnseen, NextConfigFirst, NextShown, NextKept,
     NextReading DEF IInv
<1> QED
  BY <1>1, <1>2, PTL DEF Spec

\* Type correctness.
THEOREM TypeCorrect == Spec => []TypeOK
<1>1. IInv => TypeOK
  BY DEF IInv
<1> QED
  BY <1>1, Invariance, PTL

\* import() writes meta.json last, and that is what makes a profile visible.
THEOREM ShownWhole == Spec => []ShownIsWhole
<1>1. IInv => ShownIsWhole
  BY DEF IInv
<1> QED
  BY <1>1, Invariance, PTL

\* No later import, deletion or kill touches a profile that was imported.
THEOREM ImportsKept == Spec => []ImportIsKept
<1>1. IInv => ImportIsKept
  <2> SUFFICES ASSUME IInv, NEW id \in kept \ hurt
               PROVE  dir[id]["config"] = imported[id] /\ list({id})[id] = "path"
    BY DEF ImportIsKept
  <2>1. id \in Ids /\ imported \in [Ids -> Contents \cup {None}]
    BY Types DEF IInv
  <2>2. dir[id]["config"] = imported[id] /\ dir[id]["meta"] = imported[id]
    BY DEF IInv, Kept
  <2>3. imported[id] # None /\ imported[id] # Part
    BY <2>1, ProfileStoreAssumption DEF IInv, Unused, ProfileStoreAssumption
  <2> QED BY <2>1, <2>2, <2>3 DEF list
<1> QED
  BY <1>1, Invariance, PTL

\* No id is given out twice, so a path never comes to name another file.
THEOREM SameConfiguration == Spec => []OneConfiguration
<1>1. IInv => OneConfiguration
  BY DEF IInv
<1> QED
  BY <1>1, Invariance, PTL

=============================================================================
