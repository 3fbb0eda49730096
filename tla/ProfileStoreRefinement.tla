----------------------- MODULE ProfileStoreRefinement -----------------------
(***************************************************************************)
(* ProfileStore implements AtomicStore: a profile appears with the last    *)
(* write of its import, whatever is killed, deleted or fails around it,    *)
(* and the second reading of a login is none.                              *)
(***************************************************************************)
EXTENDS ProfileStoreProofs

\* What is shown, or used by a login, is listed until it is deleted; and an
\* import that has not written meta.json to its end is not listed.
Listed ==
  /\ \A w \in Windows, id \in Ids \ hurt : rows[w][id] # "none" => list(Ids)[id] # "none"
  /\ \A w \in Windows : login[w].pc # "none" /\ login[w].id \notin hurt =>
       list(Ids)[login[w].id] # "none"
  /\ op.call = "import" /\ op.file < 3 => dir[op.id]["meta"] \in {None, Part}

\* A login that has ended has left nothing.
Ended == \A w \in Windows : login[w].pc = "none" => login[w] = NoLogin

-----------------------------------------------------------------------------
(* The two invariants.                                                     *)

LEMMA InitListed == Init => Listed /\ Ended
<1> SUFFICES ASSUME Init PROVE Listed /\ Ended
  OBVIOUS
<1>1. /\ op.call = "none"
      /\ \A w \in Windows : login[w] = NoLogin /\ rows[w] = NoRows
  BY Fixed DEF Init
<1> QED
  BY <1>1, Fixed DEF Listed, Ended

LEMMA NextEnded ==
  ASSUME TypeOK, Ended, [Next]_vars
  PROVE  Ended'
<1> SUFFICES ASSUME NEW w \in Windows, login'[w].pc = "none"
             PROVE  login'[w] = NoLogin
  BY DEF Ended
<1> QED
  BY LoginMoves, StartingFields DEF Ended

\* A directory that does not change is listed as before.
LEMMA ListedAsBefore ==
  ASSUME NEW id \in Ids, dir'[id] = dir[id]
  PROVE  list(Ids)'[id] = list(Ids)[id]
BY DEF list

LEMMA NextListed ==
  ASSUME TypeOK, Unused, Unseen, Listed, [Next]_vars
  PROVE  Listed'
<1>1. ASSUME NEW w \in Windows, NEW id \in Ids, id \notin hurt', rows'[w][id] # "none"
      PROVE  list(Ids)'[id] # "none"
  <2>1. id \notin hurt
    BY <1>1, HurtStays
  <2>2. CASE rows'[w] = rows[w]
    <3>1. op.call = "import" => op.id # id
      BY <1>1, <2>2 DEF Unseen
    <3>2. dir'[id] = dir[id]
      BY <2>1, <3>1, FilesStay
    <3> QED BY <1>1, <2>1, <2>2, <3>2, ListedAsBefore DEF Listed
  <2>3. CASE rows'[w] = NoRows
    BY <1>1, <2>3, Fixed
  <2>4. CASE (\E R \in SUBSET Ids : rows'[w] = list(R)) /\ UNCHANGED dir
    BY <1>1, <2>4, ShownIsListed, ListedAsBefore
  <2> QED BY <2>2, <2>3, <2>4, RowsMove
<1>2. ASSUME NEW w \in Windows, login'[w].pc # "none", login'[w].id \notin hurt'
      PROVE  list(Ids)'[login'[w].id] # "none"
  <2>1. hurt \subseteq hurt'
    BY HurtStays
  <2>2. CASE login'[w].id = login[w].id /\ login[w].pc # "none"
    <3>1. login[w].id \in Ids /\ login[w].id \notin hurt
      BY <1>2, <2>1, <2>2, InUse
    <3>2. op.call = "import" => op.id # login[w].id
      BY DEF Unseen
    <3>3. dir'[login[w].id] = dir[login[w].id]
      BY <3>1, <3>2, FilesStay
    <3> QED BY <2>2, <3>1, <3>3, ListedAsBefore DEF Listed
  <2>3. ASSUME NEW id \in Ids, NEW path \in BOOLEAN, Connect(w, id),
               login'[w] = Starting(id, path)
        PROVE  list(Ids)'[login'[w].id] # "none"
    <3>1. login'[w].id = id
      <4>1. Starting(id, path).id = id
        BY StartingFields
      <4> QED BY <2>3, <4>1
    <3>2. rows[w][id] # "none" /\ UNCHANGED <<dir, hurt>>
      BY <2>3 DEF Connect
    <3> QED BY <1>2, <3>1, <3>2, ListedAsBefore DEF Listed
  <2>4. login'[w] # NoLogin
    BY <1>2, Fixed
  <2>5. Phase1Reads(w) \/ Phase2Reads(w) => login[w].pc # "none"
    BY DEF Phase1Reads, Phase2Reads
  <2>6. login'[w] = login[w] => login[w].pc # "none"
    BY <1>2
  <2> QED BY <2>2, <2>3, <2>4, <2>5, <2>6, LoginMoves
<1>3. ASSUME op'.call = "import", op'.file < 3
      PROVE  dir'[op'.id]["meta"] \in {None, Part}
  <2>1. CASE Creates
    <3>1. /\ op'.id = op.id /\ op'.file = op.file /\ op.call = "import"
          /\ op.id \in Ids /\ op.file \in {1, 2}
          /\ dir' = [dir EXCEPT ![op.id] = [dir[op.id] EXCEPT ![Order[op.file]] = Part]]
      BY <2>1, OpensFile, CreatesFile
    <3>2. dir[op.id]["meta"] \in {None, Part}
      BY <3>1 DEF Listed
    <3>3. dir \in [Ids -> [Files -> Data]] /\ Order[op.file] \in Files
      BY <3>1, Types DEF Order, Files
    <3> QED BY <3>1, <3>2, <3>3, Fixed
  <2>2. CASE Fills \/ WriteFails
    <3>1. /\ op'.id = op.id /\ op.call = "import" /\ op.file = 1
      BY <1>3, <2>2, NextFile
    <3>2. dir[op.id]["meta"] \in {None, Part}
      BY <3>1 DEF Listed
    <3>3. dir'[op.id]["meta"] = dir[op.id]["meta"]
      BY <2>2, <3>1, FillsFile DEF WriteFails
    <3> QED BY <3>1, <3>2, <3>3
  <2>3. ASSUME NEW w \in Windows, NEW id \in Ids, NEW content \in Contents,
               Import(w, id, content), op' = Started("import", w, id)
        PROVE  dir'[op'.id]["meta"] \in {None, Part}
    <3>1. imported[id] = None /\ UNCHANGED dir
      BY <2>3 DEF Import, Fresh
    <3>2. op'.id = id
      <4>1. Started("import", w, id).id = id
        BY StartedFields
      <4> QED BY <2>3, <4>1
    <3> QED BY <3>1, <3>2, Fixed DEF Unused
  <2>4. ASSUME NEW w \in Windows, NEW id \in Ids, op' = Started("delete", w, id)
        PROVE  FALSE
    <3>1. Started("delete", w, id).call = "delete"
      BY StartedFields
    <3> QED BY <1>3, <2>4, <3>1
  <2>5. op' # Resting
    BY <1>3, Fixed
  <2>6. CASE UNCHANGED op
    <3>1. ~Fills /\ ~RemovesFile
      <4>1. ~RemovesFile
        BY <1>3, <2>6 DEF RemovesFile
      <4>2. Fills => op'.file = op.file + 1 /\ op.file \in {1, 2}
        BY NextFile
      <4> QED BY <2>6, <4>1, <4>2
    <3>2. CASE UNCHANGED dir
      BY <1>3, <2>6, <3>2 DEF Listed
    <3> QED BY <2>1, <3>1, <3>2, DirMoves
  <2> QED BY <2>1, <2>2, <2>3, <2>4, <2>5, <2>6, OpMoves
<1> QED
  BY <1>1, <1>2, <1>3 DEF Listed

-----------------------------------------------------------------------------
(* The mapping.                                                            *)

\* The value of a profile.
LEMMA Profiles ==
  ASSUME IInv, NEW id \in Ids
  PROVE  /\ id \in hurt => store_profile[id] = Part
         /\ id \notin hurt /\ list(Ids)[id] = "none" => store_profile[id] = None
         /\ id \notin hurt /\ list(Ids)[id] # "none" =>
              /\ store_profile[id] = dir[id]["config"]
              /\ store_profile[id] \in Contents
         /\ None # Part /\ None \notin Contents /\ Part \notin Contents
<1>1. /\ id \in hurt => store_profile[id] = Part
      /\ id \notin hurt /\ list(Ids)[id] = "none" => store_profile[id] = None
      /\ id \notin hurt /\ list(Ids)[id] # "none" => store_profile[id] = dir[id]["config"]
  BY DEF store_profile
<1>2. None # Part /\ None \notin Contents /\ Part \notin Contents
  BY ProfileStoreAssumption DEF ProfileStoreAssumption
<1>3. CASE id \notin hurt /\ list(Ids)[id] # "none"
  <2>1. dir[id]["meta"] # None
    BY <1>3 DEF list
  <2>2. dir[id]["config"] = imported[id]
    BY <1>3, <2>1 DEF IInv, ConfigFirst
  <2>3. imported[id] # None
    BY <2>1, Fixed DEF IInv, Unused
  <2>4. imported[id] \in Contents
    BY <2>3, Types DEF IInv
  <2> QED BY <1>1, <1>2, <1>3, <2>2, <2>4
<1> QED
  BY <1>1, <1>2, <1>3

\* What does not touch the directory of a profile does not touch the profile.
LEMMA ProfileStays ==
  ASSUME NEW id \in Ids, dir'[id] = dir[id], id \in hurt' <=> id \in hurt
  PROVE  store_profile'[id] = store_profile[id]
BY ListedAsBefore DEF store_profile

LEMMA ProfilesStay ==
  ASSUME \A id \in Ids : store_profile'[id] = store_profile[id]
  PROVE  UNCHANGED store_profile
<1>1. /\ store_profile = [id \in Ids |-> store_profile[id]]
      /\ store_profile' = [id \in Ids |-> store_profile'[id]]
  BY DEF store_profile
<1> QED
  BY <1>1

LEMMA StoreStays ==
  ASSUME UNCHANGED <<dir, hurt>>
  PROVE  UNCHANGED store_profile
BY ProfileStays, ProfilesStay

LEMMA RowsStay ==
  ASSUME UNCHANGED rows
  PROVE  UNCHANGED store_shown
BY DEF store_shown

LEMMA LoginsStay ==
  ASSUME UNCHANGED login
  PROVE  UNCHANGED <<store_chosen, store_given>>
BY DEF store_chosen, store_given

\* A list that was just read is one AtomicStore may give.
LEMMA NewList ==
  ASSUME IInv, NEW w \in Windows, NEW R \in SUBSET Ids,
         rows' = [rows EXCEPT ![w] = list(R)]
  PROVE  \E ids \in Store!Listings : store_shown' = [store_shown EXCEPT ![w] = ids]
<1> DEFINE ids == {id \in Ids : list(R)[id] # "none"}
<1>1. ASSUME NEW id \in Ids, id \in ids
      PROVE  store_profile[id] # None
  BY <1>1, Profiles, ShownIsListed
<1>2. rows \in [Windows -> RowType]
  BY Types DEF IInv
<1>3. store_shown' = [store_shown EXCEPT ![w] = ids]
  BY <1>2 DEF store_shown
<1>4. ids \in SUBSET {id \in Ids : store_profile[id] # None}
  BY <1>1
<1> HIDE DEF ids
<1> QED
  BY <1>3, <1>4 DEF Store!Listings

LEMMA MapsInit == Init => Store!Init
<1> SUFFICES ASSUME Init PROVE Store!Init
  OBVIOUS
<1>1. store_profile = [id \in Ids |-> None]
  <2>1. \A id \in Ids : dir[id]["meta"] = None /\ id \notin hurt
    BY Fixed DEF Init
  <2>2. \A id \in Ids : list(Ids)[id] = "none"
    BY <2>1 DEF list
  <2> QED BY <2>1, <2>2 DEF store_profile
<1>2. kept = {} /\ store_shown = [w \in Windows |-> {}]
  <2>1. \A w \in Windows, id \in Ids : rows[w][id] = "none"
    BY Fixed DEF Init
  <2> QED BY <2>1 DEF Init, store_shown
<1>3. \A w \in Windows : login[w].id = None /\ login[w].pc = "none"
  BY Fixed DEF Init
<1> QED
  BY <1>1, <1>2, <1>3 DEF Store!Init, store_chosen, store_given

-----------------------------------------------------------------------------
(* The calls of the store.                                                 *)

LEMMA MapsCreates ==
  ASSUME IInv, Listed, Creates
  PROVE  UNCHANGED Store!vars
<1>1. /\ op.id \in Ids /\ op.file \in {1, 2} /\ op.call = "import"
      /\ dir' = [dir EXCEPT ![op.id] = [dir[op.id] EXCEPT ![Order[op.file]] = Part]]
      /\ \A id \in Ids : id # op.id => dir'[id] = dir[id]
      /\ UNCHANGED <<rows, login, kept, hurt>>
  BY CreatesFile DEF IInv, Creates
<1>2. dir[op.id]["meta"] \in {None, Part}
  BY <1>1 DEF Listed
<1>3. dir'[op.id]["meta"] \in {None, Part}
  <2>1. dir \in [Ids -> [Files -> Data]]
    BY Types DEF IInv
  <2> QED BY <1>1, <1>2, <2>1, Fixed
<1>4. list(Ids)[op.id] = "none" /\ list(Ids)'[op.id] = "none"
  BY <1>1, <1>2, <1>3 DEF list
<1>5. store_profile'[op.id] = store_profile[op.id]
  BY <1>1, <1>4 DEF store_profile
<1>6. UNCHANGED store_profile
  BY <1>1, <1>5, ProfileStays, ProfilesStay
<1> QED
  BY <1>1, <1>6, RowsStay, LoginsStay DEF Store!vars

\* The write of meta.json is the step by which a profile appears.
LEMMA MapsFills ==
  ASSUME IInv, Listed, Fills
  PROVE  UNCHANGED Store!vars \/ Store!Add(op.id, imported[op.id])
<1>1. /\ op.id \in Ids /\ op.file \in {1, 2} /\ op.call = "import"
      /\ \A id \in Ids : id # op.id => dir'[id] = dir[id]
      /\ op.file = 1 => dir'[op.id]["meta"] = dir[op.id]["meta"]
      /\ op.file = 2 => /\ dir'[op.id]["config"] = dir[op.id]["config"]
                        /\ dir'[op.id]["meta"] = imported[op.id]
      /\ UNCHANGED <<rows, login, kept, hurt>>
  BY FillsFile DEF IInv, Fills
<1>2. list(Ids)[op.id] = "none"
  BY <1>1 DEF Listed, list
<1>3. UNCHANGED <<kept, store_shown, store_chosen, store_given>>
  BY <1>1, RowsStay, LoginsStay
<1>4. CASE op.id \in hurt \/ op.file = 1
  <2>1. list(Ids)'[op.id] = "none" \/ op.id \in hurt
    BY <1>1, <1>2, <1>4 DEF list
  <2>2. store_profile'[op.id] = store_profile[op.id]
    BY <1>1, <1>2, <2>1 DEF store_profile
  <2>3. UNCHANGED store_profile
    BY <1>1, <2>2, ProfileStays, ProfilesStay
  <2> QED BY <1>3, <2>3 DEF Store!vars
<1>5. CASE op.id \notin hurt /\ op.file = 2
  <2>1. dir[op.id]["config"] = imported[op.id]
    BY <1>1, <1>5 DEF IInv, ConfigFirst
  <2>2. imported[op.id] # None /\ imported[op.id] # Part
    <3>1. imported[op.id] # None
      BY <1>1 DEF IInv, Unused
    <3>2. imported[op.id] \in Contents \cup {None}
      BY <1>1, Types DEF IInv
    <3> QED BY <3>1, <3>2, ProfileStoreAssumption DEF ProfileStoreAssumption
  <2>3. list(Ids)'[op.id] # "none"
    BY <1>1, <1>5, <2>2 DEF list
  <2>4. store_profile'[op.id] = imported[op.id]
    BY <1>1, <1>5, <2>1, <2>3 DEF store_profile
  <2>5. store_profile[op.id] = None
    BY <1>1, <1>2, <1>5 DEF store_profile
  <2>6. \A id \in Ids : id # op.id => store_profile'[id] = store_profile[id]
    BY <1>1, ProfileStays
  <2>7. store_profile' = [store_profile EXCEPT ![op.id] = imported[op.id]]
    <3>1. /\ store_profile = [id \in Ids |-> store_profile[id]]
          /\ store_profile' = [id \in Ids |-> store_profile'[id]]
      BY DEF store_profile
    <3> QED BY <1>1, <2>4, <2>6, <3>1
  <2> QED BY <1>3, <2>5, <2>7 DEF Store!Add
<1> QED
  BY <1>1, <1>4, <1>5

\* An error or delete() ends what is promised of one profile, and of no other.
LEMMA MapsSpoil ==
  ASSUME IInv, NEW id \in Ids, hurt' = hurt \cup {id},
         UNCHANGED <<dir, rows, login, kept>>
  PROVE  Store!Spoil(id)
<1>1. store_profile' = [store_profile EXCEPT ![id] = Part]
  <2>1. store_profile'[id] = Part
    BY DEF store_profile
  <2>2. \A i \in Ids : i # id => store_profile'[i] = store_profile[i]
    BY ProfileStays
  <2>3. /\ store_profile = [i \in Ids |-> store_profile[i]]
        /\ store_profile' = [i \in Ids |-> store_profile'[i]]
    BY DEF store_profile
  <2> QED BY <2>1, <2>2, <2>3
<1> QED
  BY <1>1, RowsStay, LoginsStay DEF Store!Spoil

LEMMA MapsImported ==
  ASSUME IInv, Listed, Imported
  PROVE  \E w \in Windows, id \in Ids : Store!Returns(w, id)
<1>1. /\ op.call = "import" /\ op.file > 2 /\ kept' = kept \cup {op.id}
      /\ \E R \in SUBSET Ids : rows' = [rows EXCEPT ![op.window] = list(R)]
      /\ UNCHANGED <<dir, login, hurt>>
  BY DEF Imported
<1>2. op.id \in Ids /\ op.window \in Windows
  BY <1>1, Types DEF IInv, OpType
<1>3. store_profile[op.id] # None
  <2>1. CASE op.id \in hurt
    BY <1>2, <2>1, Profiles
  <2>2. CASE op.id \notin hurt
    <3>1. dir[op.id]["meta"] = imported[op.id]
      <4>1. op.file \in 1..3
        BY Types DEF IInv, OpType
      <4> QED BY <1>1, <1>2, <2>2, <4>1 DEF IInv, ConfigFirst
    <3>2. imported[op.id] # None
      BY <1>2 DEF IInv, Unused
    <3>3. imported[op.id] # Part
      BY <1>2, <3>2, Types, ProfileStoreAssumption DEF IInv, ProfileStoreAssumption
    <3>4. list(Ids)[op.id] # "none"
      BY <1>2, <3>1, <3>2, <3>3 DEF list
    <3> QED BY <1>2, <2>2, <3>4, Profiles
  <2> QED BY <2>1, <2>2
<1>4. \E ids \in Store!Listings : store_shown' = [store_shown EXCEPT ![op.window] = ids]
  BY <1>1, <1>2, NewList
<1>5. Store!Returns(op.window, op.id)
  BY <1>1, <1>3, <1>4, StoreStays, LoginsStay DEF Store!Returns
<1> QED
  BY <1>2, <1>5

LEMMA MapsRemovesFile ==
  ASSUME IInv, RemovesFile
  PROVE  UNCHANGED Store!vars
<1>1. /\ op.id \in Ids /\ op.call = "delete"
      /\ \A id \in Ids : id # op.id => dir'[id] = dir[id]
      /\ UNCHANGED <<rows, login, kept, hurt>>
  BY RemovesOne DEF IInv, RemovesFile
<1>2. op.id \in hurt
  BY <1>1 DEF IInv, Unseen
<1>3. store_profile'[op.id] = store_profile[op.id]
  BY <1>1, <1>2 DEF store_profile
<1>4. UNCHANGED store_profile
  BY <1>1, <1>3, ProfileStays, ProfilesStay
<1> QED
  BY <1>1, <1>4, RowsStay, LoginsStay DEF Store!vars

-----------------------------------------------------------------------------
(* The windows and their logins.                                           *)

LEMMA MapsRefresh ==
  ASSUME IInv, NEW w \in Windows, Refresh(w)
  PROVE  Store!Refresh(w)
<1>1. /\ \E R \in SUBSET Ids : rows' = [rows EXCEPT ![w] = list(R)]
      /\ UNCHANGED <<dir, login, kept, hurt>>
  BY DEF Refresh
<1>2. \E ids \in Store!Listings : store_shown' = [store_shown EXCEPT ![w] = ids]
  BY <1>1, NewList
<1> QED
  BY <1>1, <1>2, StoreStays, LoginsStay DEF Store!Refresh

\* What a phase has read, of one login.
Given(l) ==
  CASE l.pc = "saml"   -> l.first
    [] l.pc = "phase2" -> l.second
    [] OTHER           -> None

\* A step of one login.
LEMMA OneLogin ==
  ASSUME TypeOK, NEW w \in Windows, NEW l, login' = [login EXCEPT ![w] = l]
  PROVE  /\ store_chosen' = [store_chosen EXCEPT ![w] = l.id]
         /\ store_given' = [store_given EXCEPT ![w] = Given(l)]
<1>1. login \in [Windows -> LoginType]
  BY Types
<1>2. \A v \in Windows : login'[v] = IF v = w THEN l ELSE login[v]
  BY <1>1
<1>3. /\ store_chosen = [v \in Windows |-> login[v].id]
      /\ store_chosen' = [v \in Windows |-> login'[v].id]
  BY DEF store_chosen
<1>4. /\ store_given = [v \in Windows |-> Given(login[v])]
      /\ store_given' = [v \in Windows |-> Given(login'[v])]
  BY DEF store_given, Given
<1>5. store_chosen' = [store_chosen EXCEPT ![w] = l.id]
  BY <1>2, <1>3
<1>6. store_given' = [store_given EXCEPT ![w] = Given(l)]
  BY <1>2, <1>4
<1> QED
  BY <1>5, <1>6

LEMMA MapsConnect ==
  ASSUME IInv, Ended, NEW w \in Windows, NEW id \in Ids, Connect(w, id)
  PROVE  Store!Choose(w, id)
<1> DEFINE l == Starting(id, rows[w][id] = "path")
<1>1. /\ login' = [login EXCEPT ![w] = l]
      /\ rows[w][id] # "none" /\ login[w].pc = "none"
      /\ UNCHANGED <<dir, rows, kept, hurt>>
  BY DEF Connect, Starting
<1>2. l.id = id /\ l.pc = "phase1"
  BY StartingFields
<1>3. store_chosen' = [store_chosen EXCEPT ![w] = id]
      /\ store_given' = [store_given EXCEPT ![w] = None]
  <2>1. Given(l) = None
    BY <1>2 DEF Given
  <2> HIDE DEF l
  <2> QED BY <1>1, <1>2, <2>1, OneLogin DEF IInv
<1>4. store_chosen[w] = None /\ store_given[w] = None
  BY <1>1, Fixed DEF Ended, store_chosen, store_given
<1>5. UNCHANGED store_given
  BY <1>3, <1>4 DEF store_given
<1>6. id \in store_shown[w]
  BY <1>1 DEF store_shown
<1> QED
  BY <1>1, <1>3, <1>4, <1>5, <1>6, StoreStays, RowsStay DEF Store!Choose

LEMMA LoginWith ==
  ASSUME NEW l \in LoginType, NEW data \in Data
  PROVE  /\ [l EXCEPT !.pc = "saml", !.first = data].id = l.id
         /\ Given([l EXCEPT !.pc = "saml", !.first = data]) = data
         /\ [l EXCEPT !.pc = "phase2", !.second = data].id = l.id
         /\ Given([l EXCEPT !.pc = "phase2", !.second = data]) = data
<1>1. [l EXCEPT !.pc = "saml"] \in LoginType
      /\ [l EXCEPT !.pc = "phase2"] \in LoginType
  BY DEF LoginType
<1>2. /\ [l EXCEPT !.pc = "saml", !.first = data].id = l.id
      /\ [l EXCEPT !.pc = "saml", !.first = data].pc = "saml"
      /\ [l EXCEPT !.pc = "saml", !.first = data].first = data
  BY <1>1 DEF LoginType
<1>3. /\ [l EXCEPT !.pc = "phase2", !.second = data].id = l.id
      /\ [l EXCEPT !.pc = "phase2", !.second = data].pc = "phase2"
      /\ [l EXCEPT !.pc = "phase2", !.second = data].second = data
  BY <1>1 DEF LoginType
<1> QED
  BY <1>2, <1>3 DEF Given

LEMMA MapsPhase1Reads ==
  ASSUME IInv, Listed, NEW w \in Windows, Phase1Reads(w)
  PROVE  \E data \in Contents \cup {Part} : Store!Read(w, data)
<1> DEFINE data == dir[login[w].id]["config"]
           l == [login[w] EXCEPT !.pc = "saml", !.first = data]
<1>1. /\ login[w].pc = "phase1" /\ data # None
      /\ login' = [login EXCEPT ![w] = l]
      /\ UNCHANGED <<dir, rows, kept, hurt>>
  <2>1. login \in [Windows -> LoginType]
    BY Types DEF IInv
  <2> QED BY <2>1 DEF Phase1Reads
<1>2. login[w].id \in Ids /\ login[w].id # None
  BY <1>1, InUse, Types DEF IInv
<1>3. data \in Data
  BY <1>2, Fixed, Types DEF IInv
<1>4. l.id = login[w].id /\ Given(l) = data
  <2>1. login[w] \in LoginType
    BY Types DEF IInv
  <2> HIDE DEF data
  <2> QED BY <1>3, <2>1, LoginWith
<1>5. /\ store_chosen[w] = login[w].id /\ store_given[w] = None
  BY <1>1 DEF store_chosen, store_given
<1>6. /\ store_profile[login[w].id] # None
      /\ store_profile[login[w].id] \in {data, Part}
  BY <1>1, <1>2, Profiles DEF Listed
<1>7. data \in Contents \cup {Part}
  BY <1>1, <1>3 DEF Data
<1> HIDE DEF data, l
<1>8. /\ store_chosen' = [store_chosen EXCEPT ![w] = login[w].id]
      /\ store_given' = [store_given EXCEPT ![w] = data]
  <2>1. /\ store_chosen' = [store_chosen EXCEPT ![w] = l.id]
        /\ store_given' = [store_given EXCEPT ![w] = Given(l)]
    BY <1>1, OneLogin DEF IInv
  <2> QED BY <1>4, <2>1
<1>9. UNCHANGED store_chosen
  BY <1>5, <1>8 DEF store_chosen
<1>10. Store!Read(w, data)
  BY <1>1, <1>2, <1>5, <1>6, <1>8, <1>9, StoreStays, RowsStay DEF Store!Read
<1> QED
  BY <1>7, <1>10

\* The second reading gives what the first one gave.
LEMMA MapsPhase2Reads ==
  ASSUME IInv, NEW w \in Windows, Phase2Reads(w)
  PROVE  UNCHANGED Store!vars
<1> DEFINE data == dir[login[w].id]["config"]
           l == [login[w] EXCEPT !.pc = "phase2", !.second = data]
<1>1. /\ login[w].pc = "saml" /\ data # None
      /\ login' = [login EXCEPT ![w] = l]
      /\ UNCHANGED <<dir, rows, kept, hurt>>
  <2>1. login \in [Windows -> LoginType]
    BY Types DEF IInv
  <2> QED BY <2>1 DEF Phase2Reads
<1>2. login[w].id \in Ids
  BY <1>1, InUse DEF IInv
<1>3. data \in Data
  BY <1>2, Fixed, Types DEF IInv
<1>4. l.id = login[w].id /\ Given(l) = data
  <2>1. login[w] \in LoginType
    BY Types DEF IInv
  <2> HIDE DEF data
  <2> QED BY <1>3, <2>1, LoginWith
<1>5. data = login[w].first
  BY <1>1 DEF IInv, Reading
<1>6. store_chosen[w] = login[w].id /\ store_given[w] = data
  BY <1>1, <1>5 DEF store_chosen, store_given
<1> HIDE DEF data, l
<1>7. /\ store_chosen' = [store_chosen EXCEPT ![w] = login[w].id]
      /\ store_given' = [store_given EXCEPT ![w] = data]
  <2>1. /\ store_chosen' = [store_chosen EXCEPT ![w] = l.id]
        /\ store_given' = [store_given EXCEPT ![w] = Given(l)]
    BY <1>1, OneLogin DEF IInv
  <2> QED BY <1>4, <2>1
<1>8. UNCHANGED <<store_chosen, store_given>>
  BY <1>6, <1>7 DEF store_chosen, store_given
<1> QED
  BY <1>1, <1>8, StoreStays, RowsStay DEF Store!vars

LEMMA MapsLoginEnds ==
  ASSUME IInv, NEW w \in Windows, LoginEnds(w)
  PROVE  Store!LoginEnds(w)
<1>1. /\ login' = [login EXCEPT ![w] = NoLogin]
      /\ UNCHANGED <<dir, rows, kept, hurt>>
  BY DEF LoginEnds
<1>2. NoLogin.id = None /\ Given(NoLogin) = None
  BY Fixed DEF Given
<1>3. /\ store_chosen' = [store_chosen EXCEPT ![w] = None]
      /\ store_given' = [store_given EXCEPT ![w] = None]
  BY <1>1, <1>2, OneLogin DEF IInv
<1> QED
  BY <1>1, <1>3, StoreStays, RowsStay DEF Store!LoginEnds

LEMMA MapsKilled ==
  ASSUME Killed
  PROVE  Store!Killed
<1>1. /\ rows' = [w \in Windows |-> NoRows]
      /\ login' = [w \in Windows |-> NoLogin]
      /\ UNCHANGED <<dir, kept, hurt>>
  BY DEF Killed
<1>2. store_shown' = [w \in Windows |-> {}]
  BY <1>1, Fixed DEF store_shown
<1>3. /\ store_chosen' = [w \in Windows |-> None]
      /\ store_given' = [w \in Windows |-> None]
  BY <1>1, Fixed DEF store_chosen, store_given
<1> QED
  BY <1>1, <1>2, <1>3, StoreStays DEF Store!Killed

LEMMA MapsSteps ==
  ASSUME IInv, Listed, Ended, [Next]_vars
  PROVE  [Store!Next]_(Store!vars)
<1>1. CASE UNCHANGED <<dir, hurt, rows, login, kept>>
  BY <1>1, StoreStays, RowsStay, LoginsStay DEF Store!vars
<1>2. CASE Creates \/ RemovesFile
  BY <1>2, MapsCreates, MapsRemovesFile
<1>3. CASE Fills
  <2>1. op.id \in Ids /\ imported[op.id] \in Contents \cup {None}
    BY <1>3, FillsFile, Types DEF IInv
  <2>2. imported[op.id] # None
    BY <1>3, <2>1, FillsFile DEF IInv, Unused
  <2> QED BY <1>3, <2>1, <2>2, MapsFills DEF Store!Next
<1>4. CASE WriteFails \/ \E w \in Windows, id \in Ids : Delete(w, id)
  <2>1. \E id \in Ids : /\ hurt' = hurt \cup {id}
                        /\ UNCHANGED <<dir, rows, login, kept>>
    <3>1. WriteFails => op.id \in Ids
      BY NextFile DEF IInv
    <3> QED BY <1>4, <3>1 DEF WriteFails, Delete
  <2> QED BY <2>1, MapsSpoil DEF Store!Next
<1>5. CASE Imported
  BY <1>5, MapsImported DEF Store!Next
<1>6. CASE \E w \in Windows : Refresh(w) \/ LoginEnds(w)
  BY <1>6, MapsRefresh, MapsLoginEnds DEF Store!Next
<1>7. CASE \E w \in Windows, id \in Ids : Connect(w, id)
  BY <1>7, MapsConnect DEF Store!Next
<1>8. CASE \E w \in Windows : Phase1Reads(w)
  BY <1>8, MapsPhase1Reads DEF Store!Next
<1>9. CASE \E w \in Windows : Phase2Reads(w)
  BY <1>9, MapsPhase2Reads
<1>10. CASE Killed
  BY <1>10, MapsKilled DEF Store!Next
<1>11. Deleted \/ (\E w \in Windows, id \in Ids, content \in Contents :
                     Import(w, id, content))
         => UNCHANGED <<dir, hurt, rows, login, kept>>
  BY DEF Deleted, Import
<1> QED
  BY <1>1, <1>2, <1>3, <1>4, <1>5, <1>6, <1>7, <1>8, <1>9, <1>10, <1>11 DEF Next, vars

-----------------------------------------------------------------------------

\* For any number of profiles, windows, kills and failures, the two files, the
\* two readings and the lists of any age behave as AtomicStore: what a window
\* or a login has seen of a profile stays true until somebody deletes it.
THEOREM AtomicStoreRefinement == Spec => Store!Spec
<1>1. IInv /\ Listed /\ Ended /\ [Next]_vars => Listed' /\ Ended'
  BY NextListed, NextEnded DEF IInv
<1>2. IInv /\ Listed /\ Ended /\ [Next]_vars => [Store!Next]_(Store!vars)
  BY MapsSteps
<1> QED
  BY <1>1, <1>2, InitListed, MapsInit, Invariance, PTL DEF Spec, Store!Spec

=============================================================================
