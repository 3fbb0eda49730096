----------------------------- MODULE AtomicStore -----------------------------
(***************************************************************************)
(* What the profile store promises to the windows and their logins: a      *)
(* profile is one value that appears at once, does not change, and is read *)
(* once by a login.  Module ProfileStore implements it with two files that *)
(* are written one after the other, read twice, and may be left behind by  *)
(* a program that was killed.                                              *)
(***************************************************************************)

CONSTANTS Ids, Contents, Windows, None, Part

VARIABLES
  profile,  \* None until it can be seen, then its content; Part, about which
            \* nothing is promised, once delete() or an error has touched it
  returned, \* the profiles whose import has returned
  shown,    \* shown[w]: the rows of a window
  chosen,   \* chosen[w]: the profile its login is for
  given     \* given[w]: the configuration its login was given

vars == <<profile, returned, shown, chosen, given>>

Init ==
  /\ profile = [id \in Ids |-> None]
  /\ returned = {}
  /\ shown = [w \in Windows |-> {}]
  /\ chosen = [w \in Windows |-> None]
  /\ given = [w \in Windows |-> None]

-----------------------------------------------------------------------------

Add(id, content) ==
  /\ profile[id] = None
  /\ profile' = [profile EXCEPT ![id] = content]
  /\ UNCHANGED <<returned, shown, chosen, given>>

Spoil(id) ==
  /\ profile' = [profile EXCEPT ![id] = Part]
  /\ UNCHANGED <<returned, shown, chosen, given>>

\* A list has none that was not added; it may miss what could not be read.
Listings == SUBSET {id \in Ids : profile[id] # None}

Returns(w, id) ==
  /\ profile[id] # None
  /\ returned' = returned \cup {id}
  /\ \E ids \in Listings : shown' = [shown EXCEPT ![w] = ids]
  /\ UNCHANGED <<profile, chosen, given>>

Refresh(w) ==
  /\ \E ids \in Listings : shown' = [shown EXCEPT ![w] = ids]
  /\ UNCHANGED <<profile, returned, chosen, given>>

Choose(w, id) ==
  /\ chosen[w] = None /\ id \in shown[w]
  /\ chosen' = [chosen EXCEPT ![w] = id]
  /\ UNCHANGED <<profile, returned, shown, given>>

\* Both phases of the login go by this one reading.
Read(w, data) ==
  /\ chosen[w] # None /\ given[w] = None
  /\ profile[chosen[w]] # None
  /\ profile[chosen[w]] \in {data, Part}
  /\ given' = [given EXCEPT ![w] = data]
  /\ UNCHANGED <<profile, returned, shown, chosen>>

LoginEnds(w) ==
  /\ chosen' = [chosen EXCEPT ![w] = None]
  /\ given' = [given EXCEPT ![w] = None]
  /\ UNCHANGED <<profile, returned, shown>>

\* What the program knew is gone; the profiles stay.
Killed ==
  /\ shown' = [w \in Windows |-> {}]
  /\ chosen' = [w \in Windows |-> None]
  /\ given' = [w \in Windows |-> None]
  /\ UNCHANGED <<profile, returned>>

-----------------------------------------------------------------------------

Next ==
  \/ \E id \in Ids : Spoil(id) \/ \E content \in Contents : Add(id, content)
  \/ \E w \in Windows :
       \/ Refresh(w) \/ LoginEnds(w)
       \/ \E id \in Ids : Returns(w, id) \/ Choose(w, id)
       \/ \E data \in Contents \cup {Part} : Read(w, data)
  \/ Killed

Spec == Init /\ [][Next]_vars

=============================================================================
