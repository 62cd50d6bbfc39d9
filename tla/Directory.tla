----------------------------- MODULE Directory -----------------------------
(***************************************************************************)
(* What the register promises to those who look agents up in it: an entry  *)
(* always names a member that has joined and not left, under the member's  *)
(* own identifier.  A member that joins need not be listed yet, and may be *)
(* displaced by a later member of the same identifier; a member that       *)
(* leaves takes its own entry with it.  Of an entry that names a rival     *)
(* nothing is promised: it may be kept, or go with the member that leaves. *)
(***************************************************************************)
CONSTANTS Member, Id, IdOf, Nobody

VARIABLES entry,  \* the member listed under an identifier
          live    \* members that joined and have not left

dvars == <<entry, live>>

DirectoryInit ==
    /\ entry = [i \in Id |-> Nobody]
    /\ live = {}

Join(m) ==
    /\ m \notin live
    /\ live' = live \cup {m}
    /\ UNCHANGED entry

List(m) ==
    /\ m \in live
    /\ entry' = [entry EXCEPT ![IdOf[m]] = m]
    /\ UNCHANGED live

Leave(m) ==
    /\ m \in live
    /\ live' = live \ {m}
    /\ \/ entry' = [entry EXCEPT ![IdOf[m]] = Nobody]
       \/ entry[IdOf[m]] # m /\ UNCHANGED entry

DirectoryNext == \E m \in Member : Join(m) \/ List(m) \/ Leave(m)

DirectorySpec == DirectoryInit /\ [][DirectoryNext]_dvars
=============================================================================
