---------------------------- MODULE DiscoveryAnswer ----------------------------
(***************************************************************************)
(* What a discovery promises the loops: the tables it answers are some of  *)
(* those it named at its start.  Unless a call failed on the way all those *)
(* that the stream listed then, or was seen to list on the way, and that   *)
(* were not dropped since are among them.                                  *)
(***************************************************************************)
EXTENDS Naturals

CONSTANT Fit  \* the tables that can be synchronised

VARIABLES
    present,  \* the tables there are
    listed,   \* those that the stream lists
    asking,   \* whether a discovery is under way
    named,    \* the tables it may answer
    owed,     \* those it has to answer, should nothing fail
    found,    \* what the last one answered
    budget    \* failures still to come

vars == <<present, listed, asking, named, owed, found, budget>>
question == <<asking, named, owed>>

Init ==
    /\ present = {} /\ listed = {}
    /\ asking = FALSE /\ named = {} /\ owed = {}
    /\ found = {}
    /\ budget \in Nat

Begin ==
    /\ ~asking
    /\ asking' = TRUE
    /\ named' = present
    /\ owed' = listed
    /\ UNCHANGED <<present, listed, found, budget>>

(* The stream never lets go of a table that is there. *)
PickUp == listed \subseteq listed' /\ listed' \subseteq present

(* It looks at a table, and passes over it unless it is owed; or the       *)
(* stream picks tables up.                                                 *)
Look ==
    /\ PickUp
    /\ named' \subseteq named
    /\ owed \subseteq owed' /\ owed' \subseteq named'
    /\ UNCHANGED <<present, asking, found, budget>>

Answer ==
    /\ asking
    /\ owed \subseteq found' /\ found' \subseteq named
    /\ asking' = FALSE /\ named' = {} /\ owed' = {}
    /\ UNCHANGED <<present, listed, budget>>

(* A failure costs some tables, or ends the discovery. *)
Lose ==
    /\ budget > 0 /\ budget' = budget - 1
    /\ PickUp
    /\ named' \subseteq named
    /\ owed' \subseteq named'
    /\ UNCHANGED <<present, asking, found>>

BreakOff ==
    /\ budget > 0 /\ budget' = budget - 1
    /\ found' \subseteq named
    /\ asking' = FALSE /\ named' = {} /\ owed' = {}
    /\ UNCHANGED <<present, listed>>

(* The stream does not list a table that is made anew. *)
Create(t) ==
    /\ present' = present \cup {t}
    /\ UNCHANGED <<listed, question, found, budget>>

(* A table that is dropped may have been looked at before. *)
Drop(t) ==
    /\ present' = present \ {t}
    /\ listed' = listed \ {t}
    /\ owed \ {t} \subseteq owed' /\ owed' \subseteq owed
    /\ UNCHANGED <<asking, named, found, budget>>

Next ==
    \/ Begin \/ Look \/ Answer \/ Lose \/ BreakOff
    \/ \E t \in Fit : Create(t) \/ Drop(t)

Spec == Init /\ [][Next]_vars
=============================================================================
