--------------------------- MODULE NextValueFeed ---------------------------
(***************************************************************************)
(* What GenericClient::getVariableNextValue promises its callers           *)
(* (OpcUaGenericClient.hh:272-286): a call "waits until the value is       *)
(* updated before returning its current value".  There is one stored value *)
(* per variable, it only moves forward, and a call that was started when   *)
(* the stored value was since[r] returns the value stored at its return,   *)
(* which must be a newer one.                                              *)
(*                                                                         *)
(* Values are numbered in the order in which the server published them;    *)
(* 0 stands for "nothing received yet".                                    *)
(***************************************************************************)
EXTENDS Integers

CONSTANTS Readers,     \* the callers of getVariableNextValue
          Vars,        \* the variables of the remote object
          Stamps       \* the numbers of the published values

VARIABLES latest,      \* the stored value of every variable
          pending,     \* the readers inside a call
          var,         \* the variable each reader last asked for
          since,       \* the stored value when that call was accepted
          out          \* the value the last finished call returned

feedVars == <<latest, pending, var, since, out>>

Init ==
    /\ latest = [v \in Vars |-> 0]
    /\ pending = {}
    /\ var \in [Readers -> Vars]
    /\ since = [r \in Readers |-> 0]
    /\ out = [r \in Readers |-> 0]

(* A notification is stored: the value of v moves forward. *)
Update(v) ==
    \E n \in Stamps :
        /\ n > latest[v]
        /\ latest' = [latest EXCEPT ![v] = n]
        /\ UNCHANGED <<pending, var, since, out>>

(* The client accepts a call of r for variable v. *)
Begin(r, v) ==
    /\ r \notin pending
    /\ pending' = pending \cup {r}
    /\ var' = [var EXCEPT ![r] = v]
    /\ since' = [since EXCEPT ![r] = latest[v]]
    /\ UNCHANGED <<latest, out>>

(* The call of r returns ALL_OK with the current, and newer, value. *)
Return(r) ==
    /\ r \in pending
    /\ latest[var[r]] > since[r]
    /\ pending' = pending \ {r}
    /\ out' = [out EXCEPT ![r] = latest[var[r]]]
    /\ UNCHANGED <<latest, var, since>>

Next ==
    \/ \E v \in Vars : Update(v)
    \/ \E r \in Readers : Return(r) \/ \E v \in Vars : Begin(r, v)

Spec == Init /\ [][Next]_feedVars
=============================================================================
