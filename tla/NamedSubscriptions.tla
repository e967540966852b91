-------------------------- MODULE NamedSubscriptions --------------------------
(***************************************************************************)
(* What subscribing by name promises the users of GenericClient objects    *)
(* (OpcUaGenericClient.hh:148-162, 202-203): "value-updates for the        *)
(* respective variable".  A subscription is to the node whose id its name  *)
(* stands for, and an update is stored by the client that subscribed,      *)
(* under the name it subscribed to.  There are no subscription ids here,   *)
(* no sessions, and nothing that clients share.                            *)
(*                                                                         *)
(* A name stands for the id it had in the object it was first added from.  *)
(* Objects of several servers may use the same ids: after connecting to    *)
(* another one, a subscription to the name is to the variable that has the *)
(* id there, which need not have the name (OpcUaGenericClient.cc:346).     *)
(***************************************************************************)
CONSTANTS
    Clients,     \* the client objects
    Objects,     \* the remote root objects
    Names,       \* browse names of variables
    NodeIds,     \* node ids of variables
    NodeOf,      \* the id of the variable of a name of an object, if it has it
    Nothing      \* no object, no node id

VARIABLES
    node,        \* the id that a name of a client stands for
    items,       \* <<object, id, name>>: what a client is subscribed to, and as
    stored       \* where the value of a name came from, as the client has it

subscriptionVars == <<node, items, stored>>

Never == [client |-> Nothing, object |-> Nothing, node |-> Nothing, name |-> Nothing]

Init ==
    /\ node = [c \in Clients |-> [n \in Names |-> Nothing]]
    /\ items = [c \in Clients |-> {}]
    /\ stored = [c \in Clients |-> [n \in Names |-> Never]]

(* The variable n is added from object o, with a subscription or without:  *)
(* a new name gets the id of the variable that has it in o; a subscription *)
(* is possible if o has a variable with the id of the name.                *)
Add(c, n, o) ==
    /\ \/ /\ node[c][n] = Nothing /\ NodeOf[o][n] # Nothing
          /\ node' = [node EXCEPT ![c][n] = NodeOf[o][n]]
       \/ node[c][n] # Nothing /\ UNCHANGED node
    /\ \/ UNCHANGED items
       \/ /\ \E m \in Names : NodeOf[o][m] = node'[c][n]
          /\ items' = [items EXCEPT ![c] = @ \cup {<<o, node'[c][n], n>>}]
    /\ UNCHANGED stored

(* Subscriptions end: the session is over, a server restarts. *)
End ==
    /\ items' \in [Clients -> SUBSET (Objects \X NodeIds \X Names)]
    /\ \A c \in Clients : items'[c] \subseteq items[c]
    /\ UNCHANGED <<node, stored>>

(* An update arrives, of the variable of object o with the id of name n. *)
Update(c, o, n) ==
    /\ <<o, node[c][n], n>> \in items[c]
    /\ stored' = [stored EXCEPT ![c][n] =
                      [client |-> c, object |-> o, node |-> node[c][n], name |-> n]]
    /\ UNCHANGED <<node, items>>

Next ==
    \/ End
    \/ \E c \in Clients, n \in Names, o \in Objects : Add(c, n, o) \/ Update(c, o, n)

Spec == Init /\ [][Next]_subscriptionVars
=============================================================================
