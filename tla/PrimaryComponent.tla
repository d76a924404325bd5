---------------------------- MODULE PrimaryComponent ----------------------------
(***************************************************************************)
(* What the nodes of a deployment promise to the clients of the database:  *)
(* there is never more than one primary component, and a new one is formed *)
(* only where none is alive.  The promise ends when it is excused, and a   *)
(* component that was formed beside another one may stay.                  *)
(***************************************************************************)
CONSTANT Nodes

VARIABLES
  components,  \* the primary components, as sets of their members
  excused      \* what the promise rests on was broken

Init == components = {} /\ ~ excused

\* n bootstraps.
Form(n) == components = {} /\ components' = {{n}}

\* n joins the component there is.
Join(n) == \E c \in components : components' = {c \cup {n}}

\* n leaves it, as its last member or not.
Leave(n) == \E c \in components : components' = {c \ {n}} \ {{}}

\* The members that are left are no majority.
Dissolve == components # {} /\ components' = {}

Next == \/ \E n \in Nodes : Form(n) \/ Join(n) \/ Leave(n)
        \/ Dissolve
        \/ excused

Spec == Init /\ [][Next]_components

=============================================================================
