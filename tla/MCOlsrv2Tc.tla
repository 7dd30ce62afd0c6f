----------------------------- MODULE MCOlsrv2Tc -----------------------------
(* Instances of Olsrv2Tc for TLC.  Self is our own router: others announce *)
(* edges to it, its TCs are not read.                                      *)
EXTENDS Olsrv2Tc

CONSTANTS a, b, self, p

Says(edges, nets) == [edges |-> edges, nets |-> nets]

(* Two routers that see each other and us, lose each other and find each   *)
(* other again; p is attached to both.                                     *)
Changing ==
    [s \in Senders |-> [v \in Versions |->
        CASE s = a /\ v % 3 = 0 -> Says({b, self}, {})
          [] s = a /\ v % 3 = 1 -> Says({self}, {p})
          [] s = a /\ v % 3 = 2 -> Says({b}, {p})
          [] s = b /\ v % 3 = 0 -> Says({a}, {})
          [] s = b /\ v % 3 = 1 -> Says({}, {p})
          [] OTHER              -> Says({self}, {p})]]
=============================================================================
