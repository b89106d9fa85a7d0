------------------------------- MODULE Delivery --------------------------------
(***************************************************************************)
(* What the telemetry spool promises, without files, locks or processes:   *)
(* an event that was put into the spool stays owed until the database has  *)
(* it or the retention policy of the spool gives it up.  An event may be   *)
(* stored more than once, and may come back after it was stored.           *)
(***************************************************************************)
CONSTANT Events

VARIABLES
  owed,       (* the events the spool still answers for                      *)
  delivered,  (* the events the database has taken from the spool            *)
  givenUp     (* the events the retention policy removed                     *)

Init == owed = {} /\ delivered = {} /\ givenUp = {}

Owe(e) ==
  /\ owed' = owed \cup {e}
  /\ UNCHANGED <<delivered, givenUp>>

Deliver(e) ==
  /\ delivered' = delivered \cup {e}
  /\ UNCHANGED <<owed, givenUp>>

(* Only what was delivered leaves without being given up.                    *)
Release(E) ==
  /\ E \subseteq delivered
  /\ owed' = owed \ E
  /\ UNCHANGED <<delivered, givenUp>>

GiveUp(E) ==
  /\ E \subseteq owed
  /\ givenUp' = givenUp \cup E
  /\ owed' \in SUBSET owed
  /\ owed \ owed' \subseteq E
  /\ UNCHANGED delivered

Next ==
  \/ \E e \in Events : Owe(e) \/ Deliver(e)
  \/ \E E \in SUBSET Events : Release(E) \/ GiveUp(E)

Spec == Init /\ [][Next]_<<owed, delivered, givenUp>>

===============================================================================
