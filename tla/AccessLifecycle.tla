-------------------------- MODULE AccessLifecycle --------------------------
(***************************************************************************)
(* What the access workflow promises of a Request, whoever reviews it and  *)
(* however the controllers interleave, fail or restart: it is decided      *)
(* once, it never leaves its end, its access window is fixed when it is    *)
(* approved, and access is granted for exactly that window and only to a   *)
(* Request that was approved.                                              *)
(*                                                                         *)
(* How late a grant may still be given or withdrawn after the Request has  *)
(* ended is not promised here: AccessGrant states and checks it.           *)
(***************************************************************************)
EXTENDS Naturals

CONSTANT Request

VARIABLES
  phase,    \* r -> where the Request stands
  window,   \* r -> the end of its access window, 0 until it is fixed
  granted   \* r -> until when its subject is given access, 0 for no access

vars == <<phase, window, granted>>

Phase == {"absent", "pending", "approved", "closed"}

Init ==
  /\ phase = [r \in Request |-> "absent"]
  /\ window = [r \in Request |-> 0]
  /\ granted = [r \in Request |-> 0]

Open(r) ==
  /\ phase[r] = "absent"
  /\ phase' = [phase EXCEPT ![r] = "pending"]
  /\ UNCHANGED <<window, granted>>

\* Some window for r, the others keeping theirs.
NewWindow(r) ==
  /\ window'[r] \in Nat
  /\ window' = [window EXCEPT ![r] = window'[r]]

\* The window may be fixed with the approval or later.
Approve(r) ==
  /\ phase[r] = "pending"
  /\ phase' = [phase EXCEPT ![r] = "approved"]
  /\ NewWindow(r)
  /\ UNCHANGED granted

\* The window is fixed once; if it has passed by then the Request is closed.
FixWindow(r) ==
  /\ phase[r] = "approved" /\ window[r] = 0
  /\ \E next \in {"approved", "closed"} : phase' = [phase EXCEPT ![r] = next]
  /\ NewWindow(r)
  /\ UNCHANGED granted

\* Rejected, cancelled, revoked, expired or deleted.
Close(r) ==
  /\ phase[r] \in {"pending", "approved"}
  /\ phase' = [phase EXCEPT ![r] = "closed"]
  /\ UNCHANGED <<window, granted>>

Grant(r) ==
  /\ window[r] # 0
  /\ granted' = [granted EXCEPT ![r] = window[r]]
  /\ UNCHANGED <<phase, window>>

Withdraw(r) ==
  /\ granted' = [granted EXCEPT ![r] = 0]
  /\ UNCHANGED <<phase, window>>

Next ==
  \E r \in Request :
    \/ Open(r) \/ Approve(r) \/ FixWindow(r) \/ Close(r)
    \/ Grant(r) \/ Withdraw(r)

Spec == Init /\ [][Next]_vars
=============================================================================
