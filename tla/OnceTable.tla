------------------------------ MODULE OnceTable ------------------------------
(***************************************************************************)
(* What the lazily initialised dispatch table promises its callers: some    *)
(* value is decided once, after the first call has begun and before any     *)
(* call returns, and every call returns that value.  How the callers agree  *)
(* on who decides, and through which memory they learn the value, is left   *)
(* to the implementation (module Dispatch).                                 *)
(***************************************************************************)
CONSTANTS
  Threads,   \* the callers
  Values,    \* the values that may be decided
  NoValue    \* the value has not been decided, or a caller holds none

VARIABLES
  value,     \* the decided value
  calling,   \* the threads inside a call
  got        \* what each thread's last finished call returned

vars == <<value, calling, got>>

Init ==
  /\ value = NoValue
  /\ calling = {}
  /\ got = [t \in Threads |-> NoValue]

Call(t) ==
  /\ t \notin calling
  /\ calling' = calling \union {t}
  /\ UNCHANGED <<value, got>>

Decide ==
  /\ value = NoValue
  /\ calling # {}
  /\ value' \in Values
  /\ UNCHANGED <<calling, got>>

Return(t) ==
  /\ t \in calling
  /\ value # NoValue
  /\ got' = [got EXCEPT ![t] = value]
  /\ calling' = calling \ {t}
  /\ UNCHANGED value

Next == Decide \/ \E t \in Threads : Call(t) \/ Return(t)

Fairness == WF_vars(Decide) /\ \A t \in Threads : WF_vars(Return(t))

SafeSpec == Init /\ [][Next]_vars

Spec == SafeSpec /\ Fairness
==============================================================================
