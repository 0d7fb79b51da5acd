----------------------------- MODULE SingleUse -----------------------------
(***************************************************************************)
(* What a permission that is given once and may be used once promises, be  *)
(* it the approval that lets a source card be archived or the confirmation *)
(* that lets a project use Fable.  It is given for one purpose and until   *)
(* some time, neither of which changes; it is spent at most once, before   *)
(* that time, in the same step in which what it permits is done; and what  *)
(* it permits is never done without one being spent.                       *)
(***************************************************************************)
EXTENDS Integers

CONSTANTS Tokens, Purposes, None

VARIABLES
  now,      \* the clock
  granted,  \* the terms of a token, None before it is given
  spent,    \* the tokens that have been spent
  done      \* how often the thing a purpose names has been done

vars == <<now, granted, spent, done>>

Terms == [purpose : Purposes, until : Int]

Init ==
  /\ now \in Int
  /\ granted = [t \in Tokens |-> None]
  /\ spent = {}
  /\ done = [p \in Purposes |-> 0]

Grant(t) ==
  /\ granted[t] = None
  /\ granted'[t] \in Terms
  /\ granted' = [granted EXCEPT ![t] = granted'[t]]
  /\ UNCHANGED <<now, spent, done>>

Spend(t) ==
  /\ granted[t] # None /\ t \notin spent
  /\ now < granted[t].until
  /\ spent' = spent \cup {t}
  /\ done' = [done EXCEPT ![granted[t].purpose] = @ + 1]
  /\ UNCHANGED <<now, granted>>

Pass ==
  /\ now' \in Int /\ now' > now
  /\ UNCHANGED <<granted, spent, done>>

Next == Pass \/ \E t \in Tokens : Grant(t) \/ Spend(t)

Spec == Init /\ [][Next]_vars
=============================================================================
