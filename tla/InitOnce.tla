------------------------------ MODULE InitOnce ------------------------------
(***************************************************************************)
(* What plugin initialisation promises, without bits or walks: plugins are *)
(* registered one at a time; those that declare INIT wait in registration  *)
(* order; an initialisation round acknowledges a prefix of the waiting     *)
(* plugins (possibly empty, when the first one fails) and each plugin is   *)
(* acknowledged once.                                                      *)
(***************************************************************************)
EXTENDS Naturals, Sequences, SequencesExt

CONSTANTS Plugins, WithInit

VARIABLES
  registered,  \* plugins in registration order
  waiting,     \* registered plugins declaring INIT, not yet acknowledged
  done         \* acknowledged plugins

absVars == <<registered, waiting, done>>

Init ==
  /\ registered = <<>>
  /\ waiting = <<>>
  /\ done = {}

Register(p) ==
  /\ p \notin ToSet(registered)
  /\ registered' = Append(registered, p)
  /\ waiting' = IF p \in WithInit THEN Append(waiting, p) ELSE waiting
  /\ UNCHANGED done

\* A round acknowledges the first k waiting plugins.
Acknowledge(k) ==
  /\ done' = done \cup ToSet(SubSeq(waiting, 1, k))
  /\ waiting' = SubSeq(waiting, k + 1, Len(waiting))
  /\ UNCHANGED registered

Next ==
  \/ \E p \in Plugins : Register(p)
  \/ \E k \in 1..Len(waiting) : Acknowledge(k)

Spec == Init /\ [][Next]_absVars
=============================================================================
