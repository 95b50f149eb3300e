----------------------------- MODULE PluginInit -----------------------------
(***************************************************************************)
(* One-time plugin initialisation: in3_plugin_init, called by req_new      *)
(* (src/c/src/core/client/request.c), against the plugin registry of the   *)
(* client.  Each plugin keeps its own INIT bit in p->acts; the client      *)
(* keeps the union of all bits in client->plugin_acts so that req_new can  *)
(* skip the walk when nobody waits for INIT.                               *)
(***************************************************************************)
EXTENDS Naturals, Sequences, SequencesExt

CONSTANTS
  Plugins,    \* the plugins that may be registered (model values)
  WithInit,   \* those that declare PLGN_ACT_INIT
  MayFail,    \* those whose INIT handler may return an error
  MaxInits    \* bound: INIT deliveries counted per plugin

ASSUME WithInit \subseteq Plugins /\ MayFail \subseteq WithInit

VARIABLES
  plugins,     \* client->plugins, in registration order
  acts,        \* the INIT bit of p->acts
  clientInit,  \* the INIT bit of client->plugin_acts
  inits,       \* history: INIT deliveries per plugin
  acked        \* history: plugins whose INIT handler returned IN3_OK

vars == <<plugins, acts, clientInit, inits, acked>>

Registered == ToSet(plugins)

(***************************************************************************)
(* in3_plugin_register (outside src/): the plugin is appended to the list  *)
(* and its actions are added to client->plugin_acts.                       *)
(***************************************************************************)
Register(p) ==
  /\ p \notin Registered
  /\ plugins' = Append(plugins, p)
  /\ acts' = [acts EXCEPT ![p] = p \in WithInit]
  /\ clientInit' = (clientInit \/ p \in WithInit)
  /\ UNCHANGED <<inits, acked>>

(***************************************************************************)
(* in3_plugin_init: when the client bit is set, walk the plugins in order; *)
(* each one with its INIT bit gets INIT and, on success, loses the bit.    *)
(* The first failure returns at once (TRY): the client bit stays set and   *)
(* later plugins are not called.  `failAt` is the position of the failing *)
(* call, or Len(plugins) + 1 when every call succeeds.                     *)
(***************************************************************************)
Called(failAt) == {plugins[i] : i \in {j \in 1..Len(plugins) : j <= failAt /\ acts[plugins[j]]}}
Cleared(failAt) == {plugins[i] : i \in {j \in 1..Len(plugins) : j < failAt /\ acts[plugins[j]]}}

\* Positions where the walk can stop: a failing plugin with its bit, or
\* past the end.
StopPoints ==
  {i \in 1..Len(plugins) : acts[plugins[i]] /\ plugins[i] \in MayFail}
    \cup {Len(plugins) + 1}

\* Variant: the client bit is cleared even when a handler failed.
PluginInitClearAlways(failAt) ==
  /\ \A p \in Called(failAt) : inits[p] < MaxInits
  /\ acts' = [p \in Plugins |-> acts[p] /\ p \notin Cleared(failAt)]
  /\ clientInit' = FALSE
  /\ inits' = [p \in Plugins |-> IF p \in Called(failAt) THEN inits[p] + 1 ELSE inits[p]]
  /\ acked' = acked \cup Cleared(failAt)

\* Variant: a failing handler is skipped and the walk goes on (no TRY).
PluginInitSkipFailed(failAt) ==
  LET all     == Called(Len(plugins) + 1)
      cleared == IF failAt <= Len(plugins) THEN all \ {plugins[failAt]} ELSE all
  IN  /\ \A p \in all : inits[p] < MaxInits
      /\ acts' = [p \in Plugins |-> acts[p] /\ p \notin cleared]
      /\ clientInit' = (failAt <= Len(plugins))
      /\ inits' = [p \in Plugins |-> IF p \in all THEN inits[p] + 1 ELSE inits[p]]
      /\ acked' = acked \cup cleared

PluginInit(failAt) ==
  /\ \A p \in Called(failAt) : inits[p] < MaxInits
  /\ acts' = [p \in Plugins |-> acts[p] /\ p \notin Cleared(failAt)]
  /\ clientInit' = (failAt <= Len(plugins))
  /\ inits' = [p \in Plugins |-> IF p \in Called(failAt) THEN inits[p] + 1 ELSE inits[p]]
  /\ acked' = acked \cup Cleared(failAt)

(***************************************************************************)
(* req_new: a request that does not parse, or whose root is neither an     *)
(* object nor an array, returns the context in error before the plugins    *)
(* are initialised; a valid one calls in3_plugin_init and ignores its      *)
(* result.  With the client bit clear the walk is skipped.  Only the walk  *)
(* changes plugin state; the other paths are stuttering steps.             *)
(***************************************************************************)
ReqNew ==
  /\ clientInit
  /\ \E failAt \in StopPoints : PluginInit(failAt)
  /\ UNCHANGED plugins

Init ==
  /\ plugins = <<>>
  /\ acts = [p \in Plugins |-> FALSE]
  /\ clientInit = FALSE
  /\ inits = [p \in Plugins |-> 0]
  /\ acked = {}

Next ==
  \/ \E p \in Plugins : Register(p)
  \/ ReqNew

Spec == Init /\ [][Next]_vars

-----------------------------------------------------------------------------
\* The refinement mapping: the waiting plugins are those whose own INIT bit
\* is set, in the order of client->plugins.
Abs == INSTANCE InitOnce
         WITH registered <- plugins,
              waiting <- SelectSeq(plugins, LAMBDA p : acts[p]),
              done <- acked

(* in3_plugin_init implements InitOnce: every walk acknowledges exactly a  *)
(* prefix of the plugins still waiting for INIT, in registration order,    *)
(* and no plugin twice; a failing handler holds back all that follow it.   *)
AbsSpec == Abs!Spec

TypeOK ==
  /\ plugins \in Seq(Plugins)
  /\ acts \in [Plugins -> BOOLEAN]
  /\ clientInit \in BOOLEAN
  /\ inits \in [Plugins -> 0..MaxInits]
  /\ acked \subseteq Plugins

(* The client summary bit never hides a plugin still waiting for INIT:     *)
(* whenever a registered plugin keeps its INIT bit, so does the client, so *)
(* a later req_new still walks to it after registrations and failed walks. *)
ClientBitCoversPlugins ==
  (\E p \in Registered : acts[p]) => clientInit

=============================================================================
