---------------------------- MODULE MCProviders ----------------------------
(***************************************************************************)
(* Instances for TLC of what a connection uses besides its session and its *)
(* vision models: its scripts, the shared model of a provider class, the   *)
(* port range, and five providers.  They have no state in common, so that  *)
(* each behaviour follows one of them, chosen in the initial state.        *)
(***************************************************************************)
EXTENDS SharedModel, PortRange, CartesiaSpeech, CosmosWindow, MinimaxClips, MujocoSim,
        LocalGeneration, ScriptHost, TLC

VARIABLE part

Parts == {"shared", "ports", "speech", "window", "clips", "sim", "text", "scripts"}

ProvidersInit ==
  /\ part \in Parts
  /\ Init /\ PortInit /\ SpeechInit /\ CosmosInit /\ ClipInit /\ SimInit /\ TextInit
  /\ ScriptInit
  /\ part # "shared" => \A p \in Provider : wants[p] = CHOOSE v \in Variant : TRUE

ProvidersNext ==
  /\ UNCHANGED part
  /\ IF part = "shared" THEN Next ELSE UNCHANGED vars
  /\ IF part = "ports" THEN PortNext ELSE UNCHANGED portVars
  /\ IF part = "speech" THEN SpeechNext ELSE UNCHANGED speechVars
  /\ IF part = "window" THEN CosmosNext ELSE UNCHANGED cosmosVars
  /\ IF part = "clips" THEN ClipNext ELSE UNCHANGED clipVars
  /\ IF part = "sim" THEN SimNext ELSE UNCHANGED simVars
  /\ IF part = "text" THEN TextNext ELSE UNCHANGED textVars
  /\ IF part = "scripts" THEN ScriptNext ELSE UNCHANGED scriptVars

ProvidersSpec ==
  /\ ProvidersInit
  /\ [][ProvidersNext]_<<part, vars, portVars, speechVars, cosmosVars, clipVars, simVars,
                         textVars, scriptVars>>

Symmetry == Permutations(Negotiation)
=============================================================================
