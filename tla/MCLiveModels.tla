---------------------------- MODULE MCLiveModels ----------------------------
(***************************************************************************)
(* Instances for TLC of the two providers that keep a session with a live  *)
(* service, Gemini and Gemini Robotics.  A behaviour follows one of them.  *)
(***************************************************************************)
EXTENDS GeminiLive, RoboticsLive

VARIABLE provider

LiveModelsInit ==
  /\ provider \in {"gemini", "robotics"}
  /\ Init /\ RoboticsInit

LiveModelsNext ==
  /\ UNCHANGED provider
  /\ IF provider = "gemini" THEN Next ELSE UNCHANGED vars
  /\ IF provider = "robotics" THEN RoboticsNext ELSE UNCHANGED roboticsVars

\* GeminiLive's Fairness, in the behaviours that follow it.
InGemini(A) == provider = "gemini" /\ A

LiveModelsFairness ==
  /\ SF_vars(InGemini(Gone)) /\ WF_vars(InGemini(Retry))
  /\ WF_vars(InGemini(at[Events] = "calling" /\ (ToolAnswered \/ Breaks)))
  /\ \A t \in Connecting :
       WF_vars(InGemini(Reconnect(t))) /\ WF_vars(InGemini(Entered(t) \/ EnterFails(t)))

LiveModelsSpec ==
  /\ LiveModelsInit
  /\ [][LiveModelsNext]_<<provider, vars, roboticsVars>>
  /\ LiveModelsFairness
=============================================================================
