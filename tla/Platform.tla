------------------------------ MODULE Platform ------------------------------
(***************************************************************************)
(* The services around the intake in one process (main.py): the rate       *)
(* limit its requests pass, the jobs they start, the loops that run beside *)
(* them and the learning from what they decide.                            *)
(*                                                                         *)
(* No two of them share state, so a behaviour of all is an interleaving of *)
(* one of each; a scene is one of them with the others at rest.            *)
(*                                                                         *)
(* Fairness.  A worker of the pool that can go on does (its upload waits   *)
(* on nothing but time-limited calls), the event loop wakes its sleeping   *)
(* tasks, and days pass.  Nothing is assumed of clients and analysts.      *)
(***************************************************************************)
EXTENDS Requests, Jobs, Webhooks, Learning

CONSTANT Scenes
ASSUME PlatformAssumption == Scenes \subseteq {"requests", "jobs", "webhooks", "learning"}

VARIABLE scene

vars == <<scene, reqVars, jobVars, hookVars, known>>

Init == scene \in Scenes /\ ReqInit /\ JobInit /\ HookInit /\ LearnInit

Next ==
    /\ UNCHANGED scene
    /\ \/ scene = "requests" /\ ReqNext /\ UNCHANGED <<jobVars, hookVars, known>>
       \/ scene = "jobs" /\ JobNext /\ UNCHANGED <<reqVars, hookVars, known>>
       \/ scene = "webhooks" /\ HookNext /\ UNCHANGED <<reqVars, jobVars, known>>
       \/ scene = "learning" /\ LearnNext /\ UNCHANGED <<reqVars, jobVars, hookVars>>

Working(w) == scene = "jobs" /\ Work(w) /\ UNCHANGED <<scene, reqVars, hookVars, known>>
Looping(l) == scene = "webhooks" /\ LoopStep(l) /\ UNCHANGED <<scene, reqVars, jobVars, known>>
Ageing == scene = "learning" /\ DayPasses /\ UNCHANGED <<scene, reqVars, jobVars, hookVars>>

Spec ==
    /\ Init /\ [][Next]_vars
    /\ \A w \in Workers : WF_vars(Working(w))
    /\ \A l \in Loops : WF_vars(Looping(l))
    /\ WF_vars(Ageing)
=============================================================================
