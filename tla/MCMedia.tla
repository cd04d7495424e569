------------------------------ MODULE MCMedia -------------------------------
(* The video tracker and the media tasks, which share nothing: a behaviour is  *)
(* of the one or of the other, chosen at its start.                            *)
EXTENDS VideoTracker, MediaTasks
VARIABLE moving
mediaRunVars == <<moving, vvars, mvars>>

MediaRunInit == moving \in {"tracker", "tasks"} /\ VideoInit /\ MediaInit
MediaRunNext == \/ moving = "tracker" /\ VideoNext /\ UNCHANGED <<moving, mvars>>
                \/ moving = "tasks" /\ MediaNext /\ UNCHANGED <<moving, vvars>>
(* Fairness of the tasks only; where they do not move they stay in their       *)
(* initial states, which enable none of these steps.                           *)
MediaRunSpec == MediaRunInit /\ [][MediaRunNext]_mediaRunVars /\ MediaFairness
=============================================================================
