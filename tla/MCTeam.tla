-------------------------------- MODULE MCTeam --------------------------------
(* What a team works with: the desks of MCProspecting, and those of MCChat     *)
(* while prospecting is as it was.                                             *)
EXTENDS MCProspecting, MCChat

TeamInit ==
    \/ ProspectingInit /\ ChatInit /\ PresenceInit
    \/ MCChatInit /\ ProspectingRests
TeamNext ==
    \/ ProspectingNext /\ UNCHANGED <<chatVars, presenceVars>>
    \/ MCChatNext /\ UNCHANGED resting

TeamSpec == TeamInit /\ [][TeamNext]_<<resting, chatVars, presenceVars, desk>>
================================================================================
