---------------------------- MODULE MCProcesses ----------------------------
(* What goes on beside the service: menu, shell and systemd start and stop   *)
(* it, and logins, withdrawn tokens and settings meet its flushes. The two    *)
(* share no state. A behaviour is one part's, and the other stays as it       *)
(* starts. The two accounts are alike, so the settings begin with the first's.*)
EXTENDS ServiceLifecycle, SignIn

VARIABLE part

MCAccounts == {"ann", "bob"}

ProcessesInit ==
    /\ part \in {"service", "logins"}
    /\ LifeInit /\ SignInInit
    /\ part # "service" => platform = "darkos"
    /\ part # "logins" => cfgToken = None /\ password = NoPassword /\ gameCached
    /\ cfgToken = None => password.user # "bob"
    /\ cfgToken.user # "bob"

ProcessesNext ==
    /\ part' = part
    /\ \/ part = "service" /\ LifeNext /\ UNCHANGED signInVars
       \/ part = "logins" /\ SignInNext /\ UNCHANGED lifeVars

processVars == <<part, lifeVars, signInVars>>

(* What is fair in a part (LifeFairness, SignInSpec) is so in its behaviours. *)
Service(A) == part = "service" /\ A
Logins(A)  == part = "logins" /\ A

ProcessesFairness ==
    /\ \A s \in Processes : WF_lifeVars(Service(ServiceStep(s)))
    /\ WF_lifeVars(Service(UnitSpawns))
    /\ WF_signInVars(Logins(FlushStep))
    /\ WF_signInVars(Logins(MenuStores \/ MenuClears))
    /\ WF_signInVars(Logins(EmulatorStored))

ProcessesSpec == ProcessesInit /\ [][ProcessesNext]_processVars /\ ProcessesFairness
=============================================================================
