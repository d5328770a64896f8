----------------------------- MODULE Deployment -----------------------------
(***************************************************************************)
(* The two ways the web process is run: as a service of the host with a    *)
(* file it may rewrite and a database of its own, or by install.sh in a    *)
(* compose stack that mounts the file read-only.                           *)
(***************************************************************************)
EXTENDS Installer

CONSTANT Environments   \* the MIGRATION_ variables a host may set

ASSUME DeploymentAssumption == Environments \subseteq Environment

vars == <<configVars, installVars>>

TypeOK == ConfigTypeOK /\ InstallTypeOK

NoEnvironment == [mode |-> None, url |-> None]

\* A service of the host, with a configuration written by hand.
InitService ==
  /\ readonly = FALSE
  /\ env \in Environments
  /\ file \in {c \in Config : Valid(c)}
  /\ managed = TRUE
  /\ accepts \in {{}, Urls}
  /\ envfile = Absent
  /\ volume = None
  /\ intact = TRUE

\* A host on which nothing was installed, or files and a volume were left over.
\* The .env of the script sets no MIGRATION_ variable.
InitCompose ==
  /\ readonly = TRUE
  /\ env = NoEnvironment
  /\ file \in {Absent, Empty}
                \cup {[mode |-> "production", url |-> UrlOf[p]] : p \in Passwords}
  /\ managed = FALSE
  /\ accepts = {}
  /\ envfile \in Passwords \cup {Absent, Empty}
  /\ volume \in Passwords \cup {None}
  /\ intact = (file # Empty)

Init ==
  /\ InitService \/ InitCompose
  /\ web = None
  /\ save = [s \in Savers |-> Idle]
  /\ database = FALSE
  /\ healthy = FALSE
  /\ install = [step |-> "off", password |-> None]

\* A container that has died and is started again has its health start again.
Restart == Boot /\ healthy' = FALSE /\ UNCHANGED <<envfile, volume, database, install>>

Process ==
  \/ /\ Crash \/ \E s \in Savers : SaveStep(s)
     /\ UNCHANGED installVars
  \/ /\ ~readonly
     /\ \E urls \in {{}, Urls} : urls # accepts /\ DatabaseAccepts(urls)
     /\ UNCHANGED installVars

Next ==
  \/ Restart
  \/ Process
  \/ Start
  \/ InstallStep
  \/ Interrupt
  \/ DatabaseTurns
  \/ Probe

\* The supervisor restarts the process and the script goes on; nobody has to
\* save, crash, interrupt, or bring the database up.
Spec == Init /\ [][Next]_vars /\ WF_vars(Restart) /\ WF_vars(InstallStep)
==============================================================================
