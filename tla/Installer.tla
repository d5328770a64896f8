------------------------------ MODULE Installer ------------------------------
(***************************************************************************)
(* install.sh and the compose stack it starts: the .env file and the       *)
(* configuration file it writes unless they are there, the database whose  *)
(* volume keeps the password it was first started with, the web container  *)
(* and the health the script polls for.                                    *)
(*                                                                         *)
(* The script may be interrupted at any step (set -e, Ctrl-C, a full disk) *)
(* and run again.  A file is opened, which creates it, before it is        *)
(* filled; the next run reuses whatever it finds.                          *)
(***************************************************************************)
EXTENDS ConfigService

CONSTANTS Passwords,        \* what gen_password may return
          DefaultPassword,  \* ${MYSQL_PASSWORD:-b24_password} of docker-compose.yml
          UrlOf             \* [Passwords -> MySQL]: the URL the script puts together

ASSUME InstallerAssumption ==
  /\ DefaultPassword \in Passwords
  /\ UrlOf \in [Passwords -> MySQL]
  /\ \A p, q \in Passwords : UrlOf[p] = UrlOf[q] => p = q
  /\ None \notin Passwords
  /\ {Absent, Empty} \cap Passwords = {}

VARIABLES envfile,  \* the MYSQL_PASSWORD of .env
          volume,   \* the password b24_db_data was initialised with, or None
          database, \* the db container answers
          healthy,  \* docker's health status of the web container is "healthy"
          install   \* the run of install.sh: its step, MYSQL_PASSWORD in its shell

installVars == <<envfile, volume, database, healthy, install>>

InstallTypeOK ==
  /\ envfile \in Passwords \cup {Absent, Empty}
  /\ volume \in Passwords \cup {None}
  /\ database \in BOOLEAN
  /\ healthy \in BOOLEAN
  /\ install \in [step : {"off", "env", "fill env", "config", "fill config",
                          "up", "up web", "wait db", "wait web",
                          "complete", "failed"},
                  password : Passwords \cup {None}]

Running == install.step \notin {"off", "complete", "failed"}

AtStep(step) == install.step = step

GoTo(step) == install' = [install EXCEPT !.step = step]

\* source .env: an empty file leaves the variable unset.
Source(password) ==
  install' = [step |-> "config",
              password |-> IF password = Empty THEN None ELSE password]
-----------------------------------------------------------------------------
(* The files *)

Start ==
  /\ readonly   \* the compose stack, which mounts the file so
  /\ ~Running
  /\ install' = [step |-> "env", password |-> None]
  /\ UNCHANGED <<envfile, volume, database, healthy>>
  /\ UNCHANGED configVars

ReuseEnv ==
  /\ AtStep("env")
  /\ envfile # Absent
  /\ Source(envfile)
  /\ UNCHANGED <<envfile, volume, database, healthy>>
  /\ UNCHANGED configVars

OpenEnv ==
  /\ AtStep("env")
  /\ envfile = Absent
  /\ envfile' = Empty
  /\ GoTo("fill env")
  /\ UNCHANGED <<volume, database, healthy>>
  /\ UNCHANGED configVars

FillEnv ==
  /\ AtStep("fill env")
  /\ \E p \in Passwords :
       /\ envfile' = p
       /\ Source(p)
  /\ UNCHANGED <<volume, database, healthy>>
  /\ UNCHANGED configVars

ReuseConfig ==
  /\ AtStep("config")
  /\ file # Absent
  /\ GoTo("up")
  /\ UNCHANGED <<envfile, volume, database, healthy>>
  /\ UNCHANGED configVars

OpenConfig ==
  /\ AtStep("config")
  /\ file = Absent
  /\ file' = Empty
  /\ intact' = FALSE
  /\ GoTo("fill config")
  /\ UNCHANGED <<envfile, volume, database, healthy>>
  /\ UNCHANGED <<env, readonly, managed, web, accepts, save>>

FillConfig ==
  /\ AtStep("fill config")
  /\ install.password # None
  /\ file' = [mode |-> "production", url |-> UrlOf[install.password]]
  /\ intact' = TRUE
  /\ GoTo("up")
  /\ UNCHANGED <<envfile, volume, database, healthy>>
  /\ UNCHANGED <<env, readonly, managed, web, accepts, save>>
-----------------------------------------------------------------------------
(* The stack *)

\* up -d starts the database; an empty volume is initialised with the password
\* of .env, a used one keeps its own.  The daemon keeps the container up.
ComposeDatabase ==
  /\ AtStep("up")
  /\ volume' = IF volume # None THEN volume
               ELSE IF install.password # None THEN install.password
               ELSE DefaultPassword
  /\ GoTo("up web")
  /\ UNCHANGED <<envfile, database, healthy>>
  /\ UNCHANGED configVars

\* depends_on: the web container is started, or made anew, when the database is
\* healthy.  Its health then starts again.
ComposeWeb ==
  /\ AtStep("up web")
  /\ database
  /\ managed' = TRUE
  /\ \/ /\ web' = None
        /\ save' = [s \in Savers |-> Idle]
        /\ healthy' = FALSE
     \/ managed /\ UNCHANGED <<web, save, healthy>>
  /\ GoTo("wait db")
  /\ UNCHANGED <<envfile, volume, database>>
  /\ UNCHANGED <<file, env, readonly, accepts, intact>>

\* Faulty, for the mutation runs: the script does not wait for the web
\* container; it waits for the web container without an end.
WaitDatabaseOnly ==
  /\ AtStep("wait db")
  /\ database
  /\ GoTo("complete")
  /\ UNCHANGED <<envfile, volume, database, healthy>>
  /\ UNCHANGED configVars

\* mariadb-admin ping answers whether or not the password is accepted.
WaitDatabase ==
  /\ AtStep("wait db")
  /\ database
  /\ GoTo("wait web")
  /\ UNCHANGED <<envfile, volume, database, healthy>>
  /\ UNCHANGED configVars

WaitWeb ==
  /\ AtStep("wait web")
  /\ healthy
  /\ install.password # None
  /\ GoTo("complete")
  /\ UNCHANGED <<envfile, volume, database, healthy>>
  /\ UNCHANGED configVars

\* Both are healthy, and set -u stops print_summary at the variables that an
\* empty .env does not set.
UnsetSummary ==
  /\ AtStep("wait web")
  /\ healthy
  /\ install.password = None
  /\ GoTo("failed")
  /\ UNCHANGED <<envfile, volume, database, healthy>>
  /\ UNCHANGED configVars

TimeOutDatabaseOnly ==
  /\ AtStep("wait db")
  /\ GoTo("failed")
  /\ UNCHANGED <<envfile, volume, database, healthy>>
  /\ UNCHANGED configVars

\* 120 polls have not found it healthy.  The status is then not "exited" either:
\* the containers are restarted, and a container with a healthcheck reports that.
TimeOut ==
  /\ install.step \in {"wait db", "wait web"}
  /\ GoTo("failed")
  /\ UNCHANGED <<envfile, volume, database, healthy>>
  /\ UNCHANGED configVars

\* A command fails, or the operator interrupts the script.
Interrupt ==
  /\ Running
  /\ GoTo("failed")
  /\ UNCHANGED <<envfile, volume, database, healthy>>
  /\ UNCHANGED configVars

\* set -u stops the script at the variable that is not set, after the file has
\* been created.
UnsetPassword ==
  /\ AtStep("fill config")
  /\ install.password = None
  /\ GoTo("failed")
  /\ UNCHANGED <<envfile, volume, database, healthy>>
  /\ UNCHANGED configVars

\* up -d gives up on a database that does not become healthy.
DatabaseUnhealthy ==
  /\ AtStep("up web")
  /\ ~database
  /\ GoTo("failed")
  /\ UNCHANGED <<envfile, volume, database, healthy>>
  /\ UNCHANGED configVars

InstallStep ==
  \/ ReuseEnv \/ OpenEnv \/ FillEnv
  \/ ReuseConfig \/ OpenConfig \/ FillConfig \/ UnsetPassword
  \/ ComposeDatabase \/ ComposeWeb \/ DatabaseUnhealthy
  \/ WaitDatabase \/ WaitWeb \/ UnsetSummary \/ TimeOut
-----------------------------------------------------------------------------
(* Docker *)

\* The database container comes and goes.  It accepts the password its volume
\* was initialised with.
DatabaseTurns ==
  /\ readonly
  /\ volume # None
  /\ database' = ~database
  /\ DatabaseAccepts(IF database THEN {} ELSE {UrlOf[volume]})
  /\ UNCHANGED <<envfile, volume, healthy, install>>

\* The probe of /health, which connects with the service's own URL.  A status
\* of "healthy" outlives failures until the retries are used up.
Probe ==
  /\ readonly
  /\ web # None
  /\ healthy' = (web.url \in accepts)
  /\ UNCHANGED <<envfile, volume, database, install>>
  /\ UNCHANGED configVars
-----------------------------------------------------------------------------
(* Properties *)

\* "install.sh reports success only after both are healthy": whatever an earlier
\* run left behind (a password that is not the volume's, a file cut short), what
\* is reported installed runs, and starts again, with credentials the database
\* was initialised with.
CompleteMeansCredentials ==
  AtStep("complete") =>
    volume # None /\ \E c \in Loaded : c.url = UrlOf[volume]

\* The script always comes to an end: it polls a bounded number of times.
InstallEnds == Running ~> ~Running
==============================================================================
