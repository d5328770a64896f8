---------------------------- MODULE ConfigService ----------------------------
(***************************************************************************)
(* The configuration file, the environment that overrides it, and the web  *)
(* process that is built from both: load_runtime_config, create_app, the   *)
(* route POST /config/save with save_config, and the supervisor that       *)
(* restarts the process (systemd Restart=always, compose                   *)
(* restart: unless-stopped).                                               *)
(*                                                                         *)
(* The routes are run by threads of one process, so saves overlap, and the *)
(* process may die between any two steps.  save_config truncates the file  *)
(* and then writes it; nothing locks it.                                   *)
(*                                                                         *)
(* A configuration is its mode and its database URL.  The two webhooks are *)
(* masked and put back in the same way as the URL, and the other fields    *)
(* only travel along.                                                      *)
(***************************************************************************)
CONSTANTS Savers,   \* requests that may be saving at a time
          Urls,     \* database URLs
          MySQL,    \* those of a MySQL database
          Masked,   \* a URL with "***" for its password, as the screen shows it
          None,     \* not set
          Absent,   \* the file is not there
          Empty,    \* it has been created or truncated, and not written yet
          Mixed     \* it holds the pieces of two writes

Modes == {"production", "dev"}   \* "test" is treated as "dev"

Config == [mode : Modes, url : Urls]

ASSUME ConfigAssumption ==
  /\ MySQL \subseteq Urls
  /\ {Masked, None} \cap Urls = {}
  /\ None \notin Modes \cup Config
  /\ {Absent, Empty, Mixed} \cap Config = {}
  /\ Absent # Empty /\ Empty # Mixed /\ Mixed # Absent

Environment == [mode : Modes \cup {None}, url : Urls \cup {None}]

VARIABLES file,     \* migration.config.yml
          env,      \* MIGRATION_RUNTIME_MODE and MIGRATION_DATABASE_URL
          readonly, \* the file is mounted read-only
          managed,  \* the supervisor has been told to keep the process running
          web,      \* the configuration of state.runtime_service, None when down
          accepts,  \* the URLs the database accepts connections with now
          save,     \* what each saving request is doing
          intact    \* history: nothing has touched the file since a write that
                    \* found it truncated was completed

configVars == <<file, env, readonly, managed, web, accepts, save, intact>>

Idle == [step |-> "idle"]

\* alone: no other save has been under way since this one began.
Save == [step   : {"open", "write", "load", "swap", "answer"},
         config : Config,
         alone  : BOOLEAN]

ConfigTypeOK ==
  /\ file \in Config \cup {Absent, Empty, Mixed}
  /\ env \in Environment
  /\ readonly \in BOOLEAN
  /\ managed \in BOOLEAN
  /\ web \in Config \cup {None}
  /\ accepts \subseteq Urls
  /\ save \in [Savers -> {Idle} \cup Save]   \* no "***" is ever kept
  /\ intact \in BOOLEAN
-----------------------------------------------------------------------------
(* Loading *)

\* validate_storage_policy.
Valid(config) == config.mode = "production" => config.url \in MySQL

\* _apply_env_overrides over a payload whose missing fields are None; the mode
\* has a default, the URL has none.
Overridden(payload) ==
  [mode |-> IF env.mode # None THEN env.mode
            ELSE IF payload.mode # None THEN payload.mode ELSE "production",
   url  |-> IF env.url # None THEN env.url ELSE payload.url]

\* An empty file is an empty payload; the two portals then come from the
\* environment as well, as the URL does.
Payload ==
  IF file = Empty THEN [mode |-> None, url |-> None] ELSE file

\* The configurations load_runtime_config may return: one, or none when it
\* raises.
Loaded ==
  IF file \in {Absent, Mixed} THEN {}
  ELSE {c \in {Overridden(Payload)} : c.url # None /\ Valid(c)}
-----------------------------------------------------------------------------
(* The process *)

\* create_app: the process comes up if the file loads and the database lets
\* ensure_schema in; otherwise it ends and the supervisor tries again.
Boot ==
  /\ managed
  /\ web = None
  /\ \E c \in Loaded :
       /\ c.url \in accepts
       /\ web' = c
  /\ UNCHANGED <<file, env, readonly, managed, accepts, save, intact>>

\* The process dies, with every request it was serving.
Crash ==
  /\ web # None
  /\ web' = None
  /\ save' = [s \in Savers |-> Idle]
  /\ UNCHANGED <<file, env, readonly, managed, accepts, intact>>

DatabaseAccepts(urls) ==
  /\ accepts' = urls
  /\ UNCHANGED <<file, env, readonly, managed, web, save, intact>>
-----------------------------------------------------------------------------
(* POST /config/save *)

\* Faulty, for the mutation runs: what the form says is taken as it is; nothing
\* is validated before it is written.
PreserveNothing(submitted, current) == submitted

\* _preserve_masked_secret: a masked value stands for the current one, whatever
\* else was edited in it.
Preserve(submitted, current) ==
  IF submitted = Masked THEN current ELSE submitted

\* The requests after one has begun: none of them is alone any more.
Joined(s, request) ==
  [t \in Savers |->
     IF t = s THEN request
     ELSE IF save[t] = Idle THEN Idle ELSE [save[t] EXCEPT !.alone = FALSE]]

BeginSaveUnchecked(s, mode, url) ==
  LET config == [mode |-> mode, url |-> Preserve(url, web.url)]
  IN /\ web # None
     /\ save[s] = Idle
     /\ save' = Joined(s, [step |-> "open", config |-> config,
                           alone |-> \A t \in Savers : save[t] = Idle])
     /\ UNCHANGED <<file, env, readonly, managed, web, accepts, intact>>

\* The form is completed from the running service's configuration and
\* validated; an invalid one is answered with 400 and changes nothing.
BeginSave(s, mode, url) ==
  LET config == [mode |-> mode, url |-> Preserve(url, web.url)]
  IN /\ web # None
     /\ save[s] = Idle
     /\ Valid(config)
     /\ save' = Joined(s, [step |-> "open", config |-> config,
                           alone |-> \A t \in Savers : save[t] = Idle])
     /\ UNCHANGED <<file, env, readonly, managed, web, accepts, intact>>

\* write_text opens the file, which truncates it.
OpenFile(s) ==
  /\ save[s].step = "open"
  /\ ~readonly
  /\ file' = Empty
  /\ intact' = FALSE
  /\ save' = [save EXCEPT ![s].step = "write"]
  /\ UNCHANGED <<env, readonly, managed, web, accepts>>

\* It writes from the start of the file.  If another request has written there
\* since, the longer of the two texts shows through.
WriteFile(s) ==
  /\ save[s].step = "write"
  /\ \/ file' = save[s].config
     \/ file \notin {Empty, save[s].config} /\ file' = Mixed
  /\ intact' = (file = Empty)
  /\ save' = [save EXCEPT ![s].step = "load"]
  /\ UNCHANGED <<env, readonly, managed, web, accepts>>

\* The write fails, the disk being full for example.
CutWrite(s) ==
  /\ save[s].step = "write"
  /\ save' = [save EXCEPT ![s] = Idle]
  /\ UNCHANGED <<file, env, readonly, managed, web, accepts, intact>>

\* Faulty, for the mutation runs: the new service is built from what was saved.
LoadSaved(s) ==
  /\ save[s].step = "load"
  /\ save' = [save EXCEPT ![s].step = "swap"]
  /\ UNCHANGED <<file, env, readonly, managed, web, accepts, intact>>

\* RuntimeService(path) reads the file again, with the environment over it.
LoadService(s) ==
  /\ save[s].step = "load"
  /\ \E c \in Loaded :
       save' = [save EXCEPT ![s].step = "swap", ![s].config = c]
  /\ UNCHANGED <<file, env, readonly, managed, web, accepts, intact>>

SwapService(s) ==
  /\ save[s].step = "swap"
  /\ web' = save[s].config
  /\ save' = [save EXCEPT ![s].step = "answer"]
  /\ UNCHANGED <<file, env, readonly, managed, accepts, intact>>

\* ensure_schema of whatever service is the running one by now; then "saved".
AnswerSave(s) ==
  /\ save[s].step = "answer"
  /\ web.url \in accepts
  /\ save' = [save EXCEPT ![s] = Idle]
  /\ UNCHANGED <<file, env, readonly, managed, web, accepts, intact>>

\* The request ends with an error and leaves behind what it has done: the file
\* cannot be opened, does not load, or the new database does not answer.
FailSave(s) ==
  /\ \/ save[s].step = "open" /\ readonly
     \/ save[s].step = "load" /\ Loaded = {}
     \/ save[s].step = "answer" /\ web.url \notin accepts
  /\ save' = [save EXCEPT ![s] = Idle]
  /\ UNCHANGED <<file, env, readonly, managed, web, accepts, intact>>

SaveStep(s) ==
  \/ \E mode \in Modes, url \in Urls \cup {Masked} : BeginSave(s, mode, url)
  \/ OpenFile(s)
  \/ WriteFile(s)
  \/ CutWrite(s)
  \/ LoadService(s)
  \/ SwapService(s)
  \/ AnswerSave(s)
  \/ FailSave(s)
-----------------------------------------------------------------------------
(* Properties *)

\* Saving never leaves a file that a restart could not load, unless its write
\* was cut short (the process died, the disk was full) or ran into another one.
\* Else the file holds a valid configuration of its own; only the environment
\* may then still make it one that does not load.
FileIsWhole ==
  intact => file = Absent \/ (file \in Config /\ Valid(file))

\* A save that no other overlapped: when it is answered, the service that
\* answers the next request runs what a restart would load from the file.
SoleSaveIsServed ==
  \A s \in Savers :
    (save[s].step = "answer" /\ save[s].alone) => Loaded = {web}

\* The environment makes no valid configuration invalid.
EnvironmentFits == \A c \in Config : Valid(c) => Valid(Overridden(c))

\* Restart=always: a process that dies comes back, whatever was saved before,
\* unless the file was damaged, the environment contradicts it, or the database
\* does not accept what loads.
WebComesBack ==
  <>[](managed /\ intact /\ file # Absent /\ EnvironmentFits
         /\ \A c \in Loaded : c.url \in accepts)
    => []<>(web # None)
==============================================================================
