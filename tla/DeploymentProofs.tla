-------------------------- MODULE DeploymentProofs --------------------------
(* Theorems about Deployment. *)
EXTENDS Deployment, TLAPS

\* What loads depends on the file and the environment alone, is one
\* configuration at most, and is a valid one.
LEMMA LoadedIsOne ==
  ASSUME ConfigTypeOK
  PROVE  \A c \in Loaded : Loaded = {c} /\ c \in Config /\ Valid(c)
PROOF
  <1> SUFFICES ASSUME NEW c \in Loaded
               PROVE  Loaded = {c} /\ c \in Config /\ Valid(c)
    OBVIOUS
  <1>1. file \notin {Absent, Mixed} /\ c = Overridden(Payload) /\ c.url # None /\ Valid(c)
    BY DEF Loaded
  <1>2. Loaded = {c}
    BY <1>1 DEF Loaded
  <1>3. /\ Payload.mode \in Modes \cup {None}
        /\ Payload.url \in Urls \cup {None}
    BY <1>1, ConfigAssumption DEF Payload, ConfigTypeOK, Config
  <1>4. c \in Config
    BY <1>1, <1>3 DEF Overridden, Config, ConfigTypeOK, Environment, Modes
  <1> QED
    BY <1>1, <1>2, <1>4

LEMMA InitTyped == Init => TypeOK
PROOF
  <1> SUFFICES ASSUME Init PROVE TypeOK
    OBVIOUS
  <1> USE ConfigAssumption, InstallerAssumption, DeploymentAssumption
  <1>1. /\ web \in Config \cup {None}
        /\ save \in [Savers -> {Idle} \cup Save]
        /\ database \in BOOLEAN /\ healthy \in BOOLEAN
    BY DEF Init
  <1>2. install \in [step : {"off", "env", "fill env", "config", "fill config",
                             "up", "up web", "wait db", "wait web",
                             "complete", "failed"},
                     password : Passwords \cup {None}]
    BY DEF Init
  <1>3. CASE InitService
    BY <1>1, <1>2, <1>3 DEF InitService, TypeOK, ConfigTypeOK, InstallTypeOK
  <1>4. CASE InitCompose
    <2>1. NoEnvironment \in Environment
      BY DEF NoEnvironment, Environment
    <2>2. \A p \in Passwords : [mode |-> "production", url |-> UrlOf[p]] \in Config
      BY DEF Config, Modes
    <2>3. file \in Config \cup {Absent, Empty, Mixed}
      BY <1>4, <2>2 DEF InitCompose
    <2>4. intact \in BOOLEAN
      BY <1>4 DEF InitCompose
    <2> QED
      BY <1>1, <1>2, <1>4, <2>1, <2>3, <2>4
      DEF InitCompose, TypeOK, ConfigTypeOK, InstallTypeOK
  <1> QED
    BY <1>3, <1>4 DEF Init

\* The steps that leave configVars or installVars alone.
LEMMA ConfigKept ==
  ASSUME ConfigTypeOK, UNCHANGED configVars
  PROVE  ConfigTypeOK'
PROOF
  BY DEF ConfigTypeOK, configVars

LEMMA InstallKept ==
  ASSUME InstallTypeOK, UNCHANGED installVars
  PROVE  InstallTypeOK'
PROOF
  BY DEF InstallTypeOK, installVars

\* A saving request.
LEMMA SaveTyped ==
  ASSUME ConfigTypeOK, NEW s \in Savers, SaveStep(s)
  PROVE  ConfigTypeOK'
PROOF
  <1> USE ConfigAssumption
  <1>1. ASSUME NEW mode \in Modes, NEW url \in Urls \cup {Masked},
               BeginSave(s, mode, url)
        PROVE  ConfigTypeOK'
    <2> DEFINE request == [step |-> "open",
                           config |-> [mode |-> mode, url |-> Preserve(url, web.url)],
                           alone |-> \A t \in Savers : save[t] = Idle]
    <2>1. Preserve(url, web.url) \in Urls
      BY <1>1 DEF BeginSave, Preserve, ConfigTypeOK, Config
    <2>2. request \in Save
      BY <2>1 DEF Save, Config
    <2>3. save' = Joined(s, request)
      BY <1>1 DEF BeginSave
    <2>4. ASSUME NEW t \in Savers
          PROVE  Joined(s, request)[t] \in {Idle} \cup Save
      <3>1. CASE t = s
        BY <2>2, <3>1 DEF Joined
      <3>2. CASE t # s /\ save[t] = Idle
        BY <3>2 DEF Joined
      <3>3. CASE t # s /\ save[t] # Idle
        <4>1. save[t] \in Save
          BY <3>3 DEF ConfigTypeOK
        <4>2. [save[t] EXCEPT !.alone = FALSE] \in Save
          BY <4>1 DEF Save
        <4> QED
          BY <3>3, <4>2 DEF Joined
      <3> QED
        BY <3>1, <3>2, <3>3
    <2>5. save' \in [Savers -> {Idle} \cup Save]
      BY <2>3, <2>4 DEF Joined
    <2> QED
      BY <1>1, <2>5 DEF BeginSave, ConfigTypeOK
  <1>2. CASE OpenFile(s)
    <2>1. save[s] \in Save
      BY <1>2 DEF OpenFile, ConfigTypeOK, Idle
    <2>2. save' \in [Savers -> {Idle} \cup Save]
      BY <1>2, <2>1 DEF OpenFile, ConfigTypeOK, Save
    <2> QED
      BY <1>2, <2>2 DEF OpenFile, ConfigTypeOK
  <1>3. CASE WriteFile(s)
    <2>1. save[s] \in Save
      BY <1>3 DEF WriteFile, ConfigTypeOK, Idle
    <2>2. file' \in Config \cup {Absent, Empty, Mixed}
      BY <1>3, <2>1 DEF WriteFile, Save
    <2>3. save' \in [Savers -> {Idle} \cup Save]
      BY <1>3, <2>1 DEF WriteFile, ConfigTypeOK, Save
    <2>4. intact' \in BOOLEAN
      BY <1>3 DEF WriteFile
    <2> QED
      BY <1>3, <2>2, <2>3, <2>4 DEF WriteFile, ConfigTypeOK
  <1>4. CASE CutWrite(s)
    BY <1>4 DEF CutWrite, ConfigTypeOK
  <1>5. CASE LoadService(s)
    <2>1. PICK c \in Loaded :
            save' = [save EXCEPT ![s].step = "swap", ![s].config = c]
      BY <1>5 DEF LoadService
    <2>2. c \in Config
      BY <2>1, LoadedIsOne
    <2>3. save[s] \in Save
      BY <1>5 DEF LoadService, ConfigTypeOK, Idle
    <2>4. save' \in [Savers -> {Idle} \cup Save]
      BY <2>1, <2>2, <2>3 DEF ConfigTypeOK, Save
    <2> QED
      BY <1>5, <2>4 DEF LoadService, ConfigTypeOK
  <1>6. CASE SwapService(s)
    BY <1>6 DEF SwapService, ConfigTypeOK, Idle, Save
  <1>7. CASE AnswerSave(s)
    BY <1>7 DEF AnswerSave, ConfigTypeOK
  <1>8. CASE FailSave(s)
    BY <1>8 DEF FailSave, ConfigTypeOK
  <1> QED
    BY <1>1, <1>2, <1>3, <1>4, <1>5, <1>6, <1>7, <1>8 DEF SaveStep

\* The installer, docker and the supervisor.
LEMMA InstallTyped ==
  ASSUME TypeOK, Start \/ InstallStep \/ Interrupt \/ DatabaseTurns \/ Probe \/ Restart
  PROVE  TypeOK'
PROOF
  <1> USE ConfigAssumption, InstallerAssumption DEF TypeOK, GoTo, AtStep, Source
  <1>1. CASE Start
    BY <1>1, ConfigKept DEF Start, InstallTypeOK
  <1>2. CASE ReuseEnv
    BY <1>2, ConfigKept DEF ReuseEnv, InstallTypeOK
  <1>3. CASE OpenEnv
    BY <1>3, ConfigKept DEF OpenEnv, InstallTypeOK
  <1>4. CASE FillEnv
    <2>1. PICK p \in Passwords :
            /\ envfile' = p
            /\ install' = [step |-> "config",
                           password |-> IF p = Empty THEN None ELSE p]
      BY <1>4 DEF FillEnv
    <2>2. InstallTypeOK'
      BY <1>4, <2>1 DEF FillEnv, InstallTypeOK
    <2> QED
      BY <1>4, <2>2, ConfigKept DEF FillEnv
  <1>5. CASE ReuseConfig
    BY <1>5, ConfigKept DEF ReuseConfig, InstallTypeOK
  <1>6. CASE OpenConfig
    BY <1>6 DEF OpenConfig, InstallTypeOK, ConfigTypeOK
  <1>7. CASE FillConfig
    <2>1. install.password \in Passwords
      BY <1>7 DEF FillConfig, InstallTypeOK
    <2>2. [mode |-> "production", url |-> UrlOf[install.password]] \in Config
      BY <2>1 DEF Config, Modes
    <2> QED
      BY <1>7, <2>2 DEF FillConfig, InstallTypeOK, ConfigTypeOK
  <1>8. CASE UnsetPassword
    BY <1>8, ConfigKept DEF UnsetPassword, InstallTypeOK
  <1>9. CASE ComposeDatabase
    BY <1>9, ConfigKept DEF ComposeDatabase, InstallTypeOK
  <1>10. CASE ComposeWeb
    <2>1. InstallTypeOK'
      BY <1>10 DEF ComposeWeb, InstallTypeOK
    <2>2. ConfigTypeOK'
      BY <1>10 DEF ComposeWeb, ConfigTypeOK
    <2> QED
      BY <2>1, <2>2
  <1>11. CASE DatabaseUnhealthy
    BY <1>11, ConfigKept DEF DatabaseUnhealthy, InstallTypeOK
  <1>12. CASE WaitDatabase
    BY <1>12, ConfigKept DEF WaitDatabase, InstallTypeOK
  <1>13. CASE WaitWeb \/ UnsetSummary
    BY <1>13, ConfigKept DEF WaitWeb, UnsetSummary, InstallTypeOK
  <1>14. CASE TimeOut
    BY <1>14, ConfigKept DEF TimeOut, InstallTypeOK
  <1>15. CASE Interrupt
    BY <1>15, ConfigKept DEF Interrupt, InstallTypeOK
  <1>16. CASE DatabaseTurns
    <2>1. UrlOf[volume] \in Urls
      BY <1>16 DEF DatabaseTurns, InstallTypeOK
    <2>2. accepts' \subseteq Urls
      BY <1>16, <2>1 DEF DatabaseTurns, DatabaseAccepts
    <2>3. ConfigTypeOK'
      BY <1>16, <2>2 DEF DatabaseTurns, DatabaseAccepts, ConfigTypeOK
    <2>4. InstallTypeOK'
      BY <1>16, Zenon DEF DatabaseTurns, InstallTypeOK
    <2> QED
      BY <2>3, <2>4
  <1>17. CASE Probe
    <2>1. ConfigTypeOK'
      BY <1>17, ConfigKept DEF Probe
    <2>2. healthy' \in BOOLEAN
      <3>1. healthy' = (web.url \in accepts)
        BY <1>17 DEF Probe
      <3>2. CASE web.url \in accepts
        BY <3>1, <3>2
      <3>3. CASE web.url \notin accepts
        BY <3>1, <3>3
      <3> QED
        BY <3>2, <3>3
    <2>3. InstallTypeOK'
      BY <1>17, <2>2 DEF Probe, InstallTypeOK
    <2> QED
      BY <2>1, <2>3
  <1>18. CASE Restart
    <2>1. InstallTypeOK'
      BY <1>18 DEF Restart, InstallTypeOK
    <2>2. PICK c \in Loaded : web' = c
      BY <1>18 DEF Restart, Boot
    <2>3. c \in Config
      BY LoadedIsOne
    <2>4. ConfigTypeOK'
      BY <1>18, <2>2, <2>3 DEF Restart, Boot, ConfigTypeOK
    <2> QED
      BY <2>1, <2>4
  <1> QED
    BY <1>1, <1>2, <1>3, <1>4, <1>5, <1>6, <1>7, <1>8, <1>9, <1>10, <1>11,
       <1>12, <1>13, <1>14, <1>15, <1>16, <1>17, <1>18 DEF InstallStep

LEMMA NextTyped ==
  ASSUME TypeOK, [Next]_vars
  PROVE  TypeOK'
PROOF
  <1>1. CASE Process
    <2>1. InstallTypeOK'
      BY <1>1, InstallKept DEF Process, TypeOK
    <2>2. CASE Crash
      <3>1. ConfigTypeOK'
        BY <2>2 DEF Crash, TypeOK, ConfigTypeOK
      <3> QED
        BY <2>1, <3>1 DEF TypeOK
    <2>3. CASE \E s \in Savers : SaveStep(s)
      BY <2>1, <2>3, SaveTyped DEF TypeOK
    <2>4. CASE \E urls \in {{}, Urls} : DatabaseAccepts(urls)
      <3>1. ConfigTypeOK'
        BY <2>4 DEF DatabaseAccepts, TypeOK, ConfigTypeOK
      <3> QED
        BY <2>1, <3>1 DEF TypeOK
    <2> QED
      BY <1>1, <2>2, <2>3, <2>4 DEF Process
  <1>2. CASE UNCHANGED vars
    BY <1>2, ConfigKept, InstallKept DEF vars, TypeOK
  <1> QED
    BY <1>1, <1>2, InstallTyped DEF Next

\* Type correctness of the file, the process, the saves, the files and
\* containers of the installer and its steps, in either deployment.
THEOREM TypeCorrect == Spec => []TypeOK
PROOF
  <1>1. TypeOK /\ [Next]_vars => TypeOK'
    BY NextTyped
  <1> QED
    BY <1>1, InitTyped, PTL DEF Spec
-----------------------------------------------------------------------------
(* The inductive invariant *)

\* What is about to be written is valid.
SavesHold ==
  \A s \in Savers : save[s].step \in {"open", "write"} => Valid(save[s].config)

\* Saves get nowhere where the file is mounted read-only, which is where the
\* installer runs; a process that is down serves no request.
Placed ==
  /\ readonly => env = NoEnvironment
  /\ readonly => \A s \in Savers : save[s].step \in {"idle", "open"}
  /\ install.step # "off" => readonly
  /\ web = None => \A s \in Savers : save[s] = Idle

\* A save that is alone, and what loads after it has been loaded.
AloneRight ==
  \A s \in Savers : (save[s] # Idle /\ save[s].alone) =>
    /\ \A t \in Savers \ {s} : save[t] = Idle
    /\ save[s].step = "swap" => Loaded = {save[s].config}
    /\ save[s].step = "answer" => Loaded = {web}

\* What loads connects with the password of the volume.
Fits == volume # None /\ \E c \in Loaded : c.url = UrlOf[volume]

\* In the stack the process runs what loads, the database lets in nothing but
\* the password of its volume, and "healthy" outlives everything but a new
\* container.
StackRight ==
  readonly =>
    /\ web # None => Loaded = {web}
    /\ accepts \subseteq (IF volume = None THEN {} ELSE {UrlOf[volume]})
    /\ healthy => Fits
    /\ AtStep("complete") => Fits
    /\ AtStep("fill config") => file = Empty

IInv == TypeOK /\ FileIsWhole /\ SavesHold /\ Placed /\ AloneRight /\ StackRight

LEMMA LoadedKept ==
  ASSUME UNCHANGED <<file, env>>
  PROVE  Loaded' = Loaded
PROOF
  BY DEF Loaded, Payload, Overridden

LEMMA InitHolds == Init => IInv
PROOF
  <1> SUFFICES ASSUME Init PROVE IInv
    OBVIOUS
  <1> USE ConfigAssumption, InstallerAssumption
  <1>1. TypeOK
    BY InitTyped
  <1>2. \A s \in Savers : save[s] = Idle /\ save[s].step = "idle"
    BY DEF Init, Idle
  <1>3. SavesHold /\ AloneRight
    BY <1>2 DEF SavesHold, AloneRight
  <1>4. Placed
    BY <1>2 DEF Placed, Init, InitService, InitCompose
  <1>5. StackRight
    BY DEF StackRight, AtStep, Init, InitService, InitCompose
  <1>6. FileIsWhole
    <2>1. CASE InitService
      BY <2>1 DEF InitService, FileIsWhole
    <2>2. CASE InitCompose
      <3>1. \A p \in Passwords :
              LET config == [mode |-> "production", url |-> UrlOf[p]]
              IN config \in Config /\ Valid(config)
        BY DEF Config, Modes, Valid
      <3>2. CASE file = Empty
        <4>1. intact = (file # Empty)
          BY <2>2 DEF InitCompose
        <4> QED
          BY <3>2, <4>1 DEF FileIsWhole
      <3>3. CASE file = Absent
        BY <3>3 DEF FileIsWhole
      <3>4. CASE file # Empty /\ file # Absent
        <4>1. \E p \in Passwords : file = [mode |-> "production", url |-> UrlOf[p]]
          BY <2>2, <3>4 DEF InitCompose
        <4> QED
          BY <3>1, <4>1 DEF FileIsWhole
      <3> QED
        BY <3>2, <3>3, <3>4
    <2> QED
      BY <2>1, <2>2 DEF Init
  <1> QED
    BY <1>1, <1>3, <1>4, <1>5, <1>6 DEF IInv
-----------------------------------------------------------------------------
(* Saves *)

LEMMA SaveHolds ==
  ASSUME IInv, NEW s \in Savers, SaveStep(s), UNCHANGED installVars
  PROVE  /\ FileIsWhole' /\ SavesHold'
         /\ Placed' /\ AloneRight' /\ StackRight'
PROOF
  <1> USE ConfigAssumption
  <1>1. TypeOK /\ ConfigTypeOK
    BY DEF IInv, TypeOK
  <1>2. \A t \in Savers : save[t] = Idle \/ save[t] \in Save
    BY <1>1 DEF ConfigTypeOK
  <1>3. \A t \in Savers : save[t] # Idle /\ save[t].alone
                            => \A u \in Savers \ {t} : save[u] = Idle
    BY DEF IInv, AloneRight
  <1>4. ASSUME NEW mode \in Modes, NEW url \in Urls \cup {Masked},
               BeginSave(s, mode, url)
        PROVE  /\ FileIsWhole' /\ SavesHold'
               /\ Placed' /\ AloneRight' /\ StackRight'
    <2> DEFINE config == [mode |-> mode, url |-> Preserve(url, web.url)]
               request == [step |-> "open", config |-> config,
                           alone |-> \A t \in Savers : save[t] = Idle]
    <2>1. /\ web # None /\ save[s] = Idle /\ Valid(config)
          /\ save' = Joined(s, request)
          /\ UNCHANGED <<file, env, readonly, managed, web, accepts, intact>>
      BY <1>4 DEF BeginSave
    <2>2. save'[s] = request
      BY <2>1 DEF Joined
    <2>3. ASSUME NEW t \in Savers, t # s
          PROVE  \/ save[t] = Idle /\ save'[t] = Idle
                 \/ /\ save[t] \in Save /\ save'[t] \in Save
                    /\ ~save'[t].alone
                    /\ save'[t].step = save[t].step
                    /\ save'[t].config = save[t].config
      <3>1. save'[t] = IF save[t] = Idle THEN Idle ELSE [save[t] EXCEPT !.alone = FALSE]
        BY <2>1, <2>3 DEF Joined
      <3> QED
        BY <1>2, <3>1 DEF Save
    <2>4. FileIsWhole'
      BY <2>1 DEF IInv, FileIsWhole
    <2>5. SavesHold'
      <3> SUFFICES ASSUME NEW t \in Savers, save'[t].step \in {"open", "write"}
                   PROVE  Valid(save'[t].config)
        BY DEF SavesHold
      <3>1. CASE t = s
        BY <2>1, <2>2, <3>1
      <3>2. CASE t # s
        BY <2>3, <3>2 DEF IInv, SavesHold, Idle
      <3> QED
        BY <3>1, <3>2
    <2>6. Placed'
      <3>1. ASSUME readonly, NEW t \in Savers
            PROVE  save'[t].step \in {"idle", "open"}
        <4>1. CASE t = s
          BY <2>2, <4>1
        <4>2. CASE t # s
          BY <2>3, <3>1, <4>2 DEF IInv, Placed, Idle
        <4> QED
          BY <4>1, <4>2
      <3> QED
        BY <2>1, <3>1 DEF IInv, Placed, installVars
    <2>7. AloneRight'
      <3> SUFFICES ASSUME NEW t \in Savers, save'[t] # Idle, save'[t].alone
                   PROVE  /\ \A u \in Savers \ {t} : save'[u] = Idle
                          /\ save'[t].step = "open"
        BY DEF AloneRight
      <3>1. t = s
        BY <2>3
      <3>2. \A u \in Savers : save[u] = Idle
        BY <2>2, <3>1
      <3>3. \A u \in Savers \ {s} : save'[u] = Idle
        <4> SUFFICES ASSUME NEW u \in Savers \ {s} PROVE save'[u] = Idle
          OBVIOUS
        <4>1. save[u] \notin Save
          BY <3>2 DEF Idle, Save
        <4> QED
          BY <2>3, <4>1
      <3> QED
        BY <2>2, <3>1, <3>3
    <2>8. StackRight'
      BY <2>1, LoadedKept DEF IInv, StackRight, AtStep, Fits, installVars
    <2> QED
      BY <2>4, <2>5, <2>6, <2>7, <2>8
  <1>5. ASSUME save[s] # Idle,
               readonly => UNCHANGED <<file, web>>,
               UNCHANGED <<env, readonly, accepts>>,
               \A t \in Savers \ {s} : save'[t] = save[t],
               readonly => save'[s].step = "idle",
               save'[s].step \in {"open", "write"} => Valid(save'[s].config),
               web' # None,
               save'[s] # Idle => save'[s].alone = save[s].alone,
               save'[s].step = "swap" /\ save'[s].alone => Loaded' = {save'[s].config},
               save'[s].step = "answer" /\ save'[s].alone => Loaded' = {web'}
        PROVE  SavesHold' /\ Placed' /\ AloneRight' /\ StackRight'
    <2>1. SavesHold'
      BY <1>5 DEF IInv, SavesHold
    <2>2. Placed'
      BY <1>5 DEF IInv, Placed, installVars
    <2>3. AloneRight'
      <3> SUFFICES ASSUME NEW t \in Savers, save'[t] # Idle, save'[t].alone
                   PROVE  /\ \A u \in Savers \ {t} : save'[u] = Idle
                          /\ save'[t].step = "swap" => Loaded' = {save'[t].config}
                          /\ save'[t].step = "answer" => Loaded' = {web'}
        BY DEF AloneRight
      <3>1. t = s
        BY <1>3, <1>5
      <3>2. save[s].alone
        BY <1>5, <3>1
      <3> QED
        BY <1>3, <1>5, <3>1, <3>2
    <2>4. StackRight'
      <3>1. CASE readonly
        BY <1>5, <3>1, LoadedKept DEF IInv, StackRight, AtStep, Fits, installVars
      <3>2. CASE ~readonly
        BY <1>5, <3>2 DEF StackRight
      <3> QED
        BY <3>1, <3>2
    <2> QED
      BY <2>1, <2>2, <2>3, <2>4
  <1>6. save[s] # Idle => web # None
    BY DEF IInv, Placed
  <1>7. readonly /\ save[s] # Idle => save[s].step = "open"
    BY <1>2 DEF IInv, Placed, Save
  <1>8. CASE OpenFile(s)
    <2>1. save[s] \in Save /\ save[s] # Idle
      BY <1>2, <1>8 DEF OpenFile, Idle
    <2>2. save'[s] = [save[s] EXCEPT !.step = "write"]
      BY <1>1, <1>8 DEF OpenFile, ConfigTypeOK
    <2>3. \A t \in Savers \ {s} : save'[t] = save[t]
      BY <1>1, <1>8 DEF OpenFile, ConfigTypeOK
    <2>4. FileIsWhole'
      BY <1>8 DEF OpenFile, FileIsWhole
    <2>5. /\ save'[s].step = "write" /\ save'[s].alone = save[s].alone
          /\ Valid(save'[s].config)
      BY <1>8, <2>1, <2>2 DEF IInv, SavesHold, OpenFile, Save
    <2> QED
      BY <1>5, <1>6, <1>8, <2>1, <2>3, <2>4, <2>5 DEF OpenFile
  <1>9. CASE WriteFile(s)
    <2>1. save[s] \in Save /\ save[s] # Idle
      BY <1>2, <1>9 DEF WriteFile, Idle
    <2>2. save'[s] = [save[s] EXCEPT !.step = "load"]
      BY <1>1, <1>9 DEF WriteFile, ConfigTypeOK
    <2>3. \A t \in Savers \ {s} : save'[t] = save[t]
      BY <1>1, <1>9 DEF WriteFile, ConfigTypeOK
    <2>4. Valid(save[s].config) /\ save[s].config \in Config
      BY <1>9, <2>1 DEF IInv, SavesHold, WriteFile, Save
    <2>5. FileIsWhole'
      BY <1>9, <2>4 DEF WriteFile, FileIsWhole
    <2>6. save'[s].step = "load" /\ save'[s].alone = save[s].alone
      BY <2>1, <2>2 DEF Save
    <2> QED
      BY <1>5, <1>6, <1>7, <1>9, <2>1, <2>3, <2>5, <2>6 DEF WriteFile
  <1>10. CASE CutWrite(s)
    <2>1. save[s] # Idle /\ ~readonly
      BY <1>7, <1>10 DEF CutWrite, Idle
    <2>2. save'[s] = Idle /\ \A t \in Savers \ {s} : save'[t] = save[t]
      BY <1>1, <1>10 DEF CutWrite, ConfigTypeOK
    <2>3. FileIsWhole'
      BY <1>10 DEF CutWrite, IInv, FileIsWhole
    <2>4. save'[s].step = "idle"
      BY <2>2 DEF Idle
    <2> QED
      BY <1>5, <1>6, <1>10, <2>1, <2>2, <2>3, <2>4 DEF CutWrite
  <1>11. CASE LoadService(s)
    <2>1. PICK c \in Loaded :
            save' = [save EXCEPT ![s].step = "swap", ![s].config = c]
      BY <1>11 DEF LoadService
    <2>2. save[s] \in Save /\ save[s] # Idle /\ ~readonly
      BY <1>2, <1>7, <1>11 DEF LoadService, Idle
    <2>3. save'[s] = [save[s] EXCEPT !.step = "swap", !.config = c]
      BY <1>1, <2>1 DEF ConfigTypeOK
    <2>4. \A t \in Savers \ {s} : save'[t] = save[t]
      BY <1>1, <2>1 DEF ConfigTypeOK
    <2>5. FileIsWhole'
      BY <1>11 DEF LoadService, IInv, FileIsWhole
    <2>6. /\ save'[s].step = "swap" /\ save'[s].alone = save[s].alone
          /\ save'[s].config = c
      BY <2>2, <2>3 DEF Save
    <2>7. Loaded' = {c}
      BY <1>1, <1>11, LoadedIsOne, LoadedKept DEF LoadService
    <2> QED
      BY <1>5, <1>6, <1>11, <2>2, <2>4, <2>5, <2>6, <2>7 DEF LoadService
  <1>12. CASE SwapService(s)
    <2>1. save[s] \in Save /\ save[s] # Idle /\ ~readonly
      BY <1>2, <1>7, <1>12 DEF SwapService, Idle
    <2>2. save'[s] = [save[s] EXCEPT !.step = "answer"]
      BY <1>1, <1>12 DEF SwapService, ConfigTypeOK
    <2>3. \A t \in Savers \ {s} : save'[t] = save[t]
      BY <1>1, <1>12 DEF SwapService, ConfigTypeOK
    <2>4. FileIsWhole'
      BY <1>12 DEF SwapService, IInv, FileIsWhole
    <2>5. /\ save'[s].step = "answer" /\ save'[s].alone = save[s].alone
          /\ web' = save[s].config /\ web' # None
      BY <1>12, <2>1, <2>2 DEF SwapService, Save
    <2>6. save[s].alone => Loaded' = {web'}
      BY <1>12, <2>1, <2>5, LoadedKept DEF SwapService, IInv, AloneRight
    <2> QED
      BY <1>5, <1>12, <2>1, <2>3, <2>4, <2>5, <2>6 DEF SwapService
  <1>13. CASE AnswerSave(s) \/ FailSave(s)
    <2>1. save[s] # Idle
      BY <1>13 DEF AnswerSave, FailSave, Idle
    <2>2. /\ save'[s] = Idle /\ \A t \in Savers \ {s} : save'[t] = save[t]
          /\ UNCHANGED <<file, env, readonly, managed, web, accepts, intact>>
      BY <1>1, <1>13 DEF AnswerSave, FailSave, ConfigTypeOK
    <2>3. FileIsWhole'
      BY <2>2 DEF IInv, FileIsWhole
    <2>4. save'[s].step = "idle"
      BY <2>2 DEF Idle
    <2> QED
      BY <1>5, <1>6, <2>1, <2>2, <2>3, <2>4
  <1> QED
    BY <1>4, <1>8, <1>9, <1>10, <1>11, <1>12, <1>13 DEF SaveStep
-----------------------------------------------------------------------------
(* The process, the database and docker *)

LEMMA CrashHolds ==
  ASSUME IInv, Crash, UNCHANGED installVars
  PROVE  /\ FileIsWhole' /\ SavesHold'
         /\ Placed' /\ AloneRight' /\ StackRight'
PROOF
  <1>1. \A s \in Savers : save'[s] = Idle /\ save'[s].step = "idle"
    BY DEF Crash, Idle
  <1>2. FileIsWhole'
    BY DEF Crash, IInv, FileIsWhole
  <1>3. SavesHold' /\ AloneRight'
    BY <1>1 DEF SavesHold, AloneRight
  <1>4. Placed'
    BY <1>1 DEF Crash, IInv, Placed, installVars
  <1>5. StackRight'
    BY LoadedKept DEF Crash, IInv, StackRight, AtStep, Fits, installVars
  <1> QED
    BY <1>2, <1>3, <1>4, <1>5

LEMMA RestartHolds ==
  ASSUME IInv, Restart
  PROVE  /\ FileIsWhole' /\ SavesHold'
         /\ Placed' /\ AloneRight' /\ StackRight'
PROOF
  <1> USE ConfigAssumption
  <1>1. PICK c \in Loaded : web' = c
    BY DEF Restart, Boot
  <1>2. Loaded = {c} /\ c # None
    BY LoadedIsOne DEF IInv, TypeOK
  <1>3. \A s \in Savers : save'[s] = Idle /\ save'[s].step = "idle"
    BY DEF Restart, Boot, IInv, Placed, Idle
  <1>4. Loaded' = Loaded
    BY LoadedKept DEF Restart, Boot
  <1>5. FileIsWhole'
    BY DEF Restart, Boot, IInv, FileIsWhole
  <1>6. SavesHold' /\ AloneRight'
    BY <1>3 DEF SavesHold, AloneRight
  <1>7. Placed'
    BY <1>1, <1>2, <1>3 DEF Restart, Boot, IInv, Placed
  <1>8. StackRight'
    BY <1>1, <1>2, <1>4 DEF Restart, Boot, IInv, StackRight, AtStep, Fits
  <1> QED
    BY <1>5, <1>6, <1>7, <1>8

LEMMA DatabaseHolds ==
  ASSUME IInv, NEW urls, DatabaseAccepts(urls),
         \/ ~readonly /\ UNCHANGED installVars
         \/ DatabaseTurns
  PROVE  /\ FileIsWhole' /\ SavesHold'
         /\ Placed' /\ AloneRight' /\ StackRight'
PROOF
  <1>1. Loaded' = Loaded
    BY LoadedKept DEF DatabaseAccepts
  <1>2. UNCHANGED <<file, env, readonly, managed, web, save, intact, install>>
    BY DEF DatabaseAccepts, DatabaseTurns, installVars
  <1>3. FileIsWhole' /\ SavesHold' /\ Placed'
    BY <1>2 DEF IInv, FileIsWhole, SavesHold, Placed
  <1>4. AloneRight'
    BY <1>1, <1>2 DEF IInv, AloneRight
  <1>5. CASE ~readonly
    BY <1>2, <1>3, <1>4, <1>5 DEF StackRight
  <1>6. CASE DatabaseTurns
    <2>1. volume # None /\ UNCHANGED <<volume, healthy>>
      BY <1>6 DEF DatabaseTurns
    <2>2. accepts' \subseteq {UrlOf[volume]}
      BY <1>6 DEF DatabaseTurns, DatabaseAccepts
    <2>3. StackRight'
      BY <1>1, <1>2, <2>1, <2>2 DEF IInv, StackRight, AtStep, Fits
    <2> QED
      BY <1>3, <1>4, <2>3
  <1> QED
    BY <1>5, <1>6
-----------------------------------------------------------------------------
(* The installer *)

\* Steps that change no file: what is left to show is where they go.
LEMMA StepHolds ==
  ASSUME IInv, UNCHANGED configVars, UNCHANGED healthy, readonly,
         volume # None => volume' = volume,
         install'.step = "complete" => healthy \/ AtStep("complete"),
         install'.step = "fill config" => AtStep("fill config")
  PROVE  /\ FileIsWhole' /\ SavesHold'
         /\ Placed' /\ AloneRight' /\ StackRight'
PROOF
  <1>1. UNCHANGED <<file, env, readonly, web, accepts, save, intact>>
    BY DEF configVars
  <1>2. Loaded' = Loaded
    BY <1>1, LoadedKept
  <1>3. FileIsWhole' /\ SavesHold' /\ Placed'
    BY <1>1 DEF IInv, FileIsWhole, SavesHold, Placed
  <1>4. AloneRight'
    BY <1>1, <1>2 DEF IInv, AloneRight
  <1>5. Fits => Fits'
    BY <1>2 DEF Fits
  <1>6. accepts \subseteq (IF volume' = None THEN {} ELSE {UrlOf[volume']})
    BY DEF IInv, StackRight
  <1>7. StackRight'
    BY <1>1, <1>2, <1>5, <1>6 DEF IInv, StackRight, AtStep
  <1> QED
    BY <1>3, <1>4, <1>7

\* Steps that write the configuration file, which did not load before.
LEMMA FileStepHolds ==
  ASSUME IInv, OpenConfig \/ FillConfig
  PROVE  /\ FileIsWhole' /\ SavesHold'
         /\ Placed' /\ AloneRight' /\ StackRight'
PROOF
  <1> USE ConfigAssumption, InstallerAssumption
  <1>1. /\ install.step # "off" /\ readonly
        /\ UNCHANGED <<env, readonly, web, accepts, save, volume, healthy>>
    BY DEF OpenConfig, FillConfig, AtStep, IInv, Placed
  <1>2. Loaded = {}
    <2>1. CASE OpenConfig
      BY <2>1 DEF OpenConfig, Loaded
    <2>2. CASE FillConfig
      <3>1. file = Empty /\ env = NoEnvironment
        BY <1>1, <2>2 DEF FillConfig, IInv, StackRight, Placed
      <3>2. Overridden(Payload).url = None
        BY <3>1 DEF Overridden, Payload, NoEnvironment
      <3> QED
        BY <3>2 DEF Loaded
    <2> QED
      BY <2>1, <2>2
  <1>3. web = None /\ ~healthy
    BY <1>1, <1>2 DEF IInv, StackRight, Fits
  <1>4. \A s \in Savers : save'[s] = Idle /\ save'[s].step = "idle"
    BY <1>1, <1>3 DEF IInv, Placed, Idle
  <1>5. SavesHold' /\ AloneRight'
    BY <1>4 DEF SavesHold, AloneRight
  <1>6. Placed'
    BY <1>1, <1>4 DEF IInv, Placed
  <1>7. FileIsWhole'
    <2>1. CASE OpenConfig
      BY <2>1 DEF OpenConfig, FileIsWhole
    <2>2. CASE FillConfig
      <3>1. install.password \in Passwords
        BY <2>2 DEF FillConfig, IInv, TypeOK, InstallTypeOK
      <3>2. file' \in Config /\ Valid(file')
        BY <2>2, <3>1 DEF FillConfig, Config, Modes, Valid
      <3> QED
        BY <3>2 DEF FileIsWhole
    <2> QED
      BY <2>1, <2>2
  <1>8. /\ install'.step \in {"fill config", "up"}
        /\ install'.step = "fill config" => file' = Empty
    BY DEF OpenConfig, FillConfig, GoTo, IInv, TypeOK, InstallTypeOK
  <1>9. StackRight'
    BY <1>1, <1>3, <1>8 DEF IInv, StackRight, AtStep, Fits
  <1> QED
    BY <1>5, <1>6, <1>7, <1>9

LEMMA ComposeWebHolds ==
  ASSUME IInv, ComposeWeb
  PROVE  /\ FileIsWhole' /\ SavesHold'
         /\ Placed' /\ AloneRight' /\ StackRight'
PROOF
  <1>1. /\ AtStep("up web") /\ install'.step = "wait db"
        /\ UNCHANGED <<file, env, readonly, accepts, intact, volume>>
    BY DEF ComposeWeb, GoTo, IInv, TypeOK, InstallTypeOK
  <1>2. readonly
    BY <1>1 DEF IInv, Placed, AtStep
  <1>3. Loaded' = Loaded
    BY <1>1, LoadedKept
  <1>4. FileIsWhole'
    BY <1>1 DEF IInv, FileIsWhole
  <1>5. CASE /\ web' = None /\ healthy' = FALSE
             /\ save' = [s \in Savers |-> Idle]
    <2>1. \A s \in Savers : save'[s] = Idle /\ save'[s].step = "idle"
      BY <1>5 DEF Idle
    <2>2. SavesHold' /\ AloneRight'
      BY <2>1 DEF SavesHold, AloneRight
    <2>3. Placed'
      BY <1>1, <1>2, <2>1 DEF IInv, Placed
    <2>4. StackRight'
      BY <1>1, <1>2, <1>3, <1>5 DEF IInv, StackRight, AtStep, Fits
    <2> QED
      BY <1>4, <2>2, <2>3, <2>4
  <1>6. CASE UNCHANGED <<web, save, healthy>>
    <2>1. SavesHold' /\ Placed'
      BY <1>1, <1>2, <1>6 DEF IInv, SavesHold, Placed
    <2>2. AloneRight'
      BY <1>3, <1>6 DEF IInv, AloneRight
    <2>3. StackRight'
      BY <1>1, <1>2, <1>3, <1>6 DEF IInv, StackRight, AtStep, Fits
    <2> QED
      BY <1>4, <2>1, <2>2, <2>3
  <1> QED
    BY <1>5, <1>6 DEF ComposeWeb

\* "healthy" is reported of a process whose URL the database accepts.
LEMMA ProbeHolds ==
  ASSUME IInv, Probe
  PROVE  /\ FileIsWhole' /\ SavesHold'
         /\ Placed' /\ AloneRight' /\ StackRight'
PROOF
  <1>1. /\ readonly /\ web # None
        /\ UNCHANGED <<file, env, readonly, web, accepts, save, intact, volume, install>>
    BY DEF Probe, configVars
  <1>2. Loaded' = Loaded
    BY <1>1, LoadedKept
  <1>3. FileIsWhole' /\ SavesHold' /\ Placed'
    BY <1>1 DEF IInv, FileIsWhole, SavesHold, Placed
  <1>4. AloneRight'
    BY <1>1, <1>2 DEF IInv, AloneRight
  <1>5. healthy' => web.url \in accepts
    BY DEF Probe
  <1>6. web.url \in accepts => Fits
    BY <1>1 DEF IInv, StackRight, Fits
  <1>7. Fits' <=> Fits
    BY <1>1, <1>2 DEF Fits
  <1>8. StackRight'
    BY <1>1, <1>2, <1>5, <1>6, <1>7 DEF IInv, StackRight, AtStep
  <1> QED
    BY <1>3, <1>4, <1>8

LEMMA InstallHolds ==
  ASSUME IInv, Start \/ InstallStep \/ Interrupt
  PROVE  /\ FileIsWhole' /\ SavesHold'
         /\ Placed' /\ AloneRight' /\ StackRight'
PROOF
  <1>1. CASE OpenConfig \/ FillConfig
    BY <1>1, FileStepHolds
  <1>2. CASE ComposeWeb
    BY <1>2, ComposeWebHolds
  <1>3. CASE \/ Start \/ Interrupt \/ ReuseEnv \/ OpenEnv \/ FillEnv \/ ReuseConfig
             \/ UnsetPassword \/ ComposeDatabase \/ DatabaseUnhealthy
             \/ WaitDatabase \/ WaitWeb \/ UnsetSummary \/ TimeOut
    <2>1. UNCHANGED configVars /\ UNCHANGED healthy
      BY <1>3 DEF Start, Interrupt, ReuseEnv, OpenEnv, FillEnv, ReuseConfig,
                  UnsetPassword, ComposeDatabase, DatabaseUnhealthy,
                  WaitDatabase, WaitWeb, UnsetSummary, TimeOut
    <2>2. readonly
      BY <1>3 DEF Start, Interrupt, ReuseEnv, OpenEnv, FillEnv, ReuseConfig,
                  UnsetPassword, ComposeDatabase, DatabaseUnhealthy,
                  WaitDatabase, WaitWeb, UnsetSummary, TimeOut, Running, AtStep, IInv, Placed
    <2>3. volume # None => volume' = volume
      BY <1>3 DEF Start, Interrupt, ReuseEnv, OpenEnv, FillEnv, ReuseConfig,
                  UnsetPassword, ComposeDatabase, DatabaseUnhealthy,
                  WaitDatabase, WaitWeb, UnsetSummary, TimeOut
    <2>4. /\ install'.step = "complete" => healthy
          /\ install'.step # "fill config"
      <3>1. InstallTypeOK
        BY DEF IInv, TypeOK
      <3>2. CASE Start \/ ReuseEnv \/ FillEnv
        <4>1. CASE Start
          BY <4>1 DEF Start
        <4>2. \A password : Source(password) => install'.step = "config"
          BY DEF Source
        <4>3. CASE ReuseEnv \/ FillEnv
          BY <4>2, <4>3 DEF ReuseEnv, FillEnv
        <4> QED
          BY <3>2, <4>1, <4>3
      <3>3. CASE WaitWeb
        BY <3>1, <3>3 DEF WaitWeb, GoTo, InstallTypeOK
      <3>4. CASE \/ OpenEnv \/ ReuseConfig \/ ComposeDatabase \/ WaitDatabase
        BY <3>1, <3>4 DEF OpenEnv, ReuseConfig, ComposeDatabase, WaitDatabase,
                          GoTo, InstallTypeOK
      <3>5. CASE Interrupt \/ UnsetPassword \/ DatabaseUnhealthy \/ UnsetSummary \/ TimeOut
        BY <3>1, <3>5 DEF Interrupt, UnsetPassword, DatabaseUnhealthy, UnsetSummary, TimeOut,
                          GoTo, InstallTypeOK
      <3> QED
        BY <1>3, <3>2, <3>3, <3>4, <3>5
    <2> QED
      BY <2>1, <2>2, <2>3, <2>4, StepHolds
  <1> QED
    BY <1>1, <1>2, <1>3 DEF InstallStep
-----------------------------------------------------------------------------
(* The theorems *)

LEMMA NextHolds ==
  ASSUME IInv, [Next]_vars
  PROVE  IInv'
PROOF
  <1>1. TypeOK'
    BY NextTyped DEF IInv
  <1>2. CASE Restart
    BY <1>1, <1>2, RestartHolds DEF IInv
  <1>3. CASE Process
    <2>1. CASE UNCHANGED installVars /\ Crash
      BY <1>1, <2>1, CrashHolds DEF IInv
    <2>2. CASE UNCHANGED installVars /\ \E s \in Savers : SaveStep(s)
      BY <1>1, <2>2, SaveHolds DEF IInv
    <2>3. CASE ~readonly /\ UNCHANGED installVars /\ \E urls \in {{}, Urls} : DatabaseAccepts(urls)
      BY <1>1, <2>3, DatabaseHolds DEF IInv
    <2> QED
      BY <1>3, <2>1, <2>2, <2>3 DEF Process
  <1>4. CASE Start \/ InstallStep \/ Interrupt
    BY <1>1, <1>4, InstallHolds DEF IInv
  <1>5. CASE DatabaseTurns
    <2>1. PICK urls : DatabaseAccepts(urls)
      BY <1>5 DEF DatabaseTurns
    <2> QED
      BY <1>1, <1>5, <2>1, DatabaseHolds DEF IInv
  <1>6. CASE Probe
    BY <1>1, <1>6, ProbeHolds DEF IInv
  <1>7. CASE UNCHANGED vars
    <2>1. Loaded' = Loaded
      BY <1>7, LoadedKept DEF vars, configVars
    <2> QED
      BY <1>1, <1>7, <2>1 DEF vars, configVars, installVars, IInv, FileIsWhole,
         SavesHold, Placed, AloneRight, StackRight, Fits, AtStep
  <1> QED
    BY <1>2, <1>3, <1>4, <1>5, <1>6, <1>7 DEF Next

\* Saves, installs, crashes and restarts keep the invariant.
THEOREM Invariance == Spec => []IInv
PROOF
  <1>1. IInv /\ [Next]_vars => IInv'
    BY NextHolds
  <1> QED
    BY <1>1, InitHolds, PTL DEF Spec

\* Saving, installing, crashing and restarting never leave a file that holds no
\* valid configuration of its own, unless a write of it was cut off or two of
\* them met.
THEOREM FilesAreWhole == Spec => []FileIsWhole
PROOF
  <1>1. IInv => FileIsWhole
    BY DEF IInv
  <1> QED
    BY <1>1, Invariance, PTL

\* The answer to a save that no other overlapped comes from the configuration
\* that a restart would load.
THEOREM SoleSavesAreServed == Spec => []SoleSaveIsServed
PROOF
  <1>1. IInv => SoleSaveIsServed
    BY DEF IInv, AloneRight, SoleSaveIsServed, Idle
  <1> QED
    BY <1>1, Invariance, PTL

\* Whatever files and volume earlier installs left behind, install.sh says
\* complete only over a configuration that loads and has the credentials of the
\* volume.
THEOREM CompleteInstallsFit == Spec => []CompleteMeansCredentials
PROOF
  <1>1. IInv => CompleteMeansCredentials
    BY DEF IInv, StackRight, Placed, AtStep, Fits, CompleteMeansCredentials
  <1> QED
    BY <1>1, Invariance, PTL
==============================================================================
