--------------------------- MODULE NodeConsoleProofs ---------------------------
(***************************************************************************)
(* Proofs about the life of a node process and about its minter database,  *)
(* for any command lines, configuration files, number of callers, ranges   *)
(* and minters: a failure is told (FailureIsLogged), services are stopped  *)
(* before the databases are closed (ServicesStopFirst), a load counts every*)
(* minter (LoadCountsAll) and a selection on exact counts names the right  *)
(* one (SelectionAgrees).                                                  *)
(***************************************************************************)
EXTENDS NodeConsole, FiniteSetTheorems, WellFoundedInduction, TLAPS

-------------------------------------------------------------------------------
(***************************************************************************)
(* Failures are told.                                                      *)
(***************************************************************************)

Points == {"no", "services", "stores", "log", "closing", "waiting"}
Logs   == [level : Levels, console : SUBSET Types, file : SUBSET Types, stream : {"none", "open", "ended"}]

LifeType ==
    /\ shut \in [Codes -> Points]
    /\ logs \in Logs
    /\ service \in [Services -> {"off", "on", "stopped"}]

\* Before the command line is read nothing runs that could fail; and a command of the shell
\* opens no log file, starts no service and accepts no lines.
NotBegun ==
    /\ boot = "args" => shut[1] = "no" /\ \A c \in Lines : task[c].at = "idle"
    /\ boot \in {"args", "shell"} =>
          env # "runtime" /\ service["pos"] # "on" /\ logs.stream = "none"

\* All but the shell hear errors in the console, and so does a log file there is.
Listening ==
    /\ boot # "shell" => "error" \in logs.console
    /\ logs.stream # "none" => "error" \in logs.file

\* A shutdown with exit code 1 has been reported, to the log file too if it was open then.
Reported ==
    /\ shut[1] # "no" => /\ boot # "shell" => "console" \in told
                         /\ logs.stream = "open" => "file" \in told
    /\ shut[1] = "closing" => "file" \in told
    /\ exited = 1 /\ boot # "shell" => "console" \in told

LifeInv == LifeType /\ NotBegun /\ Listening /\ Reported

\* Whoever logs an error, the logger CLI excepted, reaches what listens.
LEMMA ErrorsReach ==
    ASSUME LifeInv, NEW prefix, prefix # "CLI", LogError(prefix)
    PROVE  /\ told \subseteq told'
           /\ boot # "shell" => "console" \in told'
           /\ logs.stream = "open" => "file" \in told'
  <1>1. told' = told \cup Reaches("error", prefix)
    BY DEF LogError
  <1>2. Reaches("error", prefix) = (IF "error" \in logs.console THEN {"console"} ELSE {}) \cup
                                   (IF "error" \in logs.file THEN LogToFile ELSE {})
    BY DEF Reaches, LogToConsole
  <1>3. boot # "shell" => "error" \in logs.console
    BY DEF LifeInv, Listening
  <1>4. logs.stream = "open" => "error" \in logs.file /\ LogToFile = {"file"}
    BY DEF LifeInv, Listening, LogToFile
  <1> QED BY <1>1, <1>2, <1>3, <1>4

LEMMA ShutdownShut ==
    ASSUME LifeType, NEW code \in Codes, Shutdown(code)
    PROVE  /\ shut' \in [Codes -> Points]
           /\ code # 1 => shut'[1] = shut[1]
           /\ shut'[1] = "closing" => shut[1] = "closing"
  <1>1. shut' = [shut EXCEPT ![code] = IF @ = "no" THEN "services" ELSE @]
    BY DEF Shutdown
  <1>2. shut \in [Codes -> Points] /\ 1 \in Codes
    BY DEF LifeType, Codes
  <1> QED BY <1>1, <1>2 DEF Points

\* A step that tells of no failure and causes none.
LEMMA LifeKept ==
    ASSUME LifeInv, logs' = logs, told \subseteq told', exited' = exited \/ exited' # 1,
           shut' \in [Codes -> Points], service' \in [Services -> {"off", "on", "stopped"}],
           shut'[1] \in {shut[1], "no"} \/ (shut[1] # "no" /\ shut'[1] # "closing"),
           boot' = "shell" <=> boot = "shell",
           boot' = "args" => boot = "args" /\ \A c \in Lines : task'[c].at = "idle",
           boot \in {"args", "shell"} => env' # "runtime" /\ service'["pos"] # "on"
    PROVE  LifeInv'
  <1>1. LifeType'
    BY DEF LifeInv, LifeType
  <1>2. NotBegun'
    <2>1. boot' = "args" => shut'[1] = "no"
      BY DEF LifeInv, NotBegun
    <2>2. boot' \in {"args", "shell"} => boot \in {"args", "shell"}
      OBVIOUS
    <2> QED BY <2>1, <2>2 DEF LifeInv, NotBegun
  <1>3. Listening'
    BY DEF LifeInv, Listening
  <1>4. Reported'
    BY DEF LifeInv, Reported
  <1> QED BY <1>1, <1>2, <1>3, <1>4 DEF LifeInv

\* A failure that is told: a shutdown with code 1 may begin, or the process ends.
LEMMA LifeTold ==
    ASSUME LifeInv, logs' = logs, NEW prefix, prefix # "CLI", LogError(prefix),
           shut' \in [Codes -> Points], service' \in [Services -> {"off", "on", "stopped"}],
           shut'[1] = "closing" => shut[1] = "closing",
           boot' # "args",
           boot' = "shell" <=> boot = "shell",
           boot = "shell" => env' # "runtime" /\ service'["pos"] # "on"
    PROVE  LifeInv'
  <1>1. /\ told \subseteq told'
        /\ boot # "shell" => "console" \in told'
        /\ logs.stream = "open" => "file" \in told'
    BY ErrorsReach
  <1>2. LifeType'
    BY DEF LifeInv, LifeType
  <1>3. NotBegun' /\ Listening'
    BY DEF LifeInv, NotBegun, Listening
  <1>4. Reported'
    BY <1>1 DEF LifeInv, Reported
  <1> QED BY <1>2, <1>3, <1>4 DEF LifeInv

LEMMA RejectionTold ==
    ASSUME LifeInv, UnhandledRejection
    PROVE  /\ LogError("Global")
           /\ shut' \in [Codes -> Points]
           /\ shut'[1] = "closing" => shut[1] = "closing"
  <1>1. CASE rejected
    BY <1>1 DEF UnhandledRejection, LifeInv, LifeType
  <1>2. CASE ~rejected
    <2>1. Shutdown(1) /\ 1 \in Codes
      BY <1>2 DEF UnhandledRejection, Codes
    <2> QED BY <2>1, ShutdownShut DEF UnhandledRejection, LifeInv
  <1> QED BY <1>1, <1>2

\* A process that is gone stops nothing and runs nothing.
LEMMA GoneFacts ==
    ASSUME LifeInv, NEW code, Gone(code)
    PROVE  /\ exited' = code /\ logs' = logs /\ boot' = boot /\ env' = env
           /\ shut' \in [Codes -> Points] /\ shut'[1] = "no"
           /\ service' \in [Services -> {"off", "on", "stopped"}] /\ service'["pos"] = "off"
           /\ \A c \in Lines : task'[c].at = "idle"
  BY DEF Gone, Codes, Points, Services, Idle

-------------------------------------------------------------------------------
(***************************************************************************)
(* The steps of the start.                                                 *)
(***************************************************************************)

LEMMA BadFlagsLife == ASSUME LifeInv, BadFlags PROVE LifeInv'
  <1>1. /\ boot = "args" /\ boot' = "over" /\ LogError("Global") /\ Shutdown(1) /\ 1 \in Codes
        /\ logs' = logs /\ service' = service
    BY DEF BadFlags, Codes
  <1>2. shut' \in [Codes -> Points] /\ (shut'[1] = "closing" => shut[1] = "closing")
    BY <1>1, ShutdownShut DEF LifeInv
  <1>3. service' \in [Services -> {"off", "on", "stopped"}]
    BY <1>1 DEF LifeInv, LifeType
  <1> QED BY <1>1, <1>2, <1>3, LifeTold

\* cli.init for a command of the shell.
LEMMA ShellLife ==
    ASSUME LifeInv, boot = "args", boot' = "shell", InitLog("cmd", "none"),
           UNCHANGED <<env, service, shut, exited, told>>
    PROVE  LifeInv'
  <1>1. /\ logs' = [level |-> "cmd", console |-> {}, file |-> {}, stream |-> logs.stream]
        /\ logs.stream = "none" /\ shut[1] = "no"
    BY DEF InitLog, Allowed, LifeInv, NotBegun
  <1>2. LifeType'
    BY <1>1 DEF LifeInv, LifeType, Logs, Levels
  <1>3. NotBegun' /\ Listening'
    BY <1>1 DEF LifeInv, NotBegun, Listening
  <1>4. Reported'
    BY <1>1 DEF LifeInv, Reported
  <1> QED BY <1>2, <1>3, <1>4 DEF LifeInv

LEMMA RunLife == ASSUME LifeInv, RunCommandLine PROVE LifeInv'
  <1>1. /\ boot = "args" /\ boot' = "cli" /\ InitLog("all", "all")
        /\ UNCHANGED <<service, shut, exited, told>>
    BY DEF RunCommandLine, ArgsRead
  <1>2. /\ logs' = [level |-> "all", console |-> Types, file |-> Types, stream |-> "open"]
        /\ shut[1] = "no" /\ "error" \in Types
    BY <1>1 DEF InitLog, Allowed, StartLogStream, Types, LifeInv, NotBegun
  <1>3. LifeType'
    BY <1>1, <1>2 DEF LifeInv, LifeType, Logs, Levels
  <1>4. NotBegun' /\ Listening'
    BY <1>1, <1>2 DEF NotBegun, Listening
  <1>5. Reported'
    BY <1>1, <1>2 DEF LifeInv, Reported
  <1> QED BY <1>3, <1>4, <1>5 DEF LifeInv

LEMMA StartServiceType ==
    ASSUME LifeInv, NEW s \in Services, NEW result \in {"on", "stopped"}, StartService(s, result)
    PROVE  service' \in [Services -> {"off", "on", "stopped"}]
  BY DEF StartService, LifeInv, LifeType

\* A step of the start that may fail to listen and tells so.
LEMMA ListenLife ==
    ASSUME LifeInv, boot \notin {"args", "shell"}, boot' \notin {"args", "shell"},
           service' \in [Services -> {"off", "on", "stopped"}],
           UNCHANGED <<logs, exited>>,
           UNCHANGED <<shut, told>> \/ (LogError("LeiCoinNet") /\ Shutdown(1))
    PROVE  LifeInv'
  <1>1. CASE UNCHANGED <<shut, told>>
    BY <1>1, LifeKept DEF LifeInv, LifeType
  <1>2. CASE LogError("LeiCoinNet") /\ Shutdown(1)
    <2>1. 1 \in Codes
      BY DEF Codes
    <2>2. shut' \in [Codes -> Points] /\ (shut'[1] = "closing" => shut[1] = "closing")
      BY <1>2, <2>1, ShutdownShut DEF LifeInv
    <2> QED BY <1>2, <2>2, LifeTold
  <1> QED BY <1>1, <1>2

LEMMA StartApiLife ==
    ASSUME LifeInv, NEW api \in ApiSettings, NEW minters \in MinterConfigs, StartApi(api, minters)
    PROVE  LifeInv'
  <1>1. boot = "peers" /\ logs' = logs
    BY DEF StartApi
  <1>2. service' \in [Services -> {"off", "on", "stopped"}]
    <2>1. CASE api = "off"
      BY <2>1 DEF StartApi, LifeInv, LifeType
    <2>2. CASE api # "off"
      <3>1. StartService("http", IF api = "on" THEN "on" ELSE "stopped") /\ "http" \in Services
        BY <2>2 DEF StartApi, Services
      <3>2. (IF api = "on" THEN "on" ELSE "stopped") \in {"on", "stopped"}
        OBVIOUS
      <3> QED BY <3>1, <3>2, StartServiceType
    <2> QED BY <2>1, <2>2
  <1>3. CASE api = "refused" \/ MintersThrow(minters)
    <2>1. boot' = "over" /\ UnhandledRejection
      BY <1>3 DEF StartApi
    <2>2. LogError("Global") /\ shut' \in [Codes -> Points] /\ (shut'[1] = "closing" => shut[1] = "closing")
      BY <2>1, RejectionTold
    <2> QED BY <1>1, <1>2, <2>1, <2>2, LifeTold
  <1>4. CASE ~(api = "refused" \/ MintersThrow(minters))
    <2>1. boot' = "sync" /\ shut' = shut /\ exited' = exited
      BY <1>4 DEF StartApi
    <2>2. told \subseteq told'
      BY <1>4 DEF StartApi
    <2> QED BY <1>1, <1>2, <2>1, <2>2, LifeKept DEF LifeInv, LifeType
  <1> QED BY <1>3, <1>4

LEMMA BootLife == ASSUME LifeInv, BootStep PROVE LifeInv'
  <1>1. CASE BadFlags
    BY <1>1, BadFlagsLife
  <1>2. CASE ShellPrints
    BY <1>2, ShellLife DEF ShellPrints, ArgsRead
  <1>3. CASE RunCommandLine
    BY <1>3, RunLife
  <1>4. CASE LoadConfig
    BY <1>4, LifeKept DEF LoadConfig, LifeInv, LifeType
  <1>5. CASE BadConfig
    <2>1. boot = "cli" /\ boot' = "over" /\ UnhandledRejection /\ logs' = logs /\ service' = service
      BY <1>5 DEF BadConfig
    <2>2. LogError("Global") /\ shut' \in [Codes -> Points] /\ (shut'[1] = "closing" => shut[1] = "closing")
      BY <2>1, RejectionTold
    <2>3. service' \in [Services -> {"off", "on", "stopped"}]
      BY <2>1 DEF LifeInv, LifeType
    <2> QED BY <2>1, <2>2, <2>3, LifeTold
  <1>6. CASE StoreReady
    <2>1. boot = "store" /\ boot' \notin {"args", "shell"}
      BY <1>6 DEF StoreReady
    <2> QED BY <1>6, <2>1, LifeKept DEF StoreReady, LifeInv, LifeType
  <1>7. CASE StartNet
    <2>1. service' \in [Services -> {"off", "on", "stopped"}]
      BY <1>7, StartServiceType DEF StartNet, Services
    <2> QED BY <1>7, <2>1, ListenLife DEF StartNet
  <1>8. CASE SyncEnds
    <2>1. service' \in [Services -> {"off", "on", "stopped"}]
      BY <1>8, StartServiceType DEF SyncEnds, StartPos, Services
    <2> QED BY <1>8, <2>1, ListenLife DEF SyncEnds, StartPos
  <1>9. CASE ShellEnds
    <2>1. boot = "shell" /\ Gone(0) /\ told' = told
      BY <1>9 DEF ShellEnds
    <2>2. 0 # 1
      OBVIOUS
    <2> QED BY <2>1, <2>2, GoneFacts, LifeKept DEF LifeInv, NotBegun
  <1>10. ASSUME NEW api \in ApiSettings, NEW minters \in MinterConfigs, StartApi(api, minters)
         PROVE  LifeInv'
    BY <1>10, StartApiLife
  <1>11. ASSUME NEW cmd, NEW key, ShellCommand(cmd, key) PROVE LifeInv'
    BY <1>11, ShellLife DEF ShellCommand, ArgsRead
  <1> QED BY <1>1, <1>2, <1>3, <1>4, <1>5, <1>6, <1>7, <1>8, <1>9, <1>10, <1>11 DEF BootStep

-------------------------------------------------------------------------------
(***************************************************************************)
(* The steps of the running node and of gracefulShutdown.                  *)
(***************************************************************************)

\* A step that leaves the process as it is.
LEMMA LifeSame ==
    ASSUME LifeInv, UNCHANGED <<env, logs, boot, service, shut, exited, told>>,
           boot = "args" => \A c \in Lines : task'[c].at = "idle"
    PROVE  LifeInv'
  <1>1. boot \in {"args", "shell"} => env' # "runtime" /\ service'["pos"] # "on"
    BY DEF LifeInv, NotBegun
  <1> QED BY <1>1, LifeKept DEF LifeInv, LifeType

LEMMA SignalLife ==
    ASSUME LifeInv, Shutdown(0), UNCHANGED <<env, logs, boot, service, exited, told, task>>
    PROVE  LifeInv'
  <1>1. shut' \in [Codes -> Points] /\ shut'[1] = shut[1]
    <2>1. 0 \in Codes /\ 0 # 1
      BY DEF Codes
    <2> QED BY <2>1, ShutdownShut DEF LifeInv
  <1>2. service' \in [Services -> {"off", "on", "stopped"}]
    BY DEF LifeInv, LifeType
  <1>3. boot \in {"args", "shell"} => env' # "runtime" /\ service'["pos"] # "on"
    BY DEF LifeInv, NotBegun
  <1>4. boot' = "args" => boot = "args" /\ \A c \in Lines : task'[c].at = "idle"
    BY DEF LifeInv, NotBegun
  <1> QED BY <1>1, <1>2, <1>3, <1>4, LifeKept

LEMMA NodeLife ==
    ASSUME LifeInv, NEW c \in Lines,
           \/ LineStep(c)
           \/ \E cmd \in Commands \ {"init"} : \E key \in Named(cmd) : TypeLine(c, cmd, key)
           \/ \E h \in Hashes : SlotAsks(h)
           \/ StartServiceCommand \/ StopCommand \/ Sigterm
    PROVE  LifeInv'
  <1>1. ASSUME NEW cmd, NEW key, TypeLine(c, cmd, key) PROVE LifeInv'
    <2>1. boot # "args" /\ UNCHANGED <<env, logs, boot, service, shut, exited, told>>
      BY <1>1 DEF TypeLine, LifeInv, NotBegun
    <2> QED BY <2>1, LifeSame
  <1>2. ASSUME NEW h \in Hashes, SlotAsks(h) PROVE LifeInv'
    <2>1. boot # "args" /\ UNCHANGED <<env, logs, boot, service, shut, exited, told>>
      BY <1>2 DEF SlotAsks, LifeInv, NotBegun, lifeVars
    <2> QED BY <2>1, LifeSame
  <1>3. CASE DatabaseStep(c)
    <2>1. task[c].at # "idle"
      BY <1>3 DEF DatabaseStep, MinterStep, LoadRange, LoadFails, RunCommand, Commit, SelectKey, Selected
    <2>2. boot # "args"
      BY <2>1 DEF LifeInv, NotBegun
    <2> QED BY <1>3, <2>2, LifeSame DEF DatabaseStep, lifeVars
  <1>4. CASE TaskThrows(c)
    <2>1. boot # "args"
      BY <1>4 DEF TaskThrows, LifeInv, NotBegun
    <2>2. /\ UnhandledRejection /\ logs' = logs /\ env' = env /\ service' = service
          /\ boot' # "args" /\ (boot' = "shell" <=> boot = "shell")
      BY <1>4, <2>1 DEF TaskThrows
    <2>3. LogError("Global") /\ shut' \in [Codes -> Points] /\ (shut'[1] = "closing" => shut[1] = "closing")
      BY <2>2, RejectionTold
    <2>4. service' \in [Services -> {"off", "on", "stopped"}]
      BY <2>2 DEF LifeInv, LifeType
    <2>5. boot = "shell" => env' # "runtime" /\ service'["pos"] # "on"
      BY <2>2 DEF LifeInv, NotBegun
    <2> QED BY <2>2, <2>3, <2>4, <2>5, LifeTold
  <1>5. CASE StartServiceCommand
    <2>1. env = "runtime" /\ UNCHANGED <<logs, boot>>
      BY <1>5 DEF StartServiceCommand, CanRun
    <2>2. boot \notin {"args", "shell"}
      BY <2>1 DEF LifeInv, NotBegun
    <2>3. "http" \in Services
      BY DEF Services
    <2>4. CASE StartService("http", "on") /\ UNCHANGED <<shut, exited, told>>
      BY <2>1, <2>2, <2>3, <2>4, StartServiceType, LifeKept DEF LifeInv, LifeType
    <2>5. CASE StartService("http", "stopped") /\ UnhandledRejection
      <3>1. LogError("Global") /\ shut' \in [Codes -> Points] /\ (shut'[1] = "closing" => shut[1] = "closing")
        BY <2>5, RejectionTold
      <3>2. service' \in [Services -> {"off", "on", "stopped"}]
        BY <2>3, <2>5, StartServiceType
      <3> QED BY <2>1, <2>2, <3>1, <3>2, LifeTold
    <2> QED BY <1>5, <2>4, <2>5 DEF StartServiceCommand
  <1>6. CASE StopCommand \/ Sigterm
    BY <1>6, SignalLife DEF StopCommand, Sigterm, minterVars
  <1> QED BY <1>1, <1>2, <1>3, <1>4, <1>5, <1>6 DEF LineStep

LEMMA ShutdownLife ==
    ASSUME LifeInv, NEW code \in Codes, ShutdownStep(code)
    PROVE  LifeInv'
  <1> USE DEF Codes
  <1>1. shut \in [Codes -> Points]
    BY DEF LifeInv, LifeType
  <1>2. boot = "args" => \A c \in Lines : task[c].at = "idle"
    BY DEF LifeInv, NotBegun
  <1>3. boot \in {"args", "shell"} => env # "runtime" /\ service["pos"] # "on" /\ logs.stream = "none"
    BY DEF LifeInv, NotBegun
  <1>4. ASSUME NEW point \in {"stores", "log"}, shut[code] # "no", shut' = [shut EXCEPT ![code] = point],
               UNCHANGED <<task, env, logs, boot, exited, told>>,
               service' \in [Services -> {"off", "on", "stopped"}],
               service["pos"] # "on" => service'["pos"] # "on"
        PROVE  LifeInv'
    <2>1. shut' \in [Codes -> Points]
      BY <1>1, <1>4 DEF Points
    <2>2. shut'[1] = shut[1] \/ (shut[1] # "no" /\ shut'[1] # "closing")
      BY <1>1, <1>4
    <2> QED BY <1>2, <1>3, <1>4, <2>1, <2>2, LifeKept
  <1>5. CASE StopServices(code)
    <2>1. service' = [s \in Services |-> Stopped(s)]
      BY <1>5 DEF StopServices
    <2>2. service' \in [Services -> {"off", "on", "stopped"}] /\ service'["pos"] # "on"
      BY <2>1 DEF Stopped, LifeInv, LifeType, Services
    <2> QED BY <1>4, <1>5, <2>2 DEF StopServices, minterVars
  <1>6. CASE StopBlockchain(code)
    BY <1>4, <1>6 DEF StopBlockchain, LifeInv, LifeType
  <1>7. CASE ForceShutdown(code)
    <2>1. boot = "store" /\ Gone(1) /\ LogError("Global")
      BY <1>7 DEF ForceShutdown
    <2> QED BY <2>1, GoneFacts, LifeTold
  <1>8. CASE CloseLog(code)
    <2>1. /\ shut[code] = "log" /\ logs.stream # "none" /\ EndLog
          /\ shut' = [shut EXCEPT ![code] = IF logs.stream = "ended" THEN "waiting" ELSE "closing"]
          /\ UNCHANGED <<env, boot, service, exited, told>>
      BY <1>8 DEF CloseLog
    <2>2. /\ logs' \in Logs /\ logs'.stream = "ended"
          /\ logs'.console = logs.console /\ logs'.file = logs.file
      BY <2>1 DEF EndLog, LifeInv, LifeType, Logs
    <2>3. boot \notin {"args", "shell"}
      BY <1>3, <2>1
    <2>4. LifeType'
      BY <1>1, <2>1, <2>2 DEF LifeInv, LifeType, Points
    <2>5. NotBegun' /\ Listening'
      BY <2>1, <2>2, <2>3 DEF LifeInv, NotBegun, Listening
    <2>6. shut'[1] = "closing" => "file" \in told
      <3>1. CASE code = 1
        <4>1. logs.stream \in {"none", "open", "ended"}
          BY DEF LifeInv, LifeType, Logs
        <4> QED BY <1>1, <2>1, <3>1, <4>1 DEF LifeInv, Reported
      <3>2. CASE code # 1
        BY <1>1, <2>1, <3>2 DEF LifeInv, Reported
      <3> QED BY <3>1, <3>2
    <2>7. shut'[1] # "no" => shut[1] # "no"
      BY <1>1, <2>1
    <2>8. Reported'
      BY <2>1, <2>2, <2>6, <2>7 DEF LifeInv, Reported
    <2> QED BY <2>4, <2>5, <2>8 DEF LifeInv
  <1>9. CASE Exit(code)
    <2>1. Gone(code) /\ told' = told /\ shut[code] # "no"
      BY <1>9 DEF Exit
    <2>2. /\ exited' = code /\ logs' = logs /\ boot' = boot /\ env' = env
          /\ shut' \in [Codes -> Points] /\ shut'[1] = "no"
          /\ service' \in [Services -> {"off", "on", "stopped"}] /\ service'["pos"] = "off"
          /\ \A c \in Lines : task'[c].at = "idle"
      BY <2>1, GoneFacts
    <2>3. LifeType' /\ Listening'
      BY <2>2 DEF LifeInv, LifeType, Listening
    <2>4. NotBegun'
      BY <1>3, <2>2 DEF NotBegun
    <2>5. Reported'
      BY <2>1, <2>2 DEF LifeInv, Reported
    <2> QED BY <2>3, <2>4, <2>5 DEF LifeInv
  <1>10. CASE LogFails(code)
    <2>1. logs.stream = "ended" /\ Gone(1) /\ LogError("Global")
      BY <1>10 DEF LogFails
    <2>2. boot \notin {"args", "shell"}
      BY <1>3, <2>1
    <2> QED BY <2>1, <2>2, GoneFacts, LifeTold
  <1> QED BY <1>5, <1>6, <1>7, <1>8, <1>9, <1>10 DEF ShutdownStep

LEMMA LifeInit == Init => LifeInv
  <1> SUFFICES ASSUME Init PROVE LifeInv
    OBVIOUS
  <1>1. /\ logs = [level |-> "all", console |-> Types, file |-> Types, stream |-> "none"]
        /\ boot = "args" /\ env = "command" /\ exited = -1
        /\ shut = [k \in Codes |-> "no"] /\ service = [s \in Services |-> "off"]
    BY DEF Init, LogInit
  <1>2. \A c \in Lines : task[c].at = "idle"
    BY DEF Init, MinterInit, Idle
  <1>3. LifeType
    BY <1>1 DEF LifeType, Logs, Levels, Points
  <1>4. shut[1] = "no" /\ service["pos"] = "off"
    BY <1>1 DEF Codes, Services
  <1>5. NotBegun /\ Listening /\ Reported
    BY <1>1, <1>2, <1>4 DEF NotBegun, Listening, Reported, Types
  <1> QED BY <1>3, <1>5 DEF LifeInv

LEMMA LifeStep == LifeInv /\ [Next]_vars => LifeInv'
  <1> SUFFICES ASSUME LifeInv, [Next]_vars PROVE LifeInv'
    OBVIOUS
  <1>1. CASE UNCHANGED vars
    <2>1. UNCHANGED <<env, logs, boot, service, shut, exited, told, task>>
      BY <1>1 DEF vars, lifeVars, minterVars
    <2>2. boot = "args" => \A c \in Lines : task'[c].at = "idle"
      BY <2>1 DEF LifeInv, NotBegun
    <2> QED BY <2>1, <2>2, LifeSame
  <1>2. CASE \/ StartServiceCommand \/ StopCommand \/ Sigterm
             \/ \E h \in Hashes : SlotAsks(h)
    BY <1>2, NodeLife, NodeConsoleAssumption
  <1> QED BY <1>1, <1>2, BootLife, NodeLife, ShutdownLife DEF Next

\* Whenever a shutdown with exit code 1 runs, an error has been logged, to the log file too
\* if that was open.
THEOREM LifeInvariant == Spec => []LifeInv
  BY LifeInit, LifeStep, PTL DEF Spec

\* A node that ends with exit code 1 has said why in the console, and in the log file when
\* it closes that in order (Utils.gracefulShutdown, unhandledRejection and CLI.log), for any
\* command line and configuration and however many shutdowns overlap.
THEOREM FailuresAreTold == Spec => []FailureIsLogged
  <1>1. LifeInv => FailureIsLogged
    BY DEF LifeInv, Reported, FailureIsLogged
  <1> QED BY <1>1, LifeInvariant, PTL

-------------------------------------------------------------------------------
(***************************************************************************)
(* Services stop before the databases close.                               *)
(***************************************************************************)

\* Past stopService only what was started during the shutdown runs.
StopFirst ==
    (\E k \in Codes : shut[k] \notin {"no", "services"}) =>
        \A s \in Services : service[s] = "on" => s \in late

\* No shutdown gets past stopService, and no service starts that is not late.
LEMMA StopFirstKept ==
    ASSUME StopFirst,
           \A k \in Codes : shut'[k] \notin {"no", "services"} => shut[k] \notin {"no", "services"},
           \A s \in Services : service'[s] = "on" /\ Stopping => service[s] = "on" \/ s \in late',
           late \subseteq late'
    PROVE  StopFirst'
  BY DEF StopFirst, Stopping

LEMMA StartServiceLate ==
    ASSUME LifeInv, NEW s \in Services, NEW result \in {"on", "stopped"}, StartService(s, result)
    PROVE  /\ late \subseteq late'
           /\ \A t \in Services : service'[t] = "on" /\ Stopping => service[t] = "on" \/ t \in late'
  <1>1. service' = [service EXCEPT ![s] = IF @ = "off" THEN result ELSE @]
    BY DEF StartService
  <1>2. late' = IF Stopping /\ result = "on" THEN late \cup {s} ELSE late
    BY DEF StartService
  <1>3. \A t \in Services : service'[t] = IF t = s /\ service[t] = "off" THEN result ELSE service[t]
    BY <1>1 DEF LifeInv, LifeType
  <1> QED BY <1>2, <1>3

LEMMA ShutdownBegins ==
    ASSUME LifeInv, NEW code \in Codes, Shutdown(code)
    PROVE  \A k \in Codes : shut'[k] \notin {"no", "services"} => shut[k] \notin {"no", "services"}
  <1>1. shut' = [shut EXCEPT ![code] = IF @ = "no" THEN "services" ELSE @] /\ shut \in [Codes -> Points]
    BY DEF Shutdown, LifeInv, LifeType
  <1> QED BY <1>1

LEMMA RejectionBegins ==
    ASSUME LifeInv, UnhandledRejection
    PROVE  \A k \in Codes : shut'[k] \notin {"no", "services"} => shut[k] \notin {"no", "services"}
  <1>1. 1 \in Codes
    BY DEF Codes
  <1> QED BY <1>1, ShutdownBegins DEF UnhandledRejection

LEMMA GoneStops == ASSUME NEW code, Gone(code) PROVE StopFirst'
  BY DEF Gone, StopFirst

\* Past stopService a step that leaves services alone keeps StopFirst.
LEMMA PastServices ==
    ASSUME StopFirst, NEW code \in Codes, shut[code] \notin {"no", "services"}, UNCHANGED <<service, late>>
    PROVE  StopFirst'
  BY DEF StopFirst

\* A service that starts, and a shutdown that may begin with it.
LEMMA StartStops ==
    ASSUME LifeInv, StopFirst, NEW s \in Services, NEW result \in {"on", "stopped"}, StartService(s, result),
           \/ UNCHANGED shut
           \/ \E code \in Codes : Shutdown(code)
           \/ UnhandledRejection
    PROVE  StopFirst'
  <1>1. \A k \in Codes : shut'[k] \notin {"no", "services"} => shut[k] \notin {"no", "services"}
    BY ShutdownBegins, RejectionBegins
  <1> QED BY <1>1, StartServiceLate, StopFirstKept

\* A step that starts no service.
LEMMA OthersStop ==
    ASSUME LifeInv, StopFirst, UNCHANGED <<service, late>>,
           \/ UNCHANGED shut
           \/ \E code \in Codes : Shutdown(code)
           \/ UnhandledRejection
    PROVE  StopFirst'
  <1>1. \A k \in Codes : shut'[k] \notin {"no", "services"} => shut[k] \notin {"no", "services"}
    BY ShutdownBegins, RejectionBegins
  <1> QED BY <1>1, StopFirstKept

LEMMA BootStops == ASSUME LifeInv, StopFirst, BootStep PROVE StopFirst'
  <1>0. 0 \in Codes /\ 1 \in Codes
    BY DEF Codes
  <1>1. CASE BadFlags
    BY <1>0, <1>1, OthersStop DEF BadFlags
  <1>2. CASE ShellPrints \/ RunCommandLine \/ LoadConfig \/ StoreReady
    BY <1>2, OthersStop DEF ShellPrints, RunCommandLine, LoadConfig, StoreReady
  <1>3. CASE BadConfig
    BY <1>3, OthersStop DEF BadConfig
  <1>4. CASE StartNet
    BY <1>0, <1>4, StartStops DEF StartNet, Services
  <1>5. CASE SyncEnds
    BY <1>0, <1>5, StartStops DEF SyncEnds, StartPos, Services
  <1>6. CASE ShellEnds
    BY <1>6, GoneStops DEF ShellEnds
  <1>7. ASSUME NEW api \in ApiSettings, NEW minters \in MinterConfigs, StartApi(api, minters)
        PROVE  StopFirst'
    <2>1. UNCHANGED shut \/ UnhandledRejection
      BY <1>7 DEF StartApi
    <2>2. CASE api = "off"
      BY <1>7, <2>1, <2>2, OthersStop DEF StartApi
    <2>3. CASE api # "off"
      <3>1. "http" \in Services /\ (IF api = "on" THEN "on" ELSE "stopped") \in {"on", "stopped"}
        BY DEF Services
      <3>2. StartService("http", IF api = "on" THEN "on" ELSE "stopped")
        BY <1>7, <2>3 DEF StartApi
      <3> QED BY <2>1, <3>1, <3>2, StartStops
    <2> QED BY <2>2, <2>3
  <1>8. ASSUME NEW cmd, NEW key, ShellCommand(cmd, key) PROVE StopFirst'
    BY <1>8, OthersStop DEF ShellCommand
  <1> QED BY <1>1, <1>2, <1>3, <1>4, <1>5, <1>6, <1>7, <1>8 DEF BootStep

LEMMA NodeStops ==
    ASSUME LifeInv, StopFirst, NEW c \in Lines,
           \/ LineStep(c)
           \/ \E cmd \in Commands \ {"init"} : \E key \in Named(cmd) : TypeLine(c, cmd, key)
           \/ \E h \in Hashes : SlotAsks(h)
           \/ StartServiceCommand \/ StopCommand \/ Sigterm
    PROVE  StopFirst'
  <1>0. 0 \in Codes
    BY DEF Codes
  <1>1. ASSUME NEW cmd, NEW key, TypeLine(c, cmd, key) PROVE StopFirst'
    BY <1>1, OthersStop DEF TypeLine
  <1>2. ASSUME NEW h \in Hashes, SlotAsks(h) PROVE StopFirst'
    BY <1>2, OthersStop DEF SlotAsks, lifeVars
  <1>3. CASE DatabaseStep(c)
    BY <1>3, OthersStop DEF DatabaseStep, lifeVars
  <1>4. CASE TaskThrows(c)
    BY <1>4, OthersStop DEF TaskThrows
  <1>5. CASE StartServiceCommand
    BY <1>5, StartStops DEF StartServiceCommand, Services
  <1>6. CASE StopCommand \/ Sigterm
    BY <1>0, <1>6, OthersStop DEF StopCommand, Sigterm
  <1> QED BY <1>1, <1>2, <1>3, <1>4, <1>5, <1>6 DEF LineStep

LEMMA ShutdownStops ==
    ASSUME LifeInv, StopFirst, NEW code \in Codes, ShutdownStep(code)
    PROVE  StopFirst'
  <1>1. CASE StopServices(code)
    <2>1. \A s \in Services : service'[s] # "on"
      BY <1>1 DEF StopServices, Stopped
    <2> QED BY <2>1 DEF StopFirst
  <1>2. CASE StopBlockchain(code)
    BY <1>2, PastServices DEF StopBlockchain
  <1>3. CASE CloseLog(code)
    BY <1>3, PastServices DEF CloseLog
  <1>4. CASE ForceShutdown(code) \/ Exit(code) \/ LogFails(code)
    BY <1>4, GoneStops DEF ForceShutdown, Exit, LogFails
  <1> QED BY <1>1, <1>2, <1>3, <1>4 DEF ShutdownStep

LEMMA StopInit == Init => StopFirst
  BY DEF Init, StopFirst

LEMMA StopStep == LifeInv /\ StopFirst /\ [Next]_vars => StopFirst'
  <1> SUFFICES ASSUME LifeInv, StopFirst, [Next]_vars PROVE StopFirst'
    OBVIOUS
  <1>1. CASE UNCHANGED vars
    BY <1>1, OthersStop DEF vars, lifeVars
  <1>2. CASE \/ StartServiceCommand \/ StopCommand \/ Sigterm
             \/ \E h \in Hashes : SlotAsks(h)
    BY <1>2, NodeStops, NodeConsoleAssumption
  <1> QED BY <1>1, <1>2, BootStops, NodeStops, ShutdownStops DEF Next

\* Only Blockchain.stop closes the databases.
LEMMA OnlyStopCloses ==
    ASSUME [Next]_vars, open, ~open'
    PROVE  \E code \in Codes : StopBlockchain(code)
  <1>1. ~UNCHANGED open
    OBVIOUS
  <1>2. ~UNCHANGED minterVars
    BY <1>1 DEF minterVars
  <1>3. ASSUME NEW c, NEW cmd, NEW key, Load(c, cmd, key) PROVE FALSE
    BY <1>3 DEF Load, WaitAllInit, LevelInit
  <1>4. ASSUME NEW code, Gone(code) PROVE FALSE
    BY <1>1, <1>4 DEF Gone
  <1>5. ~BootStep
    BY <1>2, <1>3, <1>4 DEF BootStep, BadFlags, ShellPrints, RunCommandLine, LoadConfig, BadConfig, StoreReady,
                            StartNet, SyncEnds, ShellEnds, StartApi, ShellCommand
  <1>6. ASSUME NEW c, LineStep(c) PROVE FALSE
    BY <1>1, <1>6 DEF LineStep, DatabaseStep, MinterStep, LoadRange, LoadFails, RunCommand, Commit, SelectKey,
                      Selected, StartSelection, TaskThrows
  <1>7. ASSUME NEW c, NEW cmd, NEW key, TypeLine(c, cmd, key) PROVE FALSE
    BY <1>3, <1>7 DEF TypeLine
  <1>8. ASSUME NEW h, SlotAsks(h) PROVE FALSE
    BY <1>1, <1>8 DEF SlotAsks, StartSelection
  <1>9. ~StartServiceCommand /\ ~StopCommand /\ ~Sigterm
    BY <1>2 DEF StartServiceCommand, StopCommand, Sigterm
  <1>10. ASSUME NEW code \in Codes, ShutdownStep(code) PROVE StopBlockchain(code)
    BY <1>2, <1>4, <1>10 DEF ShutdownStep, StopServices, ForceShutdown, CloseLog, Exit, LogFails
  <1>11. Next
    BY <1>2 DEF vars
  <1> QED BY <1>5, <1>6, <1>7, <1>8, <1>9, <1>10, <1>11 DEF Next

\* However many shutdowns overlap and whatever the start is doing meanwhile, the databases are
\* closed (Blockchain.stop in Utils.gracefulShutdown) under no service but those that the
\* start or the command start-service has started during the shutdown.
THEOREM ServicesStopBeforeStores == Spec => ServicesStopFirst
  <1>1. LifeInv /\ StopFirst /\ [Next]_vars =>
          [open /\ ~open' => \A s \in Services : service[s] = "on" => s \in late]_vars
    BY OnlyStopCloses DEF StopFirst, StopBlockchain
  <1> QED BY <1>1, StopInit, StopStep, LifeInvariant, PTL DEF Spec, ServicesStopFirst

-------------------------------------------------------------------------------
(***************************************************************************)
(* The counts of LevelIndexes.                                             *)
(***************************************************************************)

\* A record with the fields of a task.
IsTask(t) == t = [cmd |-> t.cmd, key |-> t.key, at |-> t.at, index |-> t.index, pick |-> t.pick, ideal |-> t.ideal]

\* What the n-th count ought to be.
Want(r) == Cardinality({k \in Present \cap Prefixed : k \div RangeSize = r - 1})

\* What writes a key has one, and nothing else writes.
GoodTask(t) ==
    /\ IsTask(t)
    /\ t.cmd \in KeyCommands => t.key \in Keys
    /\ t.at = "issued" => t.cmd \in KeyCommands

MinterType ==
    /\ stored \in [Keys -> {"no", "minter", "odd"}]
    /\ indexes \in [Lines -> [sizes : Seq(Nat), counting : Nat]]
    /\ current \in Lines \cup {NoKey}
    /\ DOMAIN task = Lines
    /\ \A c \in Lines : GoodTask(task[c])

\* A load that has not ended has ranges to count.
Unfinished == \A c \in Lines : task[c].at = "loading" => Len(indexes[c].sizes) < Ranges

\* The counts of the current object are those of the keys stored now, as long as none has come
\* or gone since its load began, and so is the one that is being made.
Counts ==
    current # NoKey /\ untouched =>
        /\ Len(Sizes) <= Ranges
        /\ \A r \in 1..Len(Sizes) : Sizes[r] = Want(r)
        /\ task[current].at = "loading" => indexes[current].counting = Want(Len(Sizes) + 1)

CountInv == MinterType /\ Unfinished /\ Counts

LEMMA MultipleGrows == \A w \in Nat : \A a, b \in Nat : a < b => a * w + w <= b * w
  <1> SUFFICES ASSUME NEW w \in Nat, NEW a \in Nat, NEW b \in Nat, a < b PROVE a * w + w <= b * w
    OBVIOUS
  <1> DEFINE d == b - a - 1
  <1>1. d \in Nat /\ b = (a + d) + 1
    OBVIOUS
  <1> HIDE DEF d
  <1>2. d * w \in Nat /\ a * w \in Nat
    BY <1>1
  <1>3. b * w = (a * w + d * w) + w
    BY <1>1
  <1> QED BY <1>2, <1>3

\* The keys between the first and the last possible key of a range (LevelKeyIndexRange) are the
\* addresses with its first byte.
LEMMA RangeIsByte == \A r \in 1..Ranges : KeysOf(r) = {k \in Present \cap Prefixed : k \div RangeSize = r - 1}
  <1> SUFFICES ASSUME NEW r \in 1..Ranges
               PROVE  KeysOf(r) = {k \in Present \cap Prefixed : k \div RangeSize = r - 1}
    OBVIOUS
  <1>1. Ranges \in Nat /\ RangeSize \in Nat /\ RangeSize > 0
    BY MinterStoreAssumption
  <1> DEFINE first == (r - 1) * RangeSize
             all   == Ranges * RangeSize
  <1>2. \A k \in Keys : k \in Nat
    <2>1. \A k \in Prefixed : k \in Nat
      BY DEF Prefixed
    <2> QED BY <2>1, MinterStoreAssumption DEF Keys
  <1>3. first \in Nat /\ all \in Nat /\ first + RangeSize <= all
    <2>1. r - 1 \in Nat /\ r - 1 < Ranges
      BY <1>1
    <2> QED BY <1>1, <2>1, MultipleGrows
  <1>4. FirstPossibleKey(r) = first /\ LastPossibleKey(r) = first + RangeSize - 1 /\ Prefixed = 0..(all - 1)
    BY DEF FirstPossibleKey, LastPossibleKey, Prefixed
  <1>5. ASSUME NEW k \in Nat
        PROVE  (first <= k /\ k <= first + RangeSize - 1) <=> k \div RangeSize = r - 1
    <2> DEFINE q == k \div RangeSize
               m == k % RangeSize
    <2>1. k = RangeSize * q + m /\ q \in Nat /\ m \in 0..(RangeSize - 1)
      BY <1>1
    <2> HIDE DEF q, m
    <2>2. q < r - 1 => q * RangeSize + RangeSize <= first
      BY <1>1, <2>1, MultipleGrows
    <2>3. r - 1 < q => first + RangeSize <= q * RangeSize
      BY <1>1, <2>1, MultipleGrows
    <2>4. q = r - 1 => q * RangeSize = first
      OBVIOUS
    <2>5. q * RangeSize = RangeSize * q /\ q * RangeSize \in Nat
      BY <1>1, <2>1
    <2> DEFINE start == q * RangeSize
    <2>6. k = start + m /\ start \in Nat
      BY <2>1, <2>5
    <2>7. (q < r - 1 => start + RangeSize <= first) /\ (r - 1 < q => first + RangeSize <= start) /\ (q = r - 1 => start = first)
      BY <2>2, <2>3, <2>4
    <2> HIDE DEF start, first
    <2>8. (first <= k /\ k <= first + RangeSize - 1) <=> q = r - 1
      BY <1>1, <1>3, <2>1, <2>6, <2>7
    <2> QED BY <2>8 DEF q
  <1> HIDE DEF first, all
  <1>6. ASSUME NEW k \in Nat, k <= first + RangeSize - 1 PROVE k \in Prefixed
    BY <1>1, <1>3, <1>4, <1>6
  <1> QED BY <1>2, <1>4, <1>5, <1>6 DEF KeysOf, Present, Keys

LEMMA KeysCount == \A r \in 1..Ranges : Cardinality(KeysOf(r)) \in Nat
  <1> SUFFICES ASSUME NEW r \in 1..Ranges PROVE Cardinality(KeysOf(r)) \in Nat
    OBVIOUS
  <1>1. Ranges * RangeSize - 1 \in Int
    BY MinterStoreAssumption
  <1>2. IsFiniteSet(Prefixed)
    BY <1>1, FS_Interval DEF Prefixed
  <1>3. KeysOf(r) \subseteq Prefixed
    BY RangeIsByte
  <1> QED BY <1>2, <1>3, FS_Subset, FS_CardinalityType

LEMMA WantIsCount == \A r \in 1..Ranges : Want(r) = Cardinality(KeysOf(r))
  BY RangeIsByte DEF Want

\* A step that leaves the index objects alone, and what is stored as far as the keys go.
LEMMA CountsKept ==
    ASSUME CountInv, UNCHANGED <<indexes, current>>,
           stored' \in [Keys -> {"no", "minter", "odd"}],
           untouched' => untouched /\ \A k \in Keys : stored'[k] = "no" <=> stored[k] = "no",
           DOMAIN task' = Lines,
           \A c \in Lines : task'[c].at = "loading" => task[c].at = "loading",
           \A c \in Lines : GoodTask(task'[c])
    PROVE  CountInv'
  <1>1. MinterType'
    BY DEF CountInv, MinterType
  <1>2. Unfinished'
    BY DEF CountInv, Unfinished
  <1>3. Sizes' = Sizes
    BY DEF Sizes
  <1>4. untouched' => untouched /\ Present' = Present
    BY DEF Present
  <1>5. Counts'
    BY <1>3, <1>4 DEF CountInv, Counts, Want, MinterType
  <1> QED BY <1>1, <1>2, <1>5 DEF CountInv

LEMMA LoadCounts ==
    ASSUME CountInv, NEW c \in Lines, NEW cmd, NEW key, Load(c, cmd, key),
           cmd \in KeyCommands => key \in Keys
    PROVE  CountInv'
  <1>1. 1 \in 1..Ranges /\ Ranges \in Nat
    BY MinterStoreAssumption
  <1> DEFINE fresh == [sizes |-> << >>, counting |-> Cardinality(KeysOf(1))]
  <1>2. fresh \in [sizes : Seq(Nat), counting : Nat] /\ NewIndexes \in [sizes : Seq(Nat), counting : Nat]
    <2>1. Cardinality(KeysOf(1)) \in Nat /\ << >> \in Seq(Nat)
      BY <1>1, KeysCount
    <2> QED BY <2>1 DEF NewIndexes
  <1>3. \A d \in Lines : indexes'[d] = IF d = c THEN fresh ELSE IF task[d].at = "loading" THEN indexes[d] ELSE NewIndexes
    BY DEF Load, NewIndexes
  <1>4. indexes' \in [Lines -> [sizes : Seq(Nat), counting : Nat]]
    <2>1. indexes' = [d \in Lines |-> IF d = c THEN fresh
                                      ELSE IF task[d].at = "loading" THEN indexes[d] ELSE NewIndexes]
      BY DEF Load, NewIndexes
    <2>2. \A d \in Lines : indexes[d] \in [sizes : Seq(Nat), counting : Nat]
      BY DEF CountInv, MinterType
    <2> HIDE DEF fresh
    <2> QED BY <1>2, <2>1, <2>2
  <1>5. /\ stored' = stored /\ current' = c /\ c # NoKey
        /\ DOMAIN task' = Lines /\ task'[c].at = "loading"
        /\ \A d \in Lines : d # c => task'[d] = task[d]
    BY MinterStoreAssumption DEF Load, Idle, CountInv, MinterType
  <1>6. MinterType'
    <2>1. task'[c] = [cmd |-> cmd, key |-> key, at |-> "loading", index |-> 0, pick |-> NoKey, ideal |-> NoKey]
      BY DEF Load, Idle, CountInv, MinterType
    <2>2. GoodTask(task'[c])
      BY <2>1 DEF GoodTask, IsTask
    <2>3. \A d \in Lines : GoodTask(task'[d])
      BY <1>5, <2>2 DEF CountInv, MinterType
    <2> QED BY <1>4, <1>5, <2>3 DEF CountInv, MinterType
  <1>7. Len(fresh.sizes) = 0 /\ fresh.counting = Cardinality(KeysOf(1)) /\ indexes'[c] = fresh
    BY <1>3
  <1> HIDE DEF fresh
  <1>8. Unfinished'
    BY <1>1, <1>3, <1>5, <1>7 DEF CountInv, Unfinished
  <1>9. Sizes' = fresh.sizes
    BY <1>5, <1>7 DEF Sizes
  <1>10. Present' = Present
    BY <1>5 DEF Present
  <1>11. Counts'
    <2>1. fresh.counting = Want(1) /\ Len(fresh.sizes) + 1 = 1
      BY <1>1, <1>7, WantIsCount
    <2>2. Want(Len(Sizes) + 1)' = Want(Len(fresh.sizes) + 1)
      BY <1>9, <1>10 DEF Want
    <2>3. indexes'[current'].counting = Want(Len(Sizes) + 1)'
      BY <1>5, <1>7, <2>1, <2>2
    <2>4. Len(Sizes)' = 0 /\ 1..0 = {}
      BY <1>7, <1>9
    <2> QED BY <1>1, <2>3, <2>4 DEF Counts
  <1> QED BY <1>6, <1>8, <1>11 DEF CountInv

LEMMA LoadRangeCounts ==
    ASSUME CountInv, NEW c \in Lines, LoadRange(c)
    PROVE  CountInv'
  <1> DEFINE old  == indexes[c]
             n    == Len(old.sizes) + 1
             more == [sizes |-> Append(old.sizes, old.counting), counting |-> Cardinality(KeysOf(n + 1))]
             last == [sizes |-> Append(old.sizes, old.counting), counting |-> 0]
             new  == IF n < Ranges THEN more ELSE IF current = c THEN last ELSE NewIndexes
  <1>1. /\ task[c].at = "loading" /\ UNCHANGED <<stored, current, untouched>>
        /\ indexes' = [indexes EXCEPT ![c] = new]
        /\ task' = IF n = Ranges THEN [task EXCEPT ![c].at = "loaded"] ELSE task
    BY DEF LoadRange, Loaded, Goto
  <1>2. old.sizes \in Seq(Nat) /\ old.counting \in Nat
    BY DEF CountInv, MinterType
  <1>3. Ranges \in Nat /\ n \in Nat /\ n >= 1 /\ n <= Ranges
    BY <1>1, <1>2, MinterStoreAssumption DEF CountInv, Unfinished
  <1>4. /\ Append(old.sizes, old.counting) \in Seq(Nat) /\ Len(Append(old.sizes, old.counting)) = n
        /\ Append(old.sizes, old.counting)[n] = old.counting
        /\ \A r \in 1..Len(old.sizes) : Append(old.sizes, old.counting)[r] = old.sizes[r]
    BY <1>2
  <1>5. n < Ranges => Cardinality(KeysOf(n + 1)) \in Nat
    BY <1>3, KeysCount
  <1>6. new \in [sizes : Seq(Nat), counting : Nat]
    BY <1>4, <1>5 DEF NewIndexes
  <1>7. /\ n < Ranges \/ current = c => new.sizes = Append(old.sizes, old.counting)
        /\ n < Ranges => new.counting = Cardinality(KeysOf(n + 1))
    OBVIOUS
  <1>8. n - 1 = Len(old.sizes) /\ old = indexes[c]
    BY <1>2
  <1> HIDE DEF new, more, last, n, old
  <1>9. MinterType'
    <2>1. DOMAIN task' = Lines /\ \A d \in Lines : task'[d] = task[d] \/ task'[d] = [task[d] EXCEPT !.at = "loaded"]
      BY <1>1 DEF CountInv, MinterType
    <2>2. \A d \in Lines : GoodTask(task[d])
      BY DEF CountInv, MinterType
    <2>3. ASSUME NEW d \in Lines PROVE GoodTask(task'[d])
      <3>1. CASE task'[d] = task[d]
        BY <2>2, <3>1
      <3>2. CASE task'[d] = [task[d] EXCEPT !.at = "loaded"]
        BY <2>2, <3>2 DEF GoodTask, IsTask
      <3> QED BY <2>1, <3>1, <3>2
    <2> QED BY <1>1, <1>6, <2>1, <2>3 DEF CountInv, MinterType
  <1>10. \A d \in Lines : indexes'[d] = IF d = c THEN new ELSE indexes[d]
    BY <1>1 DEF CountInv, MinterType
  <1>11. \A d \in Lines : task'[d].at = "loading" => task[d].at = "loading" /\ (d = c => n # Ranges)
    BY <1>1 DEF CountInv, MinterType, GoodTask, IsTask
  <1>12. Unfinished'
    BY <1>3, <1>4, <1>7, <1>10, <1>11 DEF CountInv, Unfinished
  <1>13. Present' = Present
    BY <1>1 DEF Present
  <1>14. Counts'
    <2>1. CASE current = c
      <3>1. Sizes' = new.sizes /\ Sizes = old.sizes
        BY <1>1, <1>8, <1>10, <2>1 DEF Sizes
      <3>2. ASSUME untouched PROVE \A r \in 1..n : new.sizes[r] = Want(r)
        <4>1. \A r \in 1..Len(old.sizes) : old.sizes[r] = Want(r)
          BY <2>1, <3>1, <3>2, MinterStoreAssumption DEF CountInv, Counts
        <4>2. old.counting = Want(Len(old.sizes) + 1)
          BY <1>1, <1>8, <2>1, <3>1, <3>2, MinterStoreAssumption DEF CountInv, Counts
        <4>3. Len(old.sizes) + 1 = n
          BY <1>2, <1>3, <1>8
        <4>4. ASSUME NEW r \in 1..n PROVE r \in 1..Len(old.sizes) \/ r = n
          BY <1>2, <1>3, <4>3, <4>4
        <4>5. \A r \in 1..Len(old.sizes) : new.sizes[r] = Want(r)
          BY <1>4, <1>7, <2>1, <4>1
        <4>6. new.sizes[n] = Want(n)
          BY <1>4, <1>7, <2>1, <4>2, <4>3
        <4> QED BY <4>4, <4>5, <4>6
      <3>3. task'[c].at = "loading" => new.counting = Want(n + 1)
        <4>1. task'[c].at = "loading" => n < Ranges
          BY <1>3, <1>11
        <4>2. n < Ranges => n + 1 \in 1..Ranges
          BY <1>3
        <4> QED BY <1>7, <4>1, <4>2, WantIsCount
      <3>4. Len(new.sizes) = n
        BY <1>4, <1>7, <2>1
      <3> QED BY <1>1, <1>3, <1>10, <1>13, <2>1, <3>1, <3>2, <3>3, <3>4 DEF Counts, Want
    <2>2. CASE current # c /\ current # NoKey
      <3>1. current \in Lines /\ indexes'[current] = indexes[current]
        BY <1>10, <2>2 DEF CountInv, MinterType
      <3>2. Sizes' = Sizes
        BY <1>1, <3>1 DEF Sizes
      <3> QED BY <1>1, <1>11, <1>13, <3>1, <3>2 DEF CountInv, Counts, Want
    <2>3. CASE current = NoKey
      BY <1>1, <2>3 DEF Counts
    <2> QED BY <2>1, <2>2, <2>3
  <1> QED BY <1>9, <1>12, <1>14 DEF CountInv

\* A caller moves on, but not to a load.
LEMMA GotoCounts ==
    ASSUME CountInv, NEW c \in Lines, NEW next, GoodTask(next), next.at # "loading",
           task' = [task EXCEPT ![c] = next],
           UNCHANGED <<stored, indexes, current, untouched>>
    PROVE  CountInv'
  <1>1. DOMAIN task' = Lines /\ \A d \in Lines : task'[d] = IF d = c THEN next ELSE task[d]
    BY DEF CountInv, MinterType
  <1>2. stored' \in [Keys -> {"no", "minter", "odd"}]
    BY DEF CountInv, MinterType
  <1>3. \A d \in Lines : GoodTask(task'[d])
    BY <1>1 DEF CountInv, MinterType
  <1> QED BY <1>1, <1>2, <1>3, CountsKept

LEMMA CommitCounts == ASSUME CountInv, NEW c \in Lines, Commit(c) PROVE CountInv'
  <1> DEFINE t     == task[c]
             value == CASE t.cmd = "insert" -> "minter" [] t.cmd = "odd" -> "odd" [] t.cmd = "remove" -> "no"
             moved == (stored[t.key] = "no") # (value = "no")
  <1>1. /\ t.at = "issued" /\ UNCHANGED <<indexes, current>>
        /\ stored' = [stored EXCEPT ![t.key] = value]
        /\ task' = [d \in Lines |-> IF d = c THEN Idle
                                    ELSE IF moved THEN [task[d] EXCEPT !.ideal = NoKey] ELSE task[d]]
        /\ untouched' = (untouched /\ ~moved)
    BY DEF Commit
  <1>2. t.cmd \in {"insert", "odd", "remove"} /\ t.key \in Keys
    BY <1>1 DEF CountInv, MinterType, GoodTask, KeyCommands
  <1>3. value \in {"no", "minter", "odd"}
    BY <1>2
  <1>4. DOMAIN task' = Lines /\ \A d \in Lines : GoodTask(task'[d]) /\ (task'[d].at = "loading" => task[d].at = "loading")
    <2>1. GoodTask(Idle) /\ Idle.at = "idle"
      BY DEF GoodTask, IsTask, Idle, KeyCommands
    <2>2. ASSUME NEW u, GoodTask(u)
          PROVE  GoodTask([u EXCEPT !.ideal = NoKey]) /\ [u EXCEPT !.ideal = NoKey].at = u.at
      BY <2>2 DEF GoodTask, IsTask
    <2>3. ASSUME NEW d \in Lines
          PROVE  task'[d] = Idle \/ task'[d] = task[d] \/ task'[d] = [task[d] EXCEPT !.ideal = NoKey]
      BY <1>1
    <2> QED BY <1>1, <2>1, <2>2, <2>3 DEF CountInv, MinterType
  <1>5. ASSUME ~moved PROVE \A k \in Keys : stored'[k] = "no" <=> stored[k] = "no"
    BY <1>1, <1>2, <1>5 DEF CountInv, MinterType
  <1>6. stored' \in [Keys -> {"no", "minter", "odd"}]
    BY <1>1, <1>3 DEF CountInv, MinterType
  <1>7. untouched' => untouched /\ ~moved
    BY <1>1
  <1> HIDE DEF t, value, moved
  <1> QED BY <1>1, <1>4, <1>5, <1>6, <1>7, CountsKept

\* Where a command leads.
LEMMA RunGoesOn ==
    ASSUME CountInv, NEW c \in Lines, RunCommand(c)
    PROVE  /\ UNCHANGED <<stored, indexes, current, untouched>>
           /\ \E point \in {"idle", "threw", "issued"} :
                 Goto(c, point) /\ (point = "issued" => task[c].cmd \in KeyCommands)
  <1>1. UNCHANGED <<stored, indexes, current, untouched>>
    BY DEF RunCommand
  <1>2. CASE task[c].cmd = "init" /\ Goto(c, "idle")
    BY <1>1, <1>2
  <1>3. CASE task[c].cmd = "read" /\ (\/ MinterRead(c) \/ WalletRead(c) \/ WalletInsert(c) \/ WalletRemove(c)
                                      \/ BlockRead(c) \/ ChainstateRead(c))
    <2>1. \E point \in {"idle", "threw"} : Goto(c, point)
      <3>1. (IF open THEN "idle" ELSE "threw") \in {"idle", "threw"}
        OBVIOUS
      <3> QED BY <1>3, <3>1 DEF MinterRead, WalletRead, WalletInsert, WalletRemove, BlockRead, ChainstateRead
    <2> QED BY <1>1, <2>1
  <1>4. CASE task[c].cmd \in {"insert", "odd"} /\ Goto(c, IF open THEN "issued" ELSE "threw")
    BY <1>1, <1>4 DEF KeyCommands
  <1>5. CASE task[c].cmd = "remove" /\ Goto(c, IF GetData(task[c].key) = "minter" THEN "issued" ELSE "idle")
    BY <1>1, <1>5 DEF KeyCommands
  <1>6. CASE task[c].cmd \notin {"init", "read"} /\ Goto(c, "threw")
    BY <1>1, <1>6
  <1> QED BY <1>2, <1>3, <1>4, <1>5, <1>6 DEF RunCommand

-------------------------------------------------------------------------------
(***************************************************************************)
(* Induction over the ranges, which the sums of getRangeByIndex call for:  *)
(* it speaks of sets, since it can speak of no operator.                   *)
(***************************************************************************)

Smaller == {p \in Nat \X Nat : p[1] < p[2]}

LEMMA SmallerWellFounded == IsWellFoundedOn(Smaller, Nat)
  BY NatLessThanWellFounded, Zenon DEF OpToRel, Smaller

\* A set that has a number has a least one.
LEMMA LeastNumber ==
    ASSUME NEW S \in SUBSET Nat, S # {}
    PROVE  \E n \in S : \A m \in S : n <= m
  <1>1. \E n \in S : \A m \in S : ~(<<m, n>> \in Smaller)
    BY WFMin, SmallerWellFounded
  <1>2. PICK n \in S : \A m \in S : ~(<<m, n>> \in Smaller)
    BY <1>1
  <1>3. \A m \in S : n <= m
    <2> SUFFICES ASSUME NEW m \in S, m < n PROVE FALSE
      BY <1>2
    <2>1. m \in Nat /\ n \in Nat
      OBVIOUS
    <2>2. <<m, n>> \in Smaller
      BY <2>1 DEF Smaller
    <2> QED BY <1>2, <2>2
  <1> QED BY <1>3

LEMMA SetInduction ==
    ASSUME NEW S, 0 \in S, \A n \in Nat : n \in S => n + 1 \in S
    PROVE  \A n \in Nat : n \in S
  <1> SUFFICES ASSUME NEW m \in Nat, m \notin S PROVE FALSE
    OBVIOUS
  <1> DEFINE T == Nat \ S
  <1>1. T \in SUBSET Nat /\ T # {}
    OBVIOUS
  <1> HIDE DEF T
  <1>2. PICK n \in T : \A k \in T : n <= k
    BY <1>1, LeastNumber
  <1>3. n \in Nat /\ n \notin S /\ n # 0
    BY <1>2 DEF T
  <1>4. n - 1 \in Nat /\ (n - 1) + 1 = n
    BY <1>3
  <1>5. n - 1 \in S
    BY <1>2, <1>4 DEF T
  <1> QED BY <1>3, <1>4, <1>5

\* The sums of a list, one after the other.
SumsTo(g, sizes, n) == g[0] = 0 /\ \A i \in 1..n : g[i] = g[i - 1] + sizes[i]

LEMMA SumsExist == \A sizes : \A n \in Nat : \E g : DOMAIN g = 0..n /\ SumsTo(g, sizes, n)
  <1> SUFFICES ASSUME NEW sizes PROVE \A n \in Nat : \E g : DOMAIN g = 0..n /\ SumsTo(g, sizes, n)
    OBVIOUS
  <1> DEFINE S == {n \in Nat : \E g : DOMAIN g = 0..n /\ SumsTo(g, sizes, n)}
  <1>1. 0 \in S
    <2> DEFINE g == [i \in 0..0 |-> 0]
    <2>1. DOMAIN g = 0..0 /\ SumsTo(g, sizes, 0)
      BY DEF SumsTo
    <2> QED BY <2>1
  <1>2. ASSUME NEW n \in Nat, n \in S PROVE n + 1 \in S
    <2>1. PICK g : DOMAIN g = 0..n /\ SumsTo(g, sizes, n)
      BY <1>2
    <2> DEFINE h == [i \in 0..(n + 1) |-> IF i = n + 1 THEN g[n] + sizes[n + 1] ELSE g[i]]
    <2>2. \A i \in 0..n : h[i] = g[i]
      OBVIOUS
    <2>3. h[n + 1] = g[n] + sizes[n + 1] /\ DOMAIN h = 0..(n + 1)
      OBVIOUS
    <2> HIDE DEF h
    <2>4. SumsTo(h, sizes, n + 1)
      <3>1. h[0] = 0
        BY <2>1, <2>2 DEF SumsTo
      <3>2. ASSUME NEW i \in 1..(n + 1) PROVE h[i] = h[i - 1] + sizes[i]
        <4>1. i - 1 \in 0..n /\ h[i - 1] = g[i - 1]
          BY <2>2
        <4>2. CASE i = n + 1
          BY <2>3, <4>1, <4>2
        <4>3. CASE i \in 1..n
          BY <2>1, <2>2, <4>1, <4>3 DEF SumsTo
        <4> QED BY <4>2, <4>3
      <3> QED BY <3>1, <3>2 DEF SumsTo
    <2> QED BY <2>3, <2>4
  <1> HIDE DEF S
  <1>3. \A n \in Nat : n \in S
    BY <1>1, <1>2, SetInduction
  <1> QED BY <1>3 DEF S

\* What getRangeByIndex adds up, range by range.
LEMMA SizeUpToSums ==
    ASSUME NEW sizes, Len(sizes) \in Nat
    PROVE  /\ SizeUpTo(sizes, 0) = 0
           /\ \A r \in 1..Len(sizes) : SizeUpTo(sizes, r) = SizeUpTo(sizes, r - 1) + sizes[r]
  <1> DEFINE Sums(f) == f = [i \in 0..Len(sizes) |-> IF i = 0 THEN 0 ELSE f[i - 1] + sizes[i]]
             total   == CHOOSE f : Sums(f)
  <1>1. \E f : Sums(f)
    <2>1. PICK g : DOMAIN g = 0..Len(sizes) /\ SumsTo(g, sizes, Len(sizes))
      BY SumsExist
    <2> DEFINE f == [i \in 0..Len(sizes) |-> g[i]]
    <2>2. \A i \in 0..Len(sizes) : f[i] = IF i = 0 THEN 0 ELSE f[i - 1] + sizes[i]
      BY <2>1 DEF SumsTo
    <2>3. f = [i \in 0..Len(sizes) |-> f[i]]
      OBVIOUS
    <2> HIDE DEF f
    <2>4. Sums(f)
      BY <2>2, <2>3
    <2> HIDE DEF Sums
    <2> QED BY <2>4
  <1>2. \A r : SizeUpTo(sizes, r) = total[r]
    BY Zenon DEF SizeUpTo
  <1>3. Sums(total)
    <2> HIDE DEF Sums
    <2> QED BY <1>1, Zenon
  <1> HIDE DEF total
  <1>4. \A i \in 0..Len(sizes) : total[i] = IF i = 0 THEN 0 ELSE total[i - 1] + sizes[i]
    BY <1>3
  <1> QED BY <1>2, <1>4

-------------------------------------------------------------------------------
(***************************************************************************)
(* The minters in the order of their addresses.                            *)
(***************************************************************************)

\* How many members of a set come before k.
Preceding(S, k) == {l \in S : l < k}

\* What the n-th key of a set, counted from 0, is to be.
IsNth(S, k, n) == k \in S /\ Cardinality(Preceding(S, k)) = n

LEMMA BeforeFinite ==
    ASSUME NEW S \in SUBSET Nat, IsFiniteSet(S), NEW k
    PROVE  IsFiniteSet(Preceding(S, k)) /\ Cardinality(Preceding(S, k)) \in Nat
  <1>1. Preceding(S, k) \subseteq S
    BY DEF Preceding
  <1> QED BY <1>1, FS_Subset, FS_CardinalityType

\* One number further, one key more if it is one.
LEMMA BeforeNext ==
    ASSUME NEW S \in SUBSET Nat, IsFiniteSet(S), NEW k \in Nat
    PROVE  Cardinality(Preceding(S, k + 1)) = Cardinality(Preceding(S, k)) + (IF k \in S THEN 1 ELSE 0)
  <1>0. \A l \in S : l \in Nat /\ (l < k + 1 <=> l < k \/ l = k)
    <2> SUFFICES ASSUME NEW l \in S PROVE l \in Nat /\ (l < k + 1 <=> l < k \/ l = k)
      OBVIOUS
    <2>1. l \in Nat
      OBVIOUS
    <2> QED BY <2>1
  <1>1. IsFiniteSet(Preceding(S, k)) /\ Cardinality(Preceding(S, k)) \in Nat
    BY BeforeFinite
  <1>2. CASE k \in S
    <2>1. Preceding(S, k + 1) = Preceding(S, k) \cup {k} /\ k \notin Preceding(S, k)
      <3>1. ~(k < k)
        OBVIOUS
      <3> QED BY <1>0, <1>2, <3>1, Zenon DEF Preceding
    <2> QED BY <1>1, <1>2, <2>1, FS_AddElement
  <1>3. CASE k \notin S
    <2>1. Preceding(S, k + 1) = Preceding(S, k)
      BY <1>0, <1>3 DEF Preceding
    <2> QED BY <1>1, <1>3, <2>1
  <1> QED BY <1>2, <1>3

\* Of a finite set of numbers there is an n-th, one alone.
LEMMA NthExists ==
    ASSUME NEW S \in SUBSET Nat, IsFiniteSet(S), NEW top \in Nat, \A k \in S : k < top,
           NEW n \in Nat, n < Cardinality(S)
    PROVE  \E k : IsNth(S, k, n)
  <1> DEFINE Found == {b \in Nat : n < Cardinality(Preceding(S, b)) => \E k : IsNth(S, k, n)}
  <1>1. 0 \in Found
    <2>1. Preceding(S, 0) = {}
      <3>1. \A l \in S : l \in Nat
        OBVIOUS
      <3>2. \A l \in Nat : ~(l < 0)
        OBVIOUS
      <3> QED BY <3>1, <3>2, Zenon DEF Preceding
    <2> QED BY <2>1, FS_EmptySet
  <1>2. ASSUME NEW b \in Nat, b \in Found PROVE b + 1 \in Found
    <2>1. Cardinality(Preceding(S, b)) \in Nat
      BY BeforeFinite
    <2>2. Cardinality(Preceding(S, b + 1)) = Cardinality(Preceding(S, b)) + (IF b \in S THEN 1 ELSE 0)
      BY BeforeNext
    <2> SUFFICES ASSUME n < Cardinality(Preceding(S, b + 1)) PROVE \E k : IsNth(S, k, n)
      OBVIOUS
    <2>3. CASE n < Cardinality(Preceding(S, b))
      BY <1>2, <2>3
    <2>4. CASE ~(n < Cardinality(Preceding(S, b)))
      <3>1. b \in S /\ n = Cardinality(Preceding(S, b))
        BY <2>1, <2>2, <2>4
      <3> QED BY <3>1 DEF IsNth
    <2> QED BY <2>3, <2>4
  <1> HIDE DEF Found
  <1>3. top \in Found
    BY <1>1, <1>2, SetInduction
  <1>4. Preceding(S, top) = S
    BY DEF Preceding
  <1> QED BY <1>3, <1>4 DEF Found

LEMMA NthUnique ==
    ASSUME NEW S \in SUBSET Nat, IsFiniteSet(S), NEW n, NEW k, NEW l, IsNth(S, k, n), IsNth(S, l, n)
    PROVE  k = l
  <1>1. ASSUME NEW a, NEW b, IsNth(S, a, n), IsNth(S, b, n), a < b PROVE FALSE
    <2>1. a \in Nat /\ b \in Nat /\ a \in S
      BY <1>1 DEF IsNth
    <2>2. IsFiniteSet(Preceding(S, a)) /\ IsFiniteSet(Preceding(S, b)) /\ Cardinality(Preceding(S, a)) \in Nat
      BY BeforeFinite
    <2>3. Preceding(S, a) \cup {a} \subseteq Preceding(S, b) /\ a \notin Preceding(S, a)
      <3>1. \A m \in S : m \in Nat
        OBVIOUS
      <3>2. \A m \in S : m < a => m < b
        BY <1>1, <2>1, <3>1
      <3>3. ~(a < a) /\ a < b
        BY <1>1, <2>1
      <3> QED BY <2>1, <3>2, <3>3, Zenon DEF Preceding
    <2>4. Cardinality(Preceding(S, a) \cup {a}) = n + 1 /\ IsFiniteSet(Preceding(S, a) \cup {a})
      BY <1>1, <2>2, <2>3, FS_AddElement DEF IsNth
    <2>5. Cardinality(Preceding(S, a) \cup {a}) <= Cardinality(Preceding(S, b))
      BY <2>2, <2>3, FS_Subset
    <2>6. n \in Nat /\ Cardinality(Preceding(S, b)) = n
      BY <1>1, <2>2 DEF IsNth
    <2> QED BY <2>4, <2>5, <2>6
  <1>2. k \in Nat /\ l \in Nat
    BY DEF IsNth
  <1>3. ~(k < l) /\ ~(l < k)
    BY <1>1
  <1> QED BY <1>2, <1>3

\* The operator Nth finds it.
LEMMA NthIs ==
    ASSUME NEW S \in SUBSET Nat, IsFiniteSet(S), NEW n, NEW k, IsNth(S, k, n)
    PROVE  Nth(S, n) = k
  <1> DEFINE Is(l) == Cardinality({m \in S : m < l}) = n
             first == CHOOSE l \in S : Is(l)
  <1>1. Nth(S, n) = first
    BY Zenon DEF Nth
  <1>2. k \in S /\ Is(k)
    BY DEF IsNth, Preceding
  <1>3. first \in S /\ Is(first)
    <2> HIDE DEF Is
    <2> QED BY <1>2, Zenon
  <1>4. IsNth(S, first, n)
    <2> HIDE DEF first
    <2> QED BY <1>3 DEF IsNth, Preceding
  <1> HIDE DEF first
  <1> QED BY <1>1, <1>4, NthUnique

-------------------------------------------------------------------------------
(***************************************************************************)
(* The choice of a minter.                                                 *)
(***************************************************************************)

\* The addresses that are stored.
Minters == Present \cap Prefixed

LEMMA MintersFinite == Minters \in SUBSET Nat /\ IsFiniteSet(Minters) /\ Cardinality(Minters) \in Nat
  <1>1. Ranges * RangeSize - 1 \in Int
    BY MinterStoreAssumption
  <1>2. IsFiniteSet(Prefixed) /\ Prefixed \in SUBSET Nat
    BY <1>1, FS_Interval DEF Prefixed
  <1> QED BY <1>2, FS_Subset, FS_CardinalityType DEF Minters

\* Where the r-th range begins lies between the addresses before it and its own.
LEMMA RangeParts ==
    ASSUME NEW r \in 1..Ranges
    PROVE  /\ KeysOf(r) \subseteq Minters
           /\ \A k \in Nat : Preceding(Minters, k) \cap KeysOf(r) = Preceding(KeysOf(r), k)
           /\ \A k \in KeysOf(r) : Preceding(Minters, k) =
                  Preceding(Minters, (r - 1) * RangeSize) \cup Preceding(KeysOf(r), k)
           /\ Preceding(Minters, r * RangeSize) = Preceding(Minters, (r - 1) * RangeSize) \cup KeysOf(r)
           /\ Preceding(Minters, (r - 1) * RangeSize) \cap KeysOf(r) = {}
  <1> DEFINE first == (r - 1) * RangeSize
  <1>1. Ranges \in Nat /\ RangeSize \in Nat /\ RangeSize > 0
    BY MinterStoreAssumption
  <1>2. first \in Nat /\ r * RangeSize = first + RangeSize
    BY <1>1
  <1>3. KeysOf(r) = {k \in Present : first <= k /\ k <= first + RangeSize - 1}
    BY DEF KeysOf, FirstPossibleKey, LastPossibleKey
  <1>4. KeysOf(r) \subseteq Minters
    BY RangeIsByte DEF Minters
  <1> HIDE DEF first
  <1>5. \A k \in Minters : k \in Nat /\ k \in Present
    BY MintersFinite DEF Minters
  <1>6. \A k \in Minters : k \in KeysOf(r) <=> ~(k < first) /\ k < first + RangeSize
    BY <1>1, <1>2, <1>3, <1>5
  <1>7. \A k \in Nat : Preceding(Minters, k) \cap KeysOf(r) = Preceding(KeysOf(r), k)
    BY <1>4, Zenon DEF Preceding
  <1>8. ASSUME NEW k \in KeysOf(r)
        PROVE  Preceding(Minters, k) = Preceding(Minters, first) \cup Preceding(KeysOf(r), k)
    <2>1. \A l \in Minters : l < k <=> l < first \/ (l \in KeysOf(r) /\ l < k)
      BY <1>1, <1>2, <1>4, <1>5, <1>6
    <2> QED BY <1>4, <2>1, Zenon DEF Preceding
  <1>9. Preceding(Minters, first + RangeSize) = Preceding(Minters, first) \cup KeysOf(r)
    <2>1. \A l \in Minters : l < first + RangeSize <=> l < first \/ l \in KeysOf(r)
      BY <1>1, <1>2, <1>5, <1>6
    <2> QED BY <1>4, <2>1, Zenon DEF Preceding
  <1>10. Preceding(Minters, first) \cap KeysOf(r) = {}
    BY <1>4, <1>6, Zenon DEF Preceding
  <1> QED BY <1>2, <1>4, <1>7, <1>8, <1>9, <1>10 DEF first

\* The first r ranges of an exact index count the minters whose addresses lie in them.
LEMMA ExactSums ==
    ASSUME NEW sizes, Exact(sizes)
    PROVE  /\ DOMAIN sizes = 1..Ranges /\ Len(sizes) = Ranges
           /\ \A r \in 0..Ranges : SizeUpTo(sizes, r) = Cardinality(Preceding(Minters, r * RangeSize))
           /\ TotalSize(sizes) = Cardinality(Minters)
  <1>1. Ranges \in Nat /\ RangeSize \in Nat
    BY MinterStoreAssumption
  <1>2. DOMAIN sizes = 1..Ranges /\ \A r \in 1..Ranges : sizes[r] = Cardinality(KeysOf(r))
    BY RangeIsByte DEF Exact
  <1>3. Len(sizes) = Ranges
    <2>1. sizes \in Seq(Nat)
      <3>1. sizes = [r \in 1..Ranges |-> sizes[r]]
        BY DEF Exact
      <3>2. \A r \in 1..Ranges : sizes[r] \in Nat
        BY <1>2, KeysCount
      <3> QED BY <1>1, <3>1, <3>2
    <2> QED BY <1>1, <1>2, <2>1
  <1>4. /\ SizeUpTo(sizes, 0) = 0
        /\ \A r \in 1..Ranges : SizeUpTo(sizes, r) = SizeUpTo(sizes, r - 1) + sizes[r]
    BY <1>1, <1>3, SizeUpToSums
  <1> DEFINE Right == {r \in Nat : r <= Ranges => SizeUpTo(sizes, r) = Cardinality(Preceding(Minters, r * RangeSize))}
  <1>5. 0 \in Right
    <2>1. 0 * RangeSize = 0
      BY <1>1
    <2>2. Preceding(Minters, 0) = {}
      <3>1. \A l \in Minters : ~(l < 0)
        BY MintersFinite
      <3> QED BY <3>1, Zenon DEF Preceding
    <2> QED BY <1>4, <2>1, <2>2, FS_EmptySet
  <1>6. ASSUME NEW r \in Nat, r \in Right PROVE r + 1 \in Right
    <2> SUFFICES ASSUME r + 1 <= Ranges
                 PROVE  SizeUpTo(sizes, r + 1) = Cardinality(Preceding(Minters, (r + 1) * RangeSize))
      OBVIOUS
    <2>1. r + 1 \in 1..Ranges /\ (r + 1) - 1 = r /\ r <= Ranges
      BY <1>1
    <2>2. SizeUpTo(sizes, r + 1) = SizeUpTo(sizes, r) + Cardinality(KeysOf(r + 1))
      BY <1>2, <1>4, <2>1
    <2>3. /\ Preceding(Minters, (r + 1) * RangeSize) = Preceding(Minters, r * RangeSize) \cup KeysOf(r + 1)
          /\ Preceding(Minters, r * RangeSize) \cap KeysOf(r + 1) = {}
          /\ KeysOf(r + 1) \subseteq Minters
      BY <2>1, RangeParts
    <2>4. /\ IsFiniteSet(Preceding(Minters, r * RangeSize)) /\ IsFiniteSet(KeysOf(r + 1))
          /\ Cardinality(Preceding(Minters, r * RangeSize)) \in Nat /\ Cardinality(KeysOf(r + 1)) \in Nat
      BY <2>3, MintersFinite, BeforeFinite, FS_Subset, FS_CardinalityType
    <2>5. Cardinality(Preceding(Minters, (r + 1) * RangeSize)) =
             Cardinality(Preceding(Minters, r * RangeSize)) + Cardinality(KeysOf(r + 1))
      BY <2>3, <2>4, FS_Union, FS_EmptySet
    <2>6. SizeUpTo(sizes, r) = Cardinality(Preceding(Minters, r * RangeSize))
      BY <1>6, <2>1
    <2> QED BY <2>2, <2>5, <2>6
  <1> HIDE DEF Right
  <1>7. \A r \in Nat : r \in Right
    BY <1>5, <1>6, SetInduction
  <1>8. \A r \in 0..Ranges : SizeUpTo(sizes, r) = Cardinality(Preceding(Minters, r * RangeSize))
    BY <1>1, <1>7 DEF Right
  <1>9. Preceding(Minters, Ranges * RangeSize) = Minters
    <2>1. \A l \in Minters : l < Ranges * RangeSize
      BY <1>1 DEF Minters, Prefixed
    <2> QED BY <2>1, Zenon DEF Preceding
  <1>10. Ranges \in 0..Ranges
    BY <1>1
  <1> QED BY <1>2, <1>3, <1>8, <1>9, <1>10 DEF TotalSize

\* A selection whose index is exact finds its range and in it the key it is to find.
LEMMA ExactSelection ==
    ASSUME NEW sizes, Exact(sizes), NEW n \in Nat, n < Cardinality(Minters)
    PROVE  LET rs == RangeByIndex(sizes, n)
               r  == Min(rs)
               offset == n - SizeUpTo(sizes, r - 1)
           IN  /\ rs # {} /\ r \in 1..Ranges /\ offset < Cardinality(KeysOf(r))
               /\ Nth(KeysOf(r), offset) = Nth(Minters, n)
  <1> DEFINE rs == RangeByIndex(sizes, n)
             r  == Min(rs)
             start == SizeUpTo(sizes, r - 1)
             offset == n - start
  <1>1. Ranges \in Nat /\ RangeSize \in Nat /\ Ranges \in 1..Ranges
    BY MinterStoreAssumption
  <1>2. rs = {i \in 1..Ranges : SizeUpTo(sizes, i) > n}
    BY ExactSums DEF RangeByIndex
  <1>3. Ranges \in rs
    <2>1. SizeUpTo(sizes, Ranges) = Cardinality(Minters)
      BY ExactSums DEF TotalSize
    <2> QED BY <1>1, <1>2, <2>1, MintersFinite
  <1>4. r \in rs /\ \A i \in rs : r <= i
    <2>1. rs \in SUBSET Nat /\ rs # {}
      BY <1>2, <1>3
    <2>2. \E i \in rs : \A j \in rs : i <= j
      <3> HIDE DEF rs
      <3> QED BY <2>1, LeastNumber
    <2> HIDE DEF rs
    <2> QED BY <2>2, Zenon DEF Min
  <1> HIDE DEF r, rs
  <1>5. r \in 1..Ranges /\ r - 1 \in 0..Ranges /\ r \in 0..Ranges
    BY <1>1, <1>2, <1>4
  <1>6. /\ start = Cardinality(Preceding(Minters, (r - 1) * RangeSize)) /\ start \in Nat
        /\ SizeUpTo(sizes, r) = Cardinality(Preceding(Minters, r * RangeSize))
    BY <1>5, ExactSums, MintersFinite, BeforeFinite
  <1>7. start <= n
    <2>1. CASE r = 1
      <3>1. start = SizeUpTo(sizes, 0)
        BY <2>1
      <3>2. SizeUpTo(sizes, 0) = 0
        BY <1>1, ExactSums, SizeUpToSums
      <3> QED BY <3>1, <3>2
    <2>2. CASE r # 1
      <3>1. r - 1 \in 1..Ranges /\ ~(r <= r - 1)
        BY <1>5, <2>2
      <3>2. r - 1 \notin rs
        BY <1>4, <3>1
      <3> QED BY <1>2, <1>6, <3>1, <3>2
    <2> QED BY <2>1, <2>2
  <1>8. SizeUpTo(sizes, r) > n
    BY <1>2, <1>4
  <1>9. /\ KeysOf(r) \subseteq Minters /\ IsFiniteSet(KeysOf(r)) /\ KeysOf(r) \in SUBSET Nat
        /\ Cardinality(KeysOf(r)) \in Nat
        /\ IsFiniteSet(Preceding(Minters, (r - 1) * RangeSize))
    BY <1>5, RangeParts, MintersFinite, BeforeFinite, FS_Subset, FS_CardinalityType
  <1>10. Cardinality(Preceding(Minters, r * RangeSize)) = start + Cardinality(KeysOf(r))
    <2>1. /\ Preceding(Minters, r * RangeSize) = Preceding(Minters, (r - 1) * RangeSize) \cup KeysOf(r)
          /\ Preceding(Minters, (r - 1) * RangeSize) \cap KeysOf(r) = {}
      BY <1>5, RangeParts
    <2> HIDE DEF start
    <2> QED BY <1>6, <1>9, <2>1, FS_Union, FS_EmptySet
  <1> HIDE DEF start
  <1>11. offset \in Nat /\ offset < Cardinality(KeysOf(r)) /\ n = start + offset
    BY <1>6, <1>7, <1>8, <1>9, <1>10
  <1> HIDE DEF offset
  <1>12. PICK k : IsNth(KeysOf(r), k, offset)
    <2>1. Ranges * RangeSize \in Nat
      BY <1>1
    <2>2. \A k \in KeysOf(r) : k < Ranges * RangeSize
      BY <1>1, <1>9 DEF Minters, Prefixed
    <2> QED BY <1>9, <1>11, <2>1, <2>2, NthExists
  <1>13. IsNth(Minters, k, n)
    <2>1. k \in KeysOf(r) /\ Cardinality(Preceding(KeysOf(r), k)) = offset
      BY <1>12 DEF IsNth
    <2>2. Preceding(Minters, k) = Preceding(Minters, (r - 1) * RangeSize) \cup Preceding(KeysOf(r), k)
      BY <1>5, <2>1, RangeParts
    <2>3. Preceding(Minters, (r - 1) * RangeSize) \cap Preceding(KeysOf(r), k) = {}
      BY <1>5, RangeParts DEF Preceding
    <2>4. IsFiniteSet(Preceding(KeysOf(r), k))
      BY <1>9, BeforeFinite
    <2>5. Cardinality(Preceding(Minters, k)) = start + offset
      <3> DEFINE earlier == Preceding(Minters, (r - 1) * RangeSize)
                 here    == Preceding(KeysOf(r), k)
      <3>1. /\ IsFiniteSet(earlier) /\ IsFiniteSet(here) /\ earlier \cap here = {}
            /\ Cardinality(earlier) = start /\ Cardinality(here) = offset
            /\ Preceding(Minters, k) = earlier \cup here
        BY <1>6, <1>9, <2>1, <2>2, <2>3, <2>4
      <3> HIDE DEF earlier, here
      <3>2. Cardinality(earlier \cup here) = Cardinality(earlier) + Cardinality(here) - Cardinality({})
        BY <3>1, FS_Union
      <3> QED BY <1>6, <1>11, <3>1, <3>2, FS_EmptySet
    <2> QED BY <1>9, <1>11, <2>1, <2>5 DEF IsNth
  <1>14. Nth(KeysOf(r), offset) = k
    BY <1>9, <1>12, NthIs
  <1>15. Nth(Minters, n) = k
    BY <1>13, MintersFinite, NthIs
  <1> QED BY <1>3, <1>5, <1>11, <1>14, <1>15 DEF offset, start, r, rs

\* A selection under way that had an exact index when it began, and no key has come or gone
\* since, finds or has found the minter it is to find.
GoodChoice(t) ==
    t.ideal # NoKey =>
        \/ /\ t.at = "sized"
           /\ t.index \in Nat /\ t.index < Cardinality(Minters) /\ t.ideal = Nth(Minters, t.index)
        \/ t.at = "reading" /\ t.pick = t.ideal

GoodChoices == \A c \in Lines : GoodChoice(task[c])

DatabaseInv == CountInv /\ GoodChoices

\* A caller moves on with no selection, or one that is right.
LEMMA ChoicesKept ==
    ASSUME DatabaseInv, NEW c \in Lines, NEW next, task' = [task EXCEPT ![c] = next], GoodChoice(next), UNCHANGED stored
    PROVE  GoodChoices'
  <1>1. \A d \in Lines : task'[d] = IF d = c THEN next ELSE task[d]
    BY DEF DatabaseInv, CountInv, MinterType
  <1>2. Minters' = Minters
    BY DEF Minters, Present
  <1>3. \A d \in Lines : GoodChoice(task'[d])
    BY <1>1 DEF DatabaseInv, GoodChoices
  <1>4. \A d \in Lines : GoodChoice(task[d])' <=> GoodChoice(task'[d])
    BY <1>2 DEF GoodChoice
  <1> QED BY <1>3, <1>4 DEF GoodChoices

\* A step that only says where a caller is, unless it is in a selection.
LEMMA GotoStore ==
    ASSUME DatabaseInv, NEW c \in Lines, NEW point, point # "loading", Goto(c, point),
           task[c].at \notin {"sized", "reading"},
           point = "issued" => task[c].cmd \in KeyCommands,
           UNCHANGED <<stored, indexes, current, untouched>>
    PROVE  DatabaseInv'
  <1> DEFINE next == [task[c] EXCEPT !.at = point]
  <1>1. task' = [task EXCEPT ![c] = next]
    BY DEF Goto
  <1>2. GoodTask(task[c]) /\ GoodChoice(task[c])
    BY DEF DatabaseInv, CountInv, MinterType, GoodChoices
  <1>3. GoodTask(next) /\ next.at = point
    BY <1>2 DEF GoodTask, IsTask
  <1>4. GoodChoice(next)
    BY <1>2 DEF GoodTask, IsTask, GoodChoice
  <1> HIDE DEF next
  <1> QED BY <1>1, <1>3, <1>4, GotoCounts, ChoicesKept DEF DatabaseInv

LEMMA IdleIsGood == GoodTask(Idle) /\ GoodChoice(Idle) /\ Idle.at = "idle"
  BY DEF GoodTask, IsTask, GoodChoice, Idle, KeyCommands

\* A caller that is done.
LEMMA DoneStore ==
    ASSUME DatabaseInv, NEW c \in Lines, task' = [task EXCEPT ![c] = Idle], UNCHANGED <<stored, indexes, current, untouched>>
    PROVE  DatabaseInv'
  BY IdleIsGood, GotoCounts, ChoicesKept DEF DatabaseInv

LEMMA StartSelectionStore ==
    ASSUME DatabaseInv, NEW c \in Lines, NEW hash \in Hashes, StartSelection(c, hash), task[c].at \in {"idle", "loaded"}
    PROVE  DatabaseInv'
  <1> DEFINE n    == TotalSize(Sizes)
             best == IF Exact(Sizes) THEN Nth(Minters, hash % n) ELSE NoKey
             next == IF n = 0 THEN [task[c] EXCEPT !.cmd = "getnext", !.at = "threw"]
                     ELSE [task[c] EXCEPT !.cmd = "getnext", !.at = "sized", !.index = hash % n, !.ideal = best]
  <1>1. task' = [task EXCEPT ![c] = next] /\ UNCHANGED <<stored, indexes, current, untouched>>
    BY DEF StartSelection, Minters
  <1>2. GoodTask(task[c]) /\ GoodChoice(task[c])
    BY DEF DatabaseInv, CountInv, MinterType, GoodChoices
  <1>3. task[c].ideal = NoKey
    BY <1>2 DEF GoodChoice
  <1>4. Exact(Sizes) => n = Cardinality(Minters) /\ n \in Nat
    BY ExactSums, MintersFinite
  <1>5. Exact(Sizes) /\ n # 0 => hash % n \in Nat /\ hash % n < Cardinality(Minters)
    BY <1>4, MinterStoreAssumption
  <1> HIDE DEF n
  <1>6. CASE n = 0
    <2>1. next = [task[c] EXCEPT !.cmd = "getnext", !.at = "threw"]
      BY <1>6
    <2> HIDE DEF next
    <2>2. GoodTask(next) /\ GoodChoice(next) /\ next.at # "loading"
      BY <1>2, <1>3, <2>1 DEF GoodTask, IsTask, GoodChoice, KeyCommands
    <2> QED BY <1>1, <2>2, GotoCounts, ChoicesKept DEF DatabaseInv
  <1>7. CASE n # 0
    <2>1. next = [task[c] EXCEPT !.cmd = "getnext", !.at = "sized", !.index = hash % n, !.ideal = best]
      BY <1>7
    <2>2. best # NoKey => Exact(Sizes) /\ best = Nth(Minters, hash % n)
      OBVIOUS
    <2> HIDE DEF next, best
    <2>3. next = [cmd |-> "getnext", key |-> task[c].key, at |-> "sized", index |-> hash % n, pick |-> task[c].pick, ideal |-> best]
      BY <1>2, <2>1 DEF GoodTask, IsTask
    <2>4. GoodTask(next) /\ next.at # "loading"
      BY <2>3 DEF GoodTask, IsTask, KeyCommands
    <2>5. GoodChoice(next)
      BY <1>5, <1>7, <2>2, <2>3 DEF GoodChoice
    <2> QED BY <1>1, <2>4, <2>5, GotoCounts, ChoicesKept DEF DatabaseInv
  <1> QED BY <1>6, <1>7

LEMMA SelectKeyStore == ASSUME DatabaseInv, NEW c \in Lines, SelectKey(c) PROVE DatabaseInv'
  <1> DEFINE n  == task[c].index
             rs == RangeByIndex(Sizes, n)
             r  == Min(rs)
             offset == n - SizeUpTo(Sizes, r - 1)
             ideal  == IF Exact(Sizes) THEN task[c].ideal ELSE NoKey
             found  == rs # {} /\ open /\ offset < Cardinality(KeysOf(r))
             next   == IF found THEN [task[c] EXCEPT !.at = "reading", !.ideal = ideal, !.pick = Nth(KeysOf(r), offset)]
                       ELSE [task[c] EXCEPT !.at = "threw", !.ideal = IF open THEN ideal ELSE NoKey]
  <1>1. task[c].at = "sized" /\ UNCHANGED <<stored, indexes, current, untouched>>
    BY DEF SelectKey
  <1>2. task' = [task EXCEPT ![c] = next]
    BY DEF SelectKey
  <1>3. GoodTask(task[c]) /\ GoodChoice(task[c])
    BY DEF DatabaseInv, CountInv, MinterType, GoodChoices
  <1>4. ideal # NoKey => /\ Exact(Sizes) /\ ideal = task[c].ideal
                         /\ n \in Nat /\ n < Cardinality(Minters) /\ ideal = Nth(Minters, n)
    BY <1>1, <1>3 DEF GoodChoice
  <1>5. ideal # NoKey => /\ rs # {} /\ offset < Cardinality(KeysOf(r))
                         /\ Nth(KeysOf(r), offset) = ideal
    BY <1>4, ExactSelection
  <1> DEFINE pick == Nth(KeysOf(r), offset)
  <1>6. /\ found => next = [task[c] EXCEPT !.at = "reading", !.ideal = ideal, !.pick = pick]
        /\ ~found => next = [task[c] EXCEPT !.at = "threw", !.ideal = IF open THEN ideal ELSE NoKey]
    OBVIOUS
  <1>7. ideal # NoKey => pick = ideal /\ (~found => ~open)
    BY <1>5
  <1> HIDE DEF next, found, pick, ideal
  <1>8. GoodTask(next) /\ GoodChoice(next) /\ next.at # "loading"
    <2>1. CASE found
      <3>1. next = [cmd |-> task[c].cmd, key |-> task[c].key, at |-> "reading", index |-> n, pick |-> pick, ideal |-> ideal]
        BY <1>3, <1>6, <2>1 DEF GoodTask, IsTask
      <3> QED BY <1>3, <1>7, <3>1 DEF GoodTask, IsTask, GoodChoice
    <2>2. CASE ~found
      <3>1. next = [cmd |-> task[c].cmd, key |-> task[c].key, at |-> "threw", index |-> n, pick |-> task[c].pick, ideal |-> NoKey]
        <4>1. (IF open THEN ideal ELSE NoKey) = NoKey
          BY <1>7, <2>2
        <4> QED BY <1>3, <1>6, <2>2, <4>1 DEF GoodTask, IsTask
      <3> QED BY <1>3, <3>1 DEF GoodTask, IsTask, GoodChoice
    <2> QED BY <2>1, <2>2
  <1> QED BY <1>1, <1>2, <1>8, GotoCounts, ChoicesKept DEF DatabaseInv

LEMMA LoadStore ==
    ASSUME DatabaseInv, NEW c \in Lines, NEW cmd, NEW key, Load(c, cmd, key), cmd \in KeyCommands => key \in Keys
    PROVE  DatabaseInv'
  <1> DEFINE next == [Idle EXCEPT !.cmd = cmd, !.key = key, !.at = "loading"]
  <1>1. task' = [task EXCEPT ![c] = next] /\ stored' = stored
    BY DEF Load
  <1>2. GoodChoice(next)
    BY DEF Idle, GoodChoice
  <1> HIDE DEF next
  <1> QED BY <1>1, <1>2, LoadCounts, ChoicesKept DEF DatabaseInv

LEMMA LoadRangeStore == ASSUME DatabaseInv, NEW c \in Lines, LoadRange(c) PROVE DatabaseInv'
  <1>1. /\ task[c].at = "loading" /\ stored' = stored
        /\ task' = task \/ task' = [task EXCEPT ![c].at = "loaded"]
    BY DEF LoadRange, Goto
  <1>2. GoodTask(task[c]) /\ GoodChoice(task[c]) /\ DOMAIN task = Lines
    BY DEF DatabaseInv, CountInv, MinterType, GoodChoices
  <1>3. CASE task' = task
    <2>1. GoodChoices'
      BY <1>1, <1>3 DEF DatabaseInv, GoodChoices, GoodChoice, Minters, Present
    <2> QED BY <2>1, LoadRangeCounts DEF DatabaseInv
  <1>4. CASE task' = [task EXCEPT ![c].at = "loaded"]
    <2> DEFINE next == [task[c] EXCEPT !.at = "loaded"]
    <2>1. task' = [task EXCEPT ![c] = next]
      BY <1>4
    <2>2. GoodChoice(next)
      BY <1>1, <1>2 DEF GoodTask, IsTask, GoodChoice
    <2> HIDE DEF next
    <2> QED BY <1>1, <2>1, <2>2, LoadRangeCounts, ChoicesKept DEF DatabaseInv
  <1> QED BY <1>1, <1>3, <1>4

LEMMA CommitStore == ASSUME DatabaseInv, NEW c \in Lines, Commit(c) PROVE DatabaseInv'
  <1> DEFINE t     == task[c]
             value == CASE t.cmd = "insert" -> "minter" [] t.cmd = "odd" -> "odd" [] t.cmd = "remove" -> "no"
             moved == (stored[t.key] = "no") # (value = "no")
  <1>1. /\ t.at = "issued" /\ stored' = [stored EXCEPT ![t.key] = value]
        /\ task' = [d \in Lines |-> IF d = c THEN Idle
                                    ELSE IF moved THEN [task[d] EXCEPT !.ideal = NoKey] ELSE task[d]]
    BY DEF Commit
  <1>2. t.cmd \in {"insert", "odd", "remove"} /\ t.key \in Keys
    BY <1>1 DEF DatabaseInv, CountInv, MinterType, GoodTask, KeyCommands
  <1>3. ~moved => Minters' = Minters
    <2>1. ~moved => \A k \in Keys : stored'[k] = "no" <=> stored[k] = "no"
      BY <1>1, <1>2 DEF DatabaseInv, CountInv, MinterType
    <2> HIDE DEF moved
    <2> QED BY <2>1 DEF Minters, Present
  <1> HIDE DEF t, value, moved
  <1>4. ASSUME NEW d \in Lines PROVE GoodChoice(task[d])'
    <2>1. GoodTask(task[d]) /\ GoodChoice(task[d])
      BY DEF DatabaseInv, CountInv, MinterType, GoodChoices
    <2>2. CASE d = c
      BY <1>1, <2>2 DEF Idle, GoodChoice
    <2>3. CASE d # c /\ moved
      <3>1. task'[d] = [task[d] EXCEPT !.ideal = NoKey]
        BY <1>1, <2>3
      <3>2. task'[d].ideal = NoKey
        BY <2>1, <3>1 DEF GoodTask, IsTask
      <3> QED BY <3>2 DEF GoodChoice
    <2>4. CASE d # c /\ ~moved
      <3>1. task'[d] = task[d]
        BY <1>1, <2>4
      <3> QED BY <1>3, <2>1, <2>4, <3>1 DEF GoodChoice
    <2> QED BY <2>2, <2>3, <2>4
  <1> QED BY <1>4, CommitCounts DEF DatabaseInv, GoodChoices

LEMMA MinterStepStore == ASSUME DatabaseInv, NEW c \in Lines, MinterStep(c) PROVE DatabaseInv'
  <1>1. CASE LoadRange(c)
    BY <1>1, LoadRangeStore
  <1>2. CASE LoadFails(c)
    <2>1. /\ task[c].at = "loading" /\ Goto(c, "threw") /\ UNCHANGED <<stored, indexes, current, untouched>>
      BY <1>2 DEF LoadFails
    <2> QED BY <2>1, GotoStore
  <1>3. CASE RunCommand(c)
    <2>1. task[c].at = "loaded" /\ CountInv
      BY <1>3 DEF RunCommand, DatabaseInv
    <2>2. UNCHANGED <<stored, indexes, current, untouched>>
      BY <1>3, <2>1, RunGoesOn
    <2>3. PICK point \in {"idle", "threw", "issued"} : Goto(c, point) /\ (point = "issued" => task[c].cmd \in KeyCommands)
      BY <1>3, <2>1, RunGoesOn
    <2> QED BY <2>1, <2>2, <2>3, GotoStore
  <1>4. CASE Commit(c)
    BY <1>4, CommitStore
  <1>5. CASE SelectKey(c)
    BY <1>5, SelectKeyStore
  <1>6. CASE Selected(c)
    BY <1>6, DoneStore DEF Selected
  <1>7. CASE task[c].at = "loaded" /\ \E h \in Hashes : StartSelection(c, h)
    BY <1>7, StartSelectionStore
  <1> QED BY <1>1, <1>2, <1>3, <1>4, <1>5, <1>6, <1>7 DEF MinterStep

LEMMA GoneStore == ASSUME DatabaseInv, NEW code, Gone(code) PROVE DatabaseInv'
  <1>1. /\ stored' = stored /\ current' = NoKey /\ untouched' = FALSE
        /\ indexes' = [c \in Lines |-> NewIndexes] /\ task' = [c \in Lines |-> Idle]
    BY DEF Gone
  <1>2. NewIndexes \in [sizes : Seq(Nat), counting : Nat]
    BY DEF NewIndexes
  <1>3. indexes' \in [Lines -> [sizes : Seq(Nat), counting : Nat]]
    BY <1>1, <1>2
  <1>4. MinterType'
    BY <1>1, <1>3, IdleIsGood DEF DatabaseInv, CountInv, MinterType
  <1>5. Unfinished' /\ Counts'
    BY <1>1, IdleIsGood DEF Unfinished, Counts
  <1>6. GoodChoices'
    BY <1>1 DEF GoodChoices, GoodChoice, Idle
  <1> QED BY <1>4, <1>5, <1>6 DEF DatabaseInv, CountInv

LEMMA SameStore == ASSUME DatabaseInv, UNCHANGED minterVars PROVE DatabaseInv'
  <1>1. UNCHANGED <<stored, indexes, current, task, untouched>>
    BY DEF minterVars
  <1>2. CountInv'
    BY <1>1, CountsKept DEF DatabaseInv, CountInv, MinterType
  <1>3. GoodChoices'
    BY <1>1 DEF DatabaseInv, GoodChoices, GoodChoice, Minters, Present
  <1> QED BY <1>2, <1>3 DEF DatabaseInv

LEMMA DatabaseStepKeeps == DatabaseInv /\ [Next]_vars => DatabaseInv'
  <1> SUFFICES ASSUME DatabaseInv, [Next]_vars PROVE DatabaseInv'
    OBVIOUS
  <1>1. CASE UNCHANGED vars
    BY <1>1, SameStore DEF vars
  <1>2. CASE BootStep
    <2>1. ASSUME NEW cmd \in Commands \ {"init"}, NEW key \in Named(cmd), ShellCommand(cmd, key) PROVE DatabaseInv'
      BY <2>1, LoadStore, NodeConsoleAssumption DEF ShellCommand, Named
    <2>2. CASE LoadConfig
      BY <2>2, LoadStore, NodeConsoleAssumption DEF LoadConfig, KeyCommands
    <2>3. CASE ShellEnds
      BY <2>3, GoneStore DEF ShellEnds
    <2>4. ASSUME NEW api, NEW minters, StartApi(api, minters) PROVE UNCHANGED minterVars
      BY <2>4 DEF StartApi
    <2>5. CASE \/ BadFlags \/ ShellPrints \/ RunCommandLine \/ BadConfig \/ StoreReady \/ StartNet \/ SyncEnds
      BY <2>5, SameStore DEF BadFlags, ShellPrints, RunCommandLine, BadConfig, StoreReady, StartNet, SyncEnds
    <2> QED BY <1>2, <2>1, <2>2, <2>3, <2>4, <2>5, SameStore DEF BootStep
  <1>3. ASSUME NEW c \in Lines, LineStep(c) PROVE DatabaseInv'
    <2>1. CASE DatabaseStep(c)
      BY <2>1, MinterStepStore DEF DatabaseStep
    <2>2. CASE TaskThrows(c)
      BY <2>2, DoneStore DEF TaskThrows
    <2> QED BY <1>3, <2>1, <2>2 DEF LineStep
  <1>4. ASSUME NEW c \in Lines, NEW cmd \in Commands \ {"init"}, NEW key \in Named(cmd), TypeLine(c, cmd, key)
        PROVE  DatabaseInv'
    BY <1>4, LoadStore, NodeConsoleAssumption DEF TypeLine, Named
  <1>5. ASSUME NEW h \in Hashes, SlotAsks(h) PROVE DatabaseInv'
    BY <1>5, StartSelectionStore, NodeConsoleAssumption DEF SlotAsks
  <1>6. CASE StartServiceCommand \/ StopCommand \/ Sigterm
    BY <1>6, SameStore DEF StartServiceCommand, StopCommand, Sigterm
  <1>7. ASSUME NEW code \in Codes, ShutdownStep(code) PROVE DatabaseInv'
    <2>1. CASE StopServices(code) \/ CloseLog(code)
      BY <2>1, SameStore DEF StopServices, CloseLog
    <2>2. CASE StopBlockchain(code)
      <3>1. UNCHANGED <<stored, indexes, current, task, untouched>>
        BY <2>2 DEF StopBlockchain
      <3>2. CountInv'
        BY <3>1, CountsKept DEF DatabaseInv, CountInv, MinterType
      <3>3. GoodChoices'
        BY <3>1 DEF DatabaseInv, GoodChoices, GoodChoice, Minters, Present
      <3> QED BY <3>2, <3>3 DEF DatabaseInv
    <2>3. CASE ForceShutdown(code) \/ Exit(code) \/ LogFails(code)
      BY <2>3, GoneStore DEF ForceShutdown, Exit, LogFails
    <2> QED BY <1>7, <2>1, <2>2, <2>3 DEF ShutdownStep
  <1> QED BY <1>1, <1>2, <1>3, <1>4, <1>5, <1>6, <1>7 DEF Next

LEMMA DatabaseInit == Init => DatabaseInv
  <1> SUFFICES ASSUME Init PROVE DatabaseInv
    OBVIOUS
  <1>1. /\ stored = [k \in Keys |-> IF k \in Before THEN "minter" ELSE "no"]
        /\ indexes = [c \in Lines |-> NewIndexes] /\ current = NoKey
        /\ task = [c \in Lines |-> Idle] /\ untouched = FALSE
    BY DEF Init, MinterInit
  <1>2. NewIndexes \in [sizes : Seq(Nat), counting : Nat]
    BY DEF NewIndexes
  <1>3. indexes \in [Lines -> [sizes : Seq(Nat), counting : Nat]]
    BY <1>1, <1>2
  <1>4. MinterType
    BY <1>1, <1>3, IdleIsGood DEF MinterType
  <1>5. Unfinished /\ Counts
    BY <1>1, IdleIsGood DEF Unfinished, Counts
  <1>6. GoodChoices
    BY <1>1, IdleIsGood DEF GoodChoices
  <1> QED BY <1>4, <1>5, <1>6 DEF DatabaseInv, CountInv

\* The index objects count what is stored and the selections under way are on course, whatever
\* loads, writes, selections and shutdowns overlap.
THEOREM DatabaseInvariant == Spec => []DatabaseInv
  BY DatabaseInit, DatabaseStepKeeps, PTL DEF Spec

\* From the end of a load (LevelIndexes.load) to the first key that comes or goes the counts of
\* LevelIndexes are those of the stored addresses, for any number of ranges, addresses and
\* callers: no other load or write that runs meanwhile spoils them.
THEOREM LoadsCountAll == Spec => []LoadCountsAll
  <1>1. DatabaseInv => LoadCountsAll
    <2> SUFFICES ASSUME DatabaseInv, current # NoKey, untouched, Len(Sizes) = Ranges PROVE Exact(Sizes)
      BY DEF LoadCountsAll
    <2>1. \A r \in 1..Ranges : Sizes[r] = Want(r)
      BY DEF DatabaseInv, CountInv, Counts
    <2>2. Sizes \in Seq(Nat)
      BY DEF DatabaseInv, CountInv, MinterType, Sizes
    <2>3. Sizes = [r \in 1..Ranges |-> Sizes[r]]
      BY <2>2, MinterStoreAssumption
    <2> HIDE DEF Sizes
    <2> QED BY <2>1, <2>3 DEF Exact, Want
  <1> QED BY <1>1, DatabaseInvariant, PTL

\* A selection (MinterDB.selectNextMinter) whose index is exact yields the minter that the slot's
\* hash names among all that are stored, in whatever ranges they are counted: every node with
\* the same database names the same one.
THEOREM SelectionsAgree == Spec => []SelectionAgrees
  <1>1. DatabaseInv => SelectionAgrees
    BY DEF DatabaseInv, GoodChoices, GoodChoice, SelectionAgrees
  <1> QED BY <1>1, DatabaseInvariant, PTL

===============================================================================
