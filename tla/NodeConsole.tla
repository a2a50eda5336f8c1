------------------------------ MODULE NodeConsole ------------------------------
(***************************************************************************)
(* The life of a node process: the start with its flags and configuration  *)
(* (core/main.ts, cli/handler, cli/commands/runCMD.ts, config), the        *)
(* services it starts one after the other, the lines typed in the console  *)
(* meanwhile (cli/cli.ts), the selection of a minter for each slot, and    *)
(* gracefulShutdown (utils/index.ts), of which several may be running.     *)
(*                                                                         *)
(* An action is the code between two awaits that take time.  What the      *)
(* services do when they run is the subject of SlotPipeline, StartupSync   *)
(* and PeerHandshake.                                                      *)
(***************************************************************************)
EXTENDS MinterStore, NodeConfig, ConsoleLog, Integers

CONSTANTS
    Boot,     \* the caller of RunCMD.run; once the node is up its slots select minters in its place
    Before,   \* the minters in the database when the process starts
    CommandLines,  \* the command lines the process may be started with
    Typed,    \* the keys that are named in console commands
    MaxLines  \* bound on the number of database commands typed

\* A word of a command line: --name=value, or a name alone (--help is left out).
Words == [name : STRING, value : STRING]

ASSUME NodeConsoleAssumption ==
    /\ Boot \in Lines
    /\ Before \subseteq Prefixed /\ Typed \subseteq Keys
    /\ MaxLines \in Nat
    /\ \A line \in CommandLines : \A i \in DOMAIN line : line[i] \in Words

Services == {"http", "pos", "net"}
Codes    == {0, 1}

VARIABLES
    env,       \* Main.environment: "command" or "runtime"
    boot,      \* where Main.init and RunCMD.run are; "over" when they returned or threw before the node was up
    args,      \* the words of the command line that are still to be read
    onlyCli,   \* the flag --only-cli
    service,   \* "off", "on" or, stopped or started in vain, "stopped"; `started` is true but for "off"
    shut,      \* shut[code]: where gracefulShutdown(code) is; calls with one code do the same
    rejected,  \* an unhandled rejection has used up the handler of process.once
    exited,    \* the exit code of the process, -1 while it runs
    typed,     \* how many database commands were typed, bounded by MaxLines
    late       \* history: services that run and were started while the node was being shut down

lifeVars == <<env, logs, boot, args, onlyCli, service, shut, rejected, exited, typed, told, late, files>>
vars     == <<minterVars, lifeVars>>

Init ==
    /\ MinterInit(Before)
    /\ ConfigInit
    /\ LogInit
    /\ env = "command"
    /\ boot = "args"
    /\ args \in CommandLines
    /\ onlyCli = FALSE
    /\ service = [s \in Services |-> "off"]
    /\ shut = [k \in Codes |-> "no"]
    /\ rejected = FALSE
    /\ exited = -1
    /\ typed = 0
    /\ late = {}

Running  == exited = -1
Stopping == \E k \in Codes : shut[k] # "no"

\* The process is gone, and what it had in memory.
Gone(code) ==
    /\ exited' = code
    /\ task' = [c \in Lines |-> Idle]
    /\ indexes' = [c \in Lines |-> NewIndexes]
    /\ current' = NoKey /\ untouched' = FALSE
    /\ service' = [s \in Services |-> "off"] /\ late' = {}
    /\ shut' = [k \in Codes |-> "no"] /\ rejected' = FALSE
    /\ UNCHANGED <<stored, open, env, logs, boot, args, onlyCli, typed, files>>

\* (Operators named Slip... are plausible mistakes in the operator that follows.)
SlipShutdown(code) == shut' = [shut EXCEPT ![code] = "services"]

\* Utils.gracefulShutdown(code) begins.
Shutdown(code) == shut' = [shut EXCEPT ![code] = IF @ = "no" THEN "services" ELSE @]

\* Utils.unhandledRejection, once; another exception ends the process.
UnhandledRejection ==
    /\ rejected' = TRUE
    /\ LogError("Global")
    /\ IF rejected
       THEN exited' = 1 /\ UNCHANGED shut
       ELSE Shutdown(1) /\ UNCHANGED exited

-------------------------------------------------------------------------------
(***************************************************************************)
(* The start: Main.init, CLICMDHandler.run and RunCMD.run.                 *)
(***************************************************************************)

RootFlags == [n \in {"--cwd"} |-> "string"]
RunFlags  == [n \in {"--host", "--port", "--only-cli", "--ignore-no-peers", "--experimental"} |->
                 CASE n = "--host" -> "string" [] n = "--port" -> "number" [] OTHER -> "bool"]

\* CMDFlagsParser.parse succeeds: no unknown flag, unless they are skipped, and no
\* string flag without a value.  A number flag takes any word: NaN is a number.
FlagsParse(flags, words, skip) ==
    \A i \in DOMAIN words :
        IF words[i].name \in DOMAIN flags
        THEN flags[words[i].name] = "string" => words[i].value # ""
        ELSE skip

Given(name, words) == \E i \in DOMAIN words : words[i].name = name

\* The commands that run Blockchain.init and waitAllChainsInit first.
DatabaseCommands == {"minterdb", "walletdb", "blockdb", "chainstate"}

\* CLIUtils.canRunInCurrentEnvironment
CanRun(command) ==
    CASE command \in {"run", "--version"}       -> env = "command"
      [] command \in {"stop", "start-service"}  -> env = "runtime"
      [] OTHER                                  -> TRUE

\* The words left when --cwd has been taken out; the first names the command.
Rest    == SelectSeq(args, LAMBDA word : word.name \notin DOMAIN RootFlags)
Command == IF Rest = << >> THEN "help" ELSE Head(Rest).name

ArgsRead == /\ Running /\ boot = "args"
            /\ FlagsParse(RootFlags, args, TRUE)
            /\ \A i \in DOMAIN args : args[i].name = "--cwd" => args[i].value # "missing"
            /\ args' = << >>

\* A flag that does not parse, or --cwd with no such directory.
BadFlags ==
    /\ Running /\ boot = "args"
    /\ \/ ~FlagsParse(RootFlags, args, TRUE)
       \/ \E i \in DOMAIN args : args[i].name = "--cwd" /\ args[i].value = "missing"
       \/ Command = "run" /\ ~FlagsParse(RunFlags, Tail(Rest), FALSE)
    /\ args' = << >>
    /\ boot' = "over"
    /\ LogError("Global")
    /\ Shutdown(1)
    /\ UNCHANGED <<minterVars, env, logs, onlyCli, service, rejected, exited, late, typed, files>>

\* Any command but run, from the shell: cli.init with log level cmd, no console.  A
\* command on a database loads it first.
ShellCommand(cmd, key) ==
    /\ ArgsRead
    /\ Command \in DatabaseCommands
    /\ cmd \in (IF Command = "minterdb" THEN Commands \ {"init"} ELSE {"read"})
    /\ boot' = "shell"
    /\ InitLog("cmd", "none")
    /\ Load(Boot, cmd, key)
    /\ UNCHANGED <<env, onlyCli, service, shut, rejected, exited, told, late, typed, files>>

\* A command that prints something: help, an unknown one, one of the running node.
ShellPrints ==
    /\ ArgsRead
    /\ Command \notin DatabaseCommands
    /\ ~(Command = "run" /\ CanRun("run"))
    /\ boot' = "shell"
    /\ InitLog("cmd", "none")
    /\ UNCHANGED <<minterVars, env, onlyCli, service, shut, rejected, exited, told, late, typed, files>>

\* Nothing keeps the event loop alive when the command has ended.
ShellEnds ==
    /\ Running /\ boot = "shell"
    /\ task[Boot].at = "idle" /\ ~Stopping
    /\ Gone(0)
    /\ UNCHANGED told

\* RunCMD.run: from here on lines can be typed.
RunCommandLine ==
    /\ ArgsRead
    /\ Command = "run" /\ CanRun("run")
    /\ FlagsParse(RunFlags, Tail(Rest), FALSE)
    /\ onlyCli' = Given("--only-cli", Tail(Rest))
    /\ boot' = "cli"
    /\ env' = "runtime"
    /\ InitLog("all", "all")
    /\ UNCHANGED <<minterVars, service, shut, rejected, exited, told, late, typed, files>>

\* loadFullConfig, adjustConfigByProcessArgs, Blockchain.init.
LoadConfig ==
    /\ Running /\ boot = "cli"
    /\ ConfigParsed
    /\ ReadFiles
    /\ boot' = "store"
    /\ Load(Boot, "init", NoKey)
    /\ UNCHANGED <<env, logs, args, onlyCli, service, shut, rejected, exited, told, late, typed>>

\* A file that cannot be read: a shutdown begins, the empty object is returned
\* nevertheless, and adjustConfigByProcessArgs throws on it.  A file with JSON for
\* nothing is not reported as such.
BadConfig ==
    /\ Running /\ boot = "cli"
    /\ ~ConfigParsed
    /\ ReadFiles
    /\ boot' = "over"
    /\ Shutdown(1)
    /\ UnhandledRejection
    /\ UNCHANGED <<minterVars, env, logs, args, onlyCli, service, late, typed>>

\* waitAllChainsInit has returned.
StoreReady ==
    /\ Running /\ boot = "store"
    /\ task[Boot].at = "idle"
    /\ boot' = IF onlyCli THEN "cliOnly" ELSE "net"
    /\ UNCHANGED <<minterVars, env, logs, args, onlyCli, service, shut, rejected, exited, told, late, typed, files>>

\* A service is started once: with success or, as far as `started` tells, as well.
StartService(s, result) ==
    /\ service' = [service EXCEPT ![s] = IF @ = "off" THEN result ELSE @]
    /\ late' = IF Stopping /\ result = "on" THEN late \cup {s} ELSE late

\* LeiCoinNetNode.start: when the server cannot listen a shutdown begins, and the
\* start goes on.
StartNet ==
    /\ Running /\ boot = "net"
    /\ boot' = "peers"
    /\ StartService("net", "on")
    /\ \/ UNCHANGED <<shut, told>>
       \/ LogError("LeiCoinNet") /\ Shutdown(1)
    /\ UNCHANGED <<minterVars, env, logs, args, onlyCli, rejected, exited, typed, files>>

\* initPeers has settled.  HTTP_API.start, if it is active, and createMinters, if the
\* minter is.
StartApi(api, minters) ==
    /\ Running /\ boot = "peers"
    /\ IF api = "off" THEN UNCHANGED <<service, late>>
       ELSE StartService("http", IF api = "on" THEN "on" ELSE "stopped")
    /\ IF api = "refused" \/ MintersThrow(minters)
       THEN boot' = "over" /\ UnhandledRejection
       ELSE /\ boot' = "sync"
            /\ told' = IF MintersRefused(minters) = {} THEN told ELSE told \cup Reaches("error", "MinterClient")
            /\ UNCHANGED <<shut, rejected, exited>>
    /\ UNCHANGED <<minterVars, env, logs, args, onlyCli, typed, files>>

\* POS.start
StartPos ==
    /\ StartService("pos", "on")
    /\ boot' = "full"

\* doStartupSync has ended, with a peer or without one; POS.start is called anyway.
SyncEnds ==
    /\ Running /\ boot = "sync"
    /\ StartPos
    /\ \/ UNCHANGED <<shut, told>>
       \/ LogError("LeiCoinNet") /\ Shutdown(1)
    /\ UNCHANGED <<minterVars, env, logs, args, onlyCli, rejected, exited, typed, files>>

-------------------------------------------------------------------------------
(***************************************************************************)
(* The running node: console lines, slots and exceptions.                  *)
(***************************************************************************)

\* A line is typed while the console is open: a command on a database, which is
\* not awaited, so that the next one may be typed before it ends.
TypeLine(c, cmd, key) ==
    /\ Running /\ env = "runtime"
    /\ c # Boot
    /\ typed < MaxLines
    /\ typed' = typed + 1
    /\ Load(c, cmd, key)
    /\ UNCHANGED <<env, logs, boot, args, onlyCli, service, shut, rejected, exited, told, late, files>>

\* start-service api: nothing happens when the API counts as started; a host that is
\* no address throws after it does.
StartServiceCommand ==
    /\ Running /\ CanRun("start-service")
    /\ service["http"] = "off"
    /\ \/ StartService("http", "on") /\ UNCHANGED <<shut, rejected, exited, told>>
       \/ StartService("http", "stopped") /\ UnhandledRejection
    /\ UNCHANGED <<minterVars, env, logs, boot, args, onlyCli, typed, files>>

\* The command stop, which exists in the running node only.
StopCommand ==
    /\ Running /\ CanRun("stop")
    /\ Shutdown(0)
    /\ UNCHANGED <<minterVars, env, logs, boot, args, onlyCli, service, rejected, exited, told, late, typed, files>>

\* SIGTERM; a second one kills the process.
Sigterm ==
    /\ Running
    /\ Shutdown(0)
    /\ UNCHANGED <<minterVars, env, logs, boot, args, onlyCli, service, rejected, exited, told, late, typed, files>>

\* The cron job creates a slot, which asks for its minter.
SlotAsks(hash) ==
    /\ Running
    /\ service["pos"] = "on"
    /\ task[Boot].at = "idle"
    /\ StartSelection(Boot, hash)
    /\ UNCHANGED lifeVars

DatabaseStep(c) ==
    /\ Running
    /\ MinterStep(c)
    /\ UNCHANGED lifeVars

\* Nobody handles what a command, a slot or the start throws.
TaskThrows(c) ==
    /\ Running
    /\ task[c].at = "threw"
    /\ task' = [task EXCEPT ![c] = Idle]
    /\ boot' = IF c = Boot /\ boot = "store" THEN "over" ELSE boot
    /\ UnhandledRejection
    /\ UNCHANGED <<stored, open, indexes, current, untouched, env, logs, args, onlyCli, service, late, typed, files>>

-------------------------------------------------------------------------------
(***************************************************************************)
(* Utils.gracefulShutdown                                                  *)
(***************************************************************************)

SlipStopped(s) == IF s # "pos" /\ service[s] = "on" THEN "stopped" ELSE service[s]

\* stopService, for the services that are started at this moment.
Stopped(s) == IF service[s] = "on" THEN "stopped" ELSE service[s]

StopServices(code) ==
    /\ Running
    /\ shut[code] = "services"
    /\ service' = [s \in Services |-> Stopped(s)]
    /\ late' = {}
    /\ shut' = [shut EXCEPT ![code] = "stores"]
    /\ UNCHANGED <<minterVars, env, logs, boot, args, onlyCli, rejected, exited, told, typed, files>>

\* Blockchain.stop: closes the databases, if Blockchain.init has run.
StopBlockchain(code) ==
    /\ Running
    /\ shut[code] = "stores"
    /\ CloseAll
    /\ shut' = [shut EXCEPT ![code] = "log"]
    /\ UNCHANGED <<stored, indexes, current, task, untouched>>
    /\ UNCHANGED <<env, logs, boot, args, onlyCli, service, rejected, exited, told, late, typed, files>>

\* A chain whose databases waitAllChainsInit has not reached yet cannot be closed:
\* forceShutdown.
ForceShutdown(code) ==
    /\ Running
    /\ shut[code] = "stores"
    /\ boot = "store"
    /\ Gone(1)
    /\ LogError("Global")

\* cli.close ends the log file.  The shutdown that does it goes on when the file is
\* written; one that comes later may wait for what has happened already.
CloseLog(code) ==
    /\ Running
    /\ shut[code] = "log" /\ logs.stream # "none"
    /\ EndLog
    /\ shut' = [shut EXCEPT ![code] = IF logs.stream = "ended" THEN "waiting" ELSE "closing"]
    /\ UNCHANGED <<minterVars, env, boot, args, onlyCli, service, rejected, exited, told, late, typed, files>>

\* process.exit; without a file nothing is waited for.
Exit(code) ==
    /\ Running
    /\ shut[code] = "closing" \/ (shut[code] = "log" /\ logs.stream = "none")
    /\ Gone(code)
    /\ UNCHANGED told

\* A message logged after the end of the file makes the stream fail: whoever closes
\* it catches the error and calls forceShutdown.
LogFails(code) ==
    /\ Running
    /\ shut[code] \in {"closing", "waiting"} /\ logs.stream = "ended"
    /\ Gone(1)
    /\ LogError("Global")

ShutdownStep(code) ==
    \/ StopServices(code) \/ StopBlockchain(code) \/ ForceShutdown(code)
    \/ CloseLog(code) \/ Exit(code) \/ LogFails(code)

\* The address in a command line.
Named(cmd) == IF cmd \in KeyCommands THEN Typed ELSE {NoKey}

BootStep ==
    \/ BadFlags \/ ShellPrints \/ RunCommandLine \/ LoadConfig \/ BadConfig \/ StoreReady
    \/ StartNet \/ SyncEnds \/ ShellEnds
    \/ \E api \in ApiSettings : \E minters \in MinterConfigs : StartApi(api, minters)
    \/ \E cmd \in Commands \ {"init"} : \E key \in Named(cmd) : ShellCommand(cmd, key)

LineStep(c) == DatabaseStep(c) \/ TaskThrows(c)

Next ==
    \/ BootStep
    \/ \E c \in Lines : LineStep(c) \/ \E cmd \in Commands \ {"init"} : \E key \in Named(cmd) : TypeLine(c, cmd, key)
    \/ \E h \in Hashes : SlotAsks(h)
    \/ StartServiceCommand \/ StopCommand \/ Sigterm
    \/ \E code \in Codes : ShutdownStep(code)

Spec == Init /\ [][Next]_vars

\* Every awaited operation of LevelDB, of a socket and of the log file settles, and
\* doStartupSync ends (StartupSync).  Nothing obliges anyone to type a line.
Fairness ==
    /\ WF_vars(BootStep)
    /\ \A c \in Lines : WF_vars(LineStep(c))
    /\ \A code \in Codes : WF_vars(ShutdownStep(code))

FairSpec == Spec /\ Fairness

-------------------------------------------------------------------------------
\* The databases are closed under no service that was running when the shutdown
\* began: POS and the server are stopped first, however many shutdowns overlap.
\* Only what RunCMD.run starts while the node is being shut down is left running.
ServicesStopFirst ==
    [][open /\ ~open' => \A s \in Services : service[s] = "on" => s \in late]_vars

\* A node that ends with exit code 1 has said why in the console; and when it ends
\* in order, with the log file closed, it says so there too, though the errors that
\* lead to it are logged by many and the log levels change on the way.  A command run
\* from the shell has not: only the logger CLI is heard there.
FailureIsLogged ==
    /\ exited = 1 /\ boot # "shell" => "console" \in told
    /\ shut[1] = "closing" => "file" \in told

\* A shutdown ends the process, at whatever point of the start it begins and though
\* others are running: the databases are closed at most once and nothing waits.
NodeExits == Stopping ~> ~Running

\* The start leads to the node, to console mode, or to the end of the process.
BootSettles == boot = "args" ~> (boot \in {"full", "cliOnly"} \/ ~Running)
===============================================================================
