------------------------------ MODULE ConsoleLog ------------------------------
(***************************************************************************)
(* Where a message of the program goes (cli/cli.ts): to the console, to    *)
(* the log file, to both or nowhere, by its type, by the name of the       *)
(* logger and by the log levels CLI.init was given.                        *)
(***************************************************************************)

VARIABLES
    logs,  \* the levels of CLI, and logStream: "none", "open" or "ended"
    told   \* history: where an error message has arrived

Types  == {"info", "success", "error", "warn"}
Levels == {"none", "cmd", "error", "warns", "all"}

\* CLIUtils.setLogLevelConfig: the types of messages a level lets through.
Allowed(level) ==
    CASE level \in {"none", "cmd"} -> {}
      [] level = "error"           -> {"error"}
      [] level = "warns"           -> {"error", "warn"}
      [] level = "all"             -> Types

\* Before CLI.init everything is allowed, and there is no file.
LogInit ==
    /\ logs = [level |-> "all", console |-> Types, file |-> Types, stream |-> "none"]
    /\ told = {}

\* startLogStream: a file of its own for every start, in a directory that is made.
StartLogStream == "open"

\* CLI.init
InitLog(level, fileLevel) ==
    logs' = [level   |-> level,
             console |-> Allowed(level),
             file    |-> Allowed(fileLevel),
             stream  |-> IF fileLevel # "none" THEN StartLogStream ELSE logs.stream]

\* logToConsole and logToFile: what is written to a stream that has ended is lost.
LogToConsole == {"console"}
LogToFile    == IF logs.stream = "open" THEN {"file"} ELSE {}

\* (Operators named Slip... are plausible mistakes in the operator that follows.)
SlipReaches(type, prefix) ==
    IF type \in logs.console THEN LogToConsole ELSE IF type \in logs.file THEN LogToFile ELSE {}

\* CLI.log.  A message that only the level cmd lets through goes to the console as it
\* is and not to the file.
Reaches(type, prefix) ==
    IF type \in logs.console \/ logs.level # "cmd" \/ prefix # "CLI"
    THEN (IF type \in logs.console THEN LogToConsole ELSE {}) \cup
         (IF type \in logs.file THEN LogToFile ELSE {})
    ELSE LogToConsole

\* Logger.error of the logger named prefix.
LogError(prefix) == told' = told \cup Reaches("error", prefix)

\* closeLogStream ends the stream.
EndLog == logs' = [logs EXCEPT !.stream = "ended"]
===============================================================================
