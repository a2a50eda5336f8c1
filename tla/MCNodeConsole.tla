---------------------------- MODULE MCNodeConsole ----------------------------
(***************************************************************************)
(* NodeConsole for TLC.  Up to two database commands are typed.  In a node *)
(* that is up and calm they are any two; at any other moment, while the    *)
(* node starts or stops, one: a read or the insertion of one minter.  The  *)
(* API is started, and the stop asked for, before the second command; and  *)
(* the settings are in order when a command is typed before they are used. *)
(* The restriction is on what the user types and writes into the settings: *)
(* every step of the node itself remains possible.                         *)
(***************************************************************************)
EXTENDS NodeConsole

Word(n, v) == [name |-> n, value |-> v]
MCCommandLines ==
    { << Word("run", "") >>,
      << Word("--cwd", "data"), Word("run", ""), Word("--only-cli", ""), Word("--port", "text") >>,
      << Word("run", ""), Word("--host", "") >>,
      << Word("run", ""), Word("--ports", "1") >>,
      << Word("--cwd", "missing"), Word("run", "") >>,
      << Word("--cwd", "") >>,
      << Word("minterdb", "") >>,
      << Word("walletdb", "") >>,
      << Word("stop", "") >>,
      << >> }

All(c) == [f \in Files |-> c]
MCFileStates ==
    { All("good"), All("missing"),
      [All("good") EXCEPT !["config.json"] = "null"],
      [All("missing") EXCEPT !["peers.json"] = "bad"],
      [All("good") EXCEPT ![".env"] = "bad"] }

Calm == boot \in {"full", "cliOnly"} /\ ~Stopping

Typing == typed' # typed
Plain(t) == t.at = "idle" \/ t.cmd = "read" \/ (t.cmd = "insert" /\ t.key = 1)

MCNext ==
    /\ Next
    /\ Typing => /\ Calm \/ (typed = 0 /\ \A c \in Lines \ {Boot} : Plain(task'[c]))
                 /\ told = {} \/ Stopping
                 /\ logs.stream # "ended" /\ \E k \in Codes : shut[k] = "no"
    /\ typed > 0 /\ boot = "peers" => told' = told \/ Stopping'
    /\ typed > 0 /\ boot # "peers" /\ service["http"] = "off" => service'["http"] = "off"
    /\ shut'[0] # shut[0] /\ shut[0] = "no" =>
           /\ typed < 2
           /\ \A c \in Lines \ {Boot} : Plain(task[c])

MCFairSpec == Init /\ [][MCNext]_vars /\ Fairness
===============================================================================
