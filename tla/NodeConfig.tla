------------------------------ MODULE NodeConfig ------------------------------
(***************************************************************************)
(* The configuration of a node (config/*.ts): three files, each read once  *)
(* at start and written from a sample when it is missing, and what the     *)
(* start makes of the settings in them (http_api/index.ts,                 *)
(* minter/index.ts).                                                       *)
(***************************************************************************)
EXTENDS Naturals

CONSTANT FileStates  \* in which states a node may find its files

Files == {"config.json", "peers.json", ".env"}

\* "bad": it cannot be read, is no JSON, or is missing and cannot be written;
\* "null": JSON for nothing.  An .env file has no wrong syntax.
Contents == {"missing", "good", "bad", "null"}

ASSUME NodeConfigAssumption ==
    /\ FileStates \subseteq [Files -> Contents]
    /\ \A f \in FileStates : f[".env"] # "null"

VARIABLE files

ConfigInit == files \in FileStates

\* A parser gives nothing for a file it cannot read, or that holds nothing.
GeneralConfigParsed == files["config.json"] \notin {"bad", "null"}
PeersConfigParsed   == files["peers.json"] \notin {"bad", "null"}
ENVConfigParsed     == files[".env"] # "bad"

ConfigParsed == GeneralConfigParsed /\ PeersConfigParsed /\ ENVConfigParsed

\* loadFullConfig asks all three parsers, whatever the first one gives: the samples
\* of missing files are written even when the node is about to stop.
ReadFiles == files' = [f \in Files |-> IF files[f] = "missing" THEN "good" ELSE files[f]]

\* The settings of the API: off, on, or with a host or a port it cannot listen on.
ApiSettings == {"off", "on", "refused"}

\* The entries of minter.credentials: an address with its private key; with the key
\* of another, or one that is no minter's address; or a text that is no hex number.
Credentials   == {"pair", "mismatch", "garbled"}
MinterConfigs == UNION {[1..n -> Credentials] : n \in 0..2}

\* createMinters throws at an entry it cannot read.
MintersThrow(config) == \E i \in DOMAIN config : config[i] = "garbled"

\* verifyCredentials: an entry that does not fit is reported and left out.
MintersRefused(config) == {i \in DOMAIN config : config[i] = "mismatch"}
===============================================================================
