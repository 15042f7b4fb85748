---------------------------- MODULE AdminConsole ----------------------------
(***************************************************************************)
(* The handlers of the admin console that write vericred.config.json       *)
(* (admin/router.ts), and the start-up that reads it back (config/         *)
(* loader.ts, server.ts, connectors/index.ts).  The file is rewritten in   *)
(* place: a full disk or a crash can leave it torn.                        *)
(***************************************************************************)
EXTENDS AdminAuth

CONSTANTS
  Templates,       \* ids registered with registerTemplate
  UnknownType,     \* any other credential type
  Fields,
  RequiredFields,  \* template |-> the fields its validateMappings asks for
  ChecksOptions,   \* templates that have validateOptions
  DefaultType,     \* of DEFAULT_CONFIG
  Hosts,           \* issuer hosts; Localhost is that of DEFAULT_CONFIG
  Localhost,
  ISSUER_URL,      \* the host the environment sets, or Unset
  Unset,
  Absent, Torn,    \* vericred.config.json is missing, or is not JSON
  Deployments      \* files the operator may install

Config == [named : BOOLEAN,            \* issuer.name # 'VeriCred Issuer'
           host : Hosts,               \* of issuer.url and issuer.did
           type : Templates \union {UnknownType},
           fieldMappings : SUBSET Fields,
           options : BOOLEAN,          \* templateOptions pass validateOptions
           dataSource : BOOLEAN]       \* buildConnector accepts dataSource

ASSUME AdminConsoleAssumption ==
  /\ UnknownType \notin Templates /\ DefaultType \in Templates
  /\ RequiredFields \in [Templates -> SUBSET Fields]
  /\ ChecksOptions \subseteq Templates
  /\ Localhost \in Hosts /\ Unset \notin Hosts /\ ISSUER_URL \in Hosts \union {Unset}
  /\ Absent # Torn /\ Absent \notin Config /\ Torn \notin Config
  /\ Deployments \subseteq Config \union {Absent}

VARIABLES
  configFile,
  validated        \* history: since the file was installed a start-up or a
                   \* saved mapping found its template and mappings in order

vars == <<authVars, configFile, validated>>

TypeOK ==
  /\ AuthTypeOK
  /\ configFile \in Config \union {Absent, Torn}
  /\ validated \in BOOLEAN

Init ==
  /\ AuthInit
  /\ configFile \in Deployments
  /\ validated = FALSE

-----------------------------------------------------------------------------
(* The file *)

DEFAULT_CONFIG ==
  [named |-> FALSE, host |-> IF ISSUER_URL = Unset THEN Localhost ELSE ISSUER_URL,
   type |-> DefaultType, fieldMappings |-> RequiredFields[DefaultType],
   options |-> TRUE, dataSource |-> TRUE]

\* Mutant: a file that cannot be parsed is taken for a missing one.
ReadableOrNew == TRUE

Readable == configFile # Torn

\* What loadConfig returns; it has written DEFAULT_CONFIG to a missing file.
\* ISSUER_URL overrides the issuer's address.
loadConfig ==
  LET stored == IF configFile \in Config THEN configFile ELSE DEFAULT_CONFIG
  IN  IF ISSUER_URL = Unset THEN stored ELSE [stored EXCEPT !.host = ISSUER_URL]

\* writeFileSync opens the file for truncation before it writes.
Saved(config) == configFile' = config
WriteFails    == Readable /\ configFile' \in {configFile, Torn}

-----------------------------------------------------------------------------
(* Start-up *)

MappingsCover(ty, mappings) == RequiredFields[ty] \subseteq mappings

\* The template validation of server.ts:46-83.
startupOk(config) ==
  /\ config.type \in Templates
  /\ MappingsCover(config.type, config.fieldMappings)
  /\ config.type \in ChecksOptions => config.options

isUnconfigured(config) == ~config.named /\ config.host = Localhost

\* A server that starts: the configuration is valid, or left for the setup
\* wizard, and buildConnector does not throw.
Startable(config) ==
  /\ startupOk(config) \/ isUnconfigured(config)
  /\ config.dataSource

Start ==
  /\ Readable
  /\ Startable(loadConfig)
  /\ AuthStart
  /\ configFile' = IF configFile = Absent THEN DEFAULT_CONFIG ELSE configFile
  /\ validated' = (validated \/ startupOk(loadConfig))

\* The first loadConfig of a data directory is interrupted.
StartTearsDefault ==
  /\ ~up /\ configFile = Absent
  /\ configFile' = Torn
  /\ UNCHANGED <<authVars, validated>>

Halt == AuthHalt /\ UNCHANGED <<configFile, validated>>

\* The operator installs or repairs the file while the server is down.
Deploy ==
  /\ ~up
  /\ configFile' \in Deployments
  /\ validated' = FALSE
  /\ UNCHANGED authVars

-----------------------------------------------------------------------------
(* POST /admin/api/setup and POST /admin/api/save-mapping *)

\* The configuration the setup handler saves; source is Unset when the body
\* has no dataSource, which is not validated otherwise.
SetupConfig(name, host, source) ==
  [loadConfig EXCEPT !.named = name, !.host = host,
                     !.dataSource = IF source = Unset THEN @ ELSE source]

\* A missing name or url is answered 400, a url new URL() rejects 500.
Setup ==
  /\ Authorised
  /\ Readable
  /\ \E name \in BOOLEAN, host \in Hosts, source \in BOOLEAN \union {Unset} :
       Saved(SetupConfig(name, host, source))
  /\ UNCHANGED validated

\* Mutant: the mappings are checked against the template in the file.
ValidForOldTemplate(ty, mappings) ==
  ty \in Templates /\
  (loadConfig.type \in Templates => MappingsCover(loadConfig.type, mappings))

\* getTemplate and validateMappings accept the request; validateOptions is not
\* asked, although the next start-up asks it.
ValidMapping(ty, mappings) == ty \in Templates /\ MappingsCover(ty, mappings)

SaveMapping ==
  /\ Authorised
  /\ Readable
  /\ \E ty \in Templates \union {UnknownType}, mappings \in SUBSET Fields :
       /\ ValidMapping(ty, mappings)
       /\ Saved([loadConfig EXCEPT !.type = ty, !.fieldMappings = mappings])
  /\ validated' = TRUE

\* Every other POST of the console, one whose body is refused, and one whose
\* loadConfig or new URL() throws: the request used its CSRF token all the same.
OtherPost == Authorised /\ UNCHANGED <<configFile, validated>>

\* A save that fails is answered 500, or its process ends before it answers.
SaveFails == Authorised /\ WriteFails /\ UNCHANGED validated

AuthOnly ==
  /\ \/ \E s \in SessionIds : Login(s) \/ Logout(s)
     \/ \E c \in Cookies, t \in CsrfIds : CsrfHandshake(c, t)
     \/ PruneOnly
     \/ Tick
  /\ UNCHANGED <<configFile, validated>>

Next ==
  \/ Start \/ StartTearsDefault \/ Halt \/ Deploy
  \/ Setup \/ SaveMapping \/ OtherPost \/ SaveFails
  \/ AuthOnly

Spec == Init /\ [][Next]_vars

-----------------------------------------------------------------------------
(* Properties *)

\* Once a start-up or a save found template and mappings in order, no sequence
\* of setups, mappings, failing saves and restarts leaves a readable file
\* that the next start-up refuses (server.ts:87), but for what the console
\* does not validate: the data source, and the options of a new template.
SavedConfigStarts ==
  validated /\ configFile \in Config /\ configFile.options /\ configFile.dataSource
    => Startable(loadConfig)

\* A torn file is never replaced by a save of the running server, which
\* would lose what is left of it, nor does a server start on it
\* (config/loader.ts:44).
TornConfigFailsClosed ==
  [][configFile = Torn =>
       /\ configFile' # Torn => ~up
       /\ ~up => ~up']_vars

=============================================================================
