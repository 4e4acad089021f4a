--------------------------------- MODULE Setup ---------------------------------
(***************************************************************************)
(* The `setup` command of the CLI (cli/setup-command.ts) and what it leaves*)
(* behind: three environment files rendered from cli/templates, a          *)
(* PostgreSQL container that initialises its volume once, a key pair and a *)
(* migrated schema.  The command may fail or be interrupted at any step,   *)
(* and be run again with the same or other options; the container goes on  *)
(* by itself.  The password of "postgres" is used by nothing modelled.     *)
(***************************************************************************)
EXTENDS Naturals

CONSTANTS
  Passwords,        \* of the database user external_idp
  Unset,            \* an option not supplied, a file not written
  Keys              \* key pairs openssl can generate

Files == {".env", "api-docker.env", "postgres.env"}

(* The files whose DATABASE_URL has a host after the password. *)
FilesWithHost == {"api-docker.env"}

ASSUME SetupAssumption ==
  /\ {Unset, "part"} \cap Passwords = {}
  /\ {Unset, "part"} \cap Keys = {}

VARIABLES
  step,         \* what the command does next
  postgresAppPassword,
  unwritten,    \* files this run has yet to write
  file,         \* file[f]: the password rendered into f
  container,    \* how far the postgres container is
  container_env, \* the password the container was created with
  volume,       \* the password in the data directory; Unset: empty; "part": see below
  signingKey,
  publicKey,
  migrated

vars == <<step, postgresAppPassword, unwritten, file, container, container_env, volume,
          signingKey, publicKey, migrated>>

dockerVars == <<container, container_env, volume>>

keyVars == <<signingKey, publicKey>>

(* Options, files, container, volume and keys are well typed.              *)
TypeOK ==
  /\ step \in {"stopped", "configure", "sign", "publish", "migrate", "done"}
  /\ postgresAppPassword \in Passwords \cup (IF step = "stopped" THEN {Unset} ELSE {})
  /\ unwritten \subseteq Files
  /\ file \in [Files -> Passwords \cup {Unset}]
  /\ container \in {"absent", "initialising", "up"}
  /\ container_env \in Passwords \cup {Unset}
  /\ volume \in Passwords \cup {Unset, "part"}
  /\ signingKey \in Keys \cup {Unset, "part"}
  /\ publicKey \in Keys \cup {Unset, "part"}
  /\ migrated \in BOOLEAN

Init ==
  /\ step = "stopped"
  /\ postgresAppPassword = Unset
  /\ unwritten = {}
  /\ file = [f \in Files |-> Unset]
  /\ container = "absent" /\ container_env = Unset /\ volume = Unset
  /\ signingKey = Unset /\ publicKey = Unset
  /\ migrated = FALSE
-----------------------------------------------------------------------------
(* The option, or getRandomPass(). *)
passApp_NoDefault(option) == {option}

passApp(option) == IF option = Unset THEN Passwords ELSE {option}

Run(option) ==
  /\ step \in {"stopped", "done"}
  /\ step' = "configure"
  /\ postgresAppPassword' \in passApp(option)
  /\ unwritten' = Files
  /\ UNCHANGED <<file, dockerVars, keyVars, migrated>>

(* Promise.all: the files are written in any order. *)
writeEjsTemplate(f) ==
  /\ step = "configure"
  /\ f \in unwritten
  /\ file' = [file EXCEPT ![f] = postgresAppPassword]
  /\ unwritten' = unwritten \ {f}
  /\ UNCHANGED <<step, postgresAppPassword, dockerVars, keyVars, migrated>>

(* docker compose up: a container whose environment has changed is made    *)
(* anew.  The image looks at its volume and initialises it when it is      *)
(* empty; one whose initialisation was cut short it takes as it is.        *)
ComposeUp ==
  /\ step = "configure" /\ unwritten = {}
  /\ step' = "sign"
  /\ IF container # "absent" /\ container_env = file["postgres.env"]
       THEN UNCHANGED dockerVars
       ELSE /\ container_env' = file["postgres.env"]
            /\ container' = IF volume = Unset THEN "initialising" ELSE "up"
            /\ volume' = IF volume = Unset THEN "part" ELSE volume
  /\ UNCHANGED <<postgresAppPassword, unwritten, file, keyVars, migrated>>

(* config/init-db.sh. *)
InitDb ==
  /\ container = "initialising"
  /\ container' = "up"
  /\ volume' = container_env
  /\ UNCHANGED <<step, postgresAppPassword, unwritten, file, container_env, keyVars, migrated>>

GenerateKey_Anew ==
  /\ step = "sign"
  /\ step' = "publish"
  /\ signingKey' \in Keys
  /\ UNCHANGED <<postgresAppPassword, unwritten, file, dockerVars, publicKey, migrated>>

(* execIfFileNotExist; openssl creates its file before it fills it. *)
GenerateKey ==
  /\ step = "sign"
  /\ \/ signingKey = Unset /\ signingKey' \in Keys /\ step' = "publish"
     \/ signingKey = Unset /\ signingKey' = "part" /\ step' = "stopped"
     \/ signingKey # Unset /\ UNCHANGED signingKey /\ step' = "publish"
  /\ UNCHANGED <<postgresAppPassword, unwritten, file, dockerVars, publicKey, migrated>>

(* From a key it cannot read openssl makes an empty file, and fails. *)
PublishKey ==
  /\ step = "publish"
  /\ \/ publicKey = Unset /\ signingKey \in Keys /\ publicKey' = signingKey /\ step' = "migrate"
     \/ publicKey = Unset /\ publicKey' = "part" /\ step' = "stopped"
     \/ publicKey # Unset /\ UNCHANGED publicKey /\ step' = "migrate"
  /\ UNCHANGED <<postgresAppPassword, unwritten, file, dockerVars, signingKey, migrated>>

(* The DATABASE_URL of f leads to the database and opens it. *)
Opens(f) == f \in FilesWithHost /\ container = "up" /\ file[f] = volume

(* Three seconds later, whether the database is up or not.  DATABASE_URL   *)
(* is that of the environment setup was called in (prisma.config.ts), not  *)
(* that of the .env it has written: any URL, which opens an initialised    *)
(* database or does not (Stop).                                            *)
Migrate ==
  /\ step = "migrate"
  /\ container = "up" /\ volume \in Passwords
  /\ migrated' = TRUE
  /\ step' = "done"
  /\ UNCHANGED <<postgresAppPassword, unwritten, file, dockerVars, keyVars>>

(* A step fails, or the command is interrupted. *)
Stop ==
  /\ step \notin {"stopped", "done"}
  /\ step' = "stopped"
  /\ UNCHANGED <<postgresAppPassword, unwritten, file, dockerVars, keyVars, migrated>>

Next ==
  \/ \E option \in Passwords \cup {Unset} : Run(option)
  \/ \E f \in Files : writeEjsTemplate(f)
  \/ ComposeUp
  \/ InitDb
  \/ GenerateKey
  \/ PublishKey
  \/ Migrate
  \/ Stop

Spec == Init /\ [][Next]_vars
-----------------------------------------------------------------------------
(* A published key is the public key of the key tokens are signed with,    *)
(* whatever runs were interrupted and repeated before.                     *)
KeysMatch == publicKey \in Keys => publicKey = signingKey

(* "All Done! Execute to start": .env and the file of the container image  *)
(* open the migrated database, and the server can load its signing key.    *)
DoneMeansReady ==
  step = "done" =>
    /\ migrated
    /\ \A f \in {".env", "api-docker.env"} : file[f] = volume
    /\ signingKey \in Keys

(* "Initialize development configuration": once the database has the       *)
(* password the command wrote, the .env it wrote opens the database.       *)
EnvOpensDatabase ==
  step = "migrate" /\ container = "up" /\ volume = postgresAppPassword => Opens(".env")
=============================================================================
