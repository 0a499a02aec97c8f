---------------------------- MODULE CloudConfig ----------------------------
(***************************************************************************)
(* The configuration of the cloud provider (config.go), what start-up      *)
(* demands of it (cmd/cloud-controller-manager, opentelekomcloud.go) and   *)
(* what the two API clients take from it: ELBv3Client (loadbalancer) and   *)
(* ECSClient (instances).  Of a setting only matters whether it is given.  *)
(***************************************************************************)

\* The settings of the cloud config file that decide what is sent.
Settings == {"username", "password", "access_key", "secret_key",
             "project_name", "project_id", "cluster_id"}

\* A configuration: the settings that are not empty.
Config == SUBSET Settings

hasPassword(cfg) == {"username", "password"} \subseteq cfg
hasAKSK(cfg) == {"access_key", "secret_key"} \subseteq cfg

\* validateConfig: the configurations LoadConfig accepts.
validateConfig(cfg) ==
    /\ hasPassword(cfg) \/ hasAKSK(cfg)
    /\ "project_name" \in cfg \/ "project_id" \in cfg

\* cloudInitializer: without a cluster id the program only starts when it is
\* run with --allow-untagged-cloud.
cloudInitializer(cfg, allowUntagged) ==
    validateConfig(cfg) /\ ("cluster_id" \in cfg \/ allowUntagged)

\* Variant: one of the two keys is enough to sign.
NewELBv3ClientLoose(cfg) ==
    IF "access_key" \in cfg \/ "secret_key" \in cfg THEN "aksk" ELSE "token"

\* NewELBv3Client: requests are signed if both keys are there, and carry the
\* token a user name and password buy otherwise.
NewELBv3Client(cfg) == IF hasAKSK(cfg) THEN "aksk" ELSE "token"

\* NewECSClient: requests are always signed, with whatever keys there are.
NewECSClient(cfg) == "aksk"

\* The secrets a client in the given mode works with.
SecretsOf(mode) ==
    IF mode = "aksk" THEN {"access_key", "secret_key"} ELSE {"username", "password"}

\* makeRequest and SignRequest put the project into the path and into the
\* X-Project-Id header, authenticate into the scope of the token: in each case
\* project_id, as it is.
ProjectSent(cfg) == "project_id" \in cfg
=============================================================================
