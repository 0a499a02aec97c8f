----------------------------- MODULE MCIAMToken -----------------------------
(* Small instances of IAMToken for TLC. *)
EXTENDS IAMToken

\* The configuration that config.go gives as "Example configuration for Swiss OTC".
ExampleConfig == {{"username", "password", "project_name", "cluster_id"}}

\* Configurations that differ in what the clients do with them: a user and its
\* password, keys, both, half of the keys, half of a user, nothing.
SomeConfigs ==
    {c \cup {"project_id"} :
        c \in {{"username", "password"}, {"access_key", "secret_key"},
               {"username", "password", "access_key"},
               {"username", "access_key"}, {}}}
PasswordOnly == {{"username", "password", "project_id"}}
=============================================================================
