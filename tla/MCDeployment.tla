---------------------------- MODULE MCDeployment ----------------------------
(* An instance of Deployment for TLC: the ways servers are started.         *)
EXTENDS Deployment, TLC

DefaultToml(system) ==
    <<"database", "backend">> :> system @@ <<"database", "url">> :> "shared"
        @@ <<"keygen", "default_backend">> :> "opaque"

\* Environment variables: a generator that no plugin provides, a database
\* named in full, and one named by half.
Unknown == <<"keygen", "default_backend">> :> "rsa"
Elsewhere == <<"database", "url">> :> "elsewhere"
ByUrl == <<"database", "url">> :> "shared"

MCStacks ==
    {<<DefaultToml("mssql"), Unknown>>, <<DefaultToml("postgres")>>,
     <<DefaultToml("postgres"), Elsewhere>>, <<ByUrl>>}
=============================================================================
