----------------------------- MODULE MCCleanup -----------------------------
(***************************************************************************)
(* Accounts with one deployment of every provider, complete with a         *)
(* resource of every type, young deployments on AWS and Exoscale, and      *)
(* command lines.                                                          *)
(***************************************************************************)
EXTENDS Cleanup

Types(p) == UNION {Phases(p)[i] : i \in DOMAIN Phases(p)}

\* A resource is named by its deployment and its type.
Of(d, types) == {<<d, t>> : t \in types}

Azure == Of("z1", {"azure-resource-group", "azure-vm", "azure-network"})

Young == Of("a2", {"ec2-instance", "route-table"})
         \cup Of("e2", {"exoscale-block-storage-volume", "exoscale-private-network"})

TheResources == Of("a1", Types("aws")) \cup Young \cup Of("e1", Types("exoscale"))
                 \cup Of("s1", Types("stackit")) \cup Azure

ProviderOf(r) ==
    CASE r[1] \in {"a1", "a2"} -> "aws"
      [] r[1] \in {"e1", "e2"} -> "exoscale"
      [] r[1] = "s1" -> "stackit"
      [] r[1] = "z1" -> "azure"

LocationOf(r) ==
    CASE r[2] \in {"iam-role", "iam-instance-profile", "exoscale-iam-role", "exoscale-iam-api-key",
                   "exoscale-ssh-key", "exoscale-security-group"} -> "global"
      [] r[2] \notin {"iam-role", "iam-instance-profile", "exoscale-iam-role", "exoscale-iam-api-key",
                      "exoscale-ssh-key", "exoscale-security-group"} ->
            CASE ProviderOf(r) = "aws" -> "us-east-1"
              [] ProviderOf(r) = "exoscale" -> "ch-gva-2"
              [] ProviderOf(r) = "stackit" -> "eu01"
              [] ProviderOf(r) = "azure" -> "westeurope"

\* What the presets label, and what they only name.
Unlabelled == {"exoscale-security-group", "exoscale-ssh-key", "exoscale-iam-role", "exoscale-iam-api-key",
               "sos-bucket", "stackit-objectstorage-bucket", "stackit-objectstorage-credential",
               "stackit-objectstorage-credential-group"}

Age(d) == IF d \in {"a2", "e2"} THEN 3 ELSE 1

TheInfo ==
    [r \in TheResources |->
        [p |-> ProviderOf(r), loc |-> LocationOf(r), type |-> r[2], dep |-> r[1],
         tag |-> r[2] \notin Unlabelled, project |-> TRUE, named |-> r[2] # "stackit-public-ip",
         owner |-> "me", tagTime |-> IF ProviderOf(r) \in {"aws", "azure"} THEN Age(r[1]) ELSE 0,
         time |-> Age(r[1]), refused |-> r = <<"a2", "route-table">>]]

TheTargets == << [p |-> "aws", loc |-> "us-east-1"], [p |-> "exoscale", loc |-> "ch-gva-2"],
                [p |-> "stackit", loc |-> "eu01"], [p |-> "azure", loc |-> "all"] >>

TheDeployments == {"a1", "a2", "e1", "e2", "s1", "z1"}

TheInitialCloud == [r \in TheResources |-> "running"]

TheInitialPages ==
    [r \in TheResources |-> IF r[2] = "sos-bucket" THEN 2
                           ELSE IF r[2] \in {"s3-bucket", "stackit-objectstorage-bucket"} THEN 1 ELSE 0]

Run(ids, all, older, execute) ==
    [cmd |-> "run", ids |-> ids, all |-> all, older |-> older, execute |-> execute, types |-> {},
     owners |-> {}, legacy |-> FALSE, providers |-> {}]

TheOptions ==
    {Run({"a1"}, FALSE, FALSE, TRUE), Run({"e1"}, FALSE, FALSE, TRUE), Run({"s1"}, FALSE, FALSE, TRUE),
     Run({"a2", "z1"}, FALSE, FALSE, TRUE), Run({"z1"}, FALSE, TRUE, FALSE), Run({"z1"}, FALSE, FALSE, FALSE),
     [Run({}, TRUE, TRUE, TRUE) EXCEPT !.providers = {"aws"}],
     [Run({}, TRUE, TRUE, TRUE) EXCEPT !.providers = {"exoscale"}, !.types = {"exoscale-private-network"}],
     [Run({"a1"}, FALSE, FALSE, TRUE) EXCEPT !.types = {"ebs-volume"}],
     [Run({"z1", "e1"}, FALSE, FALSE, FALSE) EXCEPT !.cmd = "show", !.owners = {"me"},
                                                    !.providers = {"exoscale", "azure"}],
     [Run({}, FALSE, FALSE, FALSE) EXCEPT !.cmd = "discover", !.legacy = TRUE]}

\* The accounts are such as the theorems of CleanupProofs suppose.
ASSUME MCHypotheses == OneLocation /\ Visible /\ Settled /\ Recognisable

\* TLC evaluates a definition once, but the value of a constant at every use:
\* these names only refer to the definitions above.
MCResources == TheResources

MCInfo == TheInfo

MCTargets == TheTargets

MCDeployments == TheDeployments

MCInitialCloud == TheInitialCloud

MCInitialPages == TheInitialPages

MCOptions == TheOptions

=============================================================================
