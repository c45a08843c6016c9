-------------------------- MODULE CleanupProviders --------------------------
(***************************************************************************)
(* tools/cleanup/pkg/cleanup/providers: what the four providers of the     *)
(* cleanup tool find in a cloud account, in which phases they delete it,   *)
(* and how each handler takes the cloud's answer to a delete call.         *)
(*                                                                         *)
(* A resource is a member of Resources; Info holds what the cloud knows of *)
(* it.  A cloud is a function from resources to their condition.  Times    *)
(* are numbers, 0 the zero time; an owner filter is the set of owners its  *)
(* pattern matches; a lost call is a listing that answered with an error.  *)
(***************************************************************************)
EXTENDS Naturals, FiniteSets, Sequences

CONSTANTS
    Resources,  \* identities of cloud resources
    Info,       \* what the cloud knows of each resource
    Formatted   \* deployment ids of the form exasol-xxxxxxxx

Providers == {"aws", "exoscale", "stackit", "azure"}

Conditions == {"running", "stopped", "deleting", "gone"}

\* The region in which AWS lists the resources that belong to no region.
GlobalRegion == "us-east-1"

Instances == {"ec2-instance", "exoscale-compute-instance", "stackit-server", "azure-vm"}

\* The resources of type t of provider p that a listing shows.
Listed(c, p, t) == {r \in Resources : Info[r].p = p /\ Info[r].type = t /\ c[r] # "gone"}

\* The earliest time that is known, or the zero time.
Earliest(times) ==
    IF times \subseteq {0} THEN 0
    ELSE CHOOSE t \in times \ {0} : \A u \in times \ {0} : t <= u

Times(S) == {Info[r].time : r \in S}

Tagged(r, d) == Info[r].tag /\ Info[r].dep = d

Named(r, d) == Info[r].named /\ Info[r].dep = d

-----------------------------------------------------------------------------
(* aws *)

\* The Resource Groups Tagging API of a region: every resource with a tag.
GetResources(c, loc) ==
    {r \in Resources : /\ Info[r].p = "aws" /\ Info[r].tag /\ c[r] # "gone"
                       /\ Info[r].loc = loc \/ (Info[r].loc = "global" /\ loc = GlobalRegion)}

recordTaggedResource(c, loc, d) ==
    {[r |-> r, via |-> "tagging"] : r \in {q \in GetResources(c, loc) : Tagged(q, d)}}

discoverIAMRoles(c, d, lost) ==
    IF "iam-role" \in lost THEN {}
    ELSE {[r |-> r, via |-> "iam"] : r \in {q \in Listed(c, "aws", "iam-role") : Tagged(q, d) \/ Named(q, d)}}

discoverIAMInstanceProfiles(c, d, lost) ==
    IF "iam-instance-profile" \in lost THEN {}
    ELSE {[r |-> r, via |-> "iam"] :
              r \in {q \in Listed(c, "aws", "iam-instance-profile") : Tagged(q, d) \/ Named(q, d)}}

awsDetails(c, loc, d, lost) ==
    recordTaggedResource(c, loc, d) \cup discoverIAMRoles(c, d, lost)
        \cup discoverIAMInstanceProfiles(c, d, lost)

\* The tagged resources that count towards a summary of deployment d.
recordTaggedSummaryResource(c, loc, d, owners, legacy) ==
    {r \in GetResources(c, loc) : /\ Tagged(r, d) /\ d \in Formatted
                                  /\ Info[r].owner \in owners
                                  /\ legacy \/ Info[r].project}

UpdateCreatedAtFromTag(S) == Earliest({Info[r].tagTime : r \in S})

enrichSummaryFromEC2Instances(created, S, lost) ==
    LET ec2 == {r \in S : Info[r].type = "ec2-instance"}
    IN  IF "ec2-instance" \in lost THEN created ELSE Earliest({created} \cup Times(ec2))

applyEBSFallbackCreatedAt(created, S, lost) ==
    LET ebs == {r \in S : Info[r].type = "ebs-volume"}
    IN  IF created # 0 \/ "ebs-volume" \in lost THEN created ELSE Earliest(Times(ebs))

applySSMFallbackCreatedAt(created, S, lost) ==
    LET ssm == {r \in S : Info[r].type = "ssm-parameter"}
    IN  IF created # 0 \/ "ssm-parameter" \in lost THEN created ELSE Earliest(Times(ssm))

awsCreatedAt(S, lost) ==
    applySSMFallbackCreatedAt(
        applyEBSFallbackCreatedAt(
            enrichSummaryFromEC2Instances(UpdateCreatedAtFromTag(S), S, lost), S, lost), S, lost)

\* Mutant: a failed describe call counts as no instance.
markOrphanedSummariesEarly(S, c, lost) ==
    IF "ec2-instance" \in lost \/ \A r \in S : Info[r].type # "ec2-instance" THEN "orphaned" ELSE "unknown"

\* A describe call that fails leaves the state unknown, and only a deployment
\* without instances is orphaned.
markOrphanedSummaries(S, c, lost) ==
    LET ec2 == {r \in S : Info[r].type = "ec2-instance"} IN
    CASE ec2 = {} -> "orphaned"
      [] ec2 # {} /\ "ec2-instance" \in lost -> "unknown"
      [] ec2 # {} /\ "ec2-instance" \notin lost ->
            IF \E r \in ec2 : c[r] = "running" THEN "active"
            ELSE IF \E r \in ec2 : c[r] = "stopped" THEN "stopped" ELSE "unknown"

-----------------------------------------------------------------------------
(* exoscale *)

collectInstanceDetails(c, d) ==
    {r \in Listed(c, "exoscale", "exoscale-compute-instance") : Tagged(r, d) \/ Named(r, d)}

collectBlockStorageVolumeDetails(c, d) ==
    {r \in Listed(c, "exoscale", "exoscale-block-storage-volume") : Tagged(r, d)}

collectPrivateNetworkDetails(c, d) ==
    {r \in Listed(c, "exoscale", "exoscale-private-network") : Tagged(r, d) \/ Named(r, d)}

collectSecurityGroupDetails(c, d) ==
    {r \in Listed(c, "exoscale", "exoscale-security-group") : Named(r, d)}

collectSSHKeyDetails(c, d) == {r \in Listed(c, "exoscale", "exoscale-ssh-key") : Named(r, d)}

collectIAMRoleDetails(c, d) ==
    {r \in Listed(c, "exoscale", "exoscale-iam-role") : Tagged(r, d) \/ Named(r, d)}

collectIAMAPIKeyDetails(c, d) == {r \in Listed(c, "exoscale", "exoscale-iam-api-key") : Named(r, d)}

collectSOSBucketDetails(c, d) == {r \in Listed(c, "exoscale", "sos-bucket") : Named(r, d)}

\* CollectDeploymentDetails: a listing that fails is logged and skipped.
exoscaleDetails(c, loc, d, lost) ==
    LET found == UNION {collectInstanceDetails(c, d), collectBlockStorageVolumeDetails(c, d),
                        collectPrivateNetworkDetails(c, d), collectSecurityGroupDetails(c, d),
                        collectSSHKeyDetails(c, d), collectIAMRoleDetails(c, d),
                        collectIAMAPIKeyDetails(c, d), collectSOSBucketDetails(c, d)}
    IN  {[r |-> r, via |-> "list"] : r \in {q \in found : /\ Info[q].loc \in {loc, "global"}
                                                          /\ Info[q].type \notin lost}}

\* The labelled resources of a type that count towards a summary of d.
Labelled(c, t, d, owners, lost) ==
    {r \in Listed(c, "exoscale", t) : Tagged(r, d) /\ Info[r].owner \in owners /\ t \notin lost}

discoverSummariesFromInstances(c, d, owners) ==
    Labelled(c, "exoscale-compute-instance", d, owners, {})

discoverSummariesFromVolumes(c, d, owners, lost) ==
    Labelled(c, "exoscale-block-storage-volume", d, owners, lost)

discoverSummariesFromPrivateNetworks(c, d, owners, lost) ==
    Labelled(c, "exoscale-private-network", d, owners, lost)

\* Networks make a deployment known but say nothing of its age.
exoscaleCreatedAt(S) ==
    Earliest(Times({r \in S : Info[r].type \in {"exoscale-compute-instance", "exoscale-block-storage-volume"}}))

applyInstanceStateToSummary(S, c) ==
    LET here == {r \in S : Info[r].type = "exoscale-compute-instance"} IN
    IF \E r \in here : c[r] = "running" THEN "active"
    ELSE IF \E r \in here : c[r] = "stopped" THEN "stopped" ELSE "unknown"

-----------------------------------------------------------------------------
(* stackit *)

\* What a conversion keeps of a resource: the deployments of its tag, of its
\* name, and its creation time.
Meta(r, labels, name, time) ==
    [tag  |-> IF labels /\ Info[r].tag THEN {Info[r].dep} ELSE {},
     name |-> IF name /\ Info[r].named THEN {Info[r].dep} ELSE {},
     time |-> IF time THEN Info[r].time ELSE 0]

ResourceMetaFromServer(r) == Meta(r, TRUE, TRUE, TRUE)

ResourceMetaFromVolume(r) == Meta(r, TRUE, TRUE, TRUE)

ResourceMetaFromNetwork(r) == Meta(r, TRUE, TRUE, TRUE)

ResourceMetaFromNIC(r) == Meta(r, TRUE, TRUE, FALSE)

\* The name of a public address is the address.
ResourceMetaFromPublicIP(r) == Meta(r, TRUE, FALSE, FALSE)

ResourceMetaFromSecurityGroup(r) == Meta(r, TRUE, TRUE, TRUE)

ResourceMetaFromBucket(r) == Meta(r, FALSE, TRUE, FALSE)

ResourceMetaFromAccessKey(r) == Meta(r, FALSE, TRUE, FALSE)

ResourceMetaFromCredentialsGroup(r) == Meta(r, FALSE, TRUE, FALSE)

stackitMeta(r) ==
    LET t == Info[r].type IN
    CASE t = "stackit-server" -> ResourceMetaFromServer(r)
      [] t = "stackit-volume" -> ResourceMetaFromVolume(r)
      [] t = "stackit-network" -> ResourceMetaFromNetwork(r)
      [] t = "stackit-network-interface" -> ResourceMetaFromNIC(r)
      [] t = "stackit-public-ip" -> ResourceMetaFromPublicIP(r)
      [] t = "stackit-security-group" -> ResourceMetaFromSecurityGroup(r)
      [] t = "stackit-objectstorage-bucket" -> ResourceMetaFromBucket(r)
      [] t = "stackit-objectstorage-credential" -> ResourceMetaFromAccessKey(r)
      [] t = "stackit-objectstorage-credential-group" -> ResourceMetaFromCredentialsGroup(r)

\* A listing that fails is logged and taken for an empty one.
Items(c, loc, t, lost) ==
    IF t \in lost THEN {} ELSE {r \in Listed(c, "stackit", t) : Info[r].loc = loc}

collectServers(c, loc, lost) == Items(c, loc, "stackit-server", lost)

collectVolumes(c, loc, lost) == Items(c, loc, "stackit-volume", lost)

\* Interfaces are listed network by network: they are lost with the networks.
collectNetworkInterfaces(c, loc, lost) ==
    IF "stackit-network" \in lost THEN {} ELSE Items(c, loc, "stackit-network-interface", lost)

collectNetworks(c, loc, lost) ==
    Items(c, loc, "stackit-network", lost) \cup collectNetworkInterfaces(c, loc, lost)

collectSecurityGroups(c, loc, lost) == Items(c, loc, "stackit-security-group", lost)

collectPublicIPs(c, loc, lost) == Items(c, loc, "stackit-public-ip", lost)

collectBuckets(c, loc, lost) == Items(c, loc, "stackit-objectstorage-bucket", lost)

collectAccessKeys(c, loc, lost) == Items(c, loc, "stackit-objectstorage-credential", lost)

collectCredentialsGroups(c, loc, lost) == Items(c, loc, "stackit-objectstorage-credential-group", lost)

CollectResources(c, loc, lost) ==
    UNION {collectServers(c, loc, lost), collectVolumes(c, loc, lost), collectNetworks(c, loc, lost),
           collectSecurityGroups(c, loc, lost), collectPublicIPs(c, loc, lost),
           collectBuckets(c, loc, lost), collectAccessKeys(c, loc, lost),
           collectCredentialsGroups(c, loc, lost)}

isDeployment(meta, d) == d \in meta.tag \cup meta.name

stackitDetails(c, loc, d, lost) ==
    {[r |-> r, via |-> "list"] : r \in {q \in CollectResources(c, loc, lost) : isDeployment(stackitMeta(q), d)}}

\* Any value of the tag, or else a name of the right form.
getDeploymentId(meta) == IF meta.tag # {} THEN meta.tag ELSE meta.name \cap Formatted

\* observe: the owner comes from tags alone.
stackitOwner(S) ==
    LET owners == {Info[r].owner : r \in {q \in S : stackitMeta(q).tag # {}}}
    IN  IF owners = {} THEN {"-"} ELSE owners

stackitCreatedAt(S) == Earliest({stackitMeta(r).time : r \in S})

deploymentState(S, c) ==
    LET servers == {r \in S : Info[r].type = "stackit-server"} IN
    CASE servers = {} -> "orphaned"
      [] \E r \in servers : c[r] = "running" -> "active"
      [] servers # {} /\ \A r \in servers : c[r] # "running" ->
            IF \E r \in servers : c[r] = "stopped" THEN "stopped" ELSE "terminated"

-----------------------------------------------------------------------------
(* azure *)

matchesDeploymentTags(r, legacy) ==
    Info[r].tag /\ Info[r].dep \in Formatted /\ (legacy \/ Info[r].project)

matchesLocation(loc, r) == loc = "all" \/ Info[r].loc = loc

summarizeDeploymentGroup(c, loc, d, owners, legacy) ==
    {r \in Listed(c, "azure", "azure-resource-group") :
        Info[r].dep = d /\ matchesDeploymentTags(r, legacy) /\ matchesLocation(loc, r)
            /\ Info[r].owner \in owners}

\* findDeploymentGroup looks at the Deployment tag only.
findDeploymentGroup(c, d) == {r \in Listed(c, "azure", "azure-resource-group") : Tagged(r, d)}

listResourcesInGroup(c, d) ==
    {r \in Resources : Info[r].p = "azure" /\ Info[r].dep = d /\ Info[r].type # "azure-resource-group"
                           /\ c[r] # "gone"}

azureDetails(c, d) ==
    IF findDeploymentGroup(c, d) = {} THEN {}
    ELSE {[r |-> r, via |-> "list"] : r \in findDeploymentGroup(c, d) \cup listResourcesInGroup(c, d)}

deriveState(c, d) ==
    CASE \E r \in listResourcesInGroup(c, d) : Info[r].type = "azure-vm" -> "active"
      [] listResourcesInGroup(c, d) # {} /\ \A r \in listResourcesInGroup(c, d) : Info[r].type # "azure-vm" ->
            "orphaned"
      [] listResourcesInGroup(c, d) = {} -> "unknown"

-----------------------------------------------------------------------------
(* The collector interface *)

\* The calls that end a collection with an error when they fail; a failure of
\* any other call only hides what it would have listed.
Fatal(p) ==
    CASE p = "aws" -> {"tagging"}
      [] p = "exoscale" -> {"exoscale-compute-instance"}
      [] p = "stackit" -> {"credentials"}
      [] p = "azure" -> {"azure-resource-group", "azure-resource"}

\* The same for CollectDeploymentDetails.
FatalDetails(p) == IF p = "exoscale" THEN {"credentials"} ELSE Fatal(p)

\* Resources are grouped by deployment first; the owner filter is on the group.
stackitMembers(c, loc, d, owners, lost) ==
    LET S == {r \in CollectResources(c, loc, lost) : d \in getDeploymentId(stackitMeta(r))}
    IN  IF stackitOwner(S) \cap owners = {} THEN {} ELSE S

\* CollectDeploymentSummaries: the resources behind the summary of d.
SummaryMembers(p, c, loc, d, owners, legacy, lost) ==
    CASE p = "aws" -> recordTaggedSummaryResource(c, loc, d, owners, legacy)
      [] p = "exoscale" ->
            {r \in discoverSummariesFromInstances(c, d, owners)
                    \cup discoverSummariesFromVolumes(c, d, owners, lost)
                    \cup discoverSummariesFromPrivateNetworks(c, d, owners, lost) : Info[r].loc = loc}
      [] p = "stackit" -> stackitMembers(c, loc, d, owners, lost)
      [] p = "azure" -> summarizeDeploymentGroup(c, loc, d, owners, legacy)

CreatedAt(p, S, lost) ==
    CASE p = "aws" -> awsCreatedAt(S, lost)
      [] p = "exoscale" -> exoscaleCreatedAt(S)
      [] p = "stackit" -> stackitCreatedAt(S)
      [] p = "azure" -> Earliest({Info[r].tagTime : r \in S})

StateShown(p, c, S, d, lost) ==
    CASE p = "aws" -> markOrphanedSummaries(S, c, lost)
      [] p = "exoscale" -> applyInstanceStateToSummary(S, c)
      [] p = "stackit" -> deploymentState(S, c)
      [] p = "azure" -> deriveState(c, d)

CollectDeploymentDetails(p, c, loc, d, lost) ==
    CASE p = "aws" -> awsDetails(c, loc, d, lost)
      [] p = "exoscale" -> exoscaleDetails(c, loc, d, lost)
      [] p = "stackit" -> stackitDetails(c, loc, d, lost)
      [] p = "azure" -> azureDetails(c, d)

-----------------------------------------------------------------------------
(* BuildPlan: the phases of a cleanup *)

\* Mutant: the VPC is deleted before what it contains.
awsPhasesVPCFirst ==
    << {"ec2-instance"}, {"ec2-key-pair"}, {"iam-instance-profile"}, {"iam-role"}, {"ebs-volume"},
       {"vpc"}, {"vpc-endpoint", "internet-gateway", "route-table", "security-group"},
       {"subnet"}, {"ssm-parameter"}, {"s3-bucket"} >>

awsPhases ==
    << {"ec2-instance"}, {"ec2-key-pair"}, {"iam-instance-profile"}, {"iam-role"}, {"ebs-volume"},
       {"vpc-endpoint", "internet-gateway", "route-table", "security-group"},
       {"subnet"}, {"vpc"}, {"ssm-parameter"}, {"s3-bucket"} >>

exoscalePhases ==
    << {"exoscale-compute-instance"}, {"exoscale-block-storage-volume"}, {"exoscale-iam-api-key"},
       {"exoscale-iam-role"}, {"exoscale-private-network", "exoscale-security-group"},
       {"exoscale-ssh-key"}, {"sos-bucket"} >>

stackitPhases ==
    << {"stackit-server"}, {"stackit-volume"}, {"stackit-public-ip"}, {"stackit-network-interface"},
       {"stackit-network"}, {"stackit-security-group"}, {"stackit-objectstorage-bucket"},
       {"stackit-objectstorage-credential"}, {"stackit-objectstorage-credential-group"} >>

\* Only the group is deleted, after everything in it has been listed.
azurePhases == << {"azure-resource-group"} >>

Phases(p) ==
    CASE p = "aws" -> awsPhases
      [] p = "exoscale" -> exoscalePhases
      [] p = "stackit" -> stackitPhases
      [] p = "azure" -> azurePhases

\* Times are numbers.  A type belongs to one provider, and IAM to no region.
ASSUME ProvidersAssumption ==
    \A r \in Resources :
        /\ Info[r].p \in Providers /\ Info[r].time \in Nat /\ Info[r].tagTime \in Nat
        /\ \A p \in Providers : \A i \in DOMAIN Phases(p) : Info[r].type \in Phases(p)[i] => Info[r].p = p
        /\ Info[r].type = "azure-vm" => Info[r].p = "azure"
        /\ Info[r].type \in {"iam-role", "iam-instance-profile"} => Info[r].loc = "global"

\* The phase of every resource; 0 for a type that no phase has.
PhaseOf ==
    [r \in Resources |->
        LET phases == Phases(Info[r].p) IN
        IF \E i \in DOMAIN phases : Info[r].type \in phases[i]
        THEN CHOOSE i \in DOMAIN phases : Info[r].type \in phases[i]
        ELSE 0]

Included(r, types) == types = {} \/ Info[r].type \in types

\* resourceMatchesPhase: a type of no phase is never planned.  No collector
\* marks a resource as protected.
resourceMatchesPhase(r, types) == PhaseOf[r] # 0 /\ Included(r, types)

\* azure plans what the group contains as skipped actions.
azurePlanActions(details, types) == {x \in details : Included(x.r, types)}

PlanActions(p, details, types) ==
    IF p = "azure" THEN azurePlanActions(details, types)
    ELSE {x \in details : resourceMatchesPhase(x.r, types)}

\* Phases in order, and within a phase the order of the listings; what goes
\* with its group comes first.
actionsForPhase(plan) == {x \in plan : \A y \in plan : PhaseOf[x.r] <= PhaseOf[y.r]}

-----------------------------------------------------------------------------
(* Handlers.  A handler is told what its client sees of the resource       *)
(*   absent   nothing: it is gone, or it is in another location            *)
(*   free     nothing is in its way                                        *)
(*   held     another resource depends on it                               *)
(* whether attempts are left, and how many pages a bucket holds; it tells  *)
(* what comes of the call.                                                 *)

Verdicts == {"deleted", "terminating", "already", "retry", "failed"}

\* A loop over attempts that ends with the last error; absent is what an
\* unknown resource counts for.
Attempts(view, more, absent) ==
    CASE view = "absent" -> absent
      [] view = "free" -> "deleted"
      [] view = "held" -> IF more THEN "retry" ELSE "failed"

\* One call; its refusal is the result.
Once(view) ==
    CASE view = "absent" -> "already"
      [] view = "free" -> "deleted"
      [] view = "held" -> "failed"

\* An instance is told to terminate and not waited for.
ec2InstanceDelete(view) == IF view = "absent" THEN "already" ELSE "terminating"

\* Wait until the volume is detached, then delete it in any case.
ec2VolumeDelete(view, more) == Attempts(view, more, "already")

\* The gateway cannot be detached while addresses behind it are in use.
detachFromVPC(view, more) == Attempts(view, more, "failed")

\* Routes go first; nothing holds a detached gateway, and an unknown one is an error.
ec2InternetGatewayDelete(view, more) == detachFromVPC(view, more)

\* endpointVPC tells an endpoint that is missing; a failed delete is repeated
\* once after removeRoutesReferencingEndpoint.
ec2VpcEndpointDelete(view) == IF view = "absent" THEN "already" ELSE "deleted"

\* disassociateRouteTableAssociation refuses the main table.
ec2RouteTableDelete(view, refused) == IF view = "absent" \/ refused THEN "failed" ELSE "deleted"

ec2SecurityGroupDelete(view, refused, more) ==
    IF refused THEN "failed" ELSE Attempts(view, more, "failed")

ec2SubnetDelete(view, more) == Attempts(view, more, "failed")

ec2VPCDelete(view, more) == Attempts(view, more, "failed")

ec2KeyPairDelete(view) == IF view = "absent" THEN "already" ELSE "deleted"

ssmParamDelete(view) == IF view = "absent" THEN "already" ELSE "deleted"

\* deleteObjectVersions and deleteCurrentObjects empty one page each; a bucket
\* that holds more cannot be deleted.
s3BucketDelete(view, pages) ==
    CASE view = "absent" -> "already"
      [] view # "absent" -> IF pages > 1 THEN "failed" ELSE "deleted"

\* A role loses its policies first; errors of that do not count.
iamRoleDelete(view) == Once(view)

iamInstanceProfileDelete(view) == Once(view)

\* exoscale handlers wait for the operation they started.
computeInstanceDelete(view) == Once(view)

blockStorageVolumeDelete(view, more) == Attempts(view, more, "already")

privateNetworkDelete(view) == Once(view)

securityGroupDelete(view) == Once(view)

sshKeyDelete(view) == Once(view)

exoscaleIAMRoleDelete(view) == Once(view)

iamAPIKeyDelete(view) == Once(view)

sosBucketDelete(view, pages) ==
    CASE view = "absent" -> "already"
      [] view # "absent" -> IF pages > 1 THEN "failed" ELSE "deleted"

\* A conflict is tried again, and an absent resource is deleted.
deleteWithRetry(view, more) == Attempts(view, more, "already")

DeleteServer(view, more) == deleteWithRetry(view, more)

DeleteVolume(view, more) == deleteWithRetry(view, more)

DeletePublicIP(view, more) == deleteWithRetry(view, more)

DeleteNetworkInterface(view, more) == deleteWithRetry(view, more)

DeleteSecurityGroup(view, more) == deleteWithRetry(view, more)

DeleteNetwork(view, more) == deleteWithRetry(view, more)

\* emptyObjectStorageBucket follows every page.
DeleteObjectStorageBucket(view, pages) == IF view = "absent" THEN "already" ELSE "deleted"

DeleteObjectStorageCredential(view) == IF view = "absent" THEN "already" ELSE "deleted"

\* A group that still has access keys loses them first.
DeleteObjectStorageCredentialsGroup(view) == IF view = "absent" THEN "already" ELSE "deleted"

\* The deletion of a group is awaited; an unknown group is an error.
deleteResourceGroup(view) == IF view = "absent" THEN "failed" ELSE "deleted"

\* deleteResource: the handler of a type.
Handle(r, view, more, pages) ==
    LET t == Info[r].type IN
    CASE t = "ec2-instance" -> ec2InstanceDelete(view)
      [] t = "ebs-volume" -> ec2VolumeDelete(view, more)
      [] t = "internet-gateway" -> ec2InternetGatewayDelete(view, more)
      [] t = "vpc-endpoint" -> ec2VpcEndpointDelete(view)
      [] t = "route-table" -> ec2RouteTableDelete(view, Info[r].refused)
      [] t = "security-group" -> ec2SecurityGroupDelete(view, Info[r].refused, more)
      [] t = "subnet" -> ec2SubnetDelete(view, more)
      [] t = "vpc" -> ec2VPCDelete(view, more)
      [] t = "ec2-key-pair" -> ec2KeyPairDelete(view)
      [] t = "ssm-parameter" -> ssmParamDelete(view)
      [] t = "s3-bucket" -> s3BucketDelete(view, pages)
      [] t = "iam-role" -> iamRoleDelete(view)
      [] t = "iam-instance-profile" -> iamInstanceProfileDelete(view)
      [] t = "exoscale-compute-instance" -> computeInstanceDelete(view)
      [] t = "exoscale-block-storage-volume" -> blockStorageVolumeDelete(view, more)
      [] t = "exoscale-private-network" -> privateNetworkDelete(view)
      [] t = "exoscale-security-group" -> securityGroupDelete(view)
      [] t = "exoscale-ssh-key" -> sshKeyDelete(view)
      [] t = "exoscale-iam-role" -> exoscaleIAMRoleDelete(view)
      [] t = "exoscale-iam-api-key" -> iamAPIKeyDelete(view)
      [] t = "sos-bucket" -> sosBucketDelete(view, pages)
      [] t = "stackit-server" -> DeleteServer(view, more)
      [] t = "stackit-volume" -> DeleteVolume(view, more)
      [] t = "stackit-public-ip" -> DeletePublicIP(view, more)
      [] t = "stackit-network-interface" -> DeleteNetworkInterface(view, more)
      [] t = "stackit-network" -> DeleteNetwork(view, more)
      [] t = "stackit-security-group" -> DeleteSecurityGroup(view, more)
      [] t = "stackit-objectstorage-bucket" -> DeleteObjectStorageBucket(view, pages)
      [] t = "stackit-objectstorage-credential" -> DeleteObjectStorageCredential(view)
      [] t = "stackit-objectstorage-credential-group" -> DeleteObjectStorageCredentialsGroup(view)
      [] t = "azure-resource-group" -> deleteResourceGroup(view)

-----------------------------------------------------------------------------
(* The clouds *)

\* What has to be gone before a resource of type t can be deleted.
Holders(t) ==
    CASE t \in {"ebs-volume", "internet-gateway", "security-group", "subnet"} -> {"ec2-instance"}
      [] t = "vpc" -> {"subnet", "internet-gateway", "route-table", "security-group", "vpc-endpoint"}
      [] t = "iam-role" -> {"iam-instance-profile"}
      [] t \in {"exoscale-block-storage-volume", "exoscale-private-network",
                "exoscale-security-group"} -> {"exoscale-compute-instance"}
      [] t = "exoscale-iam-role" -> {"exoscale-iam-api-key"}
      [] t \in {"stackit-volume", "stackit-network-interface"} -> {"stackit-server"}
      [] t \in {"stackit-network", "stackit-security-group"} -> {"stackit-network-interface"}
      [] OTHER -> {}

HeldBy(c, r) ==
    {q \in Resources : /\ Info[q].dep = Info[r].dep /\ Info[q].type \in Holders(Info[r].type)
                       /\ ~Info[q].refused /\ c[q] # "gone"}

\* What goes with a resource: the contents of a resource group, the keys of a
\* credentials group.
Cascade(r) ==
    {r} \cup CASE Info[r].type = "azure-resource-group" ->
                    {q \in Resources : Info[q].p = "azure" /\ Info[q].dep = Info[r].dep}
               [] Info[r].type = "stackit-objectstorage-credential-group" ->
                    {q \in Resources : Info[q].type = "stackit-objectstorage-credential"
                                         /\ Info[q].dep = Info[r].dep}
               [] OTHER -> {}

=============================================================================
