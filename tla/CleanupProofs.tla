----------------------------- MODULE CleanupProofs ----------------------------
(***************************************************************************)
(* Theorems about Cleanup, for any account, search targets, command lines, *)
(* deployments, failing calls and number of processes: the types of its    *)
(* state; that what run reports as deleted is gone and that an exit with 0 *)
(* leaves nothing behind; that the order of the phases is the right one;   *)
(* and that a failing lookup makes no deployment older or emptier than it  *)
(* is.  What the accounts must be like is stated as OneLocation, Visible,  *)
(* Settled and Recognisable.                                               *)
(***************************************************************************)
EXTENDS Cleanup, WellFoundedInduction, FiniteSetTheorems, TLAPS

-----------------------------------------------------------------------------
(* The phases and the handlers *)

\* The types that some phase of a provider deletes.
AwsTypes == {"ec2-instance", "ec2-key-pair", "iam-instance-profile", "iam-role", "ebs-volume",
             "vpc-endpoint", "internet-gateway", "route-table", "security-group", "subnet", "vpc",
             "ssm-parameter", "s3-bucket"}
ExoscaleTypes == {"exoscale-compute-instance", "exoscale-block-storage-volume", "exoscale-iam-api-key",
                  "exoscale-iam-role", "exoscale-private-network", "exoscale-security-group",
                  "exoscale-ssh-key", "sos-bucket"}
StackitTypes == {"stackit-server", "stackit-volume", "stackit-public-ip", "stackit-network-interface",
                 "stackit-network", "stackit-security-group", "stackit-objectstorage-bucket",
                 "stackit-objectstorage-credential", "stackit-objectstorage-credential-group"}
TypesOf(p) ==
    CASE p = "aws" -> AwsTypes [] p = "exoscale" -> ExoscaleTypes
      [] p = "stackit" -> StackitTypes [] p = "azure" -> {"azure-resource-group"}

\* The phases of the types of aws.
LEMMA PhasesOfAws ==
    ASSUME NEW r \in Resources, Info[r].p = "aws"
    PROVE  /\ PhaseOf[r] \in 0..10 /\ (PhaseOf[r] # 0 <=> Info[r].type \in AwsTypes)
           /\ Info[r].type \in {"ec2-instance"} => PhaseOf[r] = 1
           /\ Info[r].type \in {"ec2-key-pair"} => PhaseOf[r] = 2
           /\ Info[r].type \in {"iam-instance-profile"} => PhaseOf[r] = 3
           /\ Info[r].type \in {"iam-role"} => PhaseOf[r] = 4
           /\ Info[r].type \in {"ebs-volume"} => PhaseOf[r] = 5
           /\ Info[r].type \in {"vpc-endpoint", "internet-gateway", "route-table", "security-group"}
                 => PhaseOf[r] = 6
           /\ Info[r].type \in {"subnet"} => PhaseOf[r] = 7
           /\ Info[r].type \in {"vpc"} => PhaseOf[r] = 8
           /\ Info[r].type \in {"ssm-parameter"} => PhaseOf[r] = 9
           /\ Info[r].type \in {"s3-bucket"} => PhaseOf[r] = 10
<1>1. Phases("aws") = awsPhases BY DEF Phases
<1>2. DOMAIN awsPhases = 1..10 BY DEF awsPhases
<1>3. \A t : \A i \in 1..10 : t \in awsPhases[i] <=>
         \/ i = 1 /\ t \in {"ec2-instance"}
         \/ i = 2 /\ t \in {"ec2-key-pair"}
         \/ i = 3 /\ t \in {"iam-instance-profile"}
         \/ i = 4 /\ t \in {"iam-role"}
         \/ i = 5 /\ t \in {"ebs-volume"}
         \/ i = 6 /\ t \in {"vpc-endpoint", "internet-gateway", "route-table", "security-group"}
         \/ i = 7 /\ t \in {"subnet"}
         \/ i = 8 /\ t \in {"vpc"}
         \/ i = 9 /\ t \in {"ssm-parameter"}
         \/ i = 10 /\ t \in {"s3-bucket"}
  BY DEF awsPhases
<1>4. \A t : (\E i \in 1..10 : t \in awsPhases[i]) <=> t \in AwsTypes BY <1>3 DEF AwsTypes
<1>5. PhaseOf[r] = IF \E i \in 1..10 : Info[r].type \in awsPhases[i]
                   THEN CHOOSE i \in 1..10 : Info[r].type \in awsPhases[i] ELSE 0
  BY <1>1, <1>2 DEF PhaseOf
<1>6. \A i \in 1..10 : Info[r].type \in awsPhases[i] => PhaseOf[r] = i
  <2>1. \A i, j \in 1..10 : Info[r].type \in awsPhases[i] /\ Info[r].type \in awsPhases[j] => i = j
    BY <1>3
  <2>2. \A i \in 1..10 : Info[r].type \in awsPhases[i]
           => PhaseOf[r] \in 1..10 /\ Info[r].type \in awsPhases[PhaseOf[r]]
    BY <1>5
  <2> QED BY <2>1, <2>2
<1>7. PhaseOf[r] \in 0..10 /\ (PhaseOf[r] # 0 <=> Info[r].type \in AwsTypes)
  BY <1>4, <1>5, <1>6
<1>11. Info[r].type \in {"ec2-instance"} => PhaseOf[r] = 1 BY <1>3, <1>6
<1>12. Info[r].type \in {"ec2-key-pair"} => PhaseOf[r] = 2 BY <1>3, <1>6
<1>13. Info[r].type \in {"iam-instance-profile"} => PhaseOf[r] = 3 BY <1>3, <1>6
<1>14. Info[r].type \in {"iam-role"} => PhaseOf[r] = 4 BY <1>3, <1>6
<1>15. Info[r].type \in {"ebs-volume"} => PhaseOf[r] = 5 BY <1>3, <1>6
<1>16. Info[r].type \in {"vpc-endpoint", "internet-gateway", "route-table", "security-group"}
           => PhaseOf[r] = 6
  BY <1>3, <1>6
<1>17. Info[r].type \in {"subnet"} => PhaseOf[r] = 7 BY <1>3, <1>6
<1>18. Info[r].type \in {"vpc"} => PhaseOf[r] = 8 BY <1>3, <1>6
<1>19. Info[r].type \in {"ssm-parameter"} => PhaseOf[r] = 9 BY <1>3, <1>6
<1>20. Info[r].type \in {"s3-bucket"} => PhaseOf[r] = 10 BY <1>3, <1>6
<1> QED BY <1>7, <1>11, <1>12, <1>13, <1>14, <1>15, <1>16, <1>17, <1>18, <1>19, <1>20

\* The phases of the types of exoscale.
LEMMA PhasesOfExoscale ==
    ASSUME NEW r \in Resources, Info[r].p = "exoscale"
    PROVE  /\ PhaseOf[r] \in 0..7 /\ (PhaseOf[r] # 0 <=> Info[r].type \in ExoscaleTypes)
           /\ Info[r].type \in {"exoscale-compute-instance"} => PhaseOf[r] = 1
           /\ Info[r].type \in {"exoscale-block-storage-volume"} => PhaseOf[r] = 2
           /\ Info[r].type \in {"exoscale-iam-api-key"} => PhaseOf[r] = 3
           /\ Info[r].type \in {"exoscale-iam-role"} => PhaseOf[r] = 4
           /\ Info[r].type \in {"exoscale-private-network", "exoscale-security-group"} => PhaseOf[r] = 5
           /\ Info[r].type \in {"exoscale-ssh-key"} => PhaseOf[r] = 6
           /\ Info[r].type \in {"sos-bucket"} => PhaseOf[r] = 7
<1>1. Phases("exoscale") = exoscalePhases BY DEF Phases
<1>2. DOMAIN exoscalePhases = 1..7 BY DEF exoscalePhases
<1>3. \A t : \A i \in 1..7 : t \in exoscalePhases[i] <=>
         \/ i = 1 /\ t \in {"exoscale-compute-instance"}
         \/ i = 2 /\ t \in {"exoscale-block-storage-volume"}
         \/ i = 3 /\ t \in {"exoscale-iam-api-key"}
         \/ i = 4 /\ t \in {"exoscale-iam-role"}
         \/ i = 5 /\ t \in {"exoscale-private-network", "exoscale-security-group"}
         \/ i = 6 /\ t \in {"exoscale-ssh-key"}
         \/ i = 7 /\ t \in {"sos-bucket"}
  BY DEF exoscalePhases
<1>4. \A t : (\E i \in 1..7 : t \in exoscalePhases[i]) <=> t \in ExoscaleTypes BY <1>3 DEF ExoscaleTypes
<1>5. PhaseOf[r] = IF \E i \in 1..7 : Info[r].type \in exoscalePhases[i]
                   THEN CHOOSE i \in 1..7 : Info[r].type \in exoscalePhases[i] ELSE 0
  BY <1>1, <1>2 DEF PhaseOf
<1>6. \A i \in 1..7 : Info[r].type \in exoscalePhases[i] => PhaseOf[r] = i
  <2>1. \A i, j \in 1..7 : Info[r].type \in exoscalePhases[i] /\ Info[r].type \in exoscalePhases[j] => i = j
    BY <1>3
  <2>2. \A i \in 1..7 : Info[r].type \in exoscalePhases[i]
           => PhaseOf[r] \in 1..7 /\ Info[r].type \in exoscalePhases[PhaseOf[r]]
    BY <1>5
  <2> QED BY <2>1, <2>2
<1>7. PhaseOf[r] \in 0..7 /\ (PhaseOf[r] # 0 <=> Info[r].type \in ExoscaleTypes)
  BY <1>4, <1>5, <1>6
<1>11. Info[r].type \in {"exoscale-compute-instance"} => PhaseOf[r] = 1 BY <1>3, <1>6
<1>12. Info[r].type \in {"exoscale-block-storage-volume"} => PhaseOf[r] = 2 BY <1>3, <1>6
<1>13. Info[r].type \in {"exoscale-iam-api-key"} => PhaseOf[r] = 3 BY <1>3, <1>6
<1>14. Info[r].type \in {"exoscale-iam-role"} => PhaseOf[r] = 4 BY <1>3, <1>6
<1>15. Info[r].type \in {"exoscale-private-network", "exoscale-security-group"} => PhaseOf[r] = 5 BY <1>3, <1>6
<1>16. Info[r].type \in {"exoscale-ssh-key"} => PhaseOf[r] = 6 BY <1>3, <1>6
<1>17. Info[r].type \in {"sos-bucket"} => PhaseOf[r] = 7 BY <1>3, <1>6
<1> QED BY <1>7, <1>11, <1>12, <1>13, <1>14, <1>15, <1>16, <1>17

\* The phases of the types of stackit.
LEMMA PhasesOfStackit ==
    ASSUME NEW r \in Resources, Info[r].p = "stackit"
    PROVE  /\ PhaseOf[r] \in 0..9 /\ (PhaseOf[r] # 0 <=> Info[r].type \in StackitTypes)
           /\ Info[r].type \in {"stackit-server"} => PhaseOf[r] = 1
           /\ Info[r].type \in {"stackit-volume"} => PhaseOf[r] = 2
           /\ Info[r].type \in {"stackit-public-ip"} => PhaseOf[r] = 3
           /\ Info[r].type \in {"stackit-network-interface"} => PhaseOf[r] = 4
           /\ Info[r].type \in {"stackit-network"} => PhaseOf[r] = 5
           /\ Info[r].type \in {"stackit-security-group"} => PhaseOf[r] = 6
           /\ Info[r].type \in {"stackit-objectstorage-bucket"} => PhaseOf[r] = 7
           /\ Info[r].type \in {"stackit-objectstorage-credential"} => PhaseOf[r] = 8
           /\ Info[r].type \in {"stackit-objectstorage-credential-group"} => PhaseOf[r] = 9
<1>1. Phases("stackit") = stackitPhases BY DEF Phases
<1>2. DOMAIN stackitPhases = 1..9 BY DEF stackitPhases
<1>3. \A t : \A i \in 1..9 : t \in stackitPhases[i] <=>
         \/ i = 1 /\ t \in {"stackit-server"}
         \/ i = 2 /\ t \in {"stackit-volume"}
         \/ i = 3 /\ t \in {"stackit-public-ip"}
         \/ i = 4 /\ t \in {"stackit-network-interface"}
         \/ i = 5 /\ t \in {"stackit-network"}
         \/ i = 6 /\ t \in {"stackit-security-group"}
         \/ i = 7 /\ t \in {"stackit-objectstorage-bucket"}
         \/ i = 8 /\ t \in {"stackit-objectstorage-credential"}
         \/ i = 9 /\ t \in {"stackit-objectstorage-credential-group"}
  BY DEF stackitPhases
<1>4. \A t : (\E i \in 1..9 : t \in stackitPhases[i]) <=> t \in StackitTypes BY <1>3 DEF StackitTypes
<1>5. PhaseOf[r] = IF \E i \in 1..9 : Info[r].type \in stackitPhases[i]
                   THEN CHOOSE i \in 1..9 : Info[r].type \in stackitPhases[i] ELSE 0
  BY <1>1, <1>2 DEF PhaseOf
<1>6. \A i \in 1..9 : Info[r].type \in stackitPhases[i] => PhaseOf[r] = i
  <2>1. \A i, j \in 1..9 : Info[r].type \in stackitPhases[i] /\ Info[r].type \in stackitPhases[j] => i = j
    BY <1>3
  <2>2. \A i \in 1..9 : Info[r].type \in stackitPhases[i]
           => PhaseOf[r] \in 1..9 /\ Info[r].type \in stackitPhases[PhaseOf[r]]
    BY <1>5
  <2> QED BY <2>1, <2>2
<1>7. PhaseOf[r] \in 0..9 /\ (PhaseOf[r] # 0 <=> Info[r].type \in StackitTypes)
  BY <1>4, <1>5, <1>6
<1>11. Info[r].type \in {"stackit-server"} => PhaseOf[r] = 1 BY <1>3, <1>6
<1>12. Info[r].type \in {"stackit-volume"} => PhaseOf[r] = 2 BY <1>3, <1>6
<1>13. Info[r].type \in {"stackit-public-ip"} => PhaseOf[r] = 3 BY <1>3, <1>6
<1>14. Info[r].type \in {"stackit-network-interface"} => PhaseOf[r] = 4 BY <1>3, <1>6
<1>15. Info[r].type \in {"stackit-network"} => PhaseOf[r] = 5 BY <1>3, <1>6
<1>16. Info[r].type \in {"stackit-security-group"} => PhaseOf[r] = 6 BY <1>3, <1>6
<1>17. Info[r].type \in {"stackit-objectstorage-bucket"} => PhaseOf[r] = 7 BY <1>3, <1>6
<1>18. Info[r].type \in {"stackit-objectstorage-credential"} => PhaseOf[r] = 8 BY <1>3, <1>6
<1>19. Info[r].type \in {"stackit-objectstorage-credential-group"} => PhaseOf[r] = 9 BY <1>3, <1>6
<1> QED BY <1>7, <1>11, <1>12, <1>13, <1>14, <1>15, <1>16, <1>17, <1>18, <1>19

\* The only type of azure that has a phase is the resource group.
LEMMA PhasesOfAzure ==
    ASSUME NEW r \in Resources, Info[r].p = "azure"
    PROVE  /\ PhaseOf[r] \in 0..1 /\ (PhaseOf[r] # 0 <=> Info[r].type \in {"azure-resource-group"})
           /\ Info[r].type \in {"azure-resource-group"} => PhaseOf[r] = 1
<1>1. Phases("azure") = azurePhases BY DEF Phases
<1>2. DOMAIN azurePhases = 1..1 BY DEF azurePhases
<1>3. \A t : \A i \in 1..1 : t \in azurePhases[i] <=>
         \/ i = 1 /\ t \in {"azure-resource-group"}
  BY DEF azurePhases
<1>4. \A t : (\E i \in 1..1 : t \in azurePhases[i]) <=> t \in {"azure-resource-group"} BY <1>3
<1>5. PhaseOf[r] = IF \E i \in 1..1 : Info[r].type \in azurePhases[i]
                   THEN CHOOSE i \in 1..1 : Info[r].type \in azurePhases[i] ELSE 0
  BY <1>1, <1>2 DEF PhaseOf
<1>6. \A i \in 1..1 : Info[r].type \in azurePhases[i] => PhaseOf[r] = i
  <2>1. \A i, j \in 1..1 : Info[r].type \in azurePhases[i] /\ Info[r].type \in azurePhases[j] => i = j
    BY <1>3
  <2>2. \A i \in 1..1 : Info[r].type \in azurePhases[i]
           => PhaseOf[r] \in 1..1 /\ Info[r].type \in azurePhases[PhaseOf[r]]
    BY <1>5
  <2> QED BY <2>1, <2>2
<1>7. PhaseOf[r] \in 0..1 /\ (PhaseOf[r] # 0 <=> Info[r].type \in {"azure-resource-group"})
  BY <1>4, <1>5, <1>6
<1>11. Info[r].type \in {"azure-resource-group"} => PhaseOf[r] = 1 BY <1>3, <1>6
<1> QED BY <1>7, <1>11

\* What an unknown resource is an error for.
Strict == {"internet-gateway", "route-table", "security-group", "subnet", "vpc", "azure-resource-group"}

\* What is deleted with one call that what holds it refuses.
Onces == {"iam-role", "iam-instance-profile", "exoscale-compute-instance", "exoscale-private-network",
          "exoscale-security-group", "exoscale-ssh-key", "exoscale-iam-role", "exoscale-iam-api-key"}

\* What a handler says of the view it was given.
Says(t, v, view, more, pages_, refused) ==
    /\ v \in Verdicts
    /\ v = "terminating" => t = "ec2-instance" /\ view # "absent"
    /\ v = "already" => view = "absent" /\ t # "azure-resource-group"
    /\ v = "deleted" => view # "absent" /\ t # "ec2-instance"
    /\ v = "retry" => more
    /\ v = "failed" => \/ view = "absent" /\ t \in Strict
                       \/ refused \/ (pages_ > 1 /\ t \in {"s3-bucket", "sos-bucket"})
                       \/ view = "held" /\ (~more \/ t \in Onces)

\* Every handler says what Says tells: it fails only for one of the reasons named there, and
\* only an instance of EC2 is left to terminate by itself.
LEMMA HandleSays ==
    ASSUME NEW r \in Resources, NEW view \in {"absent", "free", "held"}, NEW more \in BOOLEAN, NEW n,
           Info[r].type \in AwsTypes \cup ExoscaleTypes \cup StackitTypes \cup {"azure-resource-group"}
    PROVE  Says(Info[r].type, Handle(r, view, more, n), view, more, n, Info[r].refused)
<1>1. CASE Info[r].type = "ec2-instance"
  <2>1. Handle(r, view, more, n) = ec2InstanceDelete(view) BY <1>1 DEF Handle
  <2> QED BY <1>1, <2>1 DEF Says, Verdicts, Strict, Onces, ec2InstanceDelete
<1>2. CASE Info[r].type = "ebs-volume"
  <2>1. Handle(r, view, more, n) = ec2VolumeDelete(view, more) BY <1>2 DEF Handle
  <2> QED BY <1>2, <2>1 DEF Says, Verdicts, Strict, Onces, ec2VolumeDelete, Attempts
<1>3. CASE Info[r].type = "internet-gateway"
  <2>1. Handle(r, view, more, n) = ec2InternetGatewayDelete(view, more) BY <1>3 DEF Handle
  <2> QED BY <1>3, <2>1 DEF Says, Verdicts, Strict, Onces, ec2InternetGatewayDelete, detachFromVPC, Attempts
<1>4. CASE Info[r].type = "vpc-endpoint"
  <2>1. Handle(r, view, more, n) = ec2VpcEndpointDelete(view) BY <1>4 DEF Handle
  <2> QED BY <1>4, <2>1 DEF Says, Verdicts, Strict, Onces, ec2VpcEndpointDelete
<1>5. CASE Info[r].type = "route-table"
  <2>1. Handle(r, view, more, n) = ec2RouteTableDelete(view, Info[r].refused) BY <1>5 DEF Handle
  <2> QED BY <1>5, <2>1 DEF Says, Verdicts, Strict, Onces, ec2RouteTableDelete
<1>6. CASE Info[r].type = "security-group"
  <2>1. Handle(r, view, more, n) = ec2SecurityGroupDelete(view, Info[r].refused, more) BY <1>6 DEF Handle
  <2> QED BY <1>6, <2>1 DEF Says, Verdicts, Strict, Onces, ec2SecurityGroupDelete, Attempts
<1>7. CASE Info[r].type = "subnet"
  <2>1. Handle(r, view, more, n) = ec2SubnetDelete(view, more) BY <1>7 DEF Handle
  <2> QED BY <1>7, <2>1 DEF Says, Verdicts, Strict, Onces, ec2SubnetDelete, Attempts
<1>8. CASE Info[r].type = "vpc"
  <2>1. Handle(r, view, more, n) = ec2VPCDelete(view, more) BY <1>8 DEF Handle
  <2> QED BY <1>8, <2>1 DEF Says, Verdicts, Strict, Onces, ec2VPCDelete, Attempts
<1>9. CASE Info[r].type = "ec2-key-pair"
  <2>1. Handle(r, view, more, n) = ec2KeyPairDelete(view) BY <1>9 DEF Handle
  <2> QED BY <1>9, <2>1 DEF Says, Verdicts, Strict, Onces, ec2KeyPairDelete
<1>10. CASE Info[r].type = "ssm-parameter"
  <2>1. Handle(r, view, more, n) = ssmParamDelete(view) BY <1>10 DEF Handle
  <2> QED BY <1>10, <2>1 DEF Says, Verdicts, Strict, Onces, ssmParamDelete
<1>11. CASE Info[r].type = "s3-bucket"
  <2>1. Handle(r, view, more, n) = s3BucketDelete(view, n) BY <1>11 DEF Handle
  <2> QED BY <1>11, <2>1 DEF Says, Verdicts, Strict, Onces, s3BucketDelete
<1>12. CASE Info[r].type = "iam-role"
  <2>1. Handle(r, view, more, n) = iamRoleDelete(view) BY <1>12 DEF Handle
  <2> QED BY <1>12, <2>1 DEF Says, Verdicts, Strict, Onces, iamRoleDelete, Once
<1>13. CASE Info[r].type = "iam-instance-profile"
  <2>1. Handle(r, view, more, n) = iamInstanceProfileDelete(view) BY <1>13 DEF Handle
  <2> QED BY <1>13, <2>1 DEF Says, Verdicts, Strict, Onces, iamInstanceProfileDelete, Once
<1>14. CASE Info[r].type = "exoscale-compute-instance"
  <2>1. Handle(r, view, more, n) = computeInstanceDelete(view) BY <1>14 DEF Handle
  <2> QED BY <1>14, <2>1 DEF Says, Verdicts, Strict, Onces, computeInstanceDelete, Once
<1>15. CASE Info[r].type = "exoscale-block-storage-volume"
  <2>1. Handle(r, view, more, n) = blockStorageVolumeDelete(view, more) BY <1>15 DEF Handle
  <2> QED BY <1>15, <2>1 DEF Says, Verdicts, Strict, Onces, blockStorageVolumeDelete, Attempts
<1>16. CASE Info[r].type = "exoscale-private-network"
  <2>1. Handle(r, view, more, n) = privateNetworkDelete(view) BY <1>16 DEF Handle
  <2> QED BY <1>16, <2>1 DEF Says, Verdicts, Strict, Onces, privateNetworkDelete, Once
<1>17. CASE Info[r].type = "exoscale-security-group"
  <2>1. Handle(r, view, more, n) = securityGroupDelete(view) BY <1>17 DEF Handle
  <2> QED BY <1>17, <2>1 DEF Says, Verdicts, Strict, Onces, securityGroupDelete, Once
<1>18. CASE Info[r].type = "exoscale-ssh-key"
  <2>1. Handle(r, view, more, n) = sshKeyDelete(view) BY <1>18 DEF Handle
  <2> QED BY <1>18, <2>1 DEF Says, Verdicts, Strict, Onces, sshKeyDelete, Once
<1>19. CASE Info[r].type = "exoscale-iam-role"
  <2>1. Handle(r, view, more, n) = exoscaleIAMRoleDelete(view) BY <1>19 DEF Handle
  <2> QED BY <1>19, <2>1 DEF Says, Verdicts, Strict, Onces, exoscaleIAMRoleDelete, Once
<1>20. CASE Info[r].type = "exoscale-iam-api-key"
  <2>1. Handle(r, view, more, n) = iamAPIKeyDelete(view) BY <1>20 DEF Handle
  <2> QED BY <1>20, <2>1 DEF Says, Verdicts, Strict, Onces, iamAPIKeyDelete, Once
<1>21. CASE Info[r].type = "sos-bucket"
  <2>1. Handle(r, view, more, n) = sosBucketDelete(view, n) BY <1>21 DEF Handle
  <2> QED BY <1>21, <2>1 DEF Says, Verdicts, Strict, Onces, sosBucketDelete
<1>22. CASE Info[r].type = "stackit-server"
  <2>1. Handle(r, view, more, n) = DeleteServer(view, more) BY <1>22 DEF Handle
  <2> QED BY <1>22, <2>1 DEF Says, Verdicts, Strict, Onces, DeleteServer, deleteWithRetry, Attempts
<1>23. CASE Info[r].type = "stackit-volume"
  <2>1. Handle(r, view, more, n) = DeleteVolume(view, more) BY <1>23 DEF Handle
  <2> QED BY <1>23, <2>1 DEF Says, Verdicts, Strict, Onces, DeleteVolume, deleteWithRetry, Attempts
<1>24. CASE Info[r].type = "stackit-public-ip"
  <2>1. Handle(r, view, more, n) = DeletePublicIP(view, more) BY <1>24 DEF Handle
  <2> QED BY <1>24, <2>1 DEF Says, Verdicts, Strict, Onces, DeletePublicIP, deleteWithRetry, Attempts
<1>25. CASE Info[r].type = "stackit-network-interface"
  <2>1. Handle(r, view, more, n) = DeleteNetworkInterface(view, more) BY <1>25 DEF Handle
  <2> QED BY <1>25, <2>1 DEF Says, Verdicts, Strict, Onces, DeleteNetworkInterface, deleteWithRetry, Attempts
<1>26. CASE Info[r].type = "stackit-network"
  <2>1. Handle(r, view, more, n) = DeleteNetwork(view, more) BY <1>26 DEF Handle
  <2> QED BY <1>26, <2>1 DEF Says, Verdicts, Strict, Onces, DeleteNetwork, deleteWithRetry, Attempts
<1>27. CASE Info[r].type = "stackit-security-group"
  <2>1. Handle(r, view, more, n) = DeleteSecurityGroup(view, more) BY <1>27 DEF Handle
  <2> QED BY <1>27, <2>1 DEF Says, Verdicts, Strict, Onces, DeleteSecurityGroup, deleteWithRetry, Attempts
<1>28. CASE Info[r].type = "stackit-objectstorage-bucket"
  <2>1. Handle(r, view, more, n) = DeleteObjectStorageBucket(view, n) BY <1>28 DEF Handle
  <2> QED BY <1>28, <2>1 DEF Says, Verdicts, Strict, Onces, DeleteObjectStorageBucket
<1>29. CASE Info[r].type = "stackit-objectstorage-credential"
  <2>1. Handle(r, view, more, n) = DeleteObjectStorageCredential(view) BY <1>29 DEF Handle
  <2> QED BY <1>29, <2>1 DEF Says, Verdicts, Strict, Onces, DeleteObjectStorageCredential
<1>30. CASE Info[r].type = "stackit-objectstorage-credential-group"
  <2>1. Handle(r, view, more, n) = DeleteObjectStorageCredentialsGroup(view) BY <1>30 DEF Handle
  <2> QED BY <1>30, <2>1 DEF Says, Verdicts, Strict, Onces, DeleteObjectStorageCredentialsGroup
<1>31. CASE Info[r].type = "azure-resource-group"
  <2>1. Handle(r, view, more, n) = deleteResourceGroup(view) BY <1>31 DEF Handle
  <2> QED BY <1>31, <2>1 DEF Says, Verdicts, Strict, Onces, deleteResourceGroup
<1> QED BY <1>1, <1>2, <1>3, <1>4, <1>5, <1>6, <1>7, <1>8, <1>9, <1>10,
       <1>11, <1>12, <1>13, <1>14, <1>15, <1>16, <1>17, <1>18, <1>19, <1>20, <1>21, <1>22,
       <1>23, <1>24, <1>25, <1>26, <1>27, <1>28, <1>29, <1>30, <1>31
    DEF AwsTypes, ExoscaleTypes, StackitTypes

-----------------------------------------------------------------------------
(* Phases, times and the next action *)

\* The phase of a resource is a number, and 0 for a type of no phase.
LEMMA PhaseOfType ==
    ASSUME NEW r \in Resources
    PROVE  PhaseOf[r] \in Nat /\ (PhaseOf[r] # 0 <=> Info[r].type \in TypesOf(Info[r].p))
<1>1. Info[r].p \in Providers BY ProvidersAssumption
<1>2. CASE Info[r].p = "aws" BY <1>2, PhasesOfAws DEF TypesOf
<1>3. CASE Info[r].p = "exoscale" BY <1>3, PhasesOfExoscale DEF TypesOf
<1>4. CASE Info[r].p = "stackit" BY <1>4, PhasesOfStackit DEF TypesOf
<1>5. CASE Info[r].p = "azure" BY <1>5, PhasesOfAzure DEF TypesOf
<1> QED BY <1>1, <1>2, <1>3, <1>4, <1>5 DEF Providers

\* A type of a provider's phases is that provider's.
LEMMA TypeOfProvider ==
    ASSUME NEW r \in Resources
    PROVE  /\ Info[r].type \in AwsTypes => Info[r].p = "aws"
           /\ Info[r].type \in ExoscaleTypes => Info[r].p = "exoscale"
           /\ Info[r].type \in StackitTypes => Info[r].p = "stackit"
           /\ Info[r].type = "azure-resource-group" => Info[r].p = "azure"
<1>1. ASSUME NEW p \in Providers
      PROVE  \A i \in DOMAIN Phases(p) : Info[r].type \in Phases(p)[i] => Info[r].p = p
  BY ProvidersAssumption
<1>2. Info[r].type \in AwsTypes => \E i \in DOMAIN Phases("aws") : Info[r].type \in Phases("aws")[i]
  <2>1. Phases("aws") = awsPhases /\ DOMAIN awsPhases = 1..10 BY DEF Phases, awsPhases
  <2>2. \A t \in AwsTypes : \E i \in 1..10 : t \in awsPhases[i]
    <3>1. /\ "ec2-instance" \in awsPhases[1] /\ "ec2-key-pair" \in awsPhases[2]
          /\ "iam-instance-profile" \in awsPhases[3] /\ "iam-role" \in awsPhases[4]
          /\ "ebs-volume" \in awsPhases[5]
          /\ {"vpc-endpoint", "internet-gateway", "route-table", "security-group"} \subseteq awsPhases[6]
          /\ "subnet" \in awsPhases[7] /\ "vpc" \in awsPhases[8] /\ "ssm-parameter" \in awsPhases[9]
          /\ "s3-bucket" \in awsPhases[10]
      BY DEF awsPhases
    <3> QED BY <3>1 DEF AwsTypes
  <2> QED BY <2>1, <2>2
<1>3. Info[r].type \in ExoscaleTypes
        => \E i \in DOMAIN Phases("exoscale") : Info[r].type \in Phases("exoscale")[i]
  <2>1. Phases("exoscale") = exoscalePhases /\ DOMAIN exoscalePhases = 1..7 BY DEF Phases, exoscalePhases
  <2>2. \A t \in ExoscaleTypes : \E i \in 1..7 : t \in exoscalePhases[i]
    <3>1. /\ "exoscale-compute-instance" \in exoscalePhases[1]
          /\ "exoscale-block-storage-volume" \in exoscalePhases[2]
          /\ "exoscale-iam-api-key" \in exoscalePhases[3] /\ "exoscale-iam-role" \in exoscalePhases[4]
          /\ {"exoscale-private-network", "exoscale-security-group"} \subseteq exoscalePhases[5]
          /\ "exoscale-ssh-key" \in exoscalePhases[6] /\ "sos-bucket" \in exoscalePhases[7]
      BY DEF exoscalePhases
    <3> QED BY <3>1 DEF ExoscaleTypes
  <2> QED BY <2>1, <2>2
<1>4. Info[r].type \in StackitTypes
        => \E i \in DOMAIN Phases("stackit") : Info[r].type \in Phases("stackit")[i]
  <2>1. Phases("stackit") = stackitPhases /\ DOMAIN stackitPhases = 1..9 BY DEF Phases, stackitPhases
  <2>2. \A t \in StackitTypes : \E i \in 1..9 : t \in stackitPhases[i]
    <3>1. /\ "stackit-server" \in stackitPhases[1] /\ "stackit-volume" \in stackitPhases[2]
          /\ "stackit-public-ip" \in stackitPhases[3] /\ "stackit-network-interface" \in stackitPhases[4]
          /\ "stackit-network" \in stackitPhases[5] /\ "stackit-security-group" \in stackitPhases[6]
          /\ "stackit-objectstorage-bucket" \in stackitPhases[7]
          /\ "stackit-objectstorage-credential" \in stackitPhases[8]
          /\ "stackit-objectstorage-credential-group" \in stackitPhases[9]
      BY DEF stackitPhases
    <3> QED BY <3>1 DEF StackitTypes
  <2> QED BY <2>1, <2>2
<1>5. Info[r].type = "azure-resource-group"
        => \E i \in DOMAIN Phases("azure") : Info[r].type \in Phases("azure")[i]
  <2>1. Phases("azure") = azurePhases /\ DOMAIN azurePhases = 1..1 BY DEF Phases, azurePhases
  <2>2. "azure-resource-group" \in azurePhases[1] BY DEF azurePhases
  <2> QED BY <2>1, <2>2
<1>6. {"aws", "exoscale", "stackit", "azure"} = Providers BY DEF Providers
<1> HIDE DEF Providers
<1> QED BY <1>1, <1>2, <1>3, <1>4, <1>5, <1>6

\* A nonempty set of naturals has a least element.
LEMMA LeastNatural ==
    ASSUME NEW S \in SUBSET Nat, S # {}
    PROVE  \E n \in S : \A m \in S : n <= m
<1>1. PICK x \in S : \A y \in S : <<y, x>> \notin OpToRel(<, Nat)
  BY NatLessThanWellFounded, WFMin
<1>2. \A y \in S : ~(y < x)
  BY <1>1 DEF OpToRel
<1> QED BY <1>2

\* The earliest time is one of the times, and no later than any that is known.
LEMMA EarliestIs ==
    ASSUME NEW T \in SUBSET Nat
    PROVE  /\ Earliest(T) \in Nat
           /\ Earliest(T) = 0 <=> T \subseteq {0}
           /\ Earliest(T) # 0 => Earliest(T) \in T
           /\ \A t \in T : t # 0 => Earliest(T) <= t
<1>1. CASE T \subseteq {0} BY <1>1 DEF Earliest
<1>2. CASE ~(T \subseteq {0})
  <2>1. T \ {0} \in SUBSET Nat /\ T \ {0} # {} BY <1>2
  <2>2. \E t \in T \ {0} : \A u \in T \ {0} : t <= u BY <2>1, LeastNatural
  <2>3. Earliest(T) = CHOOSE t \in T \ {0} : \A u \in T \ {0} : t <= u BY <1>2 DEF Earliest
  <2>4. Earliest(T) \in T \ {0} /\ \A u \in T \ {0} : Earliest(T) <= u BY <2>2, <2>3
  <2> QED BY <2>4, <1>2
<1> QED BY <1>1, <1>2

\* The action that is taken next is one of the plan's, of the lowest phase in it.
LEMMA NextAction ==
    ASSUME NEW S, S # {}, \A x \in S : x.r \in Resources
    PROVE  LET x == CHOOSE y \in actionsForPhase(S) : TRUE
           IN  x \in S /\ \A y \in S : PhaseOf[x.r] <= PhaseOf[y.r]
<1> DEFINE N == {PhaseOf[x.r] : x \in S}
<1>1. N \in SUBSET Nat /\ N # {} BY PhaseOfType
<1>2. PICK n \in N : \A m \in N : n <= m
  <2> HIDE DEF N
  <2> QED BY <1>1, LeastNatural
<1>3. actionsForPhase(S) # {} BY <1>2 DEF actionsForPhase
<1>4. (CHOOSE y \in actionsForPhase(S) : TRUE) \in actionsForPhase(S) BY <1>3
<1> QED BY <1>4 DEF actionsForPhase

-----------------------------------------------------------------------------
(* What is found *)

IamTypes == {"iam-role", "iam-instance-profile"}

Via(p) == IF p = "aws" THEN "tagging" ELSE "list"

\* What is known of a resource that was found for deployment d of provider p.
FoundFor(x, p, c, loc, d) ==
    /\ x.r \in Resources /\ Info[x.r].p = p /\ Info[x.r].dep = d /\ c[x.r] # "gone"
    /\ p \in Regional => Info[x.r].loc \in {loc, "global"}
    /\ Info[x.r].type \notin IamTypes => x = [r |-> x.r, via |-> Via(p)]

\* What the tagging interface and the listings of IAM find.
LEMMA AwsFound ==
    ASSUME NEW c, NEW loc, NEW d, NEW lost, NEW x \in awsDetails(c, loc, d, lost)
    PROVE  FoundFor(x, "aws", c, loc, d)
<1>1. CASE x \in recordTaggedResource(c, loc, d)
  <2>1. PICK r \in GetResources(c, loc) : Tagged(r, d) /\ x = [r |-> r, via |-> "tagging"]
    BY <1>1 DEF recordTaggedResource
  <2>2. x.r = r BY <2>1
  <2> QED BY <2>1, <2>2 DEF GetResources, Tagged, FoundFor, Via, Regional
<1>2. CASE x \in discoverIAMRoles(c, d, lost)
  <2>1. PICK r \in Listed(c, "aws", "iam-role") : (Tagged(r, d) \/ Named(r, d)) /\ x = [r |-> r, via |-> "iam"]
    BY <1>2 DEF discoverIAMRoles
  <2>2. x.r = r BY <2>1
  <2> QED BY <2>1, <2>2, ProvidersAssumption DEF Listed, Tagged, Named, FoundFor, IamTypes
<1>3. CASE x \in discoverIAMInstanceProfiles(c, d, lost)
  <2>1. PICK r \in Listed(c, "aws", "iam-instance-profile") :
           (Tagged(r, d) \/ Named(r, d)) /\ x = [r |-> r, via |-> "iam"]
    BY <1>3 DEF discoverIAMInstanceProfiles
  <2>2. x.r = r BY <2>1
  <2> QED BY <2>1, <2>2, ProvidersAssumption DEF Listed, Tagged, Named, FoundFor, IamTypes
<1> QED BY <1>1, <1>2, <1>3 DEF awsDetails

\* What the listings of exoscale find.
LEMMA ExoscaleFound ==
    ASSUME NEW c, NEW loc, NEW d, NEW lost, NEW x \in exoscaleDetails(c, loc, d, lost)
    PROVE  FoundFor(x, "exoscale", c, loc, d)
<1> DEFINE found == UNION {collectInstanceDetails(c, d), collectBlockStorageVolumeDetails(c, d),
                        collectPrivateNetworkDetails(c, d), collectSecurityGroupDetails(c, d),
                        collectSSHKeyDetails(c, d), collectIAMRoleDetails(c, d),
                        collectIAMAPIKeyDetails(c, d), collectSOSBucketDetails(c, d)}
<1>1. PICK r \in found : Info[r].loc \in {loc, "global"} /\ x = [r |-> r, via |-> "list"]
  BY DEF exoscaleDetails
<1>2. r \in Resources /\ Info[r].p = "exoscale" /\ Info[r].dep = d /\ c[r] # "gone"
  BY DEF collectInstanceDetails, collectBlockStorageVolumeDetails, collectPrivateNetworkDetails,
         collectSecurityGroupDetails, collectSSHKeyDetails, collectIAMRoleDetails,
         collectIAMAPIKeyDetails, collectSOSBucketDetails, Listed, Tagged, Named
<1>3. x.r = r BY <1>1
<1> QED BY <1>1, <1>2, <1>3 DEF FoundFor, Via, Regional

\* What a conversion of stackit keeps is of the resource.
LEMMA MetaIs ==
    ASSUME NEW r \in Resources, Info[r].type \in StackitTypes
    PROVE  /\ stackitMeta(r).tag \subseteq {Info[r].dep} /\ stackitMeta(r).name \subseteq {Info[r].dep}
           /\ stackitMeta(r).time \in {0, Info[r].time}
           /\ Info[r].type = "stackit-server" =>
                /\ stackitMeta(r).tag = IF Info[r].tag THEN {Info[r].dep} ELSE {}
                /\ stackitMeta(r).name = IF Info[r].named THEN {Info[r].dep} ELSE {}
<1>1. \A a, b, e \in BOOLEAN :
             /\ Meta(r, a, b, e).tag \subseteq {Info[r].dep} /\ Meta(r, a, b, e).name \subseteq {Info[r].dep}
             /\ Meta(r, a, b, e).time \in {0, Info[r].time}
             /\ a => Meta(r, a, b, e).tag = IF Info[r].tag THEN {Info[r].dep} ELSE {}
             /\ b => Meta(r, a, b, e).name = IF Info[r].named THEN {Info[r].dep} ELSE {}
  BY DEF Meta
<1>2. \E a, b, e \in BOOLEAN : stackitMeta(r) = Meta(r, a, b, e)
                             /\ (Info[r].type = "stackit-server" => a /\ b)
  <2>1. CASE Info[r].type = "stackit-server"
    <3>1. stackitMeta(r) = Meta(r, TRUE, TRUE, TRUE) BY <2>1 DEF stackitMeta, ResourceMetaFromServer
    <3> QED BY <3>1
  <2>2. CASE Info[r].type = "stackit-volume"
    <3>1. stackitMeta(r) = Meta(r, TRUE, TRUE, TRUE) BY <2>2 DEF stackitMeta, ResourceMetaFromVolume
    <3> QED BY <3>1, <2>2
  <2>3. CASE Info[r].type = "stackit-network"
    <3>1. stackitMeta(r) = Meta(r, TRUE, TRUE, TRUE) BY <2>3 DEF stackitMeta, ResourceMetaFromNetwork
    <3> QED BY <3>1, <2>3
  <2>4. CASE Info[r].type = "stackit-network-interface"
    <3>1. stackitMeta(r) = Meta(r, TRUE, TRUE, FALSE) BY <2>4 DEF stackitMeta, ResourceMetaFromNIC
    <3> QED BY <3>1, <2>4
  <2>5. CASE Info[r].type = "stackit-public-ip"
    <3>1. stackitMeta(r) = Meta(r, TRUE, FALSE, FALSE) BY <2>5 DEF stackitMeta, ResourceMetaFromPublicIP
    <3> QED BY <3>1, <2>5
  <2>6. CASE Info[r].type = "stackit-security-group"
    <3>1. stackitMeta(r) = Meta(r, TRUE, TRUE, TRUE) BY <2>6 DEF stackitMeta, ResourceMetaFromSecurityGroup
    <3> QED BY <3>1, <2>6
  <2>7. CASE Info[r].type = "stackit-objectstorage-bucket"
    <3>1. stackitMeta(r) = Meta(r, FALSE, TRUE, FALSE) BY <2>7 DEF stackitMeta, ResourceMetaFromBucket
    <3> QED BY <3>1, <2>7
  <2>8. CASE Info[r].type = "stackit-objectstorage-credential"
    <3>1. stackitMeta(r) = Meta(r, FALSE, TRUE, FALSE) BY <2>8 DEF stackitMeta, ResourceMetaFromAccessKey
    <3> QED BY <3>1, <2>8
  <2>9. CASE Info[r].type = "stackit-objectstorage-credential-group"
    <3>1. stackitMeta(r) = Meta(r, FALSE, TRUE, FALSE)
      BY <2>9 DEF stackitMeta, ResourceMetaFromCredentialsGroup
    <3> QED BY <3>1, <2>9
  <2> QED BY <2>1, <2>2, <2>3, <2>4, <2>5, <2>6, <2>7, <2>8, <2>9 DEF StackitTypes
<1>3. PICK a, b, e \in BOOLEAN : stackitMeta(r) = Meta(r, a, b, e)
                              /\ (Info[r].type = "stackit-server" => a /\ b)
  BY <1>2
<1> QED BY <1>1, <1>3

\* The resources that stackit collects.
LEMMA CollectedAre ==
    ASSUME NEW c, NEW loc, NEW lost
    PROVE  /\ \A r \in CollectResources(c, loc, lost) :
                 /\ r \in Resources /\ Info[r].p = "stackit" /\ Info[r].type \in StackitTypes
                 /\ Info[r].loc = loc /\ c[r] # "gone"
           /\ lost = {} => \A r \in Resources :
                 Info[r].p = "stackit" /\ Info[r].type \in StackitTypes /\ Info[r].loc = loc /\ c[r] # "gone"
                   => r \in CollectResources(c, loc, lost)
<1>1. \A r \in CollectResources(c, loc, lost) :
         /\ r \in Resources /\ Info[r].p = "stackit" /\ Info[r].type \in StackitTypes
         /\ Info[r].loc = loc /\ c[r] # "gone"
  BY DEF CollectResources, collectServers, collectVolumes, collectNetworks, collectNetworkInterfaces,
         collectSecurityGroups, collectPublicIPs, collectBuckets, collectAccessKeys,
         collectCredentialsGroups, Items, Listed, StackitTypes
<1>2. ASSUME lost = {}, NEW r \in Resources, Info[r].p = "stackit", Info[r].type \in StackitTypes,
             Info[r].loc = loc, c[r] # "gone"
      PROVE  r \in CollectResources(c, loc, lost)
  BY <1>2 DEF CollectResources, collectServers, collectVolumes, collectNetworks, collectNetworkInterfaces,
         collectSecurityGroups, collectPublicIPs, collectBuckets, collectAccessKeys,
         collectCredentialsGroups, Items, Listed, StackitTypes
<1> QED BY <1>1, <1>2

\* What the listings of stackit find.
LEMMA StackitFound ==
    ASSUME NEW c, NEW loc, NEW d, NEW lost, NEW x \in stackitDetails(c, loc, d, lost)
    PROVE  FoundFor(x, "stackit", c, loc, d)
<1>1. PICK r \in CollectResources(c, loc, lost) :
         isDeployment(stackitMeta(r), d) /\ x = [r |-> r, via |-> "list"]
  BY DEF stackitDetails
<1>2. x.r = r BY <1>1
<1>3. r \in Resources /\ Info[r].p = "stackit" /\ Info[r].type \in StackitTypes /\ c[r] # "gone"
  BY CollectedAre
<1>4. Info[r].dep = d BY <1>1, <1>3, MetaIs DEF isDeployment
<1> QED BY <1>1, <1>2, <1>3, <1>4 DEF FoundFor, Via, Regional

\* What is found on azure, the group among it.
LEMMA AzureFound ==
    ASSUME NEW c, NEW loc, NEW d, NEW x \in azureDetails(c, d)
    PROVE  /\ FoundFor(x, "azure", c, loc, d)
           /\ \E g \in azureDetails(c, d) : Info[g.r].type = "azure-resource-group"
<1>1. findDeploymentGroup(c, d) # {} BY DEF azureDetails
<1>2. azureDetails(c, d)
        = {[r |-> r, via |-> "list"] : r \in findDeploymentGroup(c, d) \cup listResourcesInGroup(c, d)}
  BY <1>1 DEF azureDetails
<1>3. PICK r \in findDeploymentGroup(c, d) \cup listResourcesInGroup(c, d) : x = [r |-> r, via |-> "list"]
  BY <1>2
<1>4. x.r = r BY <1>3
<1>5. r \in Resources /\ Info[r].p = "azure" /\ Info[r].dep = d /\ c[r] # "gone"
  BY DEF findDeploymentGroup, listResourcesInGroup, Listed, Tagged
<1>6. FoundFor(x, "azure", c, loc, d) BY <1>3, <1>4, <1>5 DEF FoundFor, Via, Regional
<1>7. PICK g \in findDeploymentGroup(c, d) : TRUE BY <1>1
<1>8. [r |-> g, via |-> "list"] \in azureDetails(c, d) BY <1>2
<1>9. Info[[r |-> g, via |-> "list"].r].type = "azure-resource-group" BY DEF findDeploymentGroup, Listed
<1> QED BY <1>6, <1>8, <1>9

\* What is collected of a deployment is there, of the deployment, and where the search looked.
LEMMA DetailsFound ==
    ASSUME NEW p \in Providers, NEW c, NEW loc, NEW d, NEW lost,
           NEW x \in CollectDeploymentDetails(p, c, loc, d, lost)
    PROVE  FoundFor(x, p, c, loc, d)
<1>1. CASE p = "aws" BY <1>1, AwsFound DEF CollectDeploymentDetails
<1>2. CASE p = "exoscale" BY <1>2, ExoscaleFound DEF CollectDeploymentDetails
<1>3. CASE p = "stackit" BY <1>3, StackitFound DEF CollectDeploymentDetails
<1>4. CASE p = "azure" BY <1>4, AzureFound DEF CollectDeploymentDetails
<1> QED BY <1>1, <1>2, <1>3, <1>4 DEF Providers

\* The plan has actions on what was collected.
LEMMA PlanFound ==
    ASSUME NEW p, NEW details, NEW types
    PROVE  /\ PlanActions(p, details, types) \subseteq details
           /\ types = {} /\ p = "azure" => PlanActions(p, details, types) = details
           /\ types = {} /\ p # "azure" => PlanActions(p, details, types) = {x \in details : PhaseOf[x.r] # 0}
           /\ p # "azure" => \A x \in PlanActions(p, details, types) : PhaseOf[x.r] # 0
  BY DEF PlanActions, azurePlanActions, resourceMatchesPhase, Included

-----------------------------------------------------------------------------
(* The shape of the state *)

\* An action of the plan is on a resource of the deployment that is being processed.
Planned(x, k) ==
    LET p == Targets[k.i].p IN
    /\ x.r \in Resources /\ Info[x.r].p = p /\ Info[x.r].dep = k.d
    /\ p \in Regional => Info[x.r].loc \in {Targets[k.i].loc, "global"}
    /\ Info[x.r].type \notin IamTypes => x = [r |-> x.r, via |-> Via(p)]
    /\ p # "azure" => PhaseOf[x.r] # 0

\* The handlers of a provider were made for one of its targets.
MadeFor(reg) ==
    /\ DOMAIN reg = Regional
    /\ \A p \in Regional : \/ reg[p] = "none"
                           \/ \E i \in DOMAIN Targets : Targets[i].p = p /\ reg[p] = Targets[i].loc

Shape ==
    /\ cloud \in [Resources -> Conditions] /\ pages \in [Resources -> Nat]
    /\ faults \in Nat /\ attempt \in Nat
    /\ pc \in {"idle", "plan", "collect", "load", "act"}
    /\ work \subseteq DOMAIN Targets
    /\ MadeFor(registry)
    /\ \A m \in index : m.i \in DOMAIN Targets
    /\ pc # "act" => plan = {}
    /\ pc = "act" => current.i \in DOMAIN Targets
    /\ \A x \in plan : Planned(x, current)
    /\ \A x \in results : x.r \in Resources

\* The search targets are finitely many, each of a provider.
LEMMA TargetsAre ==
    /\ \A i \in DOMAIN Targets : Targets[i].p \in Providers
    /\ IsFiniteSet(DOMAIN Targets)
<1> DEFINE S == [p : Providers, loc : {Targets[i].loc : i \in DOMAIN Targets}]
<1>1. Targets \in Seq(S) BY CleanupAssumption
<1>2. \A s \in S : s.p \in Providers OBVIOUS
<1> HIDE DEF S
<1>3. Len(Targets) \in Nat /\ DOMAIN Targets = 1..Len(Targets) BY <1>1
<1>5. \A i \in DOMAIN Targets : Targets[i] \in S BY <1>1, <1>3
<1>4. IsFiniteSet(1..Len(Targets)) BY <1>3, FS_Interval
<1> QED BY <1>2, <1>3, <1>4, <1>5

\* Nothing is planned at first.
LEMMA ShapeInit == Init => Shape
<1> SUFFICES ASSUME Init PROVE Shape
  OBVIOUS
<1>1. /\ cloud \in [Resources -> Conditions] /\ pages \in [Resources -> Nat]
      /\ faults = 0 /\ attempt = 0 /\ pc = "idle" /\ work = {} /\ index = {} /\ plan = {} /\ results = {}
  BY CleanupAssumption DEF Init
<1>2. MadeFor(registry) BY DEF Init, MadeFor, Regional
<1> QED BY <1>1, <1>2 DEF Shape

\* The calls that one collection loses are none or one.
LEMMA LossCount ==
    ASSUME NEW p, NEW fatal, NEW lost \in Losses(p, fatal)
    PROVE  Cardinality(lost) \in Nat /\ (Cardinality(lost) = 0 <=> lost = {})
<1>1. lost = {} \/ \E t : lost = {t} BY DEF Losses
<1>2. CASE lost = {} BY <1>2, FS_EmptySet
<1>3. ASSUME NEW t, lost = {t} PROVE Cardinality(lost) = 1 /\ lost # {} BY <1>3, FS_Singleton
<1> QED BY <1>1, <1>2, <1>3

\* The steps of a process that leave the cloud, the plan and the results alone.
Aside ==
    /\ UNCHANGED <<cloud, pages, plan, results, registry, current, attempt>>
    /\ pc # "act" \/ plan = {}
    /\ pc' # "act"

\* Such a step keeps the shape of the state.
LEMMA ShapeAside ==
    ASSUME Shape, Aside, faults' \in Nat, pc' \in {"idle", "plan", "collect", "load", "act"},
           work' \subseteq DOMAIN Targets, \A m \in index' : m.i \in DOMAIN Targets
    PROVE  Shape'
<1>1. plan' = {} BY DEF Shape, Aside
<1>2. UNCHANGED <<cloud, pages, results, registry, attempt>> /\ pc' # "act" BY DEF Aside
<1> QED BY <1>1, <1>2 DEF Shape, MadeFor

\* What a process starts with.
LEMMA StartCases ==
    ASSUME NEW o \in Options, StartProcess(o)
    PROVE  /\ pc = "idle" /\ UNCHANGED <<cloud, pages, faults>> /\ opts' = o /\ work' = {}
           /\ plan' = {} /\ results' = {} /\ index' = {} /\ todo' = {} /\ attempt' = 0 /\ hidden' = FALSE
           /\ registry' = [p \in Regional |-> "none"]
           /\ \/ pc' = "plan" /\ exit' = "none"
              \/ pc' = "idle" /\ exit' = "error"
<1>1. IF validateCleanupRunSelection(o) THEN pc' = "plan" /\ exit' = "none" ELSE pc' = "idle" /\ exit' = "error"
  BY DEF StartProcess
<1>2. (pc' = "plan" /\ exit' = "none") \/ (pc' = "idle" /\ exit' = "error") BY <1>1
<1> QED BY <1>2 DEF StartProcess, env, Regional

\* A new process has no plan and no handlers.
LEMMA Shape_StartProcess == ASSUME Shape, NEW o \in Options, StartProcess(o) PROVE Shape'
<1>1. MadeFor(registry') BY StartCases DEF MadeFor
<1>2. /\ UNCHANGED <<cloud, pages, faults>> /\ work' = {} /\ plan' = {} /\ results' = {} /\ index' = {}
      /\ attempt' = 0 /\ pc' \in {"plan", "idle"}
  BY StartCases
<1> QED BY <1>1, <1>2 DEF Shape

\* BuildPlan leaves the cloud, the index and the results alone.
LEMMA PlanCases ==
    ASSUME Shape, BuildPlan
    PROVE  /\ pc = "plan" /\ Aside /\ pc' = "collect" /\ faults' \in Nat /\ faults <= faults'
           /\ work' \subseteq DOMAIN Targets /\ UNCHANGED <<opts, index, todo, hidden, exit>>
<1>1. PICK down \in SUBSET {i \in DOMAIN Targets : shouldUseProvider(Targets[i].p, opts.providers)} :
         faults' = faults + Cardinality(down)
  BY DEF BuildPlan
<1>2. Cardinality(down) \in Nat BY TargetsAre, FS_Subset, FS_CardinalityType
<1>3. faults' \in Nat /\ faults <= faults' BY <1>1, <1>2 DEF Shape
<1>4. work' \subseteq DOMAIN Targets BY DEF BuildPlan
<1> QED BY <1>3, <1>4 DEF BuildPlan, env, Aside

\* Planning the search keeps the shape of the state.
LEMMA Shape_BuildPlan == ASSUME Shape, BuildPlan PROVE Shape'
  BY PlanCases, ShapeAside DEF Shape

\* What was seen of the resources that target i shows of deployment d.
Members(i, d, lost) ==
    SummaryMembers(Targets[i].p, cloud, Targets[i].loc, d, resolveOwner(Targets[i].p, opts),
                   opts.legacy /\ opts.cmd = "discover", lost)
Match(i, d, lost) ==
    [d |-> d, i |-> i, created |-> CreatedAt(Targets[i].p, Members(i, d, lost), lost),
     state |-> StateShown(Targets[i].p, cloud, Members(i, d, lost), d, lost)]

\* A collection adds the matches of one target to the index, or none.
LEMMA CollectCases ==
    ASSUME Shape, NEW i \in work, CollectLookupIndex(i)
    PROVE  /\ pc = "collect" /\ Aside /\ pc' = pc /\ faults' \in Nat /\ faults <= faults'
           /\ work' \subseteq DOMAIN Targets /\ UNCHANGED <<opts, todo, exit>>
           /\ i \in DOMAIN Targets
           /\ \E lost \in Losses(Targets[i].p, Fatal(Targets[i].p)) :
                \/ index' = index /\ hidden' = hidden
                \/ /\ index' = index \cup {Match(i, d, lost) : d \in {e \in Deployments : Members(i, e, lost) # {}}}
                   /\ hidden' = (hidden \/ lost # {})
<1>1. PICK lost \in Losses(Targets[i].p, Fatal(Targets[i].p)) :
         /\ faults' = faults + Cardinality(lost)
         /\ \/ index' = index /\ hidden' = hidden
            \/ /\ index' = index \cup {Match(i, d, lost) : d \in {e \in Deployments : Members(i, e, lost) # {}}}
               /\ hidden' = (hidden \/ lost # {})
  BY DEF CollectLookupIndex, Members, Match
<1>2. faults' \in Nat /\ faults <= faults' BY <1>1, LossCount DEF Shape
<1>3. work' \subseteq DOMAIN Targets /\ i \in DOMAIN Targets BY DEF CollectLookupIndex, Shape
<1> QED BY <1>1, <1>2, <1>3 DEF CollectLookupIndex, env, Aside

\* A collection keeps the shape of the state.
LEMMA Shape_CollectLookupIndex ==
    ASSUME Shape, NEW i \in work, CollectLookupIndex(i) PROVE Shape'
<1>1. PICK lost : \/ index' = index
                  \/ index' = index \cup {Match(i, d, lost) : d \in {e \in Deployments : Members(i, e, lost) # {}}}
  BY CollectCases
<1>2. i \in DOMAIN Targets BY CollectCases
<1>3. \A m \in index' : m.i \in DOMAIN Targets
  BY <1>1, <1>2 DEF Shape, Match
<1> QED BY <1>3, CollectCases, ShapeAside DEF Shape

\* After the search the process ends, or goes on with the deployments that are selected.
LEMMA EndSearchCases ==
    ASSUME EndSearch
    PROVE  /\ pc = "collect" /\ Aside /\ UNCHANGED <<faults, opts, work, hidden>>
           /\ \/ /\ pc' = "idle" /\ index' \subseteq index
                 /\ exit' = "error" \/ (exit' = "ok" /\ opts.cmd = "discover")
              \/ /\ pc' = "load" /\ index' = index /\ opts.cmd # "discover" /\ exit' = exit
                 /\ todo' = IF opts.cmd = "run" THEN selectCleanupRunDeployments ELSE opts.ids
<1> DEFINE none == \A i \in DOMAIN Targets : scope[i] \in {"skipped", "unavailable"}
           stop == (none /\ opts.cmd # "run") \/ (~none /\ searched = 0)
<1>1. IF stop \/ opts.cmd = "discover"
      THEN /\ pc' = "idle" /\ exit' = (IF stop THEN "error" ELSE "ok")
           /\ index' = {m \in index : IsOlderThan(m.created, opts.older)}
      ELSE /\ pc' = "load" /\ exit' = exit
           /\ todo' = (IF opts.cmd = "run" THEN selectCleanupRunDeployments ELSE opts.ids)
           /\ index' = index
  BY DEF EndSearch
<1> HIDE DEF stop
<1>2. \/ /\ pc' = "idle" /\ index' \subseteq index
         /\ exit' = "error" \/ (exit' = "ok" /\ opts.cmd = "discover")
      \/ /\ pc' = "load" /\ index' = index /\ opts.cmd # "discover" /\ exit' = exit
         /\ todo' = (IF opts.cmd = "run" THEN selectCleanupRunDeployments ELSE opts.ids)
  BY <1>1
<1>3. pc = "collect" /\ Aside /\ UNCHANGED <<faults, opts, work, hidden>>
  BY <1>2 DEF EndSearch, env, Aside
<1> QED BY <1>2, <1>3

\* The end of the search keeps the shape of the state.
LEMMA Shape_EndSearch == ASSUME Shape, EndSearch PROVE Shape'
<1>1. index' \subseteq index /\ pc' \in {"idle", "load"} /\ faults' = faults /\ work' = work /\ Aside
  BY EndSearchCases
<1>2. \A m \in index' : m.i \in DOMAIN Targets BY <1>1 DEF Shape
<1> QED BY <1>1, <1>2, ShapeAside DEF Shape

\* The plan for deployment d that m is a match of.
Details(m, d, lost) ==
    CollectDeploymentDetails(Targets[m.i].p, cloud, Targets[m.i].loc, d, lost)
PlanFor(m, d, lost) == PlanActions(Targets[m.i].p, Details(m, d, lost), opts.types)

\* LoadDeployment leaves the plan alone, or plans the deployment of one match.
LEMMA LoadCases ==
    ASSUME Shape, NEW d \in todo, LoadDeployment(d)
    PROVE  /\ pc = "load" /\ todo' = todo \ {d}
           /\ UNCHANGED <<cloud, pages, registry, opts, work, index, results, attempt, exit>>
           /\ faults' \in Nat /\ faults <= faults' /\ (hidden => hidden')
           /\ \/ pc' = "load" /\ plan' = plan /\ current' = current
              \/ /\ pc' = "act" /\ opts.cmd # "show"
                 /\ \E m, lost :
                      /\ m \in index /\ m.d = d /\ plan' = PlanFor(m, d, lost) /\ current' = [d |-> d, i |-> m.i]
                      /\ lost = {} \/ (hidden' /\ faults' # 0)
<1>1. /\ pc = "load" /\ todo' = todo \ {d}
      /\ UNCHANGED <<cloud, pages, registry, opts, work, index, results, attempt, exit>>
  BY DEF LoadDeployment, env
<1>2. CASE UNCHANGED <<pc, faults, current, plan, hidden>>
  BY <1>1, <1>2 DEF Shape
<1>3. CASE ~UNCHANGED <<pc, faults, current, plan, hidden>>
  <2>1. PICK m \in index : m.d = d /\
           \E lost \in Losses(Targets[m.i].p, FatalDetails(Targets[m.i].p)) :
              LET p == Targets[m.i].p
                  details == IF lost \cap FatalDetails(p) # {} THEN {}
                             ELSE CollectDeploymentDetails(p, cloud, Targets[m.i].loc, d, lost)
                  actions == PlanActions(p, details, opts.types)
              IN /\ faults' = faults + Cardinality(lost)
                 /\ hidden' = (hidden \/ lost # {})
                 /\ IF opts.cmd = "show" THEN UNCHANGED <<pc, current, plan>>
                    ELSE IF actions = {} THEN UNCHANGED <<pc, current, plan>>
                    ELSE plan' = actions /\ current' = [d |-> d, i |-> m.i] /\ pc' = "act"
    BY <1>3 DEF LoadDeployment
  <2>2. PICK lost \in Losses(Targets[m.i].p, FatalDetails(Targets[m.i].p)) :
              LET p == Targets[m.i].p
                  details == IF lost \cap FatalDetails(p) # {} THEN {}
                             ELSE CollectDeploymentDetails(p, cloud, Targets[m.i].loc, d, lost)
                  actions == PlanActions(p, details, opts.types)
              IN /\ faults' = faults + Cardinality(lost)
                 /\ hidden' = (hidden \/ lost # {})
                 /\ IF opts.cmd = "show" THEN UNCHANGED <<pc, current, plan>>
                    ELSE IF actions = {} THEN UNCHANGED <<pc, current, plan>>
                    ELSE plan' = actions /\ current' = [d |-> d, i |-> m.i] /\ pc' = "act"
    BY <2>1
  <2>3. /\ faults' \in Nat /\ faults <= faults' /\ (lost = {} \/ faults' # 0)
        /\ (hidden => hidden') /\ (lost = {} \/ hidden')
    <3>1. faults' = faults + Cardinality(lost) /\ hidden' = (hidden \/ lost # {}) BY <2>2
    <3>2. Cardinality(lost) \in Nat /\ (Cardinality(lost) = 0 <=> lost = {}) BY LossCount
    <3>3. faults \in Nat BY DEF Shape
    <3>4. faults' \in Nat /\ faults <= faults' /\ (Cardinality(lost) = 0 \/ faults' # 0) BY <3>1, <3>2, <3>3
    <3>5. (hidden => hidden') /\ (lost = {} \/ hidden') BY <3>1
    <3> QED BY <3>2, <3>4, <3>5
  <2>4. CASE UNCHANGED <<pc, current, plan>> BY <1>1, <2>3, <2>4
  <2>5. CASE ~UNCHANGED <<pc, current, plan>>
    <3> DEFINE p == Targets[m.i].p
               details == IF lost \cap FatalDetails(p) # {} THEN {}
                          ELSE CollectDeploymentDetails(p, cloud, Targets[m.i].loc, d, lost)
    <3>1. /\ opts.cmd # "show" /\ PlanActions(p, details, opts.types) # {}
          /\ plan' = PlanActions(p, details, opts.types) /\ current' = [d |-> d, i |-> m.i] /\ pc' = "act"
      BY <2>2, <2>5
    <3>2. details # {}
      <4> HIDE DEF details
      <4> QED BY <3>1, PlanFound
    <3>3. details = Details(m, d, lost) BY <3>2 DEF Details
    <3> HIDE DEF details
    <3>4. plan' = PlanFor(m, d, lost) BY <3>1, <3>3 DEF PlanFor
    <3> QED BY <1>1, <2>1, <2>3, <3>1, <3>4
  <2> QED BY <2>4, <2>5
<1> QED BY <1>2, <1>3

\* What is planned is there, of the deployment that was looked for, and where the search looked.
LEMMA PlannedNew ==
    ASSUME Shape, NEW m \in index, NEW d, NEW lost, NEW x \in PlanFor(m, d, lost)
    PROVE  Planned(x, [d |-> d, i |-> m.i]) /\ cloud[x.r] # "gone"
<1>1. Targets[m.i].p \in Providers BY TargetsAre DEF Shape
<1>2. x \in Details(m, d, lost) /\ (Targets[m.i].p # "azure" => PhaseOf[x.r] # 0) BY PlanFound DEF PlanFor
<1>3. FoundFor(x, Targets[m.i].p, cloud, Targets[m.i].loc, d) BY <1>1, <1>2, DetailsFound DEF Details
<1> QED BY <1>2, <1>3 DEF FoundFor, Planned

\* A new plan has the shape it should have.
LEMMA Shape_LoadDeployment == ASSUME Shape, NEW d \in todo, LoadDeployment(d) PROVE Shape'
<1>1. /\ pc = "load" /\ UNCHANGED <<cloud, pages, registry, opts, work, index, results, attempt, exit>>
      /\ faults' \in Nat
  BY LoadCases
<1>2. CASE pc' = "load" /\ plan' = plan /\ current' = current
  BY <1>1, <1>2 DEF Shape, MadeFor
<1>3. CASE pc' = "act" /\ \E m, lost :
                      m \in index /\ m.d = d /\ plan' = PlanFor(m, d, lost) /\ current' = [d |-> d, i |-> m.i]
  <2>1. PICK m, lost : m \in index /\ m.d = d /\ plan' = PlanFor(m, d, lost) /\ current' = [d |-> d, i |-> m.i]
    BY <1>3
  <2>2. \A x \in plan' : Planned(x, current') BY <2>1, PlannedNew
  <2>3. current'.i = m.i /\ m.i \in DOMAIN Targets BY <2>1 DEF Shape
  <2> QED BY <1>1, <1>3, <2>2, <2>3 DEF Shape, MadeFor
<1> QED BY <1>2, <1>3, LoadCases

\* The steps between deployments and at the end of a process.
LEMMA EndCases ==
    ASSUME EndDeployment \/ EndProcess
    PROVE  /\ Aside /\ UNCHANGED <<faults, opts, work, index, hidden>>
           /\ \/ pc = "act" /\ pc' = "load" /\ plan = {} /\ UNCHANGED <<todo, exit>>
              \/ /\ pc = "load" /\ pc' = "idle" /\ todo' = todo
                 /\ exit' = IF failures = {} /\ (\A x \in results : x.status # "failed") THEN "ok" ELSE "error"
<1>1. CASE EndDeployment BY <1>1 DEF EndDeployment, env, Aside
<1>2. CASE EndProcess BY <1>2 DEF EndProcess, env, Aside
<1> QED BY <1>1, <1>2

\* The ends of a deployment and of a process keep the shape of the state.
LEMMA Shape_End == ASSUME Shape, EndDeployment \/ EndProcess PROVE Shape'
<1>1. Aside /\ UNCHANGED <<faults, work, index>> /\ pc' \in {"idle", "load"} BY EndCases
<1> QED BY <1>1, ShapeAside DEF Shape

\* The cloud keeps the shape of the state.
LEMMA Shape_TerminationCompletes ==
    ASSUME Shape, NEW r \in Resources, TerminationCompletes(r) PROVE Shape'
<1>1. /\ cloud' = [cloud EXCEPT ![r] = "gone"]
      /\ UNCHANGED <<pages, faults, opts, pc, registry, work, index, current, plan, attempt, results>>
  BY DEF TerminationCompletes
<1>2. cloud' \in [Resources -> Conditions] BY <1>1 DEF Shape, Conditions
<1> QED BY <1>1, <1>2 DEF Shape, MadeFor

-----------------------------------------------------------------------------
(* Type correctness *)

\* The type invariant, with what bounds its counters.
Typed ==
    /\ TypeOK
    /\ temp <= faults
    /\ searched + Cardinality(work) <= Len(Targets)
    /\ pc = "act" => current.i \in DOMAIN Targets
    /\ pc = "plan" => searched = 0

\* A set of targets has no more members than there are targets.
LEMMA TargetCount ==
    /\ Len(Targets) \in Nat /\ DOMAIN Targets = 1..Len(Targets)
    /\ \A S \in SUBSET DOMAIN Targets : IsFiniteSet(S) /\ Cardinality(S) \in Nat /\ Cardinality(S) <= Len(Targets)
<1>1. Len(Targets) \in Nat /\ DOMAIN Targets = 1..Len(Targets)
  <2> DEFINE S == [p : Providers, loc : {Targets[i].loc : i \in DOMAIN Targets}]
  <2>1. Targets \in Seq(S) BY CleanupAssumption
  <2> HIDE DEF S
  <2> QED BY <2>1
<1>2. IsFiniteSet(DOMAIN Targets) /\ Cardinality(DOMAIN Targets) = Len(Targets)
  <2>1. IsFiniteSet(1..Len(Targets))
      /\ Cardinality(1..Len(Targets)) = IF 1 > Len(Targets) THEN 0 ELSE Len(Targets)-1+1
    BY <1>1, FS_Interval
  <2> QED BY <1>1, <2>1
<1>3. ASSUME NEW S \in SUBSET DOMAIN Targets
      PROVE  IsFiniteSet(S) /\ Cardinality(S) \in Nat /\ Cardinality(S) <= Len(Targets)
  BY <1>2, FS_Subset, FS_CardinalityType
<1> QED BY <1>1, <1>3

\* The initial states are well typed.
LEMMA TypedInit == Init => Typed
<1> SUFFICES ASSUME Init PROVE Typed
  OBVIOUS
<1>1. registry \in [{"aws", "exoscale"} -> {"none"} \cup {Targets[i].loc : i \in DOMAIN Targets}]
  BY DEF Init
<1>2. scope \in [DOMAIN Targets -> Statuses] BY DEF Init, Statuses
<1>3. Cardinality(work) = 0 /\ searched = 0 /\ Len(Targets) \in Nat BY FS_EmptySet, TargetCount DEF Init
<1>4. 0 \in 0..MaxFaults /\ 0 \in 0..MaxProcesses /\ 0 \in 0..MaxAttempts /\ 0 \in 0..Len(Targets)
  BY CleanupAssumption, TargetCount
<1>5. cloud \in [Resources -> Conditions] /\ pages \in [Resources -> Nat] BY CleanupAssumption DEF Init
<1>6. /\ work = {} /\ index = {} /\ todo = {} /\ current = NoTarget /\ plan = {} /\ results = {} /\ failures = {}
      /\ temp = 0 /\ processes = 0 /\ faults = 0 /\ opts \in Options /\ pc = "idle" /\ attempt = 0
      /\ hidden = FALSE /\ exit = "none"
  BY DEF Init
<1>7. TypeOK BY <1>1, <1>2, <1>3, <1>4, <1>5, <1>6 DEF TypeOK
<1> QED BY <1>3, <1>6, <1>7 DEF Typed

\* A new process is well typed.
LEMMA Typed_StartProcess == ASSUME Typed, NEW o \in Options, StartProcess(o) PROVE Typed'
<1>1. processes' \in 0..MaxProcesses BY CleanupAssumption DEF StartProcess, Typed, TypeOK
<1>2. registry' \in [{"aws", "exoscale"} -> {"none"} \cup {Targets[i].loc : i \in DOMAIN Targets}]
  BY DEF StartProcess
<1>3. scope' \in [DOMAIN Targets -> Statuses] BY DEF StartProcess, Statuses
<1>4. Cardinality(work') = 0 /\ searched' = 0 /\ Len(Targets) \in Nat BY FS_EmptySet, TargetCount DEF StartProcess
<1>5. /\ work' = {} /\ index' = {} /\ todo' = {} /\ current' = NoTarget /\ plan' = {} /\ attempt' = 0
      /\ results' = {} /\ failures' = {} /\ hidden' = FALSE /\ opts' \in Options
      /\ UNCHANGED <<cloud, pages, temp, faults>>
  BY DEF StartProcess, env
<1>6. pc' \in {"plan", "idle"} /\ exit' \in {"none", "error"} BY StartCases
<1>7. 0 \in 0..MaxAttempts /\ 0 \in 0..Len(Targets) BY CleanupAssumption, TargetCount
<1>8. /\ cloud \in [Resources -> Conditions] /\ pages \in [Resources -> Nat] /\ temp \in 0..MaxFaults
      /\ faults \in 0..MaxFaults /\ temp <= faults
  BY DEF Typed, TypeOK
<1>9. TypeOK' BY <1>1, <1>2, <1>3, <1>4, <1>5, <1>6, <1>7, <1>8 DEF TypeOK
<1> QED BY <1>4, <1>5, <1>6, <1>8, <1>9 DEF Typed

\* Planning the search is well typed, and within the bound of failing calls.
LEMMA Typed_BuildPlan == ASSUME Typed, BuildPlan PROVE Typed'
<1>1. PICK down \in SUBSET {i \in DOMAIN Targets : shouldUseProvider(Targets[i].p, opts.providers)} :
         /\ faults + Cardinality(down) <= MaxFaults
         /\ faults' = faults + Cardinality(down)
         /\ scope' = [i \in DOMAIN Targets |->
                        IF ~shouldUseProvider(Targets[i].p, opts.providers) THEN "skipped"
                        ELSE IF i \in down THEN "unavailable" ELSE "searched"]
  BY DEF BuildPlan
<1>2. Cardinality(down) \in Nat BY TargetCount
<1>3. faults' \in 0..MaxFaults /\ temp <= faults' BY <1>1, <1>2, CleanupAssumption DEF Typed, TypeOK
<1>4. scope' \in [DOMAIN Targets -> Statuses] BY <1>1 DEF Statuses
<1>5. pc = "plan" /\ pc' = "collect" /\ work' \subseteq DOMAIN Targets
      /\ UNCHANGED <<env, processes, opts, registry, searched, index, todo, current, plan, attempt, results,
                     failures, hidden, exit>>
  BY DEF BuildPlan
<1>6. searched' = 0 /\ Cardinality(work') \in Nat /\ Cardinality(work') <= Len(Targets)
  BY <1>5, TargetCount DEF Typed
<1>7. TypeOK' BY <1>3, <1>4, <1>5 DEF Typed, TypeOK, env
<1> QED BY <1>3, <1>5, <1>6, <1>7 DEF Typed, env

\* A lost call is counted, within the bound.
LEMMA LossBound ==
    ASSUME Typed, NEW p, NEW fatal, NEW lost \in Losses(p, fatal), faults' = faults + Cardinality(lost)
    PROVE  faults' \in 0..MaxFaults /\ faults <= faults'
<1>1. lost = {} \/ (faults < MaxFaults /\ \E t : lost = {t}) BY DEF Losses
<1>2. Cardinality(lost) = 0 \/ (faults < MaxFaults /\ Cardinality(lost) = 1)
  <2>1. CASE lost = {} BY <2>1, FS_EmptySet
  <2>2. ASSUME NEW t, lost = {t} PROVE Cardinality(lost) = 1 BY <2>2, FS_Singleton
  <2> QED BY <1>1, <2>1, <2>2
<1>3. faults \in Nat /\ MaxFaults \in Nat /\ faults <= MaxFaults BY CleanupAssumption DEF Typed, TypeOK
<1> QED BY <1>2, <1>3

\* A collection is counted once, and its matches are of deployments.
LEMMA Typed_CollectLookupIndex ==
    ASSUME Typed, NEW i \in work, CollectLookupIndex(i) PROVE Typed'
<1> DEFINE p == Targets[i].p
           found(lost) == {Match(i, d, lost) : d \in {e \in Deployments : Members(i, e, lost) # {}}}
<1>1. PICK lost \in Losses(p, Fatal(p)) :
         /\ faults' = faults + Cardinality(lost)
         /\ \/ /\ scope' = scope \/ scope' = [scope EXCEPT ![i] = "error"]
               /\ UNCHANGED <<searched, index, hidden>>
            \/ /\ searched' = searched + 1 /\ index' = index \cup found(lost)
               /\ hidden' = (hidden \/ lost # {}) /\ scope' = scope
         /\ failures' = failures
  BY DEF CollectLookupIndex, Members, Match
<1>2. /\ pc = "collect" /\ pc' = "collect" /\ work' = work \ {i}
      /\ UNCHANGED <<cloud, pages, temp, processes, opts, registry, todo, current, plan, attempt, results, exit>>
  BY DEF CollectLookupIndex, env
<1>3. faults' \in 0..MaxFaults /\ faults <= faults' BY <1>1, LossBound
<1>4. i \in DOMAIN Targets /\ work' \subseteq DOMAIN Targets BY <1>2 DEF Typed, TypeOK
<1>5. scope' \in [DOMAIN Targets -> Statuses] BY <1>1 DEF Typed, TypeOK, Statuses
<1>6. /\ searched \in Nat /\ Cardinality(work) \in Nat /\ Cardinality(work') = Cardinality(work) - 1
      /\ Cardinality(work') \in Nat /\ searched + Cardinality(work) <= Len(Targets) /\ Len(Targets) \in Nat
  <2>1. work \in SUBSET DOMAIN Targets /\ searched \in Nat BY DEF Typed, TypeOK
  <2>2. IsFiniteSet(work) /\ Cardinality(work) \in Nat /\ Cardinality(work') \in Nat BY <1>4, <2>1, TargetCount
  <2>3. Cardinality(work') = Cardinality(work) - 1 BY <1>2, <2>2, FS_RemoveElement
  <2> QED BY <2>1, <2>2, <2>3, TargetCount DEF Typed
<1>7. searched' \in 0..Len(Targets) /\ searched' + Cardinality(work') <= Len(Targets) BY <1>1, <1>6
<1>8. \A m \in index' : m.d \in Deployments /\ m.i \in DOMAIN Targets
  <2>1. \A m \in index : m.d \in Deployments /\ m.i \in DOMAIN Targets BY DEF Typed, TypeOK
  <2>2. \A m \in found(lost) : m.d \in Deployments /\ m.i = i BY DEF Match
  <2> HIDE DEF found
  <2> QED BY <1>1, <1>4, <2>1, <2>2
<1>9. hidden' \in BOOLEAN BY <1>1 DEF Typed, TypeOK
<1>10. TypeOK' BY <1>1, <1>2, <1>3, <1>4, <1>5, <1>7, <1>8, <1>9 DEF Typed, TypeOK
<1>11. temp' <= faults'
  <2>1. temp \in Nat /\ faults \in Nat /\ faults' \in Nat /\ temp <= faults BY <1>3 DEF Typed, TypeOK
  <2> QED BY <1>2, <1>3, <2>1
<1> QED BY <1>2, <1>7, <1>10, <1>11 DEF Typed

\* Only deployments are selected.
LEMMA Typed_EndSearch == ASSUME Typed, EndSearch PROVE Typed'
<1>1. /\ pc' \in {"idle", "load"} /\ exit' \in {"error", "ok", exit}
      /\ index' \subseteq index
      /\ todo' \in {todo, selectCleanupRunDeployments, opts.ids}
      /\ UNCHANGED <<cloud, pages, temp, processes, faults, opts, registry, scope, work, searched, current, plan,
                     attempt, results, failures, hidden>>
  BY DEF EndSearch, env
<1>2. opts.ids \subseteq Deployments BY CleanupAssumption DEF Typed, TypeOK
<1>3. selectCleanupRunDeployments \subseteq Deployments BY <1>2 DEF selectCleanupRunDeployments, StaleDeploymentIDs
<1>4. todo' \subseteq Deployments BY <1>1, <1>2, <1>3 DEF Typed, TypeOK
<1>5. exit' \in {"none", "ok", "error"} BY <1>1 DEF Typed, TypeOK
<1>6. \A m \in index' : m.d \in Deployments /\ m.i \in DOMAIN Targets BY <1>1 DEF Typed, TypeOK
<1>7. TypeOK' BY <1>1, <1>4, <1>5, <1>6 DEF Typed, TypeOK
<1> QED BY <1>1, <1>7 DEF Typed

\* A plan has actions on resources.
LEMMA Typed_LoadDeployment == ASSUME Typed, NEW d \in todo, LoadDeployment(d) PROVE Typed'
<1>1. /\ pc = "load" /\ todo' = todo \ {d}
      /\ UNCHANGED <<cloud, pages, temp, processes, opts, registry, scope, work, searched, index, attempt, results,
                     exit>>
  BY DEF LoadDeployment, env
<1>2. d \in Deployments /\ todo' \subseteq Deployments BY <1>1 DEF Typed, TypeOK
<1>3. CASE failures' = failures \cup {d} /\ UNCHANGED <<pc, faults, current, plan, hidden>>
  <2>1. TypeOK' BY <1>1, <1>2, <1>3 DEF Typed, TypeOK
  <2> QED BY <1>1, <1>3, <2>1 DEF Typed
<1>4. CASE \E m \in index : m.d = d /\
             \E lost \in Losses(Targets[m.i].p, FatalDetails(Targets[m.i].p)) :
                LET p == Targets[m.i].p
                    details == IF lost \cap FatalDetails(p) # {} THEN {}
                               ELSE CollectDeploymentDetails(p, cloud, Targets[m.i].loc, d, lost)
                    actions == PlanActions(p, details, opts.types)
                IN /\ faults' = faults + Cardinality(lost)
                   /\ hidden' = (hidden \/ lost # {})
                   /\ failures' \in {failures, failures \cup {d}}
                   /\ \/ UNCHANGED <<pc, current, plan>>
                      \/ plan' = actions /\ current' = [d |-> d, i |-> m.i] /\ pc' = "act"
  <2>1. PICK m \in index : m.d = d /\
             \E lost \in Losses(Targets[m.i].p, FatalDetails(Targets[m.i].p)) :
                LET p == Targets[m.i].p
                    details == IF lost \cap FatalDetails(p) # {} THEN {}
                               ELSE CollectDeploymentDetails(p, cloud, Targets[m.i].loc, d, lost)
                    actions == PlanActions(p, details, opts.types)
                IN /\ faults' = faults + Cardinality(lost)
                   /\ hidden' = (hidden \/ lost # {})
                   /\ failures' \in {failures, failures \cup {d}}
                   /\ \/ UNCHANGED <<pc, current, plan>>
                      \/ plan' = actions /\ current' = [d |-> d, i |-> m.i] /\ pc' = "act"
    BY <1>4
  <2> DEFINE p == Targets[m.i].p
             details(lost) == IF lost \cap FatalDetails(p) # {} THEN {}
                              ELSE CollectDeploymentDetails(p, cloud, Targets[m.i].loc, d, lost)
  <2>2. PICK lost \in Losses(p, FatalDetails(p)) :
                /\ faults' = faults + Cardinality(lost)
                /\ hidden' = (hidden \/ lost # {})
                /\ failures' \in {failures, failures \cup {d}}
                /\ \/ UNCHANGED <<pc, current, plan>>
                   \/ /\ plan' = PlanActions(p, details(lost), opts.types)
                      /\ current' = [d |-> d, i |-> m.i] /\ pc' = "act"
    BY <2>1
  <2>3. faults' \in 0..MaxFaults /\ faults <= faults' BY <2>2, LossBound
  <2>4. hidden' \in BOOLEAN /\ failures' \subseteq Deployments BY <1>2, <2>2 DEF Typed, TypeOK
  <2>5. m.i \in DOMAIN Targets /\ p \in Providers BY TargetsAre DEF Typed, TypeOK
  <2>6. \A x \in PlanActions(p, details(lost), opts.types) : x.r \in Resources
    <3>1. \A x \in details(lost) : x.r \in Resources BY <2>5, DetailsFound DEF FoundFor
    <3> HIDE DEF details, p
    <3> QED BY <3>1, PlanFound
  <2> HIDE DEF details
  <2>7. /\ pc' \in {"load", "act"} /\ (\A x \in plan' : x.r \in Resources)
        /\ current' = NoTarget \/ (current'.d \in Deployments /\ current'.i \in DOMAIN Targets)
        /\ pc' = "act" => current'.i \in DOMAIN Targets
    <3>1. CASE UNCHANGED <<pc, current, plan>> BY <1>1, <3>1 DEF Typed, TypeOK
    <3>2. CASE /\ plan' = PlanActions(p, details(lost), opts.types)
               /\ current' = [d |-> d, i |-> m.i] /\ pc' = "act"
      <4>1. current'.d = d /\ current'.i = m.i BY <3>2
      <4> QED BY <1>2, <2>5, <2>6, <3>2, <4>1
    <3> QED BY <2>2, <3>1, <3>2
  <2>8. TypeOK' BY <1>1, <1>2, <2>3, <2>4, <2>7 DEF Typed, TypeOK
  <2>9. temp' <= faults'
    <3>1. temp \in Nat /\ faults \in Nat /\ faults' \in Nat /\ temp <= faults BY <2>3 DEF Typed, TypeOK
    <3> QED BY <1>1, <2>3, <3>1
  <2> QED BY <1>1, <2>7, <2>8, <2>9 DEF Typed
<1> QED BY <1>3, <1>4 DEF LoadDeployment

\* What an action leaves of the type invariant, when it records its result.
LEMMA Typed_Recorded ==
    ASSUME Typed, NEW x \in plan, NEW status \in {"planned", "skipped", "success", "failed"}, Record(x, status),
           cloud' \in [Resources -> Conditions], pages' \in [Resources -> Nat],
           faults' \in 0..MaxFaults, temp' \in Nat, temp' <= faults',
           registry' \in [{"aws", "exoscale"} -> {"none"} \cup {Targets[i].loc : i \in DOMAIN Targets}],
           UNCHANGED <<processes, opts, pc, scope, work, searched, index, todo, current, failures, hidden, exit>>
    PROVE  Typed'
<1>1. results' = results \cup {Result(x, status)} /\ plan' = plan \ {x} /\ attempt' = 0 BY DEF Record
<1>2. Result(x, status).status = status BY DEF Result
<1>3. \A y \in results' : y.status \in {"planned", "skipped", "success", "failed"}
  BY <1>1, <1>2 DEF Typed, TypeOK
<1>4. attempt' \in 0..MaxAttempts /\ temp' \in 0..MaxFaults BY <1>1, CleanupAssumption
<1>5. \A y \in plan' : y.r \in Resources BY <1>1 DEF Typed, TypeOK
<1>6. TypeOK' BY <1>3, <1>4, <1>5 DEF Typed, TypeOK
<1> QED BY <1>6 DEF Typed

\* The parts of the type invariant that the actions need.
LEMMA TypedParts ==
    ASSUME Typed
    PROVE  /\ cloud \in [Resources -> Conditions] /\ pages \in [Resources -> Nat]
           /\ faults \in 0..MaxFaults /\ faults \in Nat /\ temp \in Nat /\ temp <= faults
           /\ registry \in [{"aws", "exoscale"} -> {"none"} \cup {Targets[i].loc : i \in DOMAIN Targets}]
           /\ attempt \in Nat /\ \A x \in plan : x.r \in Resources
  BY CleanupAssumption DEF Typed, TypeOK

\* A skipped action is well typed.
LEMMA Typed_SkipAction == ASSUME Typed, NEW x \in plan, SkipAction(x) PROVE Typed'
<1> DEFINE status == IF PhaseOf[x.r] = 0 THEN "skipped" ELSE "planned"
<1>1. Record(x, status) /\ status \in {"planned", "skipped", "success", "failed"} BY DEF SkipAction
<1> HIDE DEF status
<1>2. UNCHANGED <<cloud, pages, temp, processes, faults, opts, pc, registry, scope, work, searched, index, todo,
                  current, failures, hidden, exit>>
  BY DEF SkipAction, env
<1> QED BY <1>1, <1>2, TypedParts, Typed_Recorded

\* Handlers are made for the location of a target.
LEMMA TypedRegistry ==
    ASSUME Typed, pc = "act", NEW q, registry' = initHandlers(q, Targets[current.i].loc)
    PROVE  registry' \in [{"aws", "exoscale"} -> {"none"} \cup {Targets[i].loc : i \in DOMAIN Targets}]
<1>1. Targets[current.i].loc \in {Targets[i].loc : i \in DOMAIN Targets} BY DEF Typed
<1>2. registry' = registry \/ registry' = [registry EXCEPT ![q] = Targets[current.i].loc] BY DEF initHandlers
<1>3. CASE registry' = registry BY <1>3, TypedParts
<1>4. CASE registry' = [registry EXCEPT ![q] = Targets[current.i].loc]
  <2> DEFINE V == {"none"} \cup {Targets[i].loc : i \in DOMAIN Targets}
  <2>1. Targets[current.i].loc \in V /\ registry \in [{"aws", "exoscale"} -> V] BY <1>1, TypedParts
  <2> HIDE DEF V
  <2>2. registry' \in [{"aws", "exoscale"} -> V] BY <1>4, <2>1
  <2> QED BY <2>2 DEF V
<1> QED BY <1>2, <1>3, <1>4

\* A delete leaves a cloud and buckets.
LEMMA TypedEffect ==
    ASSUME Typed, NEW r \in Resources, NEW v, Effect(r, v)
    PROVE  cloud' \in [Resources -> Conditions] /\ pages' \in [Resources -> Nat]
<1>1. cloud \in [Resources -> Conditions] /\ pages \in [Resources -> Nat] BY TypedParts
<1>2. pages' = IF pages[r] > 0 /\ v \in {"failed", "deleted"} THEN [pages EXCEPT ![r] = pages[r] - 1] ELSE pages
  BY DEF Effect
<1>3. pages' \in [Resources -> Nat] BY <1>1, <1>2
<1>4. \/ cloud' = [q \in Resources |-> IF q \in Cascade(r) THEN "gone" ELSE cloud[q]]
      \/ cloud' = [cloud EXCEPT ![r] = "deleting"] \/ cloud' = cloud
  BY DEF Effect
<1>5. cloud' \in [Resources -> Conditions] BY <1>1, <1>4 DEF Conditions
<1> QED BY <1>3, <1>5

\* A delete loop goes on only while attempts are left.
LEMMA RetryBound ==
    ASSUME Typed, NEW x \in plan, PhaseOf[x.r] # 0, NEW reg, Verdict(x, reg) = "retry"
    PROVE  attempt + 1 < MaxAttempts
<1>1. x.r \in Resources BY TypedParts
<1>2. Info[x.r].type \in AwsTypes \cup ExoscaleTypes \cup StackitTypes \cup {"azure-resource-group"}
  <2>1. Info[x.r].type \in TypesOf(Info[x.r].p) /\ Info[x.r].p \in Providers
    BY <1>1, PhaseOfType, ProvidersAssumption
  <2> QED BY <2>1 DEF TypesOf, Providers
<1> DEFINE view == View(x.r, reg)
           more == attempt + 1 < MaxAttempts
<1>3. view \in {"absent", "free", "held"} BY DEF View
<1>4. more \in BOOLEAN OBVIOUS
<1>5. Handle(x.r, view, more, pages[x.r]) = "retry" BY DEF Verdict
<1> HIDE DEF view, more
<1>6. Says(Info[x.r].type, Handle(x.r, view, more, pages[x.r]), view, more, pages[x.r], Info[x.r].refused)
  BY <1>1, <1>2, <1>3, <1>4, HandleSays
<1>7. more BY <1>5, <1>6 DEF Says
<1> QED BY <1>7 DEF more

\* A delete is well typed, and within the bound of its loop.
LEMMA Typed_DeleteAction == ASSUME Typed, NEW x \in plan, DeleteAction(x) PROVE Typed'
<1>1. /\ pc = "act" /\ PhaseOf[x.r] # 0 /\ registry' = initHandlers(Info[x.r].p, Targets[current.i].loc)
      /\ UNCHANGED <<processes, faults, opts, pc, scope, work, searched, index, todo, current, failures, hidden,
                     exit>>
  BY DEF DeleteAction
<1>2. registry' \in [{"aws", "exoscale"} -> {"none"} \cup {Targets[i].loc : i \in DOMAIN Targets}]
  BY <1>1, TypedRegistry
<1> DEFINE v == Verdict(x, registry')
<1>3. IF v = "retry"
      THEN attempt' = attempt + 1 /\ UNCHANGED <<env, plan, results>>
      ELSE Effect(x.r, v) /\ temp' = temp /\ Record(x, IF v = "failed" THEN "failed" ELSE "success")
  BY DEF DeleteAction
<1>4. CASE v = "retry"
  <2>1. attempt + 1 < MaxAttempts BY <1>1, <1>4, RetryBound
  <2>2. attempt' \in 0..MaxAttempts BY <1>3, <1>4, <2>1, TypedParts, CleanupAssumption
  <2>3. UNCHANGED <<cloud, pages, temp, plan, results>> BY <1>3, <1>4 DEF env
  <2>4. TypeOK' BY <1>1, <1>2, <2>2, <2>3 DEF Typed, TypeOK
  <2> QED BY <1>1, <2>3, <2>4 DEF Typed
<1>5. CASE v # "retry"
  <2> DEFINE status == IF v = "failed" THEN "failed" ELSE "success"
  <2>1. Effect(x.r, v) /\ temp' = temp /\ Record(x, status) BY <1>3, <1>5
  <2>2. status \in {"planned", "skipped", "success", "failed"} OBVIOUS
  <2> HIDE DEF status, v
  <2>3. cloud' \in [Resources -> Conditions] /\ pages' \in [Resources -> Nat] BY <2>1, TypedParts, TypedEffect
  <2>4. faults' \in 0..MaxFaults /\ temp' \in Nat /\ temp' <= faults' BY <1>1, <2>1, TypedParts
  <2> QED BY <1>1, <1>2, <2>1, <2>2, <2>3, <2>4, Typed_Recorded
<1> QED BY <1>4, <1>5

\* A failing delete is well typed, and within the bound of failing calls.
LEMMA Typed_DeleteFails == ASSUME Typed, NEW x \in plan, DeleteFails(x) PROVE Typed'
<1>1. /\ pc = "act" /\ registry' = initHandlers(Info[x.r].p, Targets[current.i].loc)
      /\ faults < MaxFaults /\ faults' = faults + 1
      /\ UNCHANGED <<processes, opts, pc, scope, work, searched, index, todo, current, failures, hidden, exit>>
  BY DEF DeleteFails
<1>2. registry' \in [{"aws", "exoscale"} -> {"none"} \cup {Targets[i].loc : i \in DOMAIN Targets}]
  BY <1>1, TypedRegistry
<1>3. \E status \in {"failed", "success"} : \E v :
         /\ Record(x, status) /\ temp' \in {temp, temp + 1}
         /\ Effect(x.r, v) \/ UNCHANGED <<cloud, pages>>
  BY DEF DeleteFails, env
<1>4. PICK status \in {"failed", "success"} : \E v :
         /\ Record(x, status) /\ temp' \in {temp, temp + 1}
         /\ Effect(x.r, v) \/ UNCHANGED <<cloud, pages>>
  BY <1>3
<1>5. cloud' \in [Resources -> Conditions] /\ pages' \in [Resources -> Nat] BY <1>4, TypedParts, TypedEffect
<1>6. faults' \in 0..MaxFaults /\ temp' \in Nat /\ temp' <= faults'
  <2>1. faults \in Nat /\ temp \in Nat /\ temp <= faults BY TypedParts
  <2>2. MaxFaults \in Nat BY CleanupAssumption
  <2>3. temp' = temp \/ temp' = temp + 1 BY <1>4
  <2>4. faults' \in 0..MaxFaults BY <1>1, <2>1, <2>2
  <2>5. temp' \in Nat /\ temp' <= faults + 1 BY <2>1, <2>3
  <2> QED BY <1>1, <2>4, <2>5
<1> QED BY <1>1, <1>2, <1>4, <1>5, <1>6, Typed_Recorded

\* Every step is well typed.
LEMMA TypedNext == ASSUME Typed, [Next]_vars PROVE Typed'
<1>1. CASE UNCHANGED vars
  <2>1. TypeOK' BY <1>1 DEF vars, Typed, TypeOK
  <2> QED BY <1>1, <2>1 DEF vars, Typed
<1>2. CASE \E o \in Options : StartProcess(o) BY <1>2, Typed_StartProcess
<1>3. CASE BuildPlan BY <1>3, Typed_BuildPlan
<1>4. CASE \E i \in work : CollectLookupIndex(i) BY <1>4, Typed_CollectLookupIndex
<1>5. CASE EndSearch BY <1>5, Typed_EndSearch
<1>6. CASE \E d \in todo : LoadDeployment(d) BY <1>6, Typed_LoadDeployment
<1>7. CASE EndDeployment \/ EndProcess
  <2>1. /\ pc' \in {"load", "idle"} /\ exit' \in {exit, "ok", "error"}
        /\ UNCHANGED <<env, processes, faults, opts, registry, scope, work, searched, index, todo, current, plan,
                       attempt, results, failures, hidden>>
    BY <1>7 DEF EndDeployment, EndProcess
  <2>2. exit' \in {"none", "ok", "error"} BY <2>1 DEF Typed, TypeOK
  <2>3. TypeOK' BY <2>1, <2>2 DEF Typed, TypeOK, env
  <2> QED BY <2>1, <2>3 DEF Typed, env
<1>8. CASE \E x \in plan : SkipAction(x) \/ DeleteAction(x) \/ DeleteFails(x)
  BY <1>8, Typed_SkipAction, Typed_DeleteAction, Typed_DeleteFails
<1>9. CASE \E r \in Resources : TerminationCompletes(r)
  <2>1. PICK r \in Resources : cloud' = [cloud EXCEPT ![r] = "gone"]
    BY <1>9 DEF TerminationCompletes
  <2>2. cloud' \in [Resources -> Conditions] BY <2>1, TypedParts DEF Conditions
  <2>3. UNCHANGED <<pages, temp, processes, faults, opts, pc, registry, scope, work, searched, index, todo,
                    current, plan, attempt, results, failures, hidden, exit>>
    BY <1>9 DEF TerminationCompletes
  <2>4. TypeOK' BY <2>2, <2>3 DEF Typed, TypeOK
  <2> QED BY <2>3, <2>4 DEF Typed
<1>10. CASE plan # {} /\ \E x \in {CHOOSE y \in actionsForPhase(plan) : TRUE} :
                              SkipAction(x) \/ DeleteAction(x) \/ DeleteFails(x)
  <2>1. PICK x \in {CHOOSE y \in actionsForPhase(plan) : TRUE} :
           SkipAction(x) \/ DeleteAction(x) \/ DeleteFails(x)
    BY <1>10
  <2>2. x = CHOOSE y \in actionsForPhase(plan) : TRUE BY <2>1
  <2>3. LET z == CHOOSE y \in actionsForPhase(plan) : TRUE
        IN  z \in plan /\ \A y \in plan : PhaseOf[z.r] <= PhaseOf[y.r]
    BY <1>10, TypedParts, NextAction
  <2>4. x \in plan BY <2>2, <2>3
  <2> QED BY <1>8, <2>1, <2>4
<1> QED BY <1>1, <1>2, <1>3, <1>4, <1>5, <1>6, <1>7, <1>9, <1>10 DEF Next, Step

\* Type correctness of every reachable state: no loop exceeds its attempts, temporary
\* credentials are only left behind by failing calls, and plans and handlers are of
\* resources and locations that exist.
THEOREM CleanupTyped == Spec => []TypeOK
<1>1. Init => Typed BY TypedInit
<1>2. Typed /\ [Next]_vars => Typed' BY TypedNext
<1>3. Typed => TypeOK BY DEF Typed
<1> QED BY <1>1, <1>2, <1>3, PTL DEF Spec

-----------------------------------------------------------------------------
(* The turns of actions *)

\* The handlers of a process look where the resources of the plan are.
LEMMA ViewTells ==
    ASSUME OneLocation, Shape, pc = "act", NEW x \in plan, NEW reg,
           reg = initHandlers(Info[x.r].p, Targets[current.i].loc)
    PROVE  /\ MadeFor(reg)
           /\ View(x.r, reg) \in {"absent", "free", "held"}
           /\ View(x.r, reg) = "absent" <=> cloud[x.r] = "gone"
           /\ View(x.r, reg) = "held" => HeldBy(cloud, x.r) # {}
<1> DEFINE p == Info[x.r].p
<1>1. current.i \in DOMAIN Targets /\ Targets[current.i].p = p BY DEF Shape, Planned
<1>2. p \in Regional => Info[x.r].loc \in {Targets[current.i].loc, "global"} BY DEF Shape, Planned
<1>3. MadeFor(registry) BY DEF Shape
<1>4. reg = IF p \in DOMAIN registry /\ registry[p] = "none" THEN [registry EXCEPT ![p] = Targets[current.i].loc]
            ELSE registry
  BY DEF initHandlers
<1>5. DOMAIN reg = Regional BY <1>3, <1>4 DEF MadeFor
<1>6. \A q \in Regional : \/ reg[q] = registry[q]
                          \/ q = p /\ registry[p] = "none" /\ reg[p] = Targets[current.i].loc
  BY <1>3, <1>4 DEF MadeFor
<1>7. MadeFor(reg) BY <1>1, <1>3, <1>5, <1>6 DEF MadeFor
<1>8. p \in Regional => reg[p] = Targets[current.i].loc
  <2> SUFFICES ASSUME p \in Regional PROVE reg[p] = Targets[current.i].loc
    OBVIOUS
  <2>1. CASE registry[p] = "none" BY <2>1, <1>3, <1>4 DEF MadeFor
  <2>2. CASE registry[p] # "none"
    <3>1. PICK i \in DOMAIN Targets : Targets[i].p = p /\ registry[p] = Targets[i].loc
      BY <2>2, <1>3 DEF MadeFor
    <3>2. Targets[i].loc = Targets[current.i].loc BY <3>1, <1>1 DEF OneLocation
    <3> QED BY <3>1, <3>2, <2>2, <1>4
  <2> QED BY <2>1, <2>2
<1>9. View(x.r, reg) = IF cloud[x.r] = "gone" THEN "absent" ELSE IF HeldBy(cloud, x.r) = {} THEN "free" ELSE "held"
  BY <1>2, <1>5, <1>8 DEF View
<1> QED BY <1>7, <1>9

\* The objects of a bucket are never put back.
FewerPages == pages' \in [Resources -> Nat] /\ \A r \in Resources : pages'[r] <= pages[r]

\* A delete took effect on the resource of x.
Deleted(x) ==
    /\ cloud[x.r] # "gone"
    /\ \/ Info[x.r].type # "ec2-instance"
          /\ cloud' = [q \in Resources |-> IF q \in Cascade(x.r) THEN "gone" ELSE cloud[q]]
       \/ Info[x.r].type = "ec2-instance" /\ cloud' = [cloud EXCEPT ![x.r] = "deleting"]

\* What a delete was refused for, with no call that failed.
Refused(x) ==
    \/ cloud[x.r] = "gone" /\ Info[x.r].type \in Strict
    \/ Info[x.r].refused
    \/ pages[x.r] > 1 /\ Info[x.r].type \in {"s3-bucket", "sos-bucket"}
    \/ HeldBy(cloud, x.r) # {} /\ (attempt + 1 >= MaxAttempts \/ Info[x.r].type \in Onces)

\* What comes of the action x, and what is reported of it.
Outcome(x, status) ==
    \/ status \in {"skipped", "planned"} /\ cloud' = cloud /\ (~opts.execute \/ PhaseOf[x.r] = 0)
    \/ /\ opts.execute /\ PhaseOf[x.r] # 0
       /\ \/ status \in {"success", "failed"} /\ Deleted(x)
          \/ status = "success" /\ cloud' = cloud /\ cloud[x.r] = "gone" /\ Info[x.r].type # "azure-resource-group"
          \/ status = "failed" /\ cloud' = cloud
       /\ status = "failed" => faults' # 0 \/ Refused(x)

Turn(x) ==
    /\ pc = "act" /\ pc' = "act"
    /\ UNCHANGED <<opts, work, index, todo, current, hidden, exit>>
    /\ MadeFor(registry') /\ faults' \in Nat /\ faults <= faults'
    /\ FewerPages
    /\ \/ UNCHANGED <<cloud, plan, results>> /\ attempt' \in Nat
       \/ /\ attempt' = 0 /\ plan' = plan \ {x}
          /\ \E status : results' = results \cup {Result(x, status)} /\ Outcome(x, status)

\* Skipping an action is a turn.
LEMMA TurnSkips ==
    ASSUME Shape, NEW x \in plan, SkipAction(x) PROVE Turn(x)
<1>1. FewerPages BY DEF SkipAction, env, FewerPages, Shape
<1>2. MadeFor(registry') BY DEF SkipAction, Shape, MadeFor
<1> DEFINE status == IF PhaseOf[x.r] = 0 THEN "skipped" ELSE "planned"
<1>3. status \in {"skipped", "planned"} /\ results' = results \cup {Result(x, status)}
      /\ plan' = plan \ {x} /\ attempt' = 0
  BY DEF SkipAction, Record
<1> HIDE DEF status
<1>4. Outcome(x, status) BY <1>3 DEF SkipAction, Outcome, env
<1>5. faults' \in Nat /\ faults <= faults' BY DEF SkipAction, Shape
<1> QED BY <1>1, <1>2, <1>3, <1>4, <1>5 DEF SkipAction, Turn

\* What the handler of an action says.
LEMMA VerdictTells ==
    ASSUME OneLocation, Shape, pc = "act", NEW x \in plan, PhaseOf[x.r] # 0, NEW reg,
           reg = initHandlers(Info[x.r].p, Targets[current.i].loc)
    PROVE  LET v == Verdict(x, reg) IN
           /\ v \in Verdicts
           /\ v = "terminating" => Info[x.r].type = "ec2-instance" /\ cloud[x.r] # "gone"
           /\ v = "already" => cloud[x.r] = "gone" /\ Info[x.r].type # "azure-resource-group"
           /\ v = "deleted" => cloud[x.r] # "gone" /\ Info[x.r].type # "ec2-instance"
           /\ v = "failed" => Refused(x)
<1>1. x.r \in Resources BY DEF Shape, Planned
<1>2. Info[x.r].type \in AwsTypes \cup ExoscaleTypes \cup StackitTypes \cup {"azure-resource-group"}
  <2>1. Info[x.r].type \in TypesOf(Info[x.r].p) /\ Info[x.r].p \in Providers
    BY <1>1, PhaseOfType, ProvidersAssumption
  <2> QED BY <2>1 DEF TypesOf, Providers
<1> DEFINE view == View(x.r, reg)
           more == attempt + 1 < MaxAttempts
<1>3. view \in {"absent", "free", "held"} /\ (view = "absent" <=> cloud[x.r] = "gone")
      /\ (view = "held" => HeldBy(cloud, x.r) # {})
  BY ViewTells
<1>4. more \in BOOLEAN OBVIOUS
<1>5. Verdict(x, reg) = Handle(x.r, view, more, pages[x.r]) BY DEF Verdict
<1>6. ~more => attempt + 1 >= MaxAttempts BY CleanupAssumption DEF Shape
<1> HIDE DEF view, more
<1>7. Says(Info[x.r].type, Handle(x.r, view, more, pages[x.r]), view, more, pages[x.r], Info[x.r].refused)
  BY <1>1, <1>2, <1>3, <1>4, HandleSays
<1> QED BY <1>3, <1>5, <1>6, <1>7 DEF Says, Refused

\* What a verdict does to the cloud.
LEMMA EffectTells ==
    ASSUME Shape, NEW x \in plan, NEW v, Effect(x.r, v)
    PROVE  /\ FewerPages
           /\ v = "deleted" => cloud' = [q \in Resources |-> IF q \in Cascade(x.r) THEN "gone" ELSE cloud[q]]
           /\ v = "terminating" => cloud' = [cloud EXCEPT ![x.r] = "deleting"]
           /\ v \in {"already", "failed"} => cloud' = cloud
<1>1. x.r \in Resources /\ pages \in [Resources -> Nat] BY DEF Shape, Planned
<1>2. pages' = IF pages[x.r] > 0 /\ v \in {"failed", "deleted"}
                THEN [pages EXCEPT ![x.r] = pages[x.r] - 1] ELSE pages
  BY DEF Effect
<1>3. FewerPages BY <1>1, <1>2 DEF FewerPages
<1>4. cloud' = CASE v = "deleted" -> [q \in Resources |-> IF q \in Cascade(x.r) THEN "gone" ELSE cloud[q]]
                 [] v = "terminating" -> [cloud EXCEPT ![x.r] = "deleting"]
                 [] OTHER -> cloud
  BY DEF Effect
<1> QED BY <1>3, <1>4

\* A delete that is answered is a turn.
LEMMA TurnDeletes ==
    ASSUME OneLocation, Shape, NEW x \in plan, DeleteAction(x) PROVE Turn(x)
<1> DEFINE v == Verdict(x, registry')
<1>1. pc = "act" /\ PhaseOf[x.r] # 0 /\ opts.execute /\ faults' = faults
      /\ registry' = initHandlers(Info[x.r].p, Targets[current.i].loc)
      /\ UNCHANGED <<opts, pc, work, index, todo, current, hidden, exit>>
  BY DEF DeleteAction
<1>2. MadeFor(registry') BY <1>1, ViewTells
<1>3. /\ v \in Verdicts
      /\ v = "terminating" => Info[x.r].type = "ec2-instance" /\ cloud[x.r] # "gone"
      /\ v = "already" => cloud[x.r] = "gone" /\ Info[x.r].type # "azure-resource-group"
      /\ v = "deleted" => cloud[x.r] # "gone" /\ Info[x.r].type # "ec2-instance"
      /\ v = "failed" => Refused(x)
  BY <1>1, VerdictTells
<1>4. faults' \in Nat /\ faults <= faults' BY <1>1 DEF Shape
<1>5. IF v = "retry"
      THEN attempt' = attempt + 1 /\ UNCHANGED <<env, plan, results>>
      ELSE Effect(x.r, v) /\ Record(x, IF v = "failed" THEN "failed" ELSE "success")
  BY DEF DeleteAction
<1> HIDE DEF v
<1>6. CASE v = "retry"
  <2>1. attempt' \in Nat /\ UNCHANGED <<cloud, pages, plan, results>> BY <1>5, <1>6 DEF env, Shape
  <2>2. FewerPages BY <2>1 DEF FewerPages, Shape
  <2> QED BY <1>1, <1>2, <1>4, <2>1, <2>2 DEF Turn
<1>7. CASE v # "retry"
  <2> DEFINE status == IF v = "failed" THEN "failed" ELSE "success"
  <2>1. Effect(x.r, v) /\ Record(x, status) BY <1>5, <1>7
  <2>2. status = "failed" <=> v = "failed" OBVIOUS
  <2>3. status \in {"success", "failed"} OBVIOUS
  <2> HIDE DEF status
  <2>4. /\ FewerPages
        /\ v = "deleted" => cloud' = [q \in Resources |-> IF q \in Cascade(x.r) THEN "gone" ELSE cloud[q]]
        /\ v = "terminating" => cloud' = [cloud EXCEPT ![x.r] = "deleting"]
        /\ v \in {"already", "failed"} => cloud' = cloud
    BY <2>1, EffectTells
  <2>5. Outcome(x, status)
    BY <1>1, <1>3, <1>7, <2>2, <2>3, <2>4 DEF Outcome, Deleted, Verdicts
  <2>6. attempt' = 0 /\ plan' = plan \ {x} /\ results' = results \cup {Result(x, status)}
    BY <2>1 DEF Record
  <2> QED BY <1>1, <1>2, <1>4, <2>4, <2>5, <2>6 DEF Turn
<1> QED BY <1>6, <1>7

\* A delete that fails is a turn, also when its effect came about.
LEMMA TurnFails ==
    ASSUME OneLocation, Shape, NEW x \in plan, DeleteFails(x) PROVE Turn(x)
<1> DEFINE v == Verdict(x, registry')
<1>1. pc = "act" /\ PhaseOf[x.r] # 0 /\ opts.execute /\ faults' = faults + 1
      /\ registry' = initHandlers(Info[x.r].p, Targets[current.i].loc)
      /\ UNCHANGED <<opts, pc, work, index, todo, current, hidden, exit>>
  BY DEF DeleteFails
<1>2. MadeFor(registry') BY <1>1, ViewTells
<1>3. /\ v = "terminating" => Info[x.r].type = "ec2-instance" /\ cloud[x.r] # "gone"
      /\ v = "deleted" => cloud[x.r] # "gone" /\ Info[x.r].type # "ec2-instance"
  BY <1>1, VerdictTells
<1>4. faults' \in Nat /\ faults <= faults' /\ faults' # 0 BY <1>1 DEF Shape
<1>5. \/ Record(x, "failed") /\ UNCHANGED env
      \/ v \in {"deleted", "terminating"} /\ Effect(x.r, v) /\ Record(x, "failed")
      \/ v = "deleted" /\ Effect(x.r, v) /\ Record(x, "success")
  BY DEF DeleteFails
<1> HIDE DEF v
<1>6. CASE Record(x, "failed") /\ UNCHANGED env
  <2>1. FewerPages BY <1>6 DEF env, FewerPages, Shape
  <2>2. Outcome(x, "failed") BY <1>1, <1>4, <1>6 DEF Outcome, env
  <2>3. attempt' = 0 /\ plan' = plan \ {x} /\ results' = results \cup {Result(x, "failed")}
    BY <1>6 DEF Record
  <2> QED BY <1>1, <1>2, <1>4, <2>1, <2>2, <2>3 DEF Turn
<1>7. ASSUME NEW status \in {"success", "failed"}, v \in {"deleted", "terminating"}, Effect(x.r, v),
             Record(x, status)
      PROVE  Turn(x)
  <2>1. /\ FewerPages
        /\ v = "deleted" => cloud' = [q \in Resources |-> IF q \in Cascade(x.r) THEN "gone" ELSE cloud[q]]
        /\ v = "terminating" => cloud' = [cloud EXCEPT ![x.r] = "deleting"]
    BY <1>7, EffectTells
  <2>2. Outcome(x, status) BY <1>1, <1>3, <1>4, <1>7, <2>1 DEF Outcome, Deleted
  <2>3. attempt' = 0 /\ plan' = plan \ {x} /\ results' = results \cup {Result(x, status)}
    BY <1>7 DEF Record
  <2> QED BY <1>1, <1>2, <1>4, <2>1, <2>2, <2>3 DEF Turn
<1> QED BY <1>5, <1>6, <1>7

\* What a turn leaves of the cloud.
LEMMA TurnCloud ==
    ASSUME Shape, NEW x \in plan, Turn(x)
    PROVE  /\ cloud' \in [Resources -> Conditions]
           /\ \A r \in Resources : \/ cloud'[r] = cloud[r] \/ cloud'[r] = "gone"
                                   \/ cloud'[r] = "deleting" /\ cloud[r] # "gone" /\ Info[r].type = "ec2-instance"
<1>1. x.r \in Resources /\ cloud \in [Resources -> Conditions] BY DEF Shape, Planned
<1>2. cloud' = cloud \/ Deleted(x) BY DEF Turn, Outcome
<1> QED BY <1>1, <1>2 DEF Deleted, Conditions

\* A turn keeps the shape of the state.
LEMMA Shape_Turn == ASSUME Shape, NEW x \in plan, Turn(x) PROVE Shape'
<1>1. cloud' \in [Resources -> Conditions] BY TurnCloud
<1>2. pages' \in [Resources -> Nat] BY DEF Turn, FewerPages
<1>3. /\ pc = "act" /\ pc' = "act" /\ UNCHANGED <<work, index, current>> /\ MadeFor(registry') /\ faults' \in Nat
  BY DEF Turn
<1>4. attempt' \in Nat /\ plan' \subseteq plan BY DEF Turn
<1>5. \A y \in results' : y.r \in Resources
  <2>1. results' = results \/ \E status : results' = results \cup {Result(x, status)} BY DEF Turn
  <2>2. x.r \in Resources BY DEF Shape, Planned
  <2>3. \A status : Result(x, status).r = x.r BY DEF Result
  <2> QED BY <2>1, <2>2, <2>3 DEF Shape
<1> QED BY <1>1, <1>2, <1>3, <1>4, <1>5 DEF Shape

-----------------------------------------------------------------------------
(* What is reported as deleted is gone *)

\* The turn of the action that is taken next.
NextTurn(x) == Turn(x) /\ \A y \in plan : PhaseOf[x.r] <= PhaseOf[y.r]

\* A step is one of those the lemmas above are about.
LEMMA NextCases ==
    ASSUME OneLocation, Shape, [Next]_vars
    PROVE  \/ UNCHANGED vars
           \/ \E o \in Options : StartProcess(o)
           \/ BuildPlan
           \/ \E i \in work : CollectLookupIndex(i)
           \/ EndSearch
           \/ \E d \in todo : LoadDeployment(d)
           \/ EndDeployment \/ EndProcess
           \/ \E x \in plan : NextTurn(x)
           \/ \E r \in Resources : TerminationCompletes(r)
<1>1. CASE plan # {} /\ \E x \in {CHOOSE y \in actionsForPhase(plan) : TRUE} :
                             SkipAction(x) \/ DeleteAction(x) \/ DeleteFails(x)
  <2>1. PICK x \in {CHOOSE y \in actionsForPhase(plan) : TRUE} :
           SkipAction(x) \/ DeleteAction(x) \/ DeleteFails(x)
    BY <1>1
  <2>2. \A y \in plan : y.r \in Resources BY DEF Shape, Planned
  <2>3. x = CHOOSE y \in actionsForPhase(plan) : TRUE BY <2>1
  <2>4. LET z == CHOOSE y \in actionsForPhase(plan) : TRUE
        IN  z \in plan /\ \A y \in plan : PhaseOf[z.r] <= PhaseOf[y.r]
    BY <1>1, <2>2, NextAction
  <2>5. x \in plan /\ \A y \in plan : PhaseOf[x.r] <= PhaseOf[y.r] BY <2>3, <2>4
  <2>6. Turn(x) BY <2>1, <2>5, TurnSkips, TurnDeletes, TurnFails
  <2> QED BY <2>5, <2>6 DEF NextTurn
<1> QED BY <1>1 DEF Next, Step

\* Every step keeps the shape of the state.
LEMMA ShapeNext == ASSUME OneLocation, Shape, [Next]_vars PROVE Shape'
<1>1. CASE UNCHANGED vars BY <1>1 DEF Shape, MadeFor, vars
<1>2. CASE \E o \in Options : StartProcess(o) BY <1>2, Shape_StartProcess
<1>3. CASE BuildPlan BY <1>3, Shape_BuildPlan
<1>4. CASE \E i \in work : CollectLookupIndex(i) BY <1>4, Shape_CollectLookupIndex
<1>5. CASE EndSearch BY <1>5, Shape_EndSearch
<1>6. CASE \E d \in todo : LoadDeployment(d) BY <1>6, Shape_LoadDeployment
<1>7. CASE EndDeployment \/ EndProcess BY <1>7, Shape_End
<1>8. CASE \E x \in plan : NextTurn(x) BY <1>8, Shape_Turn DEF NextTurn
<1>9. CASE \E r \in Resources : TerminationCompletes(r) BY <1>9, Shape_TerminationCompletes
<1> QED BY <1>1, <1>2, <1>3, <1>4, <1>5, <1>6, <1>7, <1>8, <1>9, NextCases

\* Nothing comes back.
LEMMA CloudFades ==
    ASSUME OneLocation, Shape, [Next]_vars, NEW r \in Resources
    PROVE  \/ cloud'[r] = cloud[r] \/ cloud'[r] = "gone"
           \/ cloud'[r] = "deleting" /\ cloud[r] # "gone" /\ Info[r].type = "ec2-instance"
<1>1. CASE UNCHANGED vars BY <1>1 DEF vars
<1>2. CASE \E o \in Options : StartProcess(o) BY <1>2, StartCases
<1>3. CASE BuildPlan BY <1>3, PlanCases DEF Aside
<1>4. CASE \E i \in work : CollectLookupIndex(i) BY <1>4, CollectCases DEF Aside
<1>5. CASE EndSearch BY <1>5, EndSearchCases DEF Aside
<1>6. CASE \E d \in todo : LoadDeployment(d) BY <1>6, LoadCases
<1>7. CASE EndDeployment \/ EndProcess BY <1>7, EndCases DEF Aside
<1>8. CASE \E x \in plan : NextTurn(x) BY <1>8, TurnCloud DEF NextTurn
<1>9. CASE \E q \in Resources : TerminationCompletes(q) BY <1>9 DEF TerminationCompletes, Shape
<1> QED BY <1>1, <1>2, <1>3, <1>4, <1>5, <1>6, <1>7, <1>8, <1>9, NextCases

\* The results are those of this process, and of actions that were in its plan.
LEMMA ResultsGrow ==
    ASSUME OneLocation, Shape, [Next]_vars
    PROVE  \/ results' = results \/ results' = {}
           \/ \E x \in plan : \E status : /\ NextTurn(x) /\ Outcome(x, status) /\ plan' = plan \ {x}
                                          /\ results' = results \cup {Result(x, status)}
<1>1. CASE UNCHANGED vars BY <1>1 DEF vars
<1>2. CASE \E o \in Options : StartProcess(o) BY <1>2, StartCases
<1>3. CASE BuildPlan BY <1>3, PlanCases DEF Aside
<1>4. CASE \E i \in work : CollectLookupIndex(i) BY <1>4, CollectCases DEF Aside
<1>5. CASE EndSearch BY <1>5, EndSearchCases DEF Aside
<1>6. CASE \E d \in todo : LoadDeployment(d) BY <1>6, LoadCases
<1>7. CASE EndDeployment \/ EndProcess BY <1>7, EndCases DEF Aside
<1>8. CASE \E x \in plan : NextTurn(x)
  <2>1. PICK x \in plan : NextTurn(x) BY <1>8
  <2>2. CASE UNCHANGED results BY <2>2
  <2>3. CASE plan' = plan \ {x} /\ \E status : results' = results \cup {Result(x, status)} /\ Outcome(x, status)
    BY <2>1, <2>3
  <2> QED BY <2>1, <2>2, <2>3 DEF NextTurn, Turn
<1>9. CASE \E q \in Resources : TerminationCompletes(q) BY <1>9 DEF TerminationCompletes
<1> QED BY <1>1, <1>2, <1>3, <1>4, <1>5, <1>6, <1>7, <1>8, <1>9, NextCases

\* Every step keeps the reported successes true.
LEMMA ReportedNext ==
    ASSUME OneLocation, Shape, ReportedSuccessTrue, [Next]_vars PROVE ReportedSuccessTrue'
<1>1. \A y \in results : y.status = "success" => Gone(y.r)'
  BY CloudFades DEF ReportedSuccessTrue, Gone, Shape
<1>2. ASSUME NEW x \in plan, NEW status, Outcome(x, status), status = "success"
      PROVE  Gone(x.r)'
  <2>1. x.r \in Resources BY DEF Shape, Planned
  <2>2. x.r \in Cascade(x.r) BY DEF Cascade
  <2>3. CASE Deleted(x) BY <2>1, <2>2, <2>3 DEF Deleted, Gone, Shape
  <2>4. CASE cloud' = cloud /\ cloud[x.r] = "gone" BY <2>4 DEF Gone
  <2> QED BY <1>2, <2>3, <2>4 DEF Outcome
<1>3. CASE results' = results \/ results' = {} BY <1>1, <1>3 DEF ReportedSuccessTrue
<1>4. ASSUME NEW x \in plan, NEW status, Outcome(x, status), results' = results \cup {Result(x, status)}
      PROVE  ReportedSuccessTrue'
  <2>1. Result(x, status).r = x.r /\ Result(x, status).status = status BY DEF Result
  <2> QED BY <1>1, <1>2, <1>4, <2>1 DEF ReportedSuccessTrue
<1> QED BY <1>3, <1>4, ResultsGrow

\* A resource that run reports as deleted is gone or on its way, whatever calls fail and
\* however often the tool was started before, if each provider of one location is searched
\* in one location: the handlers of a process are made for the first one (initHandlers).
THEOREM CleanupReportedSuccessTrue == ASSUME OneLocation PROVE Spec => []ReportedSuccessTrue
<1>1. Init => Shape /\ ReportedSuccessTrue BY ShapeInit DEF Init, ReportedSuccessTrue
<1>2. Shape /\ ReportedSuccessTrue /\ [Next]_vars => Shape' /\ ReportedSuccessTrue'
  BY ShapeNext, ReportedNext
<1> QED BY <1>1, <1>2, PTL DEF Spec

-----------------------------------------------------------------------------
(* A clean run leaves nothing *)

\* What a complete account shows is shown as long as it is there; azure needs the group.
LEMMA AwsStill ==
    ASSUME NEW c, NEW loc, NEW d, NEW x \in awsDetails(Complete, loc, d, {}), c[x.r] # "gone"
    PROVE  x \in awsDetails(c, loc, d, {})
<1>1. CASE x \in recordTaggedResource(Complete, loc, d)
  <2>1. PICK r \in GetResources(Complete, loc) : Tagged(r, d) /\ x = [r |-> r, via |-> "tagging"]
    BY <1>1 DEF recordTaggedResource
  <2>2. x.r = r BY <2>1
  <2>3. r \in GetResources(c, loc) BY <2>2 DEF GetResources
  <2> QED BY <2>1, <2>3 DEF recordTaggedResource, awsDetails
<1>2. CASE x \in discoverIAMRoles(Complete, d, {})
  <2>1. PICK r \in Listed(Complete, "aws", "iam-role") :
           (Tagged(r, d) \/ Named(r, d)) /\ x = [r |-> r, via |-> "iam"]
    BY <1>2 DEF discoverIAMRoles
  <2>2. x.r = r BY <2>1
  <2>3. r \in Listed(c, "aws", "iam-role") BY <2>2 DEF Listed
  <2> QED BY <2>1, <2>3 DEF discoverIAMRoles, awsDetails
<1>3. CASE x \in discoverIAMInstanceProfiles(Complete, d, {})
  <2>1. PICK r \in Listed(Complete, "aws", "iam-instance-profile") :
           (Tagged(r, d) \/ Named(r, d)) /\ x = [r |-> r, via |-> "iam"]
    BY <1>3 DEF discoverIAMInstanceProfiles
  <2>2. x.r = r BY <2>1
  <2>3. r \in Listed(c, "aws", "iam-instance-profile") BY <2>2 DEF Listed
  <2> QED BY <2>1, <2>3 DEF discoverIAMInstanceProfiles, awsDetails
<1> QED BY <1>1, <1>2, <1>3 DEF awsDetails

\* The same for exoscale.
LEMMA ExoscaleStill ==
    ASSUME NEW c, NEW loc, NEW d, NEW x \in exoscaleDetails(Complete, loc, d, {}), c[x.r] # "gone"
    PROVE  x \in exoscaleDetails(c, loc, d, {})
<1> DEFINE found(e) == UNION {collectInstanceDetails(e, d), collectBlockStorageVolumeDetails(e, d),
                        collectPrivateNetworkDetails(e, d), collectSecurityGroupDetails(e, d),
                        collectSSHKeyDetails(e, d), collectIAMRoleDetails(e, d),
                        collectIAMAPIKeyDetails(e, d), collectSOSBucketDetails(e, d)}
<1>1. PICK r \in found(Complete) : Info[r].loc \in {loc, "global"} /\ x = [r |-> r, via |-> "list"]
  BY DEF exoscaleDetails
<1>2. x.r = r BY <1>1
<1>3. r \in found(c)
  BY <1>2 DEF collectInstanceDetails, collectBlockStorageVolumeDetails, collectPrivateNetworkDetails,
         collectSecurityGroupDetails, collectSSHKeyDetails, collectIAMRoleDetails,
         collectIAMAPIKeyDetails, collectSOSBucketDetails, Listed
<1> QED BY <1>1, <1>3 DEF exoscaleDetails

\* The same for stackit.
LEMMA StackitStill ==
    ASSUME NEW c, NEW loc, NEW d, NEW x \in stackitDetails(Complete, loc, d, {}), c[x.r] # "gone"
    PROVE  x \in stackitDetails(c, loc, d, {})
<1>1. PICK r \in CollectResources(Complete, loc, {}) :
         isDeployment(stackitMeta(r), d) /\ x = [r |-> r, via |-> "list"]
  BY DEF stackitDetails
<1>2. x.r = r BY <1>1
<1>3. r \in CollectResources(c, loc, {}) BY <1>2, CollectedAre
<1> QED BY <1>1, <1>3 DEF stackitDetails

\* The same for azure, as long as there is a group to find.
LEMMA AzureStill ==
    ASSUME NEW c, NEW d, NEW x \in azureDetails(Complete, d), c[x.r] # "gone", azureDetails(c, d) # {}
    PROVE  x \in azureDetails(c, d)
<1>1. findDeploymentGroup(c, d) # {} BY DEF azureDetails
<1>2. PICK r \in findDeploymentGroup(Complete, d) \cup listResourcesInGroup(Complete, d) :
         x = [r |-> r, via |-> "list"]
  BY DEF azureDetails
<1>3. x.r = r BY <1>2
<1>4. r \in findDeploymentGroup(c, d) \cup listResourcesInGroup(c, d)
  BY <1>3 DEF findDeploymentGroup, listResourcesInGroup, Listed
<1> QED BY <1>1, <1>2, <1>4 DEF azureDetails

\* A plan without --type covers what is there of the deployment.
Covers(a, r) ==
    \/ r = a /\ PhaseOf[a] # 0
    \/ Info[a].type = "azure-resource-group" /\ Info[r].p = "azure" /\ Info[r].dep = Info[a].dep

\* A plan made without a lost listing covers everything that is there of its deployment.
LEMMA PlanCovers ==
    ASSUME Visible, Shape, opts.types = {}, NEW m \in index, NEW d, PlanFor(m, d, {}) # {},
           NEW r \in Resources, Info[r].p = Targets[m.i].p, Info[r].dep = d, cloud[r] # "gone"
    PROVE  \E y \in PlanFor(m, d, {}) : Covers(y.r, r)
<1> DEFINE p == Targets[m.i].p
           loc == Targets[m.i].loc
<1>1. m.i \in DOMAIN Targets /\ p \in Providers BY TargetsAre DEF Shape
<1>2. PICK x \in PlanActions(p, CollectDeploymentDetails(p, Complete, loc, d, {}), {}) : x.r = r
  BY <1>1 DEF Visible
<1>3. x \in CollectDeploymentDetails(p, Complete, loc, d, {}) /\ (p # "azure" => PhaseOf[r] # 0)
  BY <1>2, PlanFound
<1>4. PlanFor(m, d, {}) = PlanActions(p, CollectDeploymentDetails(p, cloud, loc, d, {}), {})
  BY DEF PlanFor, Details
<1>5. CollectDeploymentDetails(p, cloud, loc, d, {}) # {} BY <1>4, PlanFound
<1>6. x \in CollectDeploymentDetails(p, cloud, loc, d, {})
  <2>1. cloud[x.r] # "gone" BY <1>2
  <2>2. CASE p = "aws" BY <1>3, <2>1, <2>2, AwsStill DEF CollectDeploymentDetails
  <2>3. CASE p = "exoscale" BY <1>3, <2>1, <2>3, ExoscaleStill DEF CollectDeploymentDetails
  <2>4. CASE p = "stackit" BY <1>3, <2>1, <2>4, StackitStill DEF CollectDeploymentDetails
  <2>5. CASE p = "azure" BY <1>3, <1>5, <2>1, <2>5, AzureStill DEF CollectDeploymentDetails
  <2> QED BY <1>1, <2>2, <2>3, <2>4, <2>5 DEF Providers
<1>7. CASE p # "azure"
  <2>1. x \in PlanFor(m, d, {}) BY <1>2, <1>3, <1>4, <1>6, <1>7, PlanFound
  <2> QED BY <1>2, <1>3, <1>7, <2>1 DEF Covers
<1>8. CASE p = "azure"
  <2>1. PlanFor(m, d, {}) = azureDetails(cloud, d)
    BY <1>4, <1>8, PlanFound DEF CollectDeploymentDetails
  <2>2. PICK g \in azureDetails(cloud, d) : Info[g.r].type = "azure-resource-group"
    BY <2>1, AzureFound
  <2>3. Info[g.r].dep = d BY AzureFound DEF FoundFor
  <2> QED BY <1>8, <2>1, <2>2, <2>3 DEF Covers
<1> QED BY <1>7, <1>8

\* What run is expected to have deleted, or to delete yet, unless it has reported a failure.
Failed == \E y \in results : y.status = "failed"
Accounted(a) ==
    \A r \in Resources : Info[r].dep = Info[a].dep /\ Info[r].p = Info[a].p
        => Gone(r) \/ Failed \/ \E y \in plan : Covers(y.r, r)
Clean ==
    Executed /\ opts.types = {} /\ ~hidden =>
        /\ \A x \in plan : Accounted(x.r)
        /\ \A x \in results : Accounted(x.r)
        /\ pc = "idle" /\ exit = "ok" => ~Failed

\* A step beside the deletions keeps the account complete.
LEMMA Clean_Aside ==
    ASSUME Clean, Aside, opts' = opts, hidden => hidden',
           pc' = "idle" /\ exit' = "ok" => opts.cmd # "run" \/ ~Failed \/ (pc = "idle" /\ exit = "ok")
    PROVE  Clean'
<1>1. UNCHANGED <<cloud, plan, results>> BY DEF Aside
<1> QED BY <1>1 DEF Clean, Executed, Accounted, Failed, Gone

\* A new plan accounts for what is there of its deployment.
LEMMA Clean_LoadDeployment ==
    ASSUME Visible, Shape, Clean, NEW d \in todo, LoadDeployment(d) PROVE Clean'
<1>1. /\ pc = "load" /\ UNCHANGED <<cloud, opts, results>> /\ (hidden => hidden')
      /\ pc' # "idle"
  BY LoadCases
<1>2. CASE plan' = plan BY <1>1, <1>2 DEF Clean, Executed, Accounted, Failed, Gone
<1>3. CASE plan' # plan
  <2>1. PICK m, lost : m \in index /\ m.d = d /\ plan' = PlanFor(m, d, lost) /\ (lost = {} \/ hidden')
    BY <1>3, LoadCases
  <2> SUFFICES ASSUME Executed', opts'.types = {}, ~hidden' PROVE Clean'
    BY DEF Clean
  <2>2. plan' = PlanFor(m, d, {}) /\ opts.types = {} BY <1>1, <2>1
  <2>3. plan = {} BY <1>1 DEF Shape
  <2>4. \A x \in results : Accounted(x.r)'
    BY <1>1, <2>3 DEF Clean, Executed, Accounted, Failed, Gone
  <2>5. \A x \in plan' : Accounted(x.r)'
    <3> SUFFICES ASSUME NEW x \in plan', NEW r \in Resources, Info[r].dep = Info[x.r].dep,
                        Info[r].p = Info[x.r].p
                 PROVE  cloud[r] = "gone" \/ \E y \in plan' : Covers(y.r, r)
      BY <1>1 DEF Accounted, Gone
    <3>1. Planned(x, [d |-> d, i |-> m.i]) BY <2>1, <2>2, PlannedNew
    <3>2. Info[x.r].p = Targets[m.i].p /\ Info[x.r].dep = d BY <3>1 DEF Planned
    <3>3. PlanFor(m, d, {}) # {} BY <2>2
    <3> QED BY <2>1, <2>2, <3>2, <3>3, PlanCovers
  <2> QED BY <1>1, <2>4, <2>5 DEF Clean
<1> QED BY <1>2, <1>3

\* A turn deletes what it covers, or has a failure to report.
LEMMA Clean_Turn ==
    ASSUME OneLocation, Shape, Clean, [Next]_vars, NEW x \in plan, NextTurn(x) PROVE Clean'
<1>1. pc = "act" /\ pc' = "act" /\ UNCHANGED <<opts, hidden>> BY DEF NextTurn, Turn
<1> SUFFICES ASSUME Executed, opts.types = {}, ~hidden
             PROVE  (\A a \in plan' : Accounted(a.r)') /\ (\A a \in results' : Accounted(a.r)')
  BY <1>1 DEF Clean, Executed
<1>2. (\A a \in plan : Accounted(a.r)) /\ (\A a \in results : Accounted(a.r)) BY DEF Clean
<1>3. CASE UNCHANGED <<cloud, plan, results>> BY <1>2, <1>3 DEF Accounted, Gone, Failed
<1>4. ASSUME NEW status, plan' = plan \ {x}, results' = results \cup {Result(x, status)}, Outcome(x, status)
      PROVE  (\A a \in plan' : Accounted(a.r)') /\ (\A a \in results' : Accounted(a.r)')
  <2>1. Result(x, status).r = x.r /\ Result(x, status).status = status BY DEF Result
  <2>2. \A a : Accounted(a) => Accounted(a)'
    <3> SUFFICES ASSUME NEW a, Accounted(a), NEW r \in Resources, Info[r].dep = Info[a].dep,
                        Info[r].p = Info[a].p
                 PROVE  Gone(r)' \/ Failed' \/ \E y \in plan' : Covers(y.r, r)
      BY DEF Accounted
    <3>1. CASE Gone(r) BY <3>1, CloudFades DEF Gone
    <3>2. CASE Failed BY <1>4, <3>2 DEF Failed
    <3>3. ASSUME NEW y \in plan, y # x, Covers(y.r, r) PROVE \E z \in plan' : Covers(z.r, r)
      BY <1>4, <3>3
    <3>4. CASE Covers(x.r, r)
      <4>1. x.r \in Resources BY DEF Shape, Planned
      <4>2. PhaseOf[x.r] # 0
        <5>1. CASE Info[x.r].type = "azure-resource-group"
          BY <4>1, <5>1, PhaseOfType, TypeOfProvider DEF TypesOf
        <5> QED BY <3>4, <5>1 DEF Covers
      <4>3. opts.execute BY DEF Executed
      <4>4. CASE status = "failed" BY <1>4, <2>1, <4>4 DEF Failed
      <4>5. CASE Deleted(x)
        <5>1. r \in Cascade(x.r) /\ x.r \in Cascade(x.r) BY <3>4 DEF Covers, Cascade
        <5>2. Info[x.r].type = "ec2-instance" => r = x.r BY <3>4 DEF Covers
        <5> QED BY <4>1, <4>5, <5>1, <5>2 DEF Deleted, Gone, Shape
      <4>6. CASE cloud' = cloud /\ cloud[x.r] = "gone" /\ Info[x.r].type # "azure-resource-group"
        BY <3>4, <4>6 DEF Covers, Gone
      <4> QED BY <1>4, <4>2, <4>3, <4>4, <4>5, <4>6 DEF Outcome
    <3> QED BY <3>1, <3>2, <3>3, <3>4 DEF Accounted
  <2>3. \A a \in plan' : Accounted(a.r)' BY <1>2, <1>4, <2>2
  <2>4. \A a \in results' : Accounted(a.r)' BY <1>2, <1>4, <2>1, <2>2
  <2> QED BY <2>3, <2>4
<1> QED BY <1>3, <1>4 DEF NextTurn, Turn

\* A termination that completes takes nothing out of the account.
LEMMA Clean_TerminationCompletes ==
    ASSUME OneLocation, Shape, Clean, [Next]_vars, NEW r \in Resources, TerminationCompletes(r) PROVE Clean'
<1>1. UNCHANGED <<opts, hidden, plan, results, pc, exit>> BY DEF TerminationCompletes
<1>2. \A q \in Resources : Gone(q) => Gone(q)' BY CloudFades DEF Gone
<1>3. \A a : Accounted(a) => Accounted(a)' BY <1>1, <1>2 DEF Accounted, Failed
<1> QED BY <1>1, <1>3 DEF Clean, Executed, Failed

\* Every step keeps the account complete.
LEMMA CleanNext ==
    ASSUME OneLocation, Visible, Shape, Clean, [Next]_vars PROVE Clean'
<1>1. CASE UNCHANGED vars BY <1>1 DEF vars, Clean, Executed, Accounted, Failed, Gone
<1>2. CASE \E o \in Options : StartProcess(o)
  <2>1. plan' = {} /\ results' = {} BY <1>2, StartCases
  <2> QED BY <2>1 DEF Clean, Failed
<1>3. CASE BuildPlan
  <2>1. pc' = "collect" BY <1>3 DEF BuildPlan
  <2> QED BY <1>3, <2>1, PlanCases, Clean_Aside
<1>4. CASE \E i \in work : CollectLookupIndex(i)
  <2>1. PICK i \in work : CollectLookupIndex(i) BY <1>4
  <2>2. Aside /\ pc' = "collect" /\ opts' = opts BY <2>1, CollectCases
  <2>3. hidden => hidden' BY <2>1, CollectCases
  <2> QED BY <2>2, <2>3, Clean_Aside
<1>5. CASE EndSearch
  <2>1. Aside /\ opts' = opts /\ hidden' = hidden BY <1>5, EndSearchCases
  <2>2. pc' = "idle" /\ exit' = "ok" => opts.cmd # "run" BY <1>5, EndSearchCases
  <2> QED BY <2>1, <2>2, Clean_Aside
<1>6. CASE \E d \in todo : LoadDeployment(d) BY <1>6, Clean_LoadDeployment
<1>7. CASE EndDeployment \/ EndProcess
  <2>1. Aside /\ opts' = opts /\ hidden' = hidden BY <1>7, EndCases
  <2>2. pc' = "idle" /\ exit' = "ok" => ~Failed BY <1>7, EndCases DEF Failed
  <2> QED BY <2>1, <2>2, Clean_Aside
<1>8. CASE \E x \in plan : NextTurn(x) BY <1>8, Clean_Turn
<1>9. CASE \E r \in Resources : TerminationCompletes(r) BY <1>9, Clean_TerminationCompletes
<1> QED BY <1>1, <1>2, <1>3, <1>4, <1>5, <1>6, <1>7, <1>8, <1>9, NextCases

\* A process that ended well has nothing left to account for.
LEMMA CleanRemoves == ASSUME Shape, Clean PROVE CleanRunRemovesAll
<1> SUFFICES ASSUME pc = "idle", Executed, exit = "ok", opts.types = {}, ~hidden, NEW x \in results,
                    NEW r \in Resources, Info[r].dep = Info[x.r].dep, Info[r].p = Info[x.r].p
             PROVE  Gone(r)
  BY DEF CleanRunRemovesAll
<1>1. plan = {} BY DEF Shape
<1> QED BY <1>1 DEF Clean, Accounted

\* What run reports can be relied on: a resource reported as deleted is gone or on its way,
\* and after an exit with 0 and no lost listing nothing is left of the deployments that were
\* processed, if the presets label what they create.
THEOREM CleanupReportsTrue == ASSUME OneLocation, Visible PROVE Spec => []ReportsTrue
<1>1. Init => Shape /\ ReportedSuccessTrue /\ Clean BY ShapeInit DEF Init, ReportedSuccessTrue, Clean, Failed
<1>2. Shape /\ ReportedSuccessTrue /\ Clean /\ [Next]_vars => Shape' /\ ReportedSuccessTrue' /\ Clean'
  BY ShapeNext, ReportedNext, CleanNext
<1>3. Shape /\ ReportedSuccessTrue /\ Clean => ReportsTrue BY CleanRemoves DEF ReportsTrue
<1> QED BY <1>1, <1>2, <1>3, PTL DEF Spec

-----------------------------------------------------------------------------
(* The order of the phases suffices *)

\* What holds a resource that is deleted with one call.
Keepers == {"iam-instance-profile", "exoscale-compute-instance", "exoscale-iam-api-key"}

\* What holds a resource belongs to its provider, and has an earlier phase.
LEMMA HoldersFirst ==
    ASSUME NEW c, NEW r \in Resources, NEW q \in HeldBy(c, r)
    PROVE  /\ q \in Resources /\ Info[q].dep = Info[r].dep /\ c[q] # "gone" /\ ~Info[q].refused
           /\ Info[q].p = Info[r].p /\ Info[q].p # "azure"
           /\ PhaseOf[q] \in Nat /\ PhaseOf[r] \in Nat /\ PhaseOf[q] # 0 /\ PhaseOf[q] < PhaseOf[r]
           /\ Info[r].type \in Onces => Info[q].type \in Keepers
<1> DEFINE t == Info[r].type
           u == Info[q].type
<1>1. q \in Resources /\ Info[q].dep = Info[r].dep /\ c[q] # "gone" /\ ~Info[q].refused /\ u \in Holders(t)
  BY DEF HeldBy
<1>2. PhaseOf[q] \in Nat /\ PhaseOf[r] \in Nat BY <1>1, PhaseOfType
<1>3. CASE t \in {"ebs-volume", "internet-gateway", "security-group", "subnet"}
  <2>1. u = "ec2-instance" BY <1>1, <1>3 DEF Holders
  <2>2. Info[r].p = "aws" /\ Info[q].p = "aws" BY <1>1, <1>3, <2>1, TypeOfProvider DEF AwsTypes
  <2>3. PhaseOf[q] = 1 BY <1>1, <2>1, <2>2, PhasesOfAws
  <2>4. PhaseOf[r] \in {5, 6, 7} BY <1>3, <2>2, PhasesOfAws
  <2> QED BY <1>1, <1>2, <1>3, <2>2, <2>3, <2>4 DEF Onces
<1>4. CASE t = "vpc"
  <2>1. u \in {"subnet", "internet-gateway", "route-table", "security-group", "vpc-endpoint"}
    BY <1>1, <1>4 DEF Holders
  <2>2. Info[r].p = "aws" /\ Info[q].p = "aws" BY <1>1, <1>4, <2>1, TypeOfProvider DEF AwsTypes
  <2>3. PhaseOf[q] \in {6, 7} BY <1>1, <2>1, <2>2, PhasesOfAws
  <2>4. PhaseOf[r] = 8 BY <1>4, <2>2, PhasesOfAws
  <2> QED BY <1>1, <1>2, <1>4, <2>2, <2>3, <2>4 DEF Onces
<1>5. CASE t = "iam-role"
  <2>1. u = "iam-instance-profile" BY <1>1, <1>5 DEF Holders
  <2>2. Info[r].p = "aws" /\ Info[q].p = "aws" BY <1>1, <1>5, <2>1, TypeOfProvider DEF AwsTypes
  <2>3. PhaseOf[q] = 3 BY <1>1, <2>1, <2>2, PhasesOfAws
  <2>4. PhaseOf[r] = 4 BY <1>5, <2>2, PhasesOfAws
  <2> QED BY <1>1, <1>2, <2>1, <2>2, <2>3, <2>4 DEF Keepers
<1>6. CASE t \in {"exoscale-block-storage-volume", "exoscale-private-network", "exoscale-security-group"}
  <2>1. u = "exoscale-compute-instance" BY <1>1, <1>6 DEF Holders
  <2>2. Info[r].p = "exoscale" /\ Info[q].p = "exoscale"
    BY <1>1, <1>6, <2>1, TypeOfProvider DEF ExoscaleTypes
  <2>3. PhaseOf[q] = 1 BY <1>1, <2>1, <2>2, PhasesOfExoscale
  <2>4. PhaseOf[r] \in {2, 5} BY <1>6, <2>2, PhasesOfExoscale
  <2> QED BY <1>1, <1>2, <2>1, <2>2, <2>3, <2>4 DEF Keepers
<1>7. CASE t = "exoscale-iam-role"
  <2>1. u = "exoscale-iam-api-key" BY <1>1, <1>7 DEF Holders
  <2>2. Info[r].p = "exoscale" /\ Info[q].p = "exoscale"
    BY <1>1, <1>7, <2>1, TypeOfProvider DEF ExoscaleTypes
  <2>3. PhaseOf[q] = 3 BY <1>1, <2>1, <2>2, PhasesOfExoscale
  <2>4. PhaseOf[r] = 4 BY <1>7, <2>2, PhasesOfExoscale
  <2> QED BY <1>1, <1>2, <2>1, <2>2, <2>3, <2>4 DEF Keepers
<1>8. CASE t \in {"stackit-volume", "stackit-network-interface"}
  <2>1. u = "stackit-server" BY <1>1, <1>8 DEF Holders
  <2>2. Info[r].p = "stackit" /\ Info[q].p = "stackit"
    BY <1>1, <1>8, <2>1, TypeOfProvider DEF StackitTypes
  <2>3. PhaseOf[q] = 1 BY <1>1, <2>1, <2>2, PhasesOfStackit
  <2>4. PhaseOf[r] \in {2, 4} BY <1>8, <2>2, PhasesOfStackit
  <2> QED BY <1>1, <1>2, <1>8, <2>2, <2>3, <2>4 DEF Onces
<1>9. CASE t \in {"stackit-network", "stackit-security-group"}
  <2>1. u = "stackit-network-interface" BY <1>1, <1>9 DEF Holders
  <2>2. Info[r].p = "stackit" /\ Info[q].p = "stackit"
    BY <1>1, <1>9, <2>1, TypeOfProvider DEF StackitTypes
  <2>3. PhaseOf[q] = 4 BY <1>1, <2>1, <2>2, PhasesOfStackit
  <2>4. PhaseOf[r] \in {5, 6} BY <1>9, <2>2, PhasesOfStackit
  <2> QED BY <1>1, <1>2, <1>9, <2>2, <2>3, <2>4 DEF Onces
<1>10. Holders(t) = {} \/ t \in {"ebs-volume", "internet-gateway", "security-group", "subnet", "vpc", "iam-role",
          "exoscale-block-storage-volume", "exoscale-private-network", "exoscale-security-group",
          "exoscale-iam-role", "stackit-volume", "stackit-network-interface", "stackit-network",
          "stackit-security-group"}
  BY DEF Holders
<1> QED BY <1>1, <1>3, <1>4, <1>5, <1>6, <1>7, <1>8, <1>9, <1>10

\* Nothing holds what holds them.
LEMMA KeepersFree ==
    ASSUME NEW c, NEW r \in Resources, Info[r].type \in Keepers PROVE HeldBy(c, r) = {}
<1>1. Holders(Info[r].type) = {} BY DEF Holders, Keepers
<1> QED BY <1>1 DEF HeldBy

\* The cloud and the buckets only become emptier, and only instances of AWS take their time.
Fades ==
    \A r \in Resources : /\ InitialCloud[r] = "gone" => cloud[r] = "gone"
                         /\ cloud[r] = "deleting" => Info[r].type = "ec2-instance"
                         /\ pages[r] <= InitialPages[r]

\* Nothing else takes away what a handler must find.
Present == \A x \in plan : Info[x.r].type \in Strict => cloud[x.r] # "gone"

\* What holds a resource of the plan is in the plan, on its way, or has a failed result.
Waiting ==
    \A x \in plan : \A q \in HeldBy(cloud, x.r) :
        \/ \E y \in plan : y.r = q
        \/ cloud[q] = "deleting"
        \/ \E y \in results : y.r = q /\ y.status = "failed"
Ordered == faults = 0 /\ opts.types = {} /\ opts.execute => Waiting

\* Without a failing call, what holds those fails only if it is refused.
Kept ==
    faults = 0 => \A y \in results : y.status = "failed" /\ Info[y.r].type \in Keepers => Info[y.r].refused

\* Every step takes away, in the cloud and in the buckets.
LEMMA FadesNext ==
    ASSUME OneLocation, Shape, Fades, [Next]_vars PROVE Fades'
<1>1. \A r \in Resources : pages'[r] <= pages[r]
  <2>1. CASE pages' = pages BY <2>1 DEF Shape
  <2>2. CASE \E x \in plan : NextTurn(x) BY <2>2 DEF NextTurn, Turn, FewerPages
  <2>3. CASE UNCHANGED vars BY <2>1, <2>3 DEF vars
  <2>4. CASE \E o \in Options : StartProcess(o) BY <2>1, <2>4, StartCases
  <2>5. CASE BuildPlan BY <2>1, <2>5, PlanCases DEF Aside
  <2>6. CASE \E i \in work : CollectLookupIndex(i) BY <2>1, <2>6, CollectCases DEF Aside
  <2>7. CASE EndSearch BY <2>1, <2>7, EndSearchCases DEF Aside
  <2>8. CASE \E d \in todo : LoadDeployment(d) BY <2>1, <2>8, LoadCases
  <2>9. CASE EndDeployment \/ EndProcess BY <2>1, <2>9, EndCases DEF Aside
  <2>10. CASE \E q \in Resources : TerminationCompletes(q) BY <2>1, <2>10 DEF TerminationCompletes
  <2> QED BY <2>2, <2>3, <2>4, <2>5, <2>6, <2>7, <2>8, <2>9, <2>10, NextCases
<1>2. \A r \in Resources : pages'[r] \in Nat /\ pages[r] \in Nat /\ InitialPages[r] \in Nat
  BY ShapeNext, CleanupAssumption DEF Shape
<1>3. \A r \in Resources : pages'[r] <= InitialPages[r] BY <1>1, <1>2 DEF Fades
<1>4. ASSUME NEW r \in Resources
      PROVE  /\ InitialCloud[r] = "gone" => cloud'[r] = "gone"
             /\ cloud'[r] = "deleting" => Info[r].type = "ec2-instance"
  BY CloudFades DEF Fades
<1> QED BY <1>3, <1>4 DEF Fades

\* A turn takes away nothing that another handler must find.
LEMMA Present_Turn ==
    ASSUME Settled, Shape, Present, NEW x \in plan, Turn(x) PROVE Present'
<1>1. CASE cloud' = cloud
  <2>1. plan' \subseteq plan BY DEF Turn
  <2> QED BY <1>1, <2>1 DEF Present
<1>2. CASE Deleted(x) /\ plan' = plan \ {x}
  <2> SUFFICES ASSUME NEW y \in plan, y # x, Info[y.r].type \in Strict, cloud'[y.r] = "gone" PROVE FALSE
    BY <1>2 DEF Present
  <2>1. Planned(x, current) /\ Planned(y, current) BY DEF Shape
  <2>2. x.r \in Resources /\ y.r \in Resources /\ Info[x.r].dep = Info[y.r].dep /\ Info[x.r].p = Info[y.r].p
    BY <2>1 DEF Planned
  <2>3. x.r # y.r
    <3>1. Info[y.r].type \notin IamTypes BY DEF Strict, IamTypes
    <3>2. y = [r |-> y.r, via |-> Via(Targets[current.i].p)] BY <2>1, <3>1 DEF Planned
    <3>3. Info[x.r].type \notin IamTypes => x = [r |-> x.r, via |-> Via(Targets[current.i].p)]
      BY <2>1 DEF Planned
    <3> QED BY <3>1, <3>2, <3>3
  <2>4. cloud[y.r] # "gone" BY DEF Present
  <2>5. y.r \in Cascade(x.r) BY <1>2, <2>2, <2>3, <2>4 DEF Deleted, Shape
  <2>6. \/ Info[x.r].type = "azure-resource-group" /\ Info[y.r].p = "azure"
        \/ Info[y.r].type = "stackit-objectstorage-credential"
    BY <2>3, <2>5 DEF Cascade
  <2>7. Info[x.r].type = "azure-resource-group" /\ Info[y.r].p = "azure" BY <2>6 DEF Strict
  <2>8. Info[y.r].type \notin AwsTypes BY <2>2, <2>7, TypeOfProvider
  <2>9. Info[y.r].type = "azure-resource-group" BY <2>8 DEF Strict, AwsTypes
  <2> QED BY <2>2, <2>3, <2>7, <2>9 DEF Settled
<1> QED BY <1>1, <1>2 DEF Turn, Outcome

\* What a handler must find stays until its turn.
LEMMA PresentNext ==
    ASSUME OneLocation, Settled, Shape, Fades, Present, [Next]_vars PROVE Present'
<1>1. CASE UNCHANGED vars BY <1>1 DEF Present, vars
<1>2. CASE \E o \in Options : StartProcess(o)
  <2>1. plan' = {} BY <1>2, StartCases
  <2> QED BY <2>1 DEF Present
<1>3. CASE BuildPlan BY <1>3, PlanCases DEF Aside, Present
<1>4. CASE \E i \in work : CollectLookupIndex(i) BY <1>4, CollectCases DEF Aside, Present
<1>5. CASE EndSearch BY <1>5, EndSearchCases DEF Aside, Present
<1>6. CASE \E d \in todo : LoadDeployment(d)
  <2>1. PICK d \in todo : LoadDeployment(d) BY <1>6
  <2>2. cloud' = cloud BY <2>1, LoadCases
  <2>3. CASE plan' = plan BY <2>2, <2>3 DEF Present
  <2>4. CASE \E m, lost : m \in index /\ plan' = PlanFor(m, d, lost)
    <3>1. \A x \in plan' : cloud[x.r] # "gone" BY <2>4, PlannedNew
    <3> QED BY <2>2, <3>1 DEF Present
  <2> QED BY <2>1, <2>3, <2>4, LoadCases
<1>7. CASE EndDeployment \/ EndProcess BY <1>7, EndCases DEF Aside, Present
<1>8. CASE \E x \in plan : NextTurn(x) BY <1>8, Present_Turn DEF NextTurn
<1>9. CASE \E r \in Resources : TerminationCompletes(r)
  <2>1. PICK r \in Resources : TerminationCompletes(r) BY <1>9
  <2>2. Info[r].type = "ec2-instance" BY <2>1 DEF TerminationCompletes, Fades
  <2>3. \A x \in plan : Info[x.r].type \in Strict => x.r # r BY <2>2 DEF Strict
  <2>4. \A x \in plan : x.r \in Resources BY DEF Shape, Planned
  <2>5. plan' = plan /\ cloud' = [cloud EXCEPT ![r] = "gone"] BY <2>1 DEF TerminationCompletes
  <2> QED BY <2>3, <2>4, <2>5 DEF Present, Shape
<1> QED BY <1>1, <1>2, <1>3, <1>4, <1>5, <1>6, <1>7, <1>8, <1>9, NextCases

\* The plan without --type and without a lost listing has what holds its resources.
LEMMA PlanWaits ==
    ASSUME Visible, Shape, opts.types = {}, NEW m \in index, NEW d, NEW x \in PlanFor(m, d, {}),
           NEW q \in HeldBy(cloud, x.r)
    PROVE  \E y \in PlanFor(m, d, {}) : y.r = q
<1>1. Planned(x, [d |-> d, i |-> m.i]) BY PlannedNew
<1>2. x.r \in Resources /\ Info[x.r].p = Targets[m.i].p /\ Info[x.r].dep = d BY <1>1 DEF Planned
<1>3. /\ q \in Resources /\ Info[q].dep = d /\ cloud[q] # "gone"
      /\ Info[q].p = Targets[m.i].p /\ Info[q].p # "azure"
  BY <1>2, HoldersFirst
<1>4. PICK y \in PlanFor(m, d, {}) : Covers(y.r, q) BY <1>3, PlanCovers
<1>5. Planned(y, [d |-> d, i |-> m.i]) BY PlannedNew
<1> QED BY <1>3, <1>4, <1>5 DEF Covers, Planned

\* A new plan has what holds its resources.
LEMMA Ordered_LoadDeployment ==
    ASSUME Visible, Shape, Ordered, NEW d \in todo, LoadDeployment(d) PROVE Ordered'
<1>1. /\ UNCHANGED <<cloud, opts, results>> /\ faults \in Nat /\ faults' \in Nat /\ faults <= faults'
  BY LoadCases DEF Shape
<1>2. CASE plan' = plan BY <1>1, <1>2 DEF Ordered, Waiting, HeldBy
<1>3. CASE plan' # plan
  <2>1. PICK m, lost : m \in index /\ plan' = PlanFor(m, d, lost) /\ (lost = {} \/ faults' # 0)
    BY <1>3, LoadCases
  <2> SUFFICES ASSUME faults' = 0, opts'.types = {} PROVE Waiting'
    BY DEF Ordered
  <2>2. plan' = PlanFor(m, d, {}) /\ opts.types = {} BY <1>1, <2>1
  <2>3. \A x \in plan' : \A q \in HeldBy(cloud, x.r) : \E y \in plan' : y.r = q
    BY <2>1, <2>2, PlanWaits
  <2>4. \A r : HeldBy(cloud, r)' = HeldBy(cloud, r) BY <1>1 DEF HeldBy
  <2> QED BY <1>1, <2>3, <2>4 DEF Waiting
<1> QED BY <1>2, <1>3

\* What holds a resource can only become less.
LEMMA HeldLess ==
    ASSUME OneLocation, Shape, [Next]_vars, NEW r
    PROVE  HeldBy(cloud', r) \subseteq HeldBy(cloud, r)
<1>1. \A q \in Resources : cloud[q] = "gone" => cloud'[q] = "gone" BY CloudFades
<1> QED BY <1>1 DEF HeldBy

\* What held a resource has had its turn: it is gone, on its way, or has failed.
LEMMA Ordered_Turn ==
    ASSUME OneLocation, Shape, Ordered, [Next]_vars, NEW x \in plan, NextTurn(x) PROVE Ordered'
<1>1. UNCHANGED opts /\ faults' \in Nat /\ faults <= faults' /\ faults \in Nat BY DEF NextTurn, Turn, Shape
<1> SUFFICES ASSUME faults = 0, opts.types = {}, opts.execute, Waiting PROVE Waiting'
  BY <1>1 DEF Ordered
<1>2. CASE UNCHANGED <<cloud, plan, results>> BY <1>2 DEF Waiting, HeldBy
<1>3. ASSUME NEW status, plan' = plan \ {x}, results' = results \cup {Result(x, status)}, Outcome(x, status)
      PROVE  Waiting'
  <2>1. Result(x, status).r = x.r /\ Result(x, status).status = status BY DEF Result
  <2> SUFFICES ASSUME NEW a \in plan', NEW q \in HeldBy(cloud', a.r)
               PROVE  \/ \E y \in plan' : y.r = q
                      \/ cloud'[q] = "deleting"
                      \/ \E y \in results' : y.r = q /\ y.status = "failed"
    BY DEF Waiting
  <2>2. a \in plan /\ a.r \in Resources /\ x.r \in Resources BY <1>3 DEF Shape, Planned
  <2>3. q \in HeldBy(cloud, a.r) BY HeldLess
  <2>4. q \in Resources /\ cloud'[q] # "gone" BY DEF HeldBy
  <2>5. PhaseOf[q] # 0 BY <2>2, <2>3, HoldersFirst
  <2>6. CASE cloud[q] = "deleting" BY <2>4, <2>6, CloudFades
  <2>7. CASE \E y \in results : y.r = q /\ y.status = "failed" BY <1>3, <2>7
  <2>8. CASE \E y \in plan : y # x /\ y.r = q BY <1>3, <2>8
  <2>9. CASE x.r = q
    <3>1. CASE status = "failed" BY <1>3, <2>1, <2>9, <3>1
    <3>2. CASE Deleted(x)
      <4>1. x.r \in Cascade(x.r) BY DEF Cascade
      <4> QED BY <2>2, <2>4, <2>9, <3>2, <4>1 DEF Deleted, Shape
    <3>3. CASE cloud' = cloud /\ cloud[x.r] = "gone" BY <2>4, <2>9, <3>3
    <3> QED BY <1>3, <2>5, <2>9, <3>1, <3>2, <3>3 DEF Outcome
  <2> QED BY <2>2, <2>3, <2>6, <2>7, <2>8, <2>9 DEF Waiting
<1> QED BY <1>2, <1>3 DEF NextTurn, Turn

\* Every step keeps what the order of the phases rests on.
LEMMA OrderedNext ==
    ASSUME OneLocation, Visible, Shape, Ordered, [Next]_vars PROVE Ordered'
<1>1. ASSUME UNCHANGED <<cloud, plan, results>>, opts' = opts, faults' \in Nat, faults <= faults' PROVE Ordered'
  <2>1. faults' = 0 => faults = 0 BY <1>1 DEF Shape
  <2> QED BY <1>1, <2>1 DEF Ordered, Waiting, HeldBy
<1>2. CASE UNCHANGED vars BY <1>1, <1>2 DEF vars, Shape
<1>3. CASE \E o \in Options : StartProcess(o)
  <2>1. plan' = {} BY <1>3, StartCases
  <2> QED BY <2>1 DEF Ordered, Waiting
<1>4. CASE BuildPlan BY <1>1, <1>4, PlanCases DEF Aside
<1>5. CASE \E i \in work : CollectLookupIndex(i) BY <1>1, <1>5, CollectCases DEF Aside
<1>6. CASE EndSearch BY <1>1, <1>6, EndSearchCases DEF Aside, Shape
<1>7. CASE \E d \in todo : LoadDeployment(d) BY <1>7, Ordered_LoadDeployment
<1>8. CASE EndDeployment \/ EndProcess BY <1>1, <1>8, EndCases DEF Aside, Shape
<1>9. CASE \E x \in plan : NextTurn(x) BY <1>9, Ordered_Turn
<1>10. CASE \E r \in Resources : TerminationCompletes(r)
  <2>1. UNCHANGED <<faults, opts, plan, results>> BY <1>10 DEF TerminationCompletes
  <2>2. \A q \in Resources : cloud[q] = "deleting" => cloud'[q] \in {"deleting", "gone"} BY CloudFades
  <2> SUFFICES ASSUME Waiting, NEW a \in plan, NEW q \in HeldBy(cloud', a.r)
               PROVE  \/ \E y \in plan : y.r = q
                      \/ cloud'[q] = "deleting"
                      \/ \E y \in results : y.r = q /\ y.status = "failed"
    BY <2>1 DEF Ordered, Waiting
  <2>3. q \in HeldBy(cloud, a.r) BY HeldLess
  <2>4. q \in Resources /\ cloud'[q] # "gone" BY DEF HeldBy
  <2> QED BY <2>2, <2>3, <2>4 DEF Waiting
<1> QED BY <1>2, <1>3, <1>4, <1>5, <1>6, <1>7, <1>8, <1>9, <1>10, NextCases

\* A result that is new, with no failing call.
LEMMA NewFailure ==
    ASSUME Shape, Present, NEW x \in plan, NEW status, Outcome(x, status), status = "failed", faults' = 0
    PROVE  /\ opts.execute
           /\ \/ Info[x.r].refused
              \/ pages[x.r] > 1 /\ Info[x.r].type \in {"s3-bucket", "sos-bucket"}
              \/ HeldBy(cloud, x.r) # {} /\ (attempt + 1 >= MaxAttempts \/ Info[x.r].type \in Onces)
  BY DEF Outcome, Refused, Present

\* The number of calls that failed only grows within a process, and results start anew.
LEMMA FaultsGrow ==
    ASSUME OneLocation, Shape, [Next]_vars PROVE faults' \in Nat /\ faults \in Nat /\ faults <= faults'
<1>1. faults \in Nat BY DEF Shape
<1>2. CASE faults' = faults BY <1>1, <1>2
<1>3. CASE UNCHANGED vars BY <1>2, <1>3 DEF vars
<1>4. CASE \E o \in Options : StartProcess(o) BY <1>2, <1>4, StartCases
<1>5. CASE BuildPlan BY <1>1, <1>5, PlanCases
<1>6. CASE \E i \in work : CollectLookupIndex(i) BY <1>1, <1>6, CollectCases
<1>7. CASE EndSearch BY <1>2, <1>7, EndSearchCases
<1>8. CASE \E d \in todo : LoadDeployment(d) BY <1>1, <1>8, LoadCases
<1>9. CASE EndDeployment \/ EndProcess BY <1>2, <1>9, EndCases
<1>10. CASE \E x \in plan : NextTurn(x) BY <1>1, <1>10 DEF NextTurn, Turn
<1>11. CASE \E q \in Resources : TerminationCompletes(q) BY <1>2, <1>11 DEF TerminationCompletes
<1> QED BY <1>3, <1>4, <1>5, <1>6, <1>7, <1>8, <1>9, <1>10, <1>11, NextCases

\* Without a failing call, nothing that holds others is left behind but what is refused.
LEMMA KeptNext ==
    ASSUME OneLocation, Shape, Present, Kept, [Next]_vars PROVE Kept'
<1>1. faults' = 0 => faults = 0 BY FaultsGrow
<1>2. CASE results' = results \/ results' = {} BY <1>1, <1>2 DEF Kept
<1>3. ASSUME NEW x \in plan, NEW status, Outcome(x, status), results' = results \cup {Result(x, status)}
      PROVE  Kept'
  <2>1. Result(x, status).r = x.r /\ Result(x, status).status = status BY DEF Result
  <2>2. x.r \in Resources BY DEF Shape, Planned
  <2>3. faults' = 0 /\ status = "failed" /\ Info[x.r].type \in Keepers => Info[x.r].refused
    BY <1>3, <2>2, NewFailure, KeepersFree DEF Keepers
  <2> QED BY <1>1, <1>3, <2>1, <2>3 DEF Kept
<1> QED BY <1>2, <1>3, ResultsGrow

\* A new failure has one of the reasons OrderSuffices names.
LEMMA OrderNext ==
    ASSUME OneLocation, Shape, Fades, Present, Ordered, Kept, OrderSuffices, [Next]_vars
    PROVE  OrderSuffices'
<1>1. faults' = 0 => faults = 0 BY FaultsGrow
<1>2. CASE results' = {} BY <1>2 DEF OrderSuffices
<1>3. CASE results' = results /\ opts' = opts BY <1>1, <1>3 DEF OrderSuffices
<1>4. ASSUME NEW x \in plan, NEW status, NextTurn(x), Outcome(x, status),
             results' = results \cup {Result(x, status)}
      PROVE  OrderSuffices'
  <2> DEFINE y == Result(x, status)
  <2>1. y.r = x.r /\ y.status = status
        /\ (y.slow <=> /\ attempt + 1 >= MaxAttempts
                       /\ \A q \in HeldBy(cloud, x.r) :
                             cloud[q] = "deleting" \/ \E z \in results : z.r = q /\ z.status = "failed")
    BY DEF Result
  <2> HIDE DEF y
  <2>2. opts' = opts BY <1>4 DEF NextTurn, Turn
  <2> SUFFICES ASSUME faults' = 0, opts.types = {}, status = "failed"
               PROVE  Info[x.r].refused \/ InitialPages[x.r] > 1 \/ (HeldBy(InitialCloud, x.r) # {} /\ y.slow)
    BY <1>1, <1>4, <2>1, <2>2 DEF OrderSuffices, y
  <2>3. x.r \in Resources BY DEF Shape, Planned
  <2>4. CASE Info[x.r].refused BY <2>4
  <2>5. CASE pages[x.r] > 1
    <3>1. pages[x.r] <= InitialPages[x.r] /\ pages[x.r] \in Nat /\ InitialPages[x.r] \in Nat
      BY <2>3, CleanupAssumption DEF Fades, Shape
    <3> QED BY <2>5, <3>1
  <2>6. CASE opts.execute /\ HeldBy(cloud, x.r) # {}
             /\ (attempt + 1 >= MaxAttempts \/ Info[x.r].type \in Onces)
    <3>1. HeldBy(cloud, x.r) \subseteq HeldBy(InitialCloud, x.r) BY DEF Fades, HeldBy
    <3>2. Waiting BY <1>1, <2>6 DEF Ordered
    <3>3. \A q \in HeldBy(cloud, x.r) : ~\E z \in plan : z.r = q
      <4> SUFFICES ASSUME NEW q \in HeldBy(cloud, x.r), NEW z \in plan, z.r = q PROVE FALSE
        OBVIOUS
      <4>1. PhaseOf[q] \in Nat /\ PhaseOf[x.r] \in Nat /\ PhaseOf[q] < PhaseOf[x.r] BY <2>3, HoldersFirst
      <4>2. PhaseOf[x.r] <= PhaseOf[z.r] BY <1>4 DEF NextTurn
      <4> QED BY <4>1, <4>2
    <3>4. \A q \in HeldBy(cloud, x.r) :
             cloud[q] = "deleting" \/ \E z \in results : z.r = q /\ z.status = "failed"
      BY <3>2, <3>3 DEF Waiting
    <3>5. CASE attempt + 1 >= MaxAttempts BY <2>1, <2>6, <3>1, <3>4, <3>5
    <3>6. CASE Info[x.r].type \in Onces
      <4>1. PICK q \in HeldBy(cloud, x.r) : TRUE BY <2>6
      <4>2. q \in Resources /\ ~Info[q].refused /\ Info[q].type \in Keepers BY <2>3, <3>6, HoldersFirst
      <4>3. cloud[q] # "deleting" BY <4>2 DEF Fades, Keepers
      <4>4. PICK z \in results : z.r = q /\ z.status = "failed" BY <3>4, <4>3
      <4>5. Info[z.r].refused BY <1>1, <4>2, <4>4 DEF Kept
      <4> QED BY <4>2, <4>4, <4>5
    <3> QED BY <2>6, <3>5, <3>6
  <2> QED BY <1>4, <2>4, <2>5, <2>6, NewFailure
<1>5. CASE UNCHANGED vars BY <1>3, <1>5 DEF vars
<1>6. CASE \E o \in Options : StartProcess(o) BY <1>2, <1>6, StartCases
<1>7. CASE BuildPlan BY <1>3, <1>7, PlanCases DEF Aside
<1>8. CASE \E i \in work : CollectLookupIndex(i) BY <1>3, <1>8, CollectCases DEF Aside
<1>9. CASE EndSearch BY <1>3, <1>9, EndSearchCases DEF Aside
<1>10. CASE \E d \in todo : LoadDeployment(d) BY <1>3, <1>10, LoadCases
<1>11. CASE EndDeployment \/ EndProcess BY <1>3, <1>11, EndCases DEF Aside
<1>12. CASE \E x \in plan : NextTurn(x)
  <2>1. PICK x \in plan : NextTurn(x) BY <1>12
  <2>2. opts' = opts BY <2>1 DEF NextTurn, Turn
  <2>3. CASE results' = results BY <1>3, <2>2, <2>3
  <2>4. CASE \E status : results' = results \cup {Result(x, status)} /\ Outcome(x, status)
    BY <1>4, <2>1, <2>4
  <2> QED BY <2>1, <2>3, <2>4 DEF NextTurn, Turn
<1>13. CASE \E r \in Resources : TerminationCompletes(r) BY <1>3, <1>13 DEF TerminationCompletes
<1> QED BY <1>5, <1>6, <1>7, <1>8, <1>9, <1>10, <1>11, <1>12, <1>13, NextCases

\* Nothing is planned and nothing has failed at first.
LEMMA OrderInit ==
    ASSUME Settled, Init PROVE Fades /\ Present /\ Ordered /\ Kept /\ OrderSuffices
<1>1. Fades BY CleanupAssumption DEF Init, Fades, Settled
<1>2. plan = {} /\ results = {} BY DEF Init
<1> QED BY <1>1, <1>2 DEF Present, Ordered, Waiting, Kept, OrderSuffices

\* The order of the phases and the waiting suffice: without a failing call an action fails
\* only because the cloud is slow, for a resource the tool refuses to delete, or for a
\* bucket of more than one page.
THEOREM CleanupOrderSuffices == ASSUME OneLocation, Visible, Settled PROVE Spec => []OrderSuffices
<1> DEFINE Inv == Shape /\ Fades /\ Present /\ Ordered /\ Kept /\ OrderSuffices
<1>1. Init => Inv BY ShapeInit, OrderInit
<1>2. Inv /\ [Next]_vars => Inv'
  BY ShapeNext, FadesNext, PresentNext, OrderedNext, KeptNext, OrderNext
<1>3. Inv => OrderSuffices OBVIOUS
<1> QED BY <1>1, <1>2, <1>3, PTL DEF Spec

-----------------------------------------------------------------------------
(* Lookups that fail *)

\* What a summary of a deployment is made from.
LEMMA MembersAre ==
    ASSUME NEW p \in Providers, NEW c, NEW loc, NEW d, NEW owners, NEW legacy, NEW lost,
           NEW r \in SummaryMembers(p, c, loc, d, owners, legacy, lost)
    PROVE  /\ r \in Resources /\ Info[r].p = p /\ Info[r].dep = d
           /\ p \in {"aws", "azure"} => Info[r].tag
           /\ p = "stackit" => Info[r].type \in StackitTypes
<1>1. CASE p = "aws"
  BY <1>1 DEF SummaryMembers, recordTaggedSummaryResource, GetResources, Tagged
<1>2. CASE p = "exoscale"
  BY <1>2 DEF SummaryMembers, discoverSummariesFromInstances, discoverSummariesFromVolumes,
         discoverSummariesFromPrivateNetworks, Labelled, Listed, Tagged
<1>3. CASE p = "stackit"
  <2>1. r \in CollectResources(c, loc, lost) /\ d \in getDeploymentId(stackitMeta(r))
    BY <1>3 DEF SummaryMembers, stackitMembers
  <2>2. r \in Resources /\ Info[r].p = "stackit" /\ Info[r].type \in StackitTypes BY <2>1, CollectedAre
  <2>3. stackitMeta(r).tag \subseteq {Info[r].dep} /\ stackitMeta(r).name \subseteq {Info[r].dep}
    BY <2>2, MetaIs
  <2> QED BY <1>3, <2>1, <2>2, <2>3 DEF getDeploymentId
<1>4. CASE p = "azure"
  BY <1>4 DEF SummaryMembers, summarizeDeploymentGroup, Listed, matchesDeploymentTags
<1> QED BY <1>1, <1>2, <1>3, <1>4 DEF Providers

\* A time that the resources of deployment d may have.
Known(t, d) == t \in Nat /\ (t = 0 \/ Created(d) <= t)

\* The times of a resource are times of its deployment.
LEMMA TimesKnown ==
    ASSUME NEW r \in Resources
    PROVE  /\ Known(Info[r].time, Info[r].dep) /\ Known(Info[r].tagTime, Info[r].dep)
           /\ Created(Info[r].dep) \in Nat
<1> DEFINE R == {q \in Resources : Info[q].dep = Info[r].dep}
           T == Times(R) \cup {Info[q].tagTime : q \in R}
<1>1. r \in R OBVIOUS
<1>2. T \in SUBSET Nat BY ProvidersAssumption DEF Times
<1>3. Info[r].time \in T /\ Info[r].tagTime \in T BY <1>1 DEF Times
<1>4. Created(Info[r].dep) = Earliest(T) BY DEF Created
<1> HIDE DEF T
<1>5. Earliest(T) \in Nat /\ \A t \in T : t # 0 => Earliest(T) <= t BY <1>2, EarliestIs
<1> QED BY <1>2, <1>3, <1>4, <1>5 DEF Known

\* The earliest of times of a deployment is one of them.
LEMMA EarliestKnown ==
    ASSUME NEW T, NEW d, \A t \in T : Known(t, d) PROVE Known(Earliest(T), d)
<1>1. T \in SUBSET Nat BY DEF Known
<1>2. Earliest(T) \in Nat /\ (Earliest(T) # 0 => Earliest(T) \in T) BY <1>1, EarliestIs
<1> QED BY <1>2 DEF Known

\* The earliest time is known when one is.
LEMMA SomeEarliest ==
    ASSUME NEW T \in SUBSET Nat, NEW t \in T, t # 0 PROVE Earliest(T) # 0
  BY EarliestIs

\* The fallbacks of aws only replace a time that is not known.
LEMMA AwsCreated ==
    ASSUME NEW d, NEW S \in SUBSET Resources, NEW lost, \A r \in S : Info[r].dep = d
    PROVE  /\ Known(awsCreatedAt(S, lost), d)
           /\ (\E r \in S : Info[r].tagTime # 0) => awsCreatedAt(S, lost) # 0
<1>1. \A r \in S : Known(Info[r].time, d) /\ Known(Info[r].tagTime, d) BY TimesKnown
<1> DEFINE T0 == {Info[r].tagTime : r \in S}
           c0 == UpdateCreatedAtFromTag(S)
           T1 == {c0} \cup Times({r \in S : Info[r].type = "ec2-instance"})
           c1 == enrichSummaryFromEC2Instances(c0, S, lost)
           T2 == Times({r \in S : Info[r].type = "ebs-volume"})
           c2 == applyEBSFallbackCreatedAt(c1, S, lost)
           T3 == Times({r \in S : Info[r].type = "ssm-parameter"})
           c3 == applySSMFallbackCreatedAt(c2, S, lost)
<1>2. c0 = Earliest(T0) BY DEF UpdateCreatedAtFromTag
<1>3. c1 = c0 \/ c1 = Earliest(T1) BY DEF enrichSummaryFromEC2Instances
<1>4. c2 = c1 \/ (c1 = 0 /\ c2 = Earliest(T2)) BY DEF applyEBSFallbackCreatedAt
<1>5. c3 = c2 \/ (c2 = 0 /\ c3 = Earliest(T3)) BY DEF applySSMFallbackCreatedAt
<1>6. awsCreatedAt(S, lost) = c3 BY DEF awsCreatedAt
<1>7. (\A t \in T0 : Known(t, d)) /\ T0 \in SUBSET Nat BY <1>1 DEF Known
<1>8. (\A t \in T2 : Known(t, d)) /\ (\A t \in T3 : Known(t, d)) BY <1>1 DEF Times
<1>9. Known(c0, d) /\ ((\E r \in S : Info[r].tagTime # 0) => c0 # 0)
  <2> HIDE DEF c0
  <2>1. Known(c0, d) BY <1>2, <1>7, EarliestKnown
  <2>2. (\E t \in T0 : t # 0) => c0 # 0 BY <1>2, <1>7, SomeEarliest
  <2> QED BY <2>1, <2>2
<1>10. Known(c1, d) /\ (c0 # 0 => c1 # 0)
  <2> HIDE DEF c0, c1
  <2>1. (\A t \in T1 : Known(t, d)) /\ c0 \in T1 BY <1>1, <1>9 DEF Times
  <2> HIDE DEF T1
  <2>2. T1 \in SUBSET Nat BY <2>1 DEF Known
  <2>3. Known(Earliest(T1), d) BY <2>1, EarliestKnown
  <2>4. c0 # 0 => Earliest(T1) # 0 BY <2>1, <2>2, SomeEarliest
  <2> QED BY <1>3, <1>9, <2>3, <2>4
<1>11. Known(c2, d) /\ (c1 # 0 => c2 # 0)
  <2> HIDE DEF c1, c2, T2
  <2> QED BY <1>4, <1>8, <1>10, EarliestKnown
<1>12. Known(c3, d) /\ (c2 # 0 => c3 # 0)
  <2> HIDE DEF c2, c3, T3
  <2> QED BY <1>5, <1>8, <1>11, EarliestKnown
<1> HIDE DEF c0, c1, c2, c3
<1> QED BY <1>6, <1>9, <1>10, <1>11, <1>12

\* The creation time of a summary is none or one that its deployment has.
LEMMA CreatedTells ==
    ASSUME Recognisable, NEW p \in Providers, NEW d, NEW S \in SUBSET Resources, NEW lost, S # {},
           \A r \in S : /\ Info[r].dep = d /\ Info[r].p = p /\ (p \in {"aws", "azure"} => Info[r].tag)
                        /\ (p = "stackit" => Info[r].type \in StackitTypes)
    PROVE  /\ Known(CreatedAt(p, S, lost), d)
           /\ CreatedAt(p, S, lost) = 0 => p \in {"exoscale", "stackit"}
<1>1. \A r \in S : Known(Info[r].time, d) /\ Known(Info[r].tagTime, d) BY TimesKnown
<1>2. p \in {"aws", "azure"} => \E r \in S : Info[r].tagTime # 0 BY DEF Recognisable
<1>3. CASE p = "aws" BY <1>2, <1>3, AwsCreated DEF CreatedAt
<1>4. CASE p = "exoscale"
  <2> DEFINE T == Times({r \in S : Info[r].type \in {"exoscale-compute-instance", "exoscale-block-storage-volume"}})
  <2>1. \A t \in T : Known(t, d) BY <1>1 DEF Times
  <2>2. CreatedAt(p, S, lost) = Earliest(T) BY <1>4 DEF CreatedAt, exoscaleCreatedAt
  <2> HIDE DEF T
  <2> QED BY <1>4, <2>1, <2>2, EarliestKnown
<1>5. CASE p = "stackit"
  <2> DEFINE T == {stackitMeta(r).time : r \in S}
  <2>1. \A r \in S : stackitMeta(r).time \in {0, Info[r].time} BY <1>5, MetaIs
  <2>2. \A t \in T : Known(t, d) BY <1>1, <2>1 DEF Known
  <2>3. CreatedAt(p, S, lost) = Earliest(T) BY <1>5 DEF CreatedAt, stackitCreatedAt
  <2> HIDE DEF T
  <2> QED BY <1>5, <2>2, <2>3, EarliestKnown
<1>6. CASE p = "azure"
  <2> DEFINE T == {Info[r].tagTime : r \in S}
  <2>1. (\A t \in T : Known(t, d)) /\ \E t \in T : t # 0 BY <1>1, <1>2, <1>6
  <2>2. CreatedAt(p, S, lost) = Earliest(T) BY <1>6 DEF CreatedAt
  <2> HIDE DEF T
  <2>3. T \in SUBSET Nat BY <2>1 DEF Known
  <2> QED BY <2>1, <2>2, <2>3, EarliestKnown, SomeEarliest
<1> QED BY <1>3, <1>4, <1>5, <1>6 DEF Providers

\* Nothing runs that deployment d has.
Still(c, d) ==
    \A r \in Resources : Info[r].dep = d /\ Info[r].type \in Instances => c[r] # "running"

\* A summary that shows a deployment as orphaned has seen all its instances, but on
\* stackit when a listing was lost.
LEMMA OrphanTells ==
    ASSUME Recognisable, NEW i \in DOMAIN Targets, NEW c, NEW d, NEW owners, NEW legacy, NEW lost,
           SummaryMembers(Targets[i].p, c, Targets[i].loc, d, owners, legacy, lost) # {},
           StateShown(Targets[i].p, c,
                      SummaryMembers(Targets[i].p, c, Targets[i].loc, d, owners, legacy, lost), d, lost) = "orphaned"
    PROVE  Still(c, d) \/ (lost # {} /\ Targets[i].p = "stackit")
<1> DEFINE p == Targets[i].p
           loc == Targets[i].loc
           S == SummaryMembers(p, c, loc, d, owners, legacy, lost)
<1>1. p \in Providers BY TargetsAre
<1>2. PICK s \in S : TRUE OBVIOUS
<1>3. s \in Resources /\ Info[s].p = p /\ Info[s].dep = d BY <1>1, MembersAre
<1> SUFFICES ASSUME NEW r \in Resources, Info[r].dep = d, Info[r].type \in Instances, c[r] = "running",
                    ~(lost # {} /\ p = "stackit")
             PROVE  FALSE
  BY DEF Still
<1>4. Info[r].p = p BY <1>3 DEF Recognisable
<1>5. Info[r].tag /\ Info[s].owner = Info[r].owner /\ Info[s].project = Info[r].project
      /\ (p # "azure" => Info[r].loc = loc)
  BY <1>3, <1>4 DEF Recognisable
<1>6. Info[r].type = (CASE p = "aws" -> "ec2-instance" [] p = "exoscale" -> "exoscale-compute-instance"
                        [] p = "stackit" -> "stackit-server" [] p = "azure" -> "azure-vm")
  <2>1. /\ Info[r].type = "ec2-instance" => p = "aws"
        /\ Info[r].type = "exoscale-compute-instance" => p = "exoscale"
        /\ Info[r].type = "stackit-server" => p = "stackit"
        /\ Info[r].type = "azure-vm" => p = "azure"
    BY <1>4, TypeOfProvider, ProvidersAssumption DEF AwsTypes, ExoscaleTypes, StackitTypes
  <2> QED BY <1>1, <2>1 DEF Providers, Instances
<1>7. CASE p = "aws"
  <2>1. S = recordTaggedSummaryResource(c, loc, d, owners, legacy) BY <1>7 DEF SummaryMembers
  <2>2. r \in S BY <1>2, <1>4, <1>5, <1>7, <2>1 DEF recordTaggedSummaryResource, GetResources, Tagged
  <2>3. markOrphanedSummaries(S, c, lost) = "orphaned" BY <1>7 DEF StateShown
  <2> HIDE DEF S
  <2>4. r \in {q \in S : Info[q].type = "ec2-instance"} BY <1>6, <1>7, <2>2
  <2> QED BY <2>3, <2>4 DEF markOrphanedSummaries
<1>8. CASE p = "exoscale"
  <2>1. applyInstanceStateToSummary(S, c) = "orphaned" BY <1>8 DEF StateShown
  <2> HIDE DEF S
  <2> QED BY <2>1 DEF applyInstanceStateToSummary
<1>9. CASE p = "stackit"
  <2>1. lost = {} BY <1>9
  <2>2. S = stackitMembers(c, loc, d, owners, lost) BY <1>9 DEF SummaryMembers
  <2>3. S = {q \in CollectResources(c, loc, lost) : d \in getDeploymentId(stackitMeta(q))}
    BY <1>2, <2>2 DEF stackitMembers
  <2>4. r \in CollectResources(c, loc, lost) BY <1>4, <1>5, <1>6, <1>9, <2>1, CollectedAre DEF StackitTypes
  <2>5. stackitMeta(r).tag = {d} BY <1>5, <1>6, <1>9, MetaIs DEF StackitTypes
  <2>6. r \in S BY <2>3, <2>4, <2>5 DEF getDeploymentId
  <2>7. deploymentState(S, c) = "orphaned" BY <1>9 DEF StateShown
  <2> HIDE DEF S
  <2>8. r \in {q \in S : Info[q].type = "stackit-server"} BY <1>6, <1>9, <2>6
  <2> QED BY <2>7, <2>8 DEF deploymentState
<1>10. CASE p = "azure"
  <2>1. deriveState(c, d) = "orphaned" BY <1>10 DEF StateShown
  <2>2. r \in listResourcesInGroup(c, d) /\ Info[r].type = "azure-vm"
    BY <1>4, <1>6, <1>10 DEF listResourcesInGroup
  <2> QED BY <2>1, <2>2 DEF deriveState
<1> QED BY <1>1, <1>7, <1>8, <1>9, <1>10 DEF Providers

\* A match tells of the resources of its deployment.
Dated(m) ==
    /\ Known(m.created, m.d)
    /\ m.created = 0 => Targets[m.i].p \in {"exoscale", "stackit"}
    /\ \A r \in Resources : Info[r].dep = m.d => Info[r].p = Targets[m.i].p
OrphanIn(m, c, unseen) == m.state = "orphaned" => Still(c, m.d) \/ (unseen /\ Targets[m.i].p = "stackit")
Orphan(m) == OrphanIn(m, cloud, hidden)

\* A deployment that the index shows as old.
Stale(d) == \E m \in index : m.d = d /\ m.created <= Cutoff

Sound ==
    /\ pc \in {"plan", "collect"} => todo = {} /\ results = {}
    /\ pc = "plan" => index = {}
    /\ opts.cmd \in {"discover", "show", "run"}
    /\ \A m \in index : Dated(m)
    /\ pc \in {"plan", "collect"} => \A m \in index : Orphan(m)
    /\ opts.all /\ opts.older /\ opts.cmd # "show" /\ pc \in {"load", "act"} => \A d \in todo : Stale(d)
    /\ opts.all /\ opts.older => /\ \A x \in plan : Stale(Info[x.r].dep)
                                 /\ \A x \in results : Stale(Info[x.r].dep)

\* A match that is added to the index tells the truth of its deployment.
LEMMA MatchSound ==
    ASSUME Recognisable, NEW i \in DOMAIN Targets, NEW d, NEW lost, Members(i, d, lost) # {}
    PROVE  /\ Dated(Match(i, d, lost)) /\ Match(i, d, lost).d = d /\ Match(i, d, lost).i = i
           /\ Match(i, d, lost).state = "orphaned" => Still(cloud, d) \/ (lost # {} /\ Targets[i].p = "stackit")
<1> DEFINE m == Match(i, d, lost)
           S == Members(i, d, lost)
           p == Targets[i].p
<1>1. m.d = d /\ m.i = i /\ m.created = CreatedAt(p, S, lost) /\ m.state = StateShown(p, cloud, S, d, lost)
  BY DEF Match
<1>2. p \in Providers BY TargetsAre
<1>3. \A r \in S : /\ r \in Resources /\ Info[r].p = p /\ Info[r].dep = d
                   /\ (p \in {"aws", "azure"} => Info[r].tag)
                   /\ (p = "stackit" => Info[r].type \in StackitTypes)
  BY <1>2, MembersAre DEF Members
<1>4. m.state = "orphaned" => Still(cloud, d) \/ (lost # {} /\ p = "stackit")
  <2> DEFINE owners == resolveOwner(p, opts)
             legacy == opts.legacy /\ opts.cmd = "discover"
  <2>1. S = SummaryMembers(p, cloud, Targets[i].loc, d, owners, legacy, lost) BY DEF Members
  <2>2. StateShown(p, cloud, SummaryMembers(p, cloud, Targets[i].loc, d, owners, legacy, lost), d, lost) = "orphaned"
          => Still(cloud, d) \/ (lost # {} /\ p = "stackit")
    <3>1. SummaryMembers(p, cloud, Targets[i].loc, d, owners, legacy, lost) # {} BY <2>1
    <3> HIDE DEF owners, legacy
    <3> QED BY <3>1, OrphanTells
  <2> HIDE DEF S, m, owners, legacy
  <2> QED BY <1>1, <2>1, <2>2
<1> HIDE DEF S, m
<1>5. S \in SUBSET Resources BY <1>3
<1>6. Known(CreatedAt(p, S, lost), d) /\ (CreatedAt(p, S, lost) = 0 => p \in {"exoscale", "stackit"})
  BY <1>2, <1>3, <1>5, CreatedTells DEF S
<1>7. PICK s \in S : TRUE BY DEF S
<1>8. \A r \in Resources : Info[r].dep = d => Info[r].p = p BY <1>3, <1>7 DEF Recognisable
<1>9. Dated(m) BY <1>1, <1>6, <1>8 DEF Dated
<1> QED BY <1>1, <1>4, <1>9 DEF m

\* A collection adds sound matches.
LEMMA Sound_CollectLookupIndex ==
    ASSUME Recognisable, Shape, Sound, NEW i \in work, CollectLookupIndex(i) PROVE Sound'
<1>1. /\ pc = "collect" /\ pc' = "collect" /\ UNCHANGED <<cloud, plan, results, opts, todo>> /\ i \in DOMAIN Targets
      /\ plan = {}
  BY CollectCases DEF Aside, Shape
<1>2. todo = {} /\ results = {} BY <1>1 DEF Sound
<1>3. PICK lost \in Losses(Targets[i].p, Fatal(Targets[i].p)) :
         \/ index' = index /\ hidden' = hidden
         \/ /\ index' = index \cup {Match(i, d, lost) : d \in {e \in Deployments : Members(i, e, lost) # {}}}
            /\ hidden' = (hidden \/ lost # {})
  BY CollectCases
<1>4. \A m \in index : Dated(m) /\ Orphan(m) BY <1>1 DEF Sound
<1>5. \A m \in index' : Dated(m) /\ Orphan(m)'
  <2>1. CASE index' = index /\ hidden' = hidden
    <3>1. \A m : Orphan(m) => Orphan(m)' BY <1>1, <2>1 DEF Orphan, OrphanIn
    <3> QED BY <1>4, <2>1, <3>1
  <2>2. CASE /\ index' = index \cup {Match(i, d, lost) : d \in {e \in Deployments : Members(i, e, lost) # {}}}
             /\ hidden' = (hidden \/ lost # {})
    <3>1. \A m : Orphan(m) => Orphan(m)' BY <1>1, <2>2 DEF Orphan, OrphanIn
    <3>2. ASSUME NEW d, Members(i, d, lost) # {}
          PROVE  Dated(Match(i, d, lost)) /\ OrphanIn(Match(i, d, lost), cloud', hidden')
      <4> DEFINE m == Match(i, d, lost)
      <4>1. /\ Dated(m) /\ m.d = d /\ m.i = i
            /\ m.state = "orphaned" => Still(cloud, d) \/ (lost # {} /\ Targets[i].p = "stackit")
        BY <1>1, <3>2, MatchSound
      <4>2. cloud' = cloud /\ hidden' = (hidden \/ lost # {}) BY <1>1, <2>2
      <4> HIDE DEF m
      <4>4. m.state = "orphaned" => Still(cloud', m.d) \/ (hidden' /\ Targets[m.i].p = "stackit") BY <4>1, <4>2
      <4> QED BY <4>1, <4>4 DEF OrphanIn, m
    <3>3. ASSUME NEW m \in index' PROVE Dated(m) /\ Orphan(m)'
      <4>1. CASE m \in index BY <1>4, <3>1, <4>1
      <4>2. CASE \E d : Members(i, d, lost) # {} /\ m = Match(i, d, lost) BY <3>2, <4>2 DEF Orphan
      <4> QED BY <2>2, <4>1, <4>2
    <3> QED BY <3>3
  <2> QED BY <1>3, <2>1, <2>2
<1>6. opts'.cmd \in {"discover", "show", "run"} BY <1>1 DEF Sound
<1> QED BY <1>1, <1>2, <1>5, <1>6 DEF Sound, Dated

\* The deployments that --all --older-than selects are shown as old.
LEMMA Sound_EndSearch == ASSUME Shape, Sound, EndSearch PROVE Sound'
<1>1. pc = "collect" /\ UNCHANGED <<cloud, plan, results, opts, hidden>> /\ plan = {}
  BY EndSearchCases DEF Aside, Shape
<1>2. todo = {} /\ results = {} /\ (\A m \in index : Dated(m)) BY <1>1 DEF Sound
<1>3. CASE pc' = "idle" /\ index' \subseteq index
  BY <1>1, <1>2, <1>3 DEF Sound, Dated
<1>4. CASE /\ pc' = "load" /\ index' = index /\ opts.cmd # "discover"
           /\ todo' = IF opts.cmd = "run" THEN selectCleanupRunDeployments ELSE opts.ids
  <2>1. ASSUME opts.all, opts.older, opts.cmd # "show", NEW d \in todo' PROVE Stale(d)
    <3>1. opts.cmd = "run" BY <1>4, <2>1 DEF Sound
    <3>2. d \in StaleDeploymentIDs(opts.older) BY <1>4, <2>1, <3>1 DEF selectCleanupRunDeployments
    <3> QED BY <2>1, <3>2 DEF StaleDeploymentIDs, IsOlderThan, Stale
  <2> QED BY <1>1, <1>2, <1>4, <2>1 DEF Sound, Dated, Stale
<1> QED BY <1>3, <1>4, EndSearchCases

\* A plan is for a deployment that was selected.
LEMMA Sound_LoadDeployment == ASSUME Shape, Sound, NEW d \in todo, LoadDeployment(d) PROVE Sound'
<1>1. /\ pc = "load" /\ todo' = todo \ {d} /\ UNCHANGED <<cloud, opts, index, results>>
      /\ pc' \in {"load", "act"}
  BY LoadCases
<1>2. opts.all /\ opts.older /\ opts.cmd # "show" => \A e \in todo : Stale(e) BY <1>1 DEF Sound
<1>3. \A e : Stale(e)' = Stale(e) BY <1>1 DEF Stale
<1>4. opts.all /\ opts.older => \A x \in plan' : Stale(Info[x.r].dep)
  <2>1. CASE plan' = plan BY <2>1 DEF Sound
  <2>2. CASE opts.cmd # "show" /\ \E m, lost : m \in index /\ m.d = d /\ plan' = PlanFor(m, d, lost)
    <3>1. PICK m, lost : m \in index /\ m.d = d /\ plan' = PlanFor(m, d, lost) BY <2>2
    <3>2. \A x \in plan' : Planned(x, [d |-> d, i |-> m.i]) BY <3>1, PlannedNew
    <3>3. \A x \in plan' : Info[x.r].dep = d BY <3>2 DEF Planned
    <3> QED BY <1>2, <2>2, <3>3
  <2> QED BY <2>1, <2>2, LoadCases
<1> QED BY <1>1, <1>2, <1>3, <1>4 DEF Sound, Dated

\* A result is of a deployment that was selected.
LEMMA Sound_Turn == ASSUME Shape, Sound, NEW x \in plan, Turn(x) PROVE Sound'
<1>1. pc = "act" /\ pc' = "act" /\ UNCHANGED <<opts, index, todo>> /\ plan' \subseteq plan BY DEF Turn
<1>2. \A e : Stale(e)' = Stale(e) BY <1>1 DEF Stale
<1>3. \A y \in results' : y \in results \/ y.r = x.r BY DEF Turn, Result
<1> QED BY <1>1, <1>2, <1>3 DEF Sound, Dated

\* What terminates does not run.
LEMMA Sound_TerminationCompletes ==
    ASSUME Shape, Sound, NEW r \in Resources, TerminationCompletes(r) PROVE Sound'
<1>1. UNCHANGED <<pc, opts, index, todo, plan, results, hidden>> /\ cloud' = [cloud EXCEPT ![r] = "gone"]
  BY DEF TerminationCompletes
<1>2. \A d : Still(cloud, d) => Still(cloud', d) BY <1>1 DEF Still, Shape
<1>3. \A m : Orphan(m) => Orphan(m)' BY <1>1, <1>2 DEF Orphan, OrphanIn
<1>4. \A e : Stale(e)' = Stale(e) BY <1>1 DEF Stale
<1> QED BY <1>1, <1>3, <1>4 DEF Sound, Dated

\* Every step keeps the index sound.
LEMMA SoundNext ==
    ASSUME OneLocation, Recognisable, Shape, Sound, [Next]_vars PROVE Sound'
<1>1. CASE UNCHANGED vars BY <1>1 DEF vars, Sound, Dated, Orphan, OrphanIn, Stale
<1>2. CASE \E o \in Options : StartProcess(o)
  <2>1. PICK o \in Options : StartProcess(o) BY <1>2
  <2>2. o.cmd \in {"discover", "show", "run"} BY CleanupAssumption
  <2>3. pc' \in {"idle", "plan"} /\ opts' = o /\ plan' = {} /\ results' = {} /\ index' = {} /\ todo' = {}
    BY <2>1, StartCases
  <2> QED BY <2>2, <2>3 DEF Sound
<1>3. CASE BuildPlan
  <2>1. pc = "plan" /\ pc' = "collect" /\ UNCHANGED <<opts, index, todo, hidden, plan, results>>
    BY <1>3, PlanCases DEF Aside, BuildPlan
  <2>2. index' = {} /\ todo' = {} /\ results' = {} /\ plan' = {} BY <2>1 DEF Sound, Shape
  <2>3. opts'.cmd \in {"discover", "show", "run"} BY <2>1 DEF Sound
  <2> QED BY <2>1, <2>2, <2>3 DEF Sound
<1>4. CASE \E i \in work : CollectLookupIndex(i) BY <1>4, Sound_CollectLookupIndex
<1>5. CASE EndSearch BY <1>5, Sound_EndSearch
<1>6. CASE \E d \in todo : LoadDeployment(d) BY <1>6, Sound_LoadDeployment
<1>7. CASE EndDeployment \/ EndProcess
  <2>1. /\ pc \in {"load", "act"} /\ pc' \in {"load", "idle"}
        /\ UNCHANGED <<opts, index, todo, plan, results>>
    BY <1>7, EndCases DEF Aside
  <2>2. \A e : Stale(e)' = Stale(e) BY <2>1 DEF Stale
  <2> QED BY <2>1, <2>2 DEF Sound, Dated
<1>8. CASE \E x \in plan : NextTurn(x) BY <1>8, Sound_Turn DEF NextTurn
<1>9. CASE \E r \in Resources : TerminationCompletes(r) BY <1>9, Sound_TerminationCompletes
<1> QED BY <1>1, <1>2, <1>3, <1>4, <1>5, <1>6, <1>7, <1>8, <1>9, NextCases

\* A sound index makes no deployment older or emptier than it is.
LEMMA SoundHarmless == ASSUME Recognisable, Shape, Sound PROVE LostListingsHarmless
<1>1. YoungKept
  <2> SUFFICES ASSUME opts.all, opts.older, NEW x \in results
               PROVE  \/ Created(Info[x.r].dep) <= Cutoff
                      \/ Undated(Info[x.r].dep) /\ Info[x.r].p \in {"exoscale", "stackit"}
    BY DEF YoungKept
  <2>1. x.r \in Resources BY DEF Shape
  <2>2. PICK m \in index : m.d = Info[x.r].dep /\ m.created <= Cutoff BY DEF Sound, Stale
  <2>3. Dated(m) BY DEF Sound
  <2>4. CASE m.created = 0 BY <2>1, <2>2, <2>3, <2>4 DEF Dated, Undated
  <2>5. CASE m.created # 0
    <3>1. m.created \in Nat /\ Created(m.d) <= m.created BY <2>3, <2>5 DEF Dated, Known
    <3>2. Created(m.d) \in Nat /\ Cutoff \in Nat BY <2>1, <2>2, TimesKnown, CleanupAssumption
    <3> QED BY <2>2, <3>1, <3>2
  <2> QED BY <2>4, <2>5
<1>2. OrphanedHasNoInstance BY DEF OrphanedHasNoInstance, Sound, Orphan, OrphanIn, Still
<1> QED BY <1>1, <1>2 DEF LostListingsHarmless

\* A lookup that fails makes no deployment older or emptier than it is: run --all
\* --older-than deletes nothing of a young deployment of aws or azure, and a deployment
\* shown as orphaned has no running instance, a lost listing of stackit excepted.
THEOREM CleanupLostListingsHarmless ==
    ASSUME OneLocation, Recognisable PROVE Spec => []LostListingsHarmless
<1>1. Init => Shape /\ Sound BY ShapeInit, CleanupAssumption DEF Init, Sound
<1>2. Shape /\ Sound /\ [Next]_vars => Shape' /\ Sound' BY ShapeNext, SoundNext
<1>3. Shape /\ Sound => LostListingsHarmless BY SoundHarmless
<1> QED BY <1>1, <1>2, <1>3, PTL DEF Spec

=============================================================================
