--------------------------- MODULE CloudPlaybooks ---------------------------
(***************************************************************************)
(* The playbooks of cloud-1: setup.yaml with the play it imports, and      *)
(* clean.yaml, run one after the other in any order and interrupted        *)
(* anywhere. They share the file .env and the EC2 instances.               *)
(*                                                                         *)
(* An instance is the number of its launch. hosts and urls are the lines   *)
(* host: and url: of .env, in order, each naming an instance.              *)
(***************************************************************************)
EXTENDS Integers, FiniteSets, SequencesExt

CONSTANT MaxInstances   \* bound: instances launched

ASSUME InstancesAssumption == MaxInstances \in Nat \ {0}

VARIABLES
    pc,         \* the next task with an effect, "idle" between playbooks
    hosts, urls,\* the lines of .env
    running,    \* instances that are not terminated
    launched,   \* number of launches
    defined,    \* setup: host was defined when .env was loaded
    cloud_ec2,  \* setup: the registered instance, 0 before
    inventory,  \* setup: the group cloud_instance
    remote,     \* how far the remote play got on each instance
    site,       \* the url in the .env copied to each instance, 0 before
    since       \* history: "clean" after a complete clean (or at the start), "setup" after
                \* a complete setup that followed it, "other" when one was interrupted

vars == <<pc, hosts, urls, running, launched, defined, cloud_ec2, inventory, remote, site,
          since>>
env == <<hosts, urls>>
play == <<defined, cloud_ec2, inventory>>
ec2 == <<running, launched>>
machines == <<remote, site>>

Instances == 1..MaxInstances

Init ==
    /\ pc = "idle" /\ since = "clean"
    /\ hosts = <<>> /\ urls = <<>>
    /\ running = {} /\ launched = 0
    /\ defined = FALSE /\ cloud_ec2 = 0 /\ inventory = {}
    /\ remote = [i \in Instances |-> "bare"] /\ site = [i \in Instances |-> 0]

\* The instances on which the last of the three containers was started, and those on which
\* MariaDB, the first one, and WordPress, the second, were.
Deployed == {i \in running : remote[i] = "nginx"}
WithWordPress == {i \in running : remote[i] \in {"wordpress", "nginx"}}
WithMariaDb == {i \in running : remote[i] \in {"mariadb", "wordpress", "nginx"}}

Task(from, to) == pc = from /\ pc' = to

----------------------------------------------------------------------------
(* setup.yaml. Its tasks without an effect on this state (the security group, *)
(* the unused instance information, the pause) are left out; every task but   *)
(* those is skipped when .env defines host.                                   *)

StartSetup ==
    /\ Task("idle", "provision")
    /\ defined' = (hosts # <<>>) /\ cloud_ec2' = 0 /\ inventory' = {}
    /\ UNCHANGED <<env, ec2, machines, since>>

\* count: 1 launches a new instance whatever runs already.
Provision ==
    /\ Task("provision", "add_host")
    /\ \/ defined /\ UNCHANGED <<running, launched, cloud_ec2>>
       \/ /\ ~defined /\ launched < MaxInstances
          /\ launched' = launched + 1
          /\ running' = running \cup {launched'}
          /\ cloud_ec2' = launched'
    /\ UNCHANGED <<env, defined, inventory, machines, since>>

AddHost ==
    /\ Task("add_host", "write")
    /\ inventory' = IF defined THEN inventory ELSE {cloud_ec2}
    /\ UNCHANGED <<env, ec2, defined, cloud_ec2, machines, since>>

\* Mutant: the block goes to the top of the file.
WriteAtTop ==
    /\ Task("write", "copy")
    /\ \/ defined /\ UNCHANGED env
       \/ ~defined /\ hosts' = <<cloud_ec2>> \o hosts /\ urls' = <<cloud_ec2>> \o urls
    /\ UNCHANGED <<ec2, play, machines, since>>

\* With an empty marker blockinfile inserts the block at the last blank line.
Write ==
    /\ Task("write", "copy")
    /\ \/ defined /\ UNCHANGED env
       \/ ~defined /\ hosts' = Append(hosts, cloud_ec2) /\ urls' = Append(urls, cloud_ec2)
    /\ UNCHANGED <<ec2, play, machines, since>>

CompleteSetup == since' = IF since = "clean" THEN "setup" ELSE since

(* inception-playbook.yaml, on the hosts of cloud_instance *)

NoHosts ==
    /\ Task("copy", "idle") /\ inventory = {}
    /\ CompleteSetup
    /\ UNCHANGED <<env, ec2, play, machines>>

\* The packages and directories before it, then the copy; of two url lines the last counts.
Copy ==
    /\ Task("copy", "sed")
    /\ \E i \in inventory : /\ remote' = [remote EXCEPT ![i] = "copied"]
                            /\ site' = [site EXCEPT ![i] = Last(urls)]
    /\ UNCHANGED <<env, ec2, play, since>>

UpdateEnv ==
    /\ Task("sed", "start_mariadb")
    /\ \E i \in inventory : remote' = [remote EXCEPT ![i] = "converted"]
    /\ UNCHANGED <<env, ec2, play, site, since>>

\* docker-compose up starts the containers in the order of depends_on, each as soon as the
\* one before is started: it may end with the first or the first two of them.
ComposeUp(container) ==
    /\ \E i \in inventory : remote' = [remote EXCEPT ![i] = container]
    /\ UNCHANGED <<env, ec2, play, site>>

StartMariaDb ==
    /\ Task("start_mariadb", "start_wordpress")
    /\ ComposeUp("mariadb") /\ UNCHANGED since

StartWordPress ==
    /\ Task("start_wordpress", "start_nginx")
    /\ ComposeUp("wordpress") /\ UNCHANGED since

StartNginx ==
    /\ Task("start_nginx", "idle")
    /\ ComposeUp("nginx") /\ CompleteSetup

----------------------------------------------------------------------------
(* clean.yaml *)

StartClean ==
    /\ Task("idle", "terminate")
    /\ UNCHANGED <<env, ec2, play, machines, since>>

\* Mutant: only the first instance that was found is terminated.
TerminateFirst ==
    /\ Task("terminate", "remove_host")
    /\ running' = {i \in running : \E j \in running : j < i}
    /\ UNCHANGED <<env, launched, play, machines, since>>

\* Every instance tagged cloud is found and terminated.
Terminate ==
    /\ Task("terminate", "remove_host")
    /\ running' = {}
    /\ UNCHANGED <<env, launched, play, machines, since>>

\* Mutant: the expression matches the converted form of the line.
RemoveHostMisses ==
    /\ Task("remove_host", "remove_url")
    /\ UNCHANGED <<env, ec2, play, machines, since>>

RemoveHost ==
    /\ Task("remove_host", "remove_url")
    /\ hosts' = <<>>
    /\ UNCHANGED <<urls, ec2, play, machines, since>>

RemoveUrl ==
    /\ Task("remove_url", "idle")
    /\ urls' = <<>>
    /\ since' = "clean"
    /\ UNCHANGED <<hosts, ec2, play, machines>>

----------------------------------------------------------------------------
\* A task fails or the user interrupts the playbook: the rest of it does not run. A setup
\* on a deployed instance has no effect, so it does not matter where it ends.
Abort ==
    /\ pc # "idle" /\ pc' = "idle"
    /\ since' = IF since = "setup" /\ pc \in {"provision", "add_host", "write", "copy"}
                THEN since ELSE "other"
    /\ UNCHANGED <<env, ec2, play, machines>>

Next ==
    \/ StartSetup \/ Provision \/ AddHost \/ Write
    \/ NoHosts \/ Copy \/ UpdateEnv \/ StartMariaDb \/ StartWordPress \/ StartNginx
    \/ StartClean \/ Terminate \/ RemoveHost \/ RemoveUrl
    \/ Abort

Spec == Init /\ [][Next]_vars

----------------------------------------------------------------------------
(* Properties *)

\* However earlier playbooks were interrupted, a clean that completes leaves no instance to
\* pay for and no host that would make the next setup do nothing.
CleanLeavesNothing ==
    pc = "idle" /\ since = "clean" => running = {} /\ hosts = <<>> /\ urls = <<>>

\* A complete clean and then a complete setup always end with one instance, deployed and
\* recorded, and further setups, complete or interrupted, leave it so.
CleanThenSetupDeploys ==
    pc = "idle" /\ since = "setup" => \E i \in Instances : /\ running = {i}
                                                           /\ Deployed = {i}
                                                           /\ hosts = <<i>>

\* An instance on which a container was started is never forgotten: .env records it as long
\* as it runs, because it is written before the remote play and removed after the instances
\* are terminated.
DeployedIsRecorded == WithMariaDb \subseteq Range(hosts)

\* README.md: setup.yaml is to "create (or reuse) a security group and a single EC2
\* instance" (violated: a setup that fails before .env is written launches another one
\* when it is run again.)
SingleInstance == Cardinality(running) <= 1
=============================================================================
