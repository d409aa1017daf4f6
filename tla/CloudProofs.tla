----------------------------- MODULE CloudProofs -----------------------------
(***************************************************************************)
(* Theorems about cloud-1, for any number of instances and crashes.        *)
(***************************************************************************)
EXTENDS Cloud, TLAPS

Compose == {"start_mariadb", "start_wordpress", "start_nginx"}
Setup == {"provision", "add_host", "write", "copy", "sed"} \cup Compose
Clean == {"terminate", "remove_host", "remove_url"}

Remotes == {"bare", "copied", "converted", "mariadb", "wordpress", "nginx"}

TypeInv ==
    /\ pc \in {"idle"} \cup Setup \cup Clean
    /\ hosts \in Seq(Nat) /\ urls \in Seq(Nat)
    /\ launched \in Nat /\ launched <= MaxInstances /\ running \subseteq 1..launched
    /\ defined \in BOOLEAN /\ cloud_ec2 \in Nat
    /\ inventory \subseteq 1..launched
    /\ remote \in [Instances -> Remotes]
    /\ site \in [Instances -> Nat]
    /\ \A i \in Instances : i > launched => remote[i] = "bare"

\* A setup on a recorded host has no inventory, so its remote play is skipped; one on a
\* new host works on the instance it launched, from the launch on.
PlayInv ==
    /\ pc \in Setup /\ defined => inventory = {} /\ pc \notin {"sed"} \cup Compose
    /\ pc \in Setup /\ ~defined /\ pc # "provision" => cloud_ec2 \in 1..launched
    /\ pc \in {"provision", "add_host"} => inventory = {}
    /\ pc \in {"write", "copy", "sed"} \cup Compose /\ ~defined => inventory = {cloud_ec2}

\* One site at a time, recorded before it is deployed, with its own address.
Recorded(i) == \E k \in 1..Len(hosts) : hosts[k] = i

SiteInv ==
    /\ \A i \in WithMariaDb : Recorded(i) /\ site[i] = i
    /\ \A i, j \in WithMariaDb : i = j
    /\ pc \in Setup \ {"start_wordpress", "start_nginx"} /\ ~defined => WithMariaDb = {}
    /\ pc \in {"start_wordpress", "start_nginx"} => WithMariaDb \subseteq {cloud_ec2}
    /\ pc = "start_nginx" => remote[cloud_ec2] = "wordpress"
    /\ pc \in {"copy", "sed"} \cup Compose /\ ~defined =>
            Recorded(cloud_ec2) /\ urls # <<>> /\ Last(urls) = cloud_ec2
    /\ pc \in {"sed"} \cup Compose => site[cloud_ec2] = cloud_ec2
    /\ pc \in {"remove_host", "remove_url"} => running = {}
    /\ pc = "remove_url" => hosts = <<>>

\* How far a setup got after a complete clean, and what a complete one leaves alone.
SinceInv ==
    /\ since = "clean" =>
        /\ pc \in {"idle", "provision"} \cup Clean =>
                running = {} /\ hosts = <<>> /\ urls = <<>>
        /\ pc \in Setup => ~defined
        /\ pc \in {"add_host", "write"} => running = {cloud_ec2} /\ hosts = <<>>
        /\ pc \in {"copy", "sed"} \cup Compose => running = {cloud_ec2} /\ hosts = <<cloud_ec2>>
    /\ since = "setup" =>
        /\ pc \in {"idle", "terminate"} \cup Setup =>
                \E i \in Instances : running = {i} /\ Deployed = {i} /\ hosts = <<i>>
        /\ pc \in Setup => defined

PlaybookInv == TypeInv /\ PlayInv /\ SiteInv /\ SinceInv

\* PlaybookInv holds before the first playbook.
LEMMA InitInv == Init => PlaybookInv
<1> SUFFICES ASSUME Init PROVE PlaybookInv
  OBVIOUS
<1>1. TypeInv
  <2>1. /\ remote \in [Instances -> Remotes]
        /\ site \in [Instances -> Nat]
        /\ \A i \in Instances : remote[i] = "bare"
    BY DEF Init, Remotes
  <2>2. launched \in Nat /\ launched <= MaxInstances
    BY InstancesAssumption DEF Init
  <2>3. hosts \in Seq(Nat) /\ urls \in Seq(Nat) /\ cloud_ec2 \in Nat
    BY DEF Init
  <2>4. QED
    BY <2>1, <2>2, <2>3 DEF Init, TypeInv
<1>2. WithMariaDb = {} /\ Deployed = {}
  BY DEF Init, WithMariaDb, Deployed
<1>3. PlayInv /\ SiteInv /\ SinceInv
  BY <1>2 DEF Init, PlayInv, SiteInv, SinceInv, Setup, Clean, Compose
<1>4. QED
  BY <1>1, <1>3 DEF PlaybookInv

\* What the records of .env become when a line is appended.
LEMMA AppendRecords ==
    ASSUME NEW s \in Seq(Nat), NEW n \in Nat
    PROVE  /\ Append(s, n) \in Seq(Nat) /\ Append(s, n) # <<>>
           /\ Len(Append(s, n)) = Len(s) + 1 /\ Last(Append(s, n)) = n
           /\ Append(s, n)[Len(s) + 1] = n
           /\ \A k \in 1..Len(s) : Append(s, n)[k] = s[k]
           /\ s = <<>> => Append(s, n) = <<n>>
<1>1. s = <<>> => Append(s, n) = <<n>>
  OBVIOUS
<1>2. /\ Append(s, n) \in Seq(Nat) /\ Len(Append(s, n)) = Len(s) + 1
      /\ Append(s, n)[Len(s) + 1] = n
      /\ \A k \in 1..Len(s) : Append(s, n)[k] = s[k]
  OBVIOUS
<1>3. Append(s, n) # <<>>
  OBVIOUS
<1>4. QED
  BY <1>1, <1>2, <1>3 DEF Last

\* Without a line nothing is recorded.
LEMMA NothingRecorded == hosts = <<>> => \A i : ~Recorded(i)
BY DEF Recorded

\* Steps that leave the lines and the instances alone, as most tasks do.
LEMMA SameMachines ==
    ASSUME UNCHANGED <<running, remote>>
    PROVE  /\ Deployed' = Deployed
           /\ WithWordPress' = WithWordPress
           /\ WithMariaDb' = WithMariaDb
BY DEF Deployed, WithWordPress, WithMariaDb

LEMMA SameRecords ==
    ASSUME UNCHANGED hosts PROVE \A i : Recorded(i)' = Recorded(i)
BY DEF Recorded

\* Every task, and every interruption, keeps PlaybookInv.
LEMMA NextKeepsInv == ASSUME PlaybookInv, [Next]_vars PROVE PlaybookInv'
<1> USE InstancesAssumption DEF PlaybookInv, Setup, Clean, Compose, Task
<1>0. \A i : i \in WithMariaDb => i \in running /\ i \in Instances
  BY DEF WithMariaDb, TypeInv, Instances
<1>1. CASE StartSetup
  <2> USE <1>1 DEF StartSetup, env, ec2, machines
  <2>1. TypeInv' /\ PlayInv'
    BY DEF TypeInv, PlayInv
  <2>2. Deployed' = Deployed /\ WithMariaDb' = WithMariaDb /\ \A i : Recorded(i)' = Recorded(i)
    BY SameMachines, SameRecords
  <2>3. ~defined' => WithMariaDb = {}
    BY NothingRecorded DEF SiteInv
  <2>4. SiteInv'
    BY <2>2, <2>3 DEF SiteInv
  <2>5. SinceInv'
    <3>1. CASE since = "clean"
      BY <3>1 DEF SinceInv
    <3>2. CASE since = "setup"
      <4>1. PICK i \in Instances : running = {i} /\ Deployed = {i} /\ hosts = <<i>>
        BY <3>2 DEF SinceInv
      <4>2. hosts # <<>>
        BY <4>1
      <4>3. QED
        BY <2>2, <3>2, <4>1, <4>2 DEF SinceInv
    <3>3. QED
      BY <3>1, <3>2 DEF SinceInv
  <2>6. QED
    BY <2>1, <2>4, <2>5
<1>2. CASE Provision
  <2> USE <1>2 DEF Provision, env, machines
  <2>1. CASE defined
    <3>1. TypeInv' /\ PlayInv'
      BY <2>1 DEF TypeInv, PlayInv
    <3>2. Deployed' = Deployed /\ WithMariaDb' = WithMariaDb /\ \A i : Recorded(i)' = Recorded(i)
      BY <2>1, SameMachines, SameRecords
    <3>3. SiteInv' /\ SinceInv'
      BY <2>1, <3>2 DEF SiteInv, SinceInv
    <3>4. QED
      BY <3>1, <3>3
  <2>2. CASE ~defined
    <3>1. /\ launched' = launched + 1 /\ launched' \in Instances /\ launched' \in Nat
          /\ cloud_ec2' = launched' /\ running' = running \cup {launched'}
          /\ remote[launched'] = "bare" /\ launched' <= MaxInstances
      BY <2>2 DEF TypeInv, Instances
    <3>2. TypeInv'
      <4>1. running' \subseteq 1..launched' /\ inventory' \subseteq 1..launched'
        BY <3>1 DEF TypeInv
      <4>2. \A i \in Instances : i > launched' => remote'[i] = "bare"
        BY <3>1 DEF TypeInv, Instances
      <4>3. QED
        BY <3>1, <4>1, <4>2 DEF TypeInv
    <3>3. PlayInv'
      <4>1. cloud_ec2' \in 1..launched' /\ pc = "provision" /\ pc' = "add_host"
        BY <3>1 DEF TypeInv
      <4>2. inventory' = {} /\ ~defined'
        BY <2>2 DEF PlayInv
      <4>3. QED
        BY <4>1, <4>2 DEF PlayInv
    <3>4. Deployed' = Deployed /\ WithMariaDb' = WithMariaDb /\ \A i : Recorded(i)' = Recorded(i)
      BY <3>1, SameRecords DEF Deployed, WithMariaDb
    <3>5. SiteInv'
      BY <2>2, <3>4 DEF SiteInv
    <3>6. SinceInv'
      BY <2>2, <3>1, <3>4 DEF SinceInv
    <3>7. QED
      BY <3>2, <3>3, <3>5, <3>6
  <2>3. QED
    BY <2>1, <2>2
<1>3. CASE AddHost
  <2> USE <1>3 DEF AddHost, env, ec2, machines
  <2>1. TypeInv' /\ PlayInv'
    BY DEF TypeInv, PlayInv
  <2>2. Deployed' = Deployed /\ WithMariaDb' = WithMariaDb /\ \A i : Recorded(i)' = Recorded(i)
    BY SameMachines, SameRecords
  <2>3. SiteInv' /\ SinceInv'
    BY <2>2 DEF SiteInv, SinceInv
  <2>4. QED
    BY <2>1, <2>3
<1>4. CASE Write
  <2> USE <1>4 DEF Write, ec2, play, machines
  <2>1. CASE defined
    <3>1. TypeInv' /\ PlayInv'
      BY <2>1 DEF TypeInv, PlayInv, env
    <3>2. Deployed' = Deployed /\ WithMariaDb' = WithMariaDb /\ \A i : Recorded(i)' = Recorded(i)
      BY <2>1, SameMachines, SameRecords DEF env
    <3>3. SiteInv' /\ SinceInv'
      BY <2>1, <3>2 DEF SiteInv, SinceInv, env
    <3>4. QED
      BY <3>1, <3>3
  <2>2. CASE ~defined
    <3>1. /\ hosts' = Append(hosts, cloud_ec2) /\ urls' = Append(urls, cloud_ec2)
          /\ cloud_ec2 \in Nat /\ hosts \in Seq(Nat) /\ urls \in Seq(Nat)
      BY <2>2 DEF TypeInv
    <3>2. TypeInv' /\ PlayInv'
      BY <2>2, <3>1, AppendRecords DEF TypeInv, PlayInv
    <3>3. WithMariaDb' = {} /\ WithMariaDb = {}
      BY <2>2, SameMachines DEF SiteInv
    <3>4. urls' # <<>> /\ Last(urls)' = cloud_ec2'
      BY <3>1, AppendRecords
    <3>5. Recorded(cloud_ec2)'
      BY <3>1, AppendRecords DEF Recorded
    <3>6. SiteInv'
      BY <2>2, <3>3, <3>4, <3>5 DEF SiteInv
    <3>7. SinceInv'
      BY <2>2, <3>1, <3>3, AppendRecords DEF SinceInv
    <3>8. QED
      BY <3>2, <3>6, <3>7
  <2>3. QED
    BY <2>1, <2>2
<1>5. CASE NoHosts
  <2> USE <1>5 DEF NoHosts, env, ec2, play, machines
  <2>1. TypeInv' /\ PlayInv'
    BY DEF TypeInv, PlayInv
  <2>2. Deployed' = Deployed /\ WithMariaDb' = WithMariaDb /\ \A i : Recorded(i)' = Recorded(i)
    BY SameMachines, SameRecords
  <2>3. SiteInv'
    BY <2>2 DEF SiteInv
  <2>4. defined
    BY DEF PlayInv
  <2>5. SinceInv'
    BY <2>2, <2>4 DEF SinceInv, CompleteSetup
  <2>6. QED
    BY <2>1, <2>3, <2>5
<1>6. CASE Copy
  <2> USE <1>6 DEF Copy, env, ec2, play
  <2>1. /\ ~defined /\ cloud_ec2 \in 1..launched /\ cloud_ec2 \in Instances
        /\ inventory = {cloud_ec2} /\ WithMariaDb = {} /\ since # "setup"
    BY DEF TypeInv, PlayInv, SiteInv, SinceInv, Instances
  <2>2. Last(urls) = cloud_ec2 /\ cloud_ec2 \in Nat /\ Recorded(cloud_ec2)
    BY <2>1 DEF SiteInv, TypeInv
  <2>3. /\ remote' = [remote EXCEPT ![cloud_ec2] = "copied"]
        /\ site' = [site EXCEPT ![cloud_ec2] = cloud_ec2]
    BY <2>1, <2>2
  <2>4. TypeInv' /\ PlayInv'
    BY <2>1, <2>2, <2>3 DEF TypeInv, PlayInv, Remotes
  <2>5. WithMariaDb' = {} /\ \A i : Recorded(i)' = Recorded(i)
    BY <2>1, <2>3, SameRecords DEF WithMariaDb, TypeInv, Instances
  <2>6. site'[cloud_ec2] = cloud_ec2
    BY <2>1, <2>3 DEF TypeInv
  <2>7. SiteInv'
    BY <2>1, <2>2, <2>5, <2>6 DEF SiteInv
  <2>8. SinceInv'
    BY <2>1 DEF SinceInv
  <2>9. QED
    BY <2>4, <2>7, <2>8
<1>7. CASE UpdateEnv
  <2> USE <1>7 DEF UpdateEnv, env, ec2, play
  <2>1. /\ ~defined /\ cloud_ec2 \in 1..launched /\ cloud_ec2 \in Instances
        /\ inventory = {cloud_ec2} /\ WithMariaDb = {} /\ since # "setup"
    BY DEF TypeInv, PlayInv, SiteInv, SinceInv, Instances
  <2>2. remote' = [remote EXCEPT ![cloud_ec2] = "converted"]
    BY <2>1
  <2>3. TypeInv' /\ PlayInv'
    BY <2>1, <2>2 DEF TypeInv, PlayInv, Remotes
  <2>4. WithMariaDb' = {} /\ \A i : Recorded(i)' = Recorded(i)
    BY <2>1, <2>2, SameRecords DEF WithMariaDb, TypeInv, Instances
  <2>5. SiteInv'
    BY <2>1, <2>4 DEF SiteInv
  <2>6. SinceInv'
    BY <2>1 DEF SinceInv
  <2>7. QED
    BY <2>3, <2>5, <2>6
<1>8. CASE StartMariaDb
  <2> USE <1>8 DEF StartMariaDb, ComposeUp, env, ec2, play
  <2>1. /\ ~defined /\ cloud_ec2 \in 1..launched /\ cloud_ec2 \in Instances
        /\ inventory = {cloud_ec2} /\ WithMariaDb \subseteq {cloud_ec2} /\ since # "setup"
    BY DEF TypeInv, PlayInv, SiteInv, SinceInv, Instances
  <2>2. remote' = [remote EXCEPT ![cloud_ec2] = "mariadb"]
    BY <2>1
  <2>3. TypeInv' /\ PlayInv'
    BY <2>1, <2>2 DEF TypeInv, PlayInv, Remotes
  <2>4. /\ remote'[cloud_ec2] = "mariadb"
        /\ WithMariaDb' \subseteq {cloud_ec2}
        /\ \A i : Recorded(i)' = Recorded(i)
    BY <2>1, <2>2, SameRecords DEF WithMariaDb, TypeInv, Instances
  <2>5. SiteInv'
    BY <2>1, <2>4 DEF SiteInv
  <2>6. SinceInv'
    BY <2>1 DEF SinceInv
  <2>7. QED
    BY <2>3, <2>5, <2>6
<1>9. CASE StartWordPress
  <2> USE <1>9 DEF StartWordPress, ComposeUp, env, ec2, play
  <2>1. /\ ~defined /\ cloud_ec2 \in 1..launched /\ cloud_ec2 \in Instances
        /\ inventory = {cloud_ec2} /\ WithMariaDb \subseteq {cloud_ec2} /\ since # "setup"
    BY DEF TypeInv, PlayInv, SiteInv, SinceInv, Instances
  <2>2. remote' = [remote EXCEPT ![cloud_ec2] = "wordpress"]
    BY <2>1
  <2>3. TypeInv' /\ PlayInv'
    BY <2>1, <2>2 DEF TypeInv, PlayInv, Remotes
  <2>4. /\ remote'[cloud_ec2] = "wordpress"
        /\ WithMariaDb' \subseteq {cloud_ec2}
        /\ \A i : Recorded(i)' = Recorded(i)
    BY <2>1, <2>2, SameRecords DEF WithMariaDb, TypeInv, Instances
  <2>5. SiteInv'
    BY <2>1, <2>4 DEF SiteInv
  <2>6. SinceInv'
    BY <2>1 DEF SinceInv
  <2>7. QED
    BY <2>3, <2>5, <2>6
<1>10. CASE StartNginx
  <2> USE <1>10 DEF StartNginx, ComposeUp, env, ec2, play
  <2>1. /\ ~defined /\ cloud_ec2 \in 1..launched /\ cloud_ec2 \in Instances
        /\ inventory = {cloud_ec2} /\ WithMariaDb \subseteq {cloud_ec2} /\ since # "setup"
    BY DEF TypeInv, PlayInv, SiteInv, SinceInv, Instances
  <2>2. remote' = [remote EXCEPT ![cloud_ec2] = "nginx"]
    BY <2>1
  <2>3. TypeInv' /\ PlayInv'
    BY <2>1, <2>2 DEF TypeInv, PlayInv, Remotes
  <2>4. /\ remote'[cloud_ec2] = "nginx"
        /\ WithMariaDb' \subseteq {cloud_ec2}
        /\ \A i : Recorded(i)' = Recorded(i)
    BY <2>1, <2>2, SameRecords DEF WithMariaDb, TypeInv, Instances
  <2>5. SiteInv'
    BY <2>1, <2>4 DEF SiteInv
  <2>6. SinceInv'
    <3>1. CASE since = "clean"
      <4>1. running' = {cloud_ec2} /\ hosts' = <<cloud_ec2>> /\ since' = "setup"
        BY <3>1 DEF SinceInv, CompleteSetup
      <4>2. Deployed' = {cloud_ec2}
        <5>1. \A i \in running' : remote'[i] = "nginx"
          BY <2>4, <4>1
        <5>2. QED
          BY <4>1, <5>1 DEF Deployed
      <4>3. QED
        BY <2>1, <4>1, <4>2 DEF SinceInv, Instances
    <3>2. CASE since # "clean"
      BY <2>1, <3>2 DEF SinceInv, CompleteSetup
    <3>3. QED
      BY <3>1, <3>2
  <2>7. QED
    BY <2>3, <2>5, <2>6
<1>11. CASE StartClean
  <2> USE <1>11 DEF StartClean, env, ec2, play, machines
  <2>1. TypeInv' /\ PlayInv'
    BY DEF TypeInv, PlayInv
  <2>2. Deployed' = Deployed /\ WithMariaDb' = WithMariaDb /\ \A i : Recorded(i)' = Recorded(i)
    BY SameMachines, SameRecords
  <2>3. SiteInv' /\ SinceInv'
    BY <2>2 DEF SiteInv, SinceInv
  <2>4. QED
    BY <2>1, <2>3
<1>12. CASE Terminate
  <2> USE <1>12 DEF Terminate, env, play, machines
  <2>1. TypeInv' /\ PlayInv'
    BY DEF TypeInv, PlayInv
  <2>2. WithMariaDb' = {}
    BY DEF WithMariaDb
  <2>3. SiteInv' /\ SinceInv'
    BY <2>2 DEF SiteInv, SinceInv
  <2>4. QED
    BY <2>1, <2>3
<1>13. CASE RemoveHost
  <2> USE <1>13 DEF RemoveHost, ec2, play, machines
  <2>1. TypeInv' /\ PlayInv'
    BY DEF TypeInv, PlayInv
  <2>2. WithMariaDb' = {}
    BY DEF WithMariaDb, SiteInv
  <2>3. SiteInv' /\ SinceInv'
    BY <2>2 DEF SiteInv, SinceInv
  <2>4. QED
    BY <2>1, <2>3
<1>14. CASE RemoveUrl
  <2> USE <1>14 DEF RemoveUrl, ec2, play, machines
  <2>1. TypeInv' /\ PlayInv'
    BY DEF TypeInv, PlayInv
  <2>2. WithMariaDb' = {}
    BY DEF WithMariaDb, SiteInv
  <2>3. SiteInv' /\ SinceInv'
    BY <2>2 DEF SiteInv, SinceInv
  <2>4. QED
    BY <2>1, <2>3
<1>15. CASE Abort
  <2> USE <1>15 DEF Abort, env, ec2, play, machines
  <2>1. TypeInv' /\ PlayInv'
    BY DEF TypeInv, PlayInv
  <2>2. Deployed' = Deployed /\ WithMariaDb' = WithMariaDb /\ \A i : Recorded(i)' = Recorded(i)
    BY SameMachines, SameRecords
  <2>3. SiteInv' /\ SinceInv'
    BY <2>2 DEF SiteInv, SinceInv
  <2>4. QED
    BY <2>1, <2>3
<1>16. CASE UNCHANGED vars
  <2> USE <1>16 DEF vars
  <2>1. TypeInv' /\ PlayInv'
    BY DEF TypeInv, PlayInv
  <2>2. Deployed' = Deployed /\ WithMariaDb' = WithMariaDb /\ \A i : Recorded(i)' = Recorded(i)
    BY SameMachines, SameRecords
  <2>3. SiteInv' /\ SinceInv'
    BY <2>2 DEF SiteInv, SinceInv
  <2>4. QED
    BY <2>1, <2>3
<1>17. QED
  BY <1>1, <1>2, <1>3, <1>4, <1>5, <1>6, <1>7, <1>8, <1>9,
     <1>10, <1>11, <1>12, <1>13, <1>14, <1>15, <1>16 DEF Next

----------------------------------------------------------------------------
(* The containers *)

\* A boot of MariaDB whose server was in time and refused nothing has executed its
\* statements in order.
Sound == ~late /\ ~failed

GrantInv ==
    /\ Sound /\ db_pc \in {"create_user", "create_database", "grant"} => server = "up"
    /\ Sound /\ db_pc \in {"create_database", "grant", "stop", "exec", "mysqld"} =>
            "user" \in grants
    /\ Sound /\ db_pc \in {"grant", "stop", "exec", "mysqld"} => "database" \in grants
    /\ Sound /\ db_pc \in {"stop", "exec", "mysqld"} => "grant" \in grants
    /\ grants \subseteq {"user", "database", "grant"}

\* wp-config.php is written once: before the tables, and never when they are there. What
\* leaves the tables out is remembered from the step that does.
ConfigInv ==
    /\ wp_pc \notin {"start", "mv"} => "file" \in config
    /\ wp_pc = "mv" => "file" \notin config
    /\ wp_pc = "install" => Boot!Credentials \subseteq config
    /\ "file" \in config /\ wp_pc \notin {"sed", "install"} =>
            "tables" \in content \/ missed # "no"
    /\ served => wp_pc \in {"start", "fpm"} /\ "file" \in config

AddressInv ==
    /\ WithWordPress = {} => content = {}
    /\ "tables" \in content => address \in WithMariaDb

BootInv == GrantInv /\ ConfigInv /\ AddressInv

\* The database, the installation and the playbooks, together.
CloudInv == PlaybookInv /\ BootInv

\* A playbook step leaves the containers alone or wipes them out.
LEMMA PlaybooksKeepBoot ==
    ASSUME CloudInv, PlaybookInv', PlaybookStep PROVE BootInv'
<1>1. CASE WithMariaDb' # {} /\ UNCHANGED boot
  <2>1. GrantInv' /\ ConfigInv'
    BY <1>1 DEF CloudInv, BootInv, GrantInv, Sound, ConfigInv, boot
  <2>2. /\ \A i \in WithMariaDb : i \in WithMariaDb'
        /\ \A i \in WithWordPress : i \in WithWordPress'
    <3>1. running' # {}
      BY <1>1 DEF WithMariaDb
    <3>2. CASE Terminate
      BY <3>1, <3>2 DEF Terminate
    <3>3. CASE Copy \/ UpdateEnv
      <4>1. pc \in {"copy", "sed"} /\ \E i \in inventory : TRUE
        BY <3>3 DEF Copy, UpdateEnv, Task
      <4>2. WithMariaDb = {}
        BY <4>1 DEF CloudInv, PlaybookInv, TypeInv, PlayInv, SiteInv, Setup, Compose
      <4>3. QED
        BY <4>2 DEF WithMariaDb, WithWordPress
    <3>4. CASE StartMariaDb
      <4>1. WithMariaDb = {}
        BY <3>4 DEF CloudInv, PlaybookInv, TypeInv, PlayInv, SiteInv, Setup, Compose, Task,
                    StartMariaDb, ComposeUp
      <4>2. QED
        BY <4>1 DEF WithMariaDb, WithWordPress
    <3>5. CASE StartWordPress \/ StartNginx
      <4>1. PICK k \in inventory, c \in {"wordpress", "nginx"} :
                    running' = running /\ remote' = [remote EXCEPT ![k] = c]
        BY <3>5 DEF StartWordPress, StartNginx, ComposeUp, ec2
      <4>2. \A i : i \in running => i \in DOMAIN remote
        BY InstancesAssumption DEF CloudInv, PlaybookInv, TypeInv, Instances
      <4>3. \A i \in running : remote'[i] = remote[i] \/ remote'[i] = c
        BY <4>1, <4>2
      <4>4. QED
        BY <4>1, <4>3 DEF WithMariaDb, WithWordPress
    <3>6. CASE Provision
      BY <3>6 DEF Provision, WithMariaDb, WithWordPress, machines
    <3>7. CASE ~(\/ Terminate \/ Copy \/ UpdateEnv \/ StartMariaDb \/ StartWordPress
                 \/ StartNginx \/ Provision)
      <4>1. UNCHANGED <<running, remote>>
        BY <3>7 DEF PlaybookStep, Next, StartSetup, AddHost, Write, NoHosts, StartClean,
                    RemoveHost, RemoveUrl, Abort, ec2, machines
      <4>2. QED
        BY <4>1, SameMachines
    <3>8. QED
      BY <3>2, <3>3, <3>4, <3>5, <3>6, <3>7
  <2>3. AddressInv'
    BY <1>1, <2>2 DEF CloudInv, BootInv, AddressInv, boot
  <2>4. QED
    BY <2>1, <2>3 DEF BootInv
<1>2. CASE WithMariaDb' = {} /\ Boot!Wiped /\ address' = 0
  <2>1. GrantInv' /\ ConfigInv'
    BY <1>2 DEF GrantInv, Sound, ConfigInv, Boot!Wiped
  <2>2. AddressInv'
    BY <1>2 DEF AddressInv, Boot!Wiped
  <2>3. QED
    BY <2>1, <2>2 DEF BootInv
<1>3. QED
  BY <1>1, <1>2 DEF PlaybookStep

\* The tables are created by WordPress only, where it runs, at the address of its instance.
LEMMA AddressKept ==
    ASSUME CloudInv, UNCHANGED vars,
           \/ ContainerStep(WithMariaDb, Boot!DbNext)
           \/ ContainerStep(WithWordPress, Boot!WpNext)
    PROVE  AddressInv'
<1>1. WithMariaDb' = WithMariaDb /\ WithWordPress' = WithWordPress
  BY SameMachines DEF vars, ec2, machines
<1>2. \A i \in WithMariaDb : site[i] = i
  BY DEF CloudInv, PlaybookInv, SiteInv
<1>3. WithWordPress \subseteq WithMariaDb
  BY DEF WithWordPress, WithMariaDb
<1>4. CASE ContainerStep(WithMariaDb, Boot!DbNext)
  <2>1. content' = content
    BY <1>4 DEF ContainerStep, Boot!DbNext, Boot!DbScript, Boot!ServerReady, Boot!DbCrash,
                Boot!ServiceStart, Boot!ServiceStarted, Boot!CreateUser, Boot!CreateDatabase,
                Boot!Grant, Boot!ServiceStop, Boot!Mysqld
  <2>2. address' = address
    BY <1>4, <2>1 DEF ContainerStep
  <2>3. QED
    BY <1>1, <2>1, <2>2 DEF CloudInv, BootInv, AddressInv
<1>5. CASE ContainerStep(WithWordPress, Boot!WpNext)
  <2>1. WithWordPress # {}
    BY <1>5 DEF ContainerStep
  <2>2. (CHOOSE i \in WithWordPress : TRUE) \in WithWordPress
    BY <2>1
  <2>3. "tables" \in content' =>
            \/ "tables" \in content' \ content
            \/ "tables" \in content
    OBVIOUS
  <2>4. "tables" \in content' => address' \in WithMariaDb
    BY <1>2, <1>3, <1>5, <2>2, <2>3 DEF ContainerStep, CloudInv, BootInv, AddressInv
  <2>5. QED
    BY <1>1, <2>1, <2>4 DEF AddressInv
<1>6. QED
  BY <1>4, <1>5

\* Every command of the script of MariaDB, its server, and a crash of it, keep BootInv.
LEMMA MariaDbKeepsBoot ==
    ASSUME CloudInv, ContainerStep(WithMariaDb, Boot!DbNext) PROVE BootInv'
<1> USE DEF CloudInv, BootInv, GrantInv, Sound, ConfigInv, Boot!DbGoto, Boot!Execute
<1>1. AddressInv'
  BY AddressKept DEF ContainerStep
<1>2. Boot!DbNext
  BY DEF ContainerStep
<1>3. CASE Boot!ServiceStart
  BY <1>1, <1>3 DEF Boot!ServiceStart, Boot!wp
<1>4. CASE Boot!ServiceStarted
  BY <1>1, <1>4 DEF Boot!ServiceStarted, Boot!wp
<1>5. CASE Boot!CreateUser
  BY <1>1, <1>5 DEF Boot!CreateUser, Boot!wp
<1>6. CASE Boot!CreateDatabase
  BY <1>1, <1>6 DEF Boot!CreateDatabase, Boot!wp
<1>7. CASE Boot!Grant
  BY <1>1, <1>7 DEF Boot!Grant, Boot!wp
<1>8. CASE Boot!ServiceStop
  BY <1>1, <1>8 DEF Boot!ServiceStop, Boot!wp
<1>9. CASE Boot!Mysqld
  BY <1>1, <1>9 DEF Boot!Mysqld, Boot!wp
<1>10. CASE Boot!ServerReady
  BY <1>1, <1>10 DEF Boot!ServerReady, Boot!wp
<1>11. CASE Boot!DbCrash
  BY <1>1, <1>11 DEF Boot!DbCrash, Boot!wp
<1>12. QED
  BY <1>2, <1>3, <1>4, <1>5, <1>6, <1>7, <1>8, <1>9, <1>10, <1>11
     DEF Boot!DbNext, Boot!DbScript

\* A boot of MariaDB that was not late and refused nothing, and a complete wp-config.php,
\* are all that a connection needs.
LEMMA ProvidedConnects ==
    ASSUME GrantInv, ConfigInv, wp_pc = "install", Boot!Provided PROVE Boot!Connects
BY DEF GrantInv, Sound, ConfigInv, Boot!Provided, Boot!Connects

\* Every command of the script of WordPress, and a crash of it, keep BootInv.
LEMMA WordPressKeepsBoot ==
    ASSUME CloudInv, ContainerStep(WithWordPress, Boot!WpNext) PROVE BootInv'
<1> USE DEF CloudInv, BootInv, GrantInv, Sound, ConfigInv, Boot!WpGoto
<1>1. AddressInv'
  BY AddressKept DEF ContainerStep
<1>2. Boot!WpNext
  BY DEF ContainerStep
<1>3. CASE Boot!TestConfig
  BY <1>1, <1>3 DEF Boot!TestConfig, Boot!db
<1>4. CASE Boot!Move
  BY <1>1, <1>4 DEF Boot!Move, Boot!db
<1>5. CASE Boot!Sed
  <2>1. PICK k \in 1..4 : /\ \A j \in 1..k - 1 : Boot!Placeholders[j] \in config
                        /\ config' = config \cup {Boot!Placeholders[k]}
                        /\ wp_pc' = IF k = 4 THEN "install" ELSE "sed"
    BY <1>5 DEF Boot!Sed, Boot!NextPlaceholder, Boot!Placeholders
  <2>2. wp_pc' = "install" => \A j \in 1..4 : Boot!Placeholders[j] \in config'
    BY <2>1
  <2>3. wp_pc' = "install" => Boot!Credentials \subseteq config'
    BY <2>2 DEF Boot!Credentials, Boot!Placeholders
  <2>4. QED
    BY <1>1, <1>5, <2>1, <2>3 DEF Boot!Sed, Boot!db
<1>6. CASE Boot!CoreInstall
  <2>1. ~Boot!Connects => missed' = "early"
    BY <1>6, ProvidedConnects DEF Boot!CoreInstall
  <2>2. "tables" \in content' \/ missed' # "no"
    BY <1>6, <2>1 DEF Boot!CoreInstall
  <2>3. QED
    BY <1>1, <1>6, <2>2 DEF Boot!CoreInstall, Boot!db
<1>7. CASE Boot!UserCreate
  BY <1>1, <1>7 DEF Boot!UserCreate, Boot!db
<1>8. CASE Boot!ConfigSet
  BY <1>1, <1>8 DEF Boot!ConfigSet, Boot!db
<1>9. CASE Boot!WpCrash
  BY <1>1, <1>9 DEF Boot!WpCrash, Boot!db
<1>10. QED
  BY <1>2, <1>3, <1>4, <1>5, <1>6, <1>7, <1>8, <1>9
     DEF Boot!WpNext, Boot!WpScript

\* CloudInv holds in every state.
LEMMA CloudInvariant == CloudSpec => []CloudInv
<1>1. CloudInit => CloudInv
  <2> SUFFICES ASSUME CloudInit PROVE CloudInv
    OBVIOUS
  <2>1. PlaybookInv
    BY InitInv DEF CloudInit
  <2>2. BootInv
    BY DEF CloudInit, Boot!Init, BootInv, GrantInv, Sound, ConfigInv, AddressInv
  <2>3. QED
    BY <2>1, <2>2 DEF CloudInv
<1>2. ASSUME CloudInv, [CloudNext]_cloudvars PROVE CloudInv'
  <2>1. CASE PlaybookStep
    <3>1. PlaybookInv'
      BY <1>2, <2>1, NextKeepsInv DEF CloudInv, PlaybookStep
    <3>2. QED
      BY <1>2, <2>1, <3>1, PlaybooksKeepBoot DEF CloudInv
  <2>2. CASE \/ ContainerStep(WithMariaDb, Boot!DbNext)
             \/ ContainerStep(WithWordPress, Boot!WpNext)
    <3>1. PlaybookInv'
      BY <1>2, <2>2, NextKeepsInv DEF CloudInv, ContainerStep
    <3>2. BootInv'
      BY <1>2, <2>2, MariaDbKeepsBoot, WordPressKeepsBoot
    <3>3. QED
      BY <3>1, <3>2 DEF CloudInv
  <2>3. CASE UNCHANGED cloudvars
    <3>1. PlaybookInv'
      BY <1>2, <2>3, NextKeepsInv DEF CloudInv, cloudvars
    <3>2. BootInv'
      BY <1>2, <2>3, SameMachines
         DEF cloudvars, vars, boot, ec2, machines, CloudInv, BootInv, GrantInv, Sound,
             ConfigInv, AddressInv
    <3>3. QED
      BY <3>1, <3>2 DEF CloudInv
  <2>4. QED
    BY <1>2, <2>1, <2>2, <2>3 DEF CloudNext
<1>3. QED
  BY <1>1, <1>2, PTL DEF CloudSpec

\* A complete clean leaves no instance and no record, whatever was interrupted before it.
THEOREM CleaningIsComplete == CloudSpec => []CleanLeavesNothing
<1>1. CloudInv => CleanLeavesNothing
  BY DEF CloudInv, PlaybookInv, SinceInv, CleanLeavesNothing
<1>2. QED
  BY <1>1, CloudInvariant, PTL

\* A complete setup after a complete clean ends with one instance, deployed and recorded.
THEOREM SetupIsComplete == CloudSpec => []CleanThenSetupDeploys
<1>1. CloudInv => CleanThenSetupDeploys
  BY DEF CloudInv, PlaybookInv, SinceInv, CleanThenSetupDeploys
<1>2. QED
  BY <1>1, CloudInvariant, PTL

\* No instance on which a container was started is missing from .env.
THEOREM DeployedStaysRecorded == CloudSpec => []DeployedIsRecorded
<1>1. CloudInv => DeployedIsRecorded
  BY DEF CloudInv, PlaybookInv, TypeInv, SiteInv, Recorded, DeployedIsRecorded, Range
<1>2. QED
  BY <1>1, CloudInvariant, PTL

\* There is one site at a time, installed under its own address.
THEOREM SiteIsAtItsAddress == CloudSpec => []InstalledAtItsAddress
<1>1. CloudInv => InstalledAtItsAddress
  <2> SUFFICES ASSUME CloudInv, "tables" \in content
               PROVE  \E i \in Instances : WithMariaDb = {i} /\ address = i
    BY DEF InstalledAtItsAddress
  <2>1. address \in WithMariaDb /\ \A i, j \in WithMariaDb : i = j
    BY DEF CloudInv, PlaybookInv, SiteInv, BootInv, AddressInv
  <2>2. address \in Instances
    BY <2>1, InstancesAssumption DEF CloudInv, PlaybookInv, TypeInv, WithMariaDb,
                                        Instances
  <2>3. QED
    BY <2>1, <2>2
<1>2. QED
  BY <1>1, CloudInvariant, PTL

\* MariaDB is provisioned whenever its server was in time and refused nothing.
THEOREM DatabaseIsProvisioned == CloudSpec => []ProvisionedUnlessLate
<1>1. CloudInv => ProvisionedUnlessLate
  BY DEF CloudInv, BootInv, GrantInv, Sound, ProvisionedUnlessLate
<1>2. QED
  BY <1>1, CloudInvariant, PTL

\* A site that serves without an installation missed it for one of three reasons: MariaDB was
\* not ready when WordPress came to the installation, a crash cut its first boot short, or wp
\* failed by itself.
THEOREM InstallationIsMissedForAReason == CloudSpec => []InstalledUnlessMissed
<1>1. CloudInv => InstalledUnlessMissed
  BY DEF CloudInv, BootInv, ConfigInv, InstalledUnlessMissed
<1>2. QED
  BY <1>1, CloudInvariant, PTL

\* What has served is not changed any more while its instance exists.
THEOREM ServedStaysPut == CloudSpec => RestartsChangeNothing
<1>1. ASSUME CloudInv, [CloudNext]_cloudvars
      PROVE  [served /\ WithMariaDb' # {} => UNCHANGED <<config, content>>]_cloudvars
  <2> SUFFICES ASSUME served, WithMariaDb' # {} PROVE UNCHANGED <<config, content>>
    OBVIOUS
  <2>1. wp_pc \in {"start", "fpm"} /\ "file" \in config
    BY <1>1 DEF CloudInv, BootInv, ConfigInv
  <2>2. CASE PlaybookStep
    BY <2>2 DEF PlaybookStep, boot
  <2>3. CASE ContainerStep(WithMariaDb, Boot!DbNext)
    BY <2>3 DEF ContainerStep, Boot!DbNext, Boot!DbScript, Boot!ServerReady, Boot!DbCrash, Boot!ServiceStart,
                Boot!ServiceStarted, Boot!CreateUser, Boot!CreateDatabase, Boot!Grant,
                Boot!ServiceStop, Boot!Mysqld, Boot!wp
  <2>4. CASE ContainerStep(WithWordPress, Boot!WpNext)
    BY <2>1, <2>4 DEF ContainerStep, Boot!WpNext, Boot!WpScript, Boot!WpCrash, Boot!TestConfig, Boot!Move,
                Boot!Sed, Boot!CoreInstall, Boot!UserCreate, Boot!ConfigSet, Boot!WpGoto
  <2>5. CASE UNCHANGED cloudvars
    BY <2>5 DEF cloudvars, boot
  <2>6. QED
    BY <1>1, <2>2, <2>3, <2>4, <2>5 DEF CloudNext
<1>2. QED
  BY <1>1, CloudInvariant, PTL DEF CloudSpec, RestartsChangeNothing
=============================================================================
