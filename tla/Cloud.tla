-------------------------------- MODULE Cloud --------------------------------
(***************************************************************************)
(* cloud-1 as a whole: the playbooks of CloudPlaybooks on the administra-  *)
(* tor's machine, and the containers of CloudBoot on the instance that     *)
(* they deployed. A container runs from its start on, so playbooks and     *)
(* containers interleave; terminating the instance takes its volumes away. *)
(***************************************************************************)
EXTENDS CloudPlaybooks

CONSTANT MaxCrashes     \* bound: crashes of containers

ASSUME CrashesAssumption == MaxCrashes \in Nat

VARIABLES
    db_pc, server, late, failed, grants, content, \* see CloudBoot
    wp_pc, config, served, missed, crashes,       \* see CloudBoot
    address     \* the url that wp core install recorded, 0 before

Boot == INSTANCE CloudBoot

boot == <<db_pc, server, late, failed, grants, content, wp_pc, config, served, missed, crashes,
          address>>
cloudvars == <<vars, boot>>

CloudInit == Init /\ Boot!Init /\ address = 0

\* The containers live and die with the instance.
PlaybookStep ==
    /\ Next
    /\ \/ WithMariaDb' # {} /\ UNCHANGED boot
       \/ WithMariaDb' = {} /\ Boot!Wiped /\ address' = 0

\* A step of the container that was started on the instance in machine. The tables are
\* created with the url that was copied to it.
ContainerStep(machine, A) ==
    /\ machine # {} /\ A
    /\ address' = IF "tables" \in content' \ content
                  THEN site[CHOOSE i \in machine : TRUE] ELSE address
    /\ UNCHANGED vars

CloudNext ==
    \/ PlaybookStep
    \/ ContainerStep(WithMariaDb, Boot!DbNext)
    \/ ContainerStep(WithWordPress, Boot!WpNext)

\* Once a container is started its script and server run; nobody owes a crash or a playbook.
CloudSpec ==
    /\ CloudInit /\ [][CloudNext]_cloudvars
    /\ WF_cloudvars(ContainerStep(WithMariaDb, Boot!DbScript))
    /\ WF_cloudvars(ContainerStep(WithMariaDb, Boot!ServerReady))
    /\ WF_cloudvars(ContainerStep(WithWordPress, Boot!WpScript))

----------------------------------------------------------------------------
(* Properties, with those of CloudPlaybooks *)

\* However setups and cleans were interrupted before, there is one site at a time, and it
\* is installed under the address of its own instance: an interrupted clean can leave the
\* url of a terminated instance in .env, in a line before the new one.
InstalledAtItsAddress ==
    "tables" \in content => \E i \in Instances : WithMariaDb = {i} /\ address = i

\* Unless the server was late or refused a statement, MariaDB ends its script with the
\* account, the database and the privileges in place, whichever boots before were cut short
\* or went wrong: IF NOT EXISTS and the order of the statements make the script repeatable.
ProvisionedUnlessLate ==
    db_pc = "mysqld" /\ ~late /\ ~failed => grants = {"user", "database", "grant"}

\* WordPress serves without an installation only when its first boot reached wp core install
\* before MariaDB had provided what it must, was cut short by a crash between the creation of
\* wp-config.php and the installation, or met an error of wp itself. Sleeps alone order the
\* scripts and wp-config.php is never completed later, so each of the three lasts.
InstalledUnlessMissed ==
    served /\ "tables" \notin content => missed # "no"

\* Once WordPress has served, neither a restart nor another playbook changes its
\* configuration or installation as long as the instance exists: what works stays, and
\* what the first boot missed is never made up for.
RestartsChangeNothing ==
    [][served /\ WithMariaDb' # {} => UNCHANGED <<config, content>>]_cloudvars

\* An instance on which the containers were started and that is kept gets to serve for good
\* once the crashes end: neither script waits for the other, and a further setup does not
\* disturb them.
KeptSiteServes ==
    <>[](WithWordPress # {}) =>
        <>[](db_pc = "mysqld" /\ server = "up" /\ wp_pc = "fpm")
=============================================================================
