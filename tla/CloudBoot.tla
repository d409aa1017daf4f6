------------------------------ MODULE CloudBoot ------------------------------
(***************************************************************************)
(* The containers of cloud-1 that keep state, MariaDB and WordPress: their *)
(* start-up scripts run at the same time, coordinated by sleeps alone, and *)
(* again from the top after a crash (restart: always), over volumes that   *)
(* persist. A statement or a wp command may fail; the script goes on.      *)
(***************************************************************************)
EXTENDS Integers, FiniteSets, Sequences

CONSTANT MaxCrashes     \* bound: crashes of containers

VARIABLES
    db_pc,      \* where the script of MariaDB is, "mysqld" when its server runs for good
    server,     \* the database server: "down", "starting" or "up"
    late,       \* history: service mysql start gave up waiting at the last boot
    failed,     \* history: the server refused a statement of the last boot
    grants,     \* what the volume db holds of "user", "database", "grant"
    content,    \* what the database holds of "tables", "author"
    wp_pc,      \* where the script of WordPress is, "fpm" when it serves
    config,     \* wp-config.php in the volume wb: "file" when it exists, what was set in it
    served,     \* history: WordPress has served
    missed,     \* history: why WordPress was not installed at its first boot: "early" when
                \* MariaDB was not ready, "interrupted" by a crash, "error"; "no" otherwise
    crashes     \* history: number of crashes

vars == <<db_pc, server, late, failed, grants, content, wp_pc, config, served, missed, crashes>>
db == <<db_pc, server, late, failed, grants>>
wp == <<wp_pc, config, served, missed>>

\* The placeholders of wp-config.php in the order of the sed commands.
Placeholders == <<"database_name", "username", "password", "localhost">>
Credentials == {Placeholders[k] : k \in 1..Len(Placeholders)}

Init ==
    /\ db_pc = "start" /\ server = "down" /\ late = FALSE /\ failed = FALSE
    /\ grants = {} /\ content = {}
    /\ wp_pc = "start" /\ config = {} /\ served = FALSE /\ missed = "no"
    /\ crashes = 0

\* The instance is terminated and its volumes with it.
Wiped ==
    /\ db_pc' = "start" /\ server' = "down" /\ late' = FALSE /\ failed' = FALSE
    /\ grants' = {} /\ content' = {}
    /\ wp_pc' = "start" /\ config' = {} /\ served' = FALSE /\ missed' = "no"
    /\ UNCHANGED crashes

DbGoto(from, to) == db_pc = from /\ db_pc' = to
WpGoto(from, to) == wp_pc = from /\ wp_pc' = to

----------------------------------------------------------------------------
(* mariadb/tools/script.sh *)

ServiceStart ==
    /\ DbGoto("start", "service")
    /\ server' = "starting"
    /\ UNCHANGED <<late, failed, grants, content, wp, crashes>>

\* Mutant: the server is started without waiting for it.
ServiceStartedNoWait ==
    /\ DbGoto("service", "create_user")
    /\ late' = FALSE
    /\ UNCHANGED <<server, failed, grants, content, wp, crashes>>

\* service mysql start returns when the server is up, or gives up and leaves it starting.
ServiceStarted ==
    /\ DbGoto("service", "create_user")
    /\ server \in {"starting", "up"}
    /\ late' = (server # "up")
    /\ UNCHANGED <<server, failed, grants, content, wp, crashes>>

\* A statement has its effect when the server is up, finds what it needs and does not fail;
\* otherwise it has none, and the script goes on.
Execute(needs, item) ==
    LET possible == server = "up" /\ needs \subseteq grants IN
        \/ possible /\ grants' = grants \cup {item} /\ UNCHANGED failed
        \/ failed' = (failed \/ possible) /\ UNCHANGED grants

CreateUser ==
    /\ DbGoto("create_user", "create_database")
    /\ Execute({}, "user")
    /\ UNCHANGED <<server, late, content, wp, crashes>>

CreateDatabase ==
    /\ DbGoto("create_database", "grant")
    /\ Execute({}, "database")
    /\ UNCHANGED <<server, late, content, wp, crashes>>

\* GRANT creates no user. FLUSH PRIVILEGES after it changes nothing.
Grant ==
    /\ DbGoto("grant", "stop")
    /\ Execute({"user"}, "grant")
    /\ UNCHANGED <<server, late, content, wp, crashes>>

ServiceStop ==
    /\ DbGoto("stop", "exec")
    /\ server' = "down"
    /\ UNCHANGED <<late, failed, grants, content, wp, crashes>>

\* Mutant: the server detaches, so the script ends and the container restarts.
MysqldDetaches ==
    /\ DbGoto("exec", "start")
    /\ server' = "down"
    /\ UNCHANGED <<late, failed, grants, content, wp, crashes>>

Mysqld ==
    /\ DbGoto("exec", "mysqld")
    /\ server' = "starting"
    /\ UNCHANGED <<late, failed, grants, content, wp, crashes>>

ServerReady ==
    /\ server = "starting" /\ server' = "up"
    /\ UNCHANGED <<db_pc, late, failed, grants, content, wp, crashes>>

----------------------------------------------------------------------------
(* wordpress/tools/script.sh *)

\* MariaDB has finished its script, its server was in time and refused nothing.
Provided == db_pc = "mysqld" /\ server = "up" /\ ~late /\ ~failed

\* WordPress reaches its database.
Connects ==
    /\ server = "up" /\ grants = {"user", "database", "grant"}
    /\ Credentials \subseteq config

\* Mutant: the test is for the installation, not for the file.
TestSite ==
    /\ \/ WpGoto("start", "install") /\ "file" \in config /\ "tables" \notin content /\ UNCHANGED served
       \/ WpGoto("start", "fpm") /\ "tables" \in content /\ served' = TRUE
       \/ WpGoto("start", "mv") /\ "file" \notin config /\ UNCHANGED served
    /\ UNCHANGED <<db, content, config, missed, crashes>>

\* After its sleep the script looks for wp-config.php only.
TestConfig ==
    /\ \/ WpGoto("start", "mv") /\ "file" \notin config /\ UNCHANGED served
       \/ WpGoto("start", "fpm") /\ "file" \in config /\ served' = TRUE
    /\ UNCHANGED <<db, content, config, missed, crashes>>

Move ==
    /\ WpGoto("mv", "sed")
    /\ config' = {"file"}
    /\ UNCHANGED <<db, content, served, missed, crashes>>

\* The next placeholder that sed replaces.
NextPlaceholder(k) ==
    /\ Placeholders[k] \notin config
    /\ \A j \in 1..k - 1 : Placeholders[j] \in config

\* Mutant: the host of the database is left at localhost.
SedStopsEarly ==
    /\ wp_pc = "sed"
    /\ \E k \in 1..Len(Placeholders) - 1 :
          /\ NextPlaceholder(k)
          /\ config' = config \cup {Placeholders[k]}
          /\ wp_pc' = IF k = Len(Placeholders) - 1 THEN "install" ELSE "sed"
    /\ UNCHANGED <<db, content, served, missed, crashes>>

\* One sed after the other.
Sed ==
    /\ wp_pc = "sed"
    /\ \E k \in 1..Len(Placeholders) :
          /\ NextPlaceholder(k)
          /\ config' = config \cup {Placeholders[k]}
          /\ wp_pc' = IF k = Len(Placeholders) THEN "install" ELSE "sed"
    /\ UNCHANGED <<db, content, served, missed, crashes>>

\* wp core install, and wp user create, have no effect when there is no connection, or when
\* they fail for a reason of their own.
CoreInstall ==
    /\ WpGoto("install", "user_create")
    /\ \/ Connects /\ content' = content \cup {"tables"} /\ UNCHANGED missed
       \/ Connects /\ missed' = "error" /\ UNCHANGED content
       \/ /\ ~Connects /\ UNCHANGED content
          /\ missed' = IF Provided THEN missed ELSE "early"
    /\ UNCHANGED <<db, config, served, crashes>>

UserCreate ==
    /\ WpGoto("user_create", "config_set")
    /\ \/ Connects /\ "tables" \in content /\ content' = content \cup {"author"}
       \/ UNCHANGED content
    /\ UNCHANGED <<db, config, served, missed, crashes>>

\* The owner and mode of the directory change before it.
ConfigSet ==
    /\ WpGoto("config_set", "fpm")
    /\ config' = config \cup {"fs_method"}
    /\ served' = TRUE
    /\ UNCHANGED <<db, content, missed, crashes>>

----------------------------------------------------------------------------
(* Crashes: docker starts the container again, and its script from the top. *)

DbCrash ==
    /\ crashes < MaxCrashes /\ crashes' = crashes + 1
    /\ db_pc' = "start" /\ server' = "down" /\ late' = FALSE /\ failed' = FALSE
    /\ UNCHANGED <<grants, content, wp>>

WpCrash ==
    /\ crashes < MaxCrashes /\ crashes' = crashes + 1
    /\ wp_pc' = "start"
    /\ missed' = IF wp_pc \in {"sed", "install"} THEN "interrupted" ELSE missed
    /\ UNCHANGED <<db, content, config, served>>

DbScript ==
    \/ ServiceStart \/ ServiceStarted \/ CreateUser \/ CreateDatabase \/ Grant
    \/ ServiceStop \/ Mysqld

WpScript == TestConfig \/ Move \/ Sed \/ CoreInstall \/ UserCreate \/ ConfigSet

DbNext == DbScript \/ ServerReady \/ DbCrash

WpNext == WpScript \/ WpCrash

Next == DbNext \/ WpNext
=============================================================================
