------------------------------ MODULE Startup ------------------------------
(***************************************************************************)
(* Starting the program on a data directory: the server, restarted by its   *)
(* container whenever it stops by itself, and the operator's command-line   *)
(* tools, which go through the same steps beside it.  A start reads or      *)
(* makes the secret, reads which migrations are applied, backs the database *)
(* up and applies the rest, one transaction each; any process may be killed *)
(* between two steps, and what it wrote stays.                              *)
(***************************************************************************)
EXTENDS Naturals, FiniteSets

CONSTANTS
    Server, Tools,  \* the processes
    Newest,         \* the last migration there is
    \* Bounds of the model.
    MaxFaults,      \* kills and failing writes
    MaxDeploys      \* times the operator replaces the server's image

Processes == {Server} \cup Tools

\* The release that knows the migrations 1..n is called n.
Releases == 1..Newest

Absent == "absent"
Short == "short"

ASSUME StartupAssumption ==
    /\ Newest \in Nat \ {0} /\ {MaxFaults, MaxDeploys} \subseteq Nat
    /\ Server \notin Tools
    /\ {Absent, Short} \cap Processes = {}

VARIABLES
    secret,     \* the secret file: absent, cut short, or whose key it holds
    applied,    \* schema_migrations, with the schema those versions made
    backups,    \* the pre-migration and manual copies: how many versions each has
    processes,  \* where each process is
    image,      \* the release the server's container runs
    faults, deploys

vars == <<secret, applied, backups, processes, image, faults, deploys>>

Stages ==
    {"down", "secret", "generating", "writing", "listing", "copying",
     "applying", "ready"}

\* pending is what is left to apply, from and copy what the schema had when it
\* was listed and when it was copied, moved how many migrations were applied.
Process ==
    [at : Stages, release : Releases, pending : SUBSET Releases,
     from : Nat, copy : Nat, moved : Nat]

Level == Cardinality(applied)

TypeOK ==
    /\ secret \in {Absent, Short} \cup Processes
    /\ applied \subseteq Releases
    /\ backups \subseteq 0..Newest
    /\ processes \in [Processes -> Process]
    /\ \A p \in Processes :
         processes[p].at \in {"copying", "applying"} => processes[p].pending # {}
    /\ image \in Releases
    /\ faults \in 0..MaxFaults /\ deploys \in 0..MaxDeploys

At(p, stage) == processes[p].at = stage

Become(p, row) == processes' = [processes EXCEPT ![p] = row]

Go(p, stage) == Become(p, [processes[p] EXCEPT !.at = stage])

Down(release) ==
    [at |-> "down", release |-> release, pending |-> {}, from |-> 0,
     copy |-> 0, moved |-> 0]

\* The process exits; nothing it wrote is undone.
Exit(p) == Become(p, Down(processes[p].release))

StartupInit ==
    /\ secret = Absent /\ applied = {} /\ backups = {}
    /\ image \in Releases
    /\ processes = [p \in Processes |-> Down(image)]
    /\ faults = 0 /\ deploys = 0

----------------------------------------------------------------------------
(* The start of a process *)

\* The container starts the image it was given; a tool is of any release.
Start(p) ==
    /\ At(p, "down")
    /\ \E release \in Releases :
         /\ p = Server => release = image
         /\ Become(p, [Down(release) EXCEPT !.at = "secret"])
    /\ UNCHANGED <<secret, applied, backups, image, faults, deploys>>

\* Mutant: a secret is generated at every start.
ReadSecretAfresh(p) ==
    /\ At(p, "secret")
    /\ Go(p, "generating")
    /\ UNCHANGED <<secret, applied, backups, image, faults, deploys>>

\* EnsureSecret: a file that is too short is refused, a missing one made.
ReadSecret(p) ==
    /\ At(p, "secret")
    /\ CASE secret = Absent -> Go(p, "generating")
         [] secret = Short -> Exit(p)
         [] OTHER -> Go(p, "listing")
    /\ UNCHANGED <<secret, applied, backups, image, faults, deploys>>

\* os.WriteFile truncates the file, then writes the key.
TruncateSecret(p) ==
    /\ At(p, "generating")
    /\ secret' = Short
    /\ Go(p, "writing")
    /\ UNCHANGED <<applied, backups, image, faults, deploys>>

WriteSecret(p) ==
    /\ At(p, "writing")
    /\ secret' = p
    /\ Go(p, "listing")
    /\ UNCHANGED <<applied, backups, image, faults, deploys>>

----------------------------------------------------------------------------
(* Migrate *)

\* Mutant: which versions are applied is not asked.
PendingOfAll(release) == 1..release

PendingOf(release) == 1..release \ applied

\* Mutant: the early return is missing, and the last pending one is asked for.
ListMigrationsAlways(p) ==
    /\ At(p, "listing")
    /\ Become(p, [processes[p] EXCEPT
         !.at = "copying", !.pending = PendingOf(processes[p].release),
         !.from = Level])
    /\ UNCHANGED <<secret, applied, backups, image, faults, deploys>>

\* The early return when nothing is pending; otherwise a backup comes first.
ListMigrations(p) ==
    /\ At(p, "listing")
    /\ LET left == PendingOf(processes[p].release)
       IN  Become(p, [processes[p] EXCEPT
             !.at = IF left = {} THEN "ready" ELSE "copying",
             !.pending = left, !.from = Level])
    /\ UNCHANGED <<secret, applied, backups, image, faults, deploys>>

\* VACUUM INTO copies the schema of that moment.
Backup(p) ==
    /\ At(p, "copying")
    /\ backups' = backups \cup {Level}
    /\ Become(p, [processes[p] EXCEPT !.at = "applying", !.copy = Level])
    /\ UNCHANGED <<secret, applied, image, faults, deploys>>

\* Mutant: the files are taken in the order of a set, not of their versions.
IsNextOfAny(v, left) == v \in left

\* discoverMigrations sorts by version.
IsNext(v, left) == v \in left /\ \A u \in left : v <= u

\* Mutant: a version recorded in the meantime is passed over.
ApplyOnePassing(p) ==
    /\ At(p, "applying")
    /\ LET r == processes[p]
       IN  \E v \in r.pending :
             /\ IsNext(v, r.pending)
             /\ applied' = applied \cup {v}
             /\ Become(p, [r EXCEPT
                  !.at = IF r.pending = {v} THEN "ready" ELSE "applying",
                  !.pending = r.pending \ {v},
                  !.moved = IF v \in applied THEN r.moved ELSE r.moved + 1])
    /\ UNCHANGED <<secret, backups, image, faults, deploys>>

\* One migration and its version in a transaction.  Both its statements fail
\* on a schema that has the version already, and the process gives up.
ApplyOne(p) ==
    /\ At(p, "applying")
    /\ LET r == processes[p]
       IN  \E v \in r.pending :
             /\ IsNext(v, r.pending)
             /\ IF v \in applied
                THEN Exit(p) /\ UNCHANGED applied
                ELSE /\ applied' = applied \cup {v}
                     /\ Become(p, [r EXCEPT
                          !.at = IF r.pending = {v} THEN "ready" ELSE "applying",
                          !.pending = r.pending \ {v},
                          !.moved = r.moved + 1])
    /\ UNCHANGED <<secret, backups, image, faults, deploys>>

----------------------------------------------------------------------------
(* The rest of a process's life *)

\* The command of a tool may be a backup; the tool then exits.
RunBackup(p) ==
    /\ p \in Tools /\ At(p, "ready")
    /\ backups' = backups \cup {Level}
    /\ UNCHANGED <<secret, applied, processes, image, faults, deploys>>

Finish(p) ==
    /\ p \in Tools /\ At(p, "ready")
    /\ Exit(p)
    /\ UNCHANGED <<secret, applied, backups, image, faults, deploys>>

\* A kill, or a statement, a write or a listener that fails: the process ends
\* wherever it is, its transaction rolled back.
Fault(p) ==
    /\ ~At(p, "down")
    /\ faults < MaxFaults
    /\ faults' = faults + 1
    /\ Exit(p)
    /\ UNCHANGED <<secret, applied, backups, image, deploys>>

\* The operator replaces the container, by one of a newer or an older image.
\* Its process is stopped wherever it is.
Deploy ==
    /\ deploys < MaxDeploys
    /\ deploys' = deploys + 1
    /\ image' \in Releases
    /\ Exit(Server)
    /\ UNCHANGED <<secret, applied, backups, faults>>

Step(p) ==
    \/ Start(p) \/ ReadSecret(p) \/ TruncateSecret(p) \/ WriteSecret(p)
    \/ ListMigrations(p) \/ Backup(p) \/ ApplyOne(p)

Next ==
    \/ \E p \in Processes : Step(p) \/ RunBackup(p) \/ Finish(p) \/ Fault(p)
    \/ Deploy

\* The server's process runs on and is started again whenever it is down
\* (restart: unless-stopped).  Nobody has to run a tool, or to finish one.
Spec == StartupInit /\ [][Next]_vars /\ WF_vars(Step(Server))

----------------------------------------------------------------------------
(* Properties *)

\* The backup an upgrade is undone with holds the schema the upgrade found:
\* a process that has migrated anything copied exactly what it listed, even
\* if another process migrated the same database at the same time (Migrate).
BackupIsPreUpgrade ==
    \A p \in Processes :
        LET r == processes[p]
        IN  r.moved > 0 => r.copy = r.from /\ r.copy \in backups

\* Once a start has left a secret behind and nothing is running, that secret
\* stays through every restart, kill, tool and upgrade (EnsureSecret: sessions
\* and CSRF tokens stay valid across updates).
SecretSurvives ==
    \A key \in Processes :
        []((secret = key /\ \A p \in Processes : At(p, "down"))
             => [](secret = key))

\* Whatever was killed or failed on the way and whatever tools migrated beside
\* it, the server comes up and stays up, unless the first start was killed
\* while it wrote the secret (the file is then refused at every start).
ServerComesUp == <>[](At(Server, "ready")) \/ <>[](secret = Short)

----------------------------------------------------------------------------
(* The refinement *)

Running ==
    [p \in Processes |-> IF At(p, "ready") THEN processes[p].release ELSE 0]

Directory == INSTANCE Upgrade WITH copies <- backups, running <- Running

\* Start-ups implement Upgrade: versions in order, each once, none lost, never
\* without a copy; nothing runs on a schema older than it is.
ImplementsUpgrade == Directory!UpgradeSpec
=============================================================================
