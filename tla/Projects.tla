------------------------------- MODULE Projects -------------------------------
(***************************************************************************)
(* Projects, jobs and builds: the directories below the projects'          *)
(* directory (module FsCache), the rows that the database has of projects, *)
(* and the handlers through which websockets see and change them.          *)
(*                                                                         *)
(* A handler is atomic.  Whether its user may do what it asks is left open *)
(* (module Accounts), but check_project_right, unlike get_path_rights of   *)
(* an admin, gives nobody a right in a project without a row.  A refused   *)
(* handler has looked the path up, which is a step of its own here.        *)
(* Others change the directories as well: uploads, and cis core, whose     *)
(* builds are directories of a job.                                        *)
(***************************************************************************)
EXTENDS FsCache

CONSTANTS
    Conf,         \* the name job.conf
    BuildNames    \* the names that build_mask matches

ASSUME ProjectsAssumption == BuildNames \subseteq Nat /\ Conf \in Nat \ BuildNames

VARIABLES
    rows,         \* the row of each project: "none", "live" or "deleted"
    running,      \* the jobs that a start_job of this program runs
    hung,         \* load_job_conf reads a file that cannot be opened, for ever
    moved         \* whether a directory has been moved since the start

vars == <<disk, cache, rows, running, hung, moved>>

ProjectPaths == {x \in Tree : Len(x) = 1}

ConfOf(j) == Append(j, Conf)

(* Where jobs are made: a directory that is there may or may not be one. *)
JobPaths == {x \in Tree : Len(x) = 2 /\ ConfOf(x) \in Tree}

BuildPaths == {x \in Tree : Len(x) = 3 /\ Last(x) \in BuildNames}

HasRow(p) == rows[p] # "none"

Ready == ~hung

-----------------------------------------------------------------------------
(* What is looked up, and what becomes of the cache. *)

(* cis_manager::get_project_info *)
GetProject(c, d, p) ==
    LET project(f) == [cache |-> f.cache, ok |-> f.ok /\ IsDirectory(f.cache, p)]
    IN  project(Find(c, d, p))

NotFound(c) == [cache |-> c, ok |-> FALSE, hangs |-> FALSE]

(* load_job_conf reads lines until the end of the file, which a file that  *)
(* was not opened never comes to.  A job.conf that is there is taken to be *)
(* valid.                                                                  *)
LoadJobConf(c, d, j) ==
    [cache |-> c, ok |-> ConfOf(j) \in d, hangs |-> ConfOf(j) \notin d]

(* variant: a job is read without asking whether it has a job.conf *)
LookAtNoConf(c, d, j) == LoadJobConf(c, d, j)

(* job::is_entry: job.conf is looked for in the cache. *)
LookAtJob(c, d, j) ==
    LET job(e) == IF e.ok THEN LoadJobConf(e.cache, d, j) ELSE NotFound(e.cache)
    IN  IF IsDirectory(c, j) /\ ConfOf(j) \in Tree THEN job(Entry(c, d, j, ConfOf(j)))
        ELSE NotFound(c)

(* project::get_job_info *)
JobOf(c, d, j) ==
    LET job(e) == IF e.ok THEN LookAtJob(e.cache, d, j) ELSE NotFound(e.cache)
    IN  job(Entry(c, d, Parent(j), j))

(* cis_manager::get_job_info *)
GetJob(c, d, j) ==
    LET job(g) == IF g.ok THEN JobOf(g.cache, d, j) ELSE NotFound(g.cache)
    IN  job(GetProject(c, d, Parent(j)))

(* build::is_entry *)
IsBuild(b) == b \in BuildPaths \cap Dirs

(* job::get_build_info *)
BuildOf(c, d, b) ==
    LET build(e) == [cache |-> e.cache, ok |-> e.ok /\ IsBuild(b), hangs |-> FALSE]
    IN  build(Entry(c, d, Parent(b), b))

(* cis_manager::get_build_info *)
GetBuild(c, d, b) ==
    LET build(g) == IF g.ok THEN BuildOf(g.cache, d, b) ELSE g
    IN  build(GetJob(c, d, Parent(b)))

(* project::get_job_list: every directory is looked at. *)
LookAtJobs(c, d, p) ==
    LET jobs == SetToSeq(Listed(c, d, p) \cap Dirs)
        look[i \in 0 .. Len(jobs)] ==
            IF i = 0 THEN [cache |-> AfterListing(c, d, p), hangs |-> FALSE]
            ELSE LET l == LookAtJob(look[i - 1].cache, d, jobs[i])
                 IN  [cache |-> l.cache, hangs |-> look[i - 1].hangs \/ l.hangs]
    IN  look[Len(jobs)]

(* The cache after a handler that only reads. *)
Looked(c) == cache' = c /\ UNCHANGED <<disk, rows, running, moved>>

(* The end of a handler that found its job: if reading job.conf never      *)
(* ends, what it went on to do has not happened.                           *)
Hangs(g) == g.hangs /\ hung' = TRUE /\ Looked(g.cache)

Goes(g) == g.ok /\ ~g.hangs /\ UNCHANGED hung

-----------------------------------------------------------------------------
(* The program starts. *)

(* refresh_projects *)
RowsAsFound(d) ==
    [p \in ProjectPaths |->
        IF p \in d \cap Dirs THEN "live" ELSE IF rows[p] = "none" THEN "none" ELSE "deleted"]

EmptyCache == [x \in Nodes |-> IF x = Root THEN InitNode ELSE NoNode]

(* cis_manager::cis_manager, after the program ended or was stopped. *)
Restart ==
    /\ cache' = Update(EmptyCache, disk, Root)
    /\ rows' = RowsAsFound(disk)
    /\ running' = {}
    /\ hung' = FALSE
    /\ moved' = FALSE
    /\ UNCHANGED disk

-----------------------------------------------------------------------------
(* Handlers that look. *)

list_projects ==
    /\ Ready
    /\ Looked(Update(cache, disk, Root))
    /\ UNCHANGED hung

get_project_info(p) ==
    /\ Ready
    /\ LET g == GetProject(cache, disk, p)
           l == LookAtJobs(g.cache, disk, p)
       IN  \/ Looked(g.cache) /\ UNCHANGED hung
           \/ g.ok /\ HasRow(p) /\ Looked(l.cache) /\ hung' = l.hangs

get_job_info(j) ==
    /\ Ready
    /\ LET g == GetJob(cache, disk, j)
       IN  Hangs(g) \/ (~g.hangs /\ Looked(g.cache) /\ UNCHANGED hung)

get_build_info(b) ==
    /\ Ready
    /\ LET g == GetBuild(cache, disk, b)
       IN  Hangs(g) \/ (~g.hangs /\ Looked(g.cache) /\ UNCHANGED hung)

get_fs_entry_info(x) ==
    /\ Ready
    /\ Looked(Find(cache, disk, x).cache)
    /\ UNCHANGED hung

(* The permissions themselves are not followed. *)
set_fs_entry_executable_flag(x) == get_fs_entry_info(x)

list_directory(x) ==
    /\ Ready
    /\ LET f == Find(cache, disk, x) IN f.ok /\ Looked(AfterListing(f.cache, disk, x))
    /\ UNCHANGED hung

(* cis_manager::refresh: what is fresh is not read again. *)
RefreshFound(c, x) == IF Level(x) > 0 THEN Update(c, disk, x) ELSE c

refresh_fs_entry(x) ==
    /\ Ready
    /\ LET f == Find(cache, disk, x) IN f.ok /\ Looked(RefreshFound(f.cache, x))
    /\ UNCHANGED hung

-----------------------------------------------------------------------------
(* Handlers that change. *)

(* cis_manager::remove, and it.remove() of what Find or find returned. *)
RemoveFound(c, x) ==
    /\ \E left \in Leftovers(disk, x) : disk' = disk \ (Subtree(disk, x) \ left)
    /\ cache' = IF Level(x) > 0 THEN Forget(c, x) ELSE c

(* variant: the parent is not told *)
CreatedUntold(c, d, x) == c

Created(c, d, x) == CreatedIn(c, d, x)

(* The directory is made, then the row, which may fail: the error is       *)
(* answered, the directory is left.                                        *)
create_project(c, p) ==
    /\ disk' = WithParents(disk, p)
    /\ cache' = Created(c, disk, p)
    /\ rows' \in {rows, [rows EXCEPT ![p] = "live"]}

add_cis_project(p) ==
    /\ Ready
    /\ LET g == GetProject(cache, disk, p) IN ~g.ok /\ create_project(g.cache, p)
    /\ UNCHANGED <<running, hung, moved>>

(* The other way round, likewise. *)
remove_project(c, p) ==
    /\ RemoveFound(Modified(c, Root), p)
    /\ rows' \in {rows, [rows EXCEPT ![p] = "deleted"]}

remove_cis_project(p) ==
    /\ Ready
    /\ HasRow(p)
    /\ LET g == GetProject(cache, disk, p) IN g.ok /\ remove_project(g.cache, p)
    /\ UNCHANGED <<running, hung, moved>>

(* The directory, script and job.params, job.conf: after an error what has *)
(* been made stays.                                                        *)
add_cis_job(j) ==
    /\ Ready
    /\ HasRow(Parent(j))
    /\ LET g == GetProject(cache, disk, Parent(j))
           f == Find(g.cache, disk, j)
           made == WithParents(disk, j)
           c1 == Created(f.cache, disk, j)
           c2 == FileCreated(c1, made, ConfOf(j))
       IN  /\ g.ok /\ ~f.ok
           /\ \/ disk' = made /\ cache' = c1
              \/ disk' \in {made, made \cup {ConfOf(j)}} /\ cache' = c2
    /\ UNCHANGED <<rows, running, hung, moved>>

(* With the rights of the project, which has a row. *)
remove_cis_job(j) ==
    /\ Ready
    /\ HasRow(Parent(j))
    /\ LET g == GetJob(cache, disk, j)
           f == Find(g.cache, disk, j)
       IN  Goes(g) /\ f.ok /\ RemoveFound(f.cache, j)
    /\ UNCHANGED <<rows, running, moved>>

remove_cis_build(b) ==
    /\ Ready
    /\ HasRow(Parent(Parent(b)))
    /\ LET g == GetBuild(cache, disk, b)
           f == Find(g.cache, disk, b)
       IN  Goes(g) /\ f.ok /\ RemoveFound(f.cache, b)
    /\ UNCHANGED <<rows, running, moved>>

(* The row of a project is not asked for by the handlers of entries.       *)
(* create_directory of a path that is there does no harm.                  *)
new_directory(x) ==
    /\ Ready
    /\ x \in Dirs
    /\ disk' = WithParents(disk, x)
    /\ cache' = Created(cache, disk, x)
    /\ UNCHANGED <<rows, running, hung, moved>>

remove_fs_entry(x) ==
    /\ Ready
    /\ LET f == Find(cache, disk, x) IN f.ok /\ RemoveFound(f.cache, x)
    /\ UNCHANGED <<rows, running, hung, moved>>

move_fs_entry(old, new) ==
    /\ Ready
    /\ disk' \in Renamed(disk, old, new)
    /\ cache' = Moved(cache, disk', old, new)
    /\ moved' = (moved \/ old \in Dirs \/ new \in Dirs)
    /\ UNCHANGED <<rows, running, hung>>

-----------------------------------------------------------------------------
(* Running a job (module JobRun). *)

(* The handler and cis_manager::run_job both look the job up. *)
run_job(j) ==
    /\ Ready
    /\ HasRow(Parent(j))
    /\ LET g == GetJob(cache, disk, j) IN Goes(g) /\ cache' = g.cache
    /\ running' = running \cup {j}
    /\ UNCHANGED <<disk, rows, moved>>

(* cis core has written the number of the session. *)
Started(j) ==
    /\ Ready
    /\ j \in running
    /\ Looked(Invalidate(cache, disk, j))
    /\ UNCHANGED hung

(* The process has ended. *)
Finished(j) ==
    /\ Ready
    /\ j \in running
    /\ LET g == GetJob(cache, disk, j)
       IN  \/ Hangs(g)
           \/ /\ ~g.hangs
              /\ cache' = IF g.ok THEN Modified(g.cache, j) ELSE g.cache
              /\ running' = running \ {j}
              /\ UNCHANGED <<disk, rows, hung, moved>>

(* The handler and the manager look the job up; what cis core then writes  *)
(* into its table of times is not followed.                                *)
add_cis_cron(j) ==
    /\ Ready
    /\ HasRow(Parent(j))
    /\ LET g == GetJob(cache, disk, j)
           again == GetJob(g.cache, disk, j)
       IN  Goes(g) /\ Looked(again.cache)

(* So the times of a job that has been removed can not be taken out.       *)
remove_cis_cron(j) == add_cis_cron(j)

-----------------------------------------------------------------------------
(* Others. *)

Elsewhere == UNCHANGED <<cache, rows, running, hung, moved>>

(* cis core makes the directory of a build of a running job, and removes   *)
(* old ones.                                                               *)
BuildBegins(b) ==
    /\ Parent(b) \in running \cap disk
    /\ disk' = disk \cup {b}
    /\ Elsewhere

BuildDropped(b) ==
    /\ Parent(b) \in running
    /\ b \in disk
    /\ disk' = disk \ Subtree(disk, b)
    /\ Elsewhere

(* An upload (module Multipart) writes into a directory, and the cache is  *)
(* not told.                                                               *)
Uploaded(x) ==
    /\ Ready
    /\ x \notin Dirs
    /\ Parent(x) \in disk
    /\ disk' = disk \cup {x}
    /\ Elsewhere

(* Five seconds pass since a node was read, sooner or later for each.  The *)
(* age of one that keeps nothing below it is not followed.                 *)
Ages(x) ==
    /\ Known(cache, x) /\ Cached(x)
    /\ cache' = [cache EXCEPT ![x].old = TRUE]
    /\ UNCHANGED <<disk, rows, running, hung, moved>>

-----------------------------------------------------------------------------
Init ==
    /\ disk = {}
    /\ rows = [p \in ProjectPaths |-> "none"]
    /\ cache = Update(EmptyCache, disk, Root)
    /\ running = {}
    /\ hung = FALSE
    /\ moved = FALSE

OfPath(x) ==
    \/ get_fs_entry_info(x) \/ set_fs_entry_executable_flag(x)
    \/ list_directory(x) \/ refresh_fs_entry(x)
    \/ new_directory(x) \/ remove_fs_entry(x) \/ Uploaded(x)
    \/ \E y \in Tree \cup Away : move_fs_entry(x, y)
    \/ \E y \in Away : move_fs_entry(y, x)

OfProject(p) == get_project_info(p) \/ add_cis_project(p) \/ remove_cis_project(p)

OfJob(j) ==
    \/ get_job_info(j) \/ add_cis_job(j) \/ remove_cis_job(j)
    \/ run_job(j) \/ Started(j) \/ Finished(j)
    \/ add_cis_cron(j) \/ remove_cis_cron(j)

OfBuild(b) == get_build_info(b) \/ remove_cis_build(b) \/ BuildBegins(b) \/ BuildDropped(b)

Next ==
    \/ Restart
    \/ list_projects
    \/ \E p \in ProjectPaths : OfProject(p)
    \/ \E j \in JobPaths : OfJob(j)
    \/ \E b \in BuildPaths : OfBuild(b)
    \/ \E x \in Tree : OfPath(x)
    \/ \E x \in Nodes : Ages(x)

Spec == Init /\ [][Next]_vars

-----------------------------------------------------------------------------
(* Properties *)

(* The type of every variable. *)
TypeOK ==
    /\ FsTypeOK
    /\ rows \in [ProjectPaths -> {"none", "live", "deleted"}]
    /\ running \subseteq JobPaths
    /\ hung \in BOOLEAN
    /\ moved \in BOOLEAN

AllOld(x) == \A y \in Nodes : IsPrefix(y, x) => cache[y].old \/ cache[y].state = "none"

(* When everything on the way to a path has aged, it is found exactly if   *)
(* it exists, whatever was removed, moved, and made again in between.      *)
AgedIsExact ==
    \A x \in Tree : AllOld(Parent(x)) => (Find(cache, disk, x).ok <=> x \in disk)

(* A listing of its directory, if that is found, shows an entry if it      *)
(* exists, and one that does not only if it is overlooked; list_projects   *)
(* may show a project that was removed as any other entry.                 *)
ShownRight(c, d, x) ==
    LET f == Find(c, d, Parent(x))
        listed == Listed(f.cache, d, Parent(x))
    IN  /\ f.ok => /\ x \in d => x \in listed
                   /\ x \in listed \ d => Overlooked(AfterListing(f.cache, d, Parent(x)), Parent(x), x)
        /\ Parent(x) = Root =>
              \/ x \in RootListed(c, d) <=> x \in d
              \/ remove_fs_entry(x)

Changed == (disk \ disk') \cup (disk' \ disk)

(* The cache is not told by others. *)
ByOthers(x) == Uploaded(x) \/ BuildBegins(x) \/ BuildDropped(x)

(* Made on the way to another directory, or moved with one: only the       *)
(* parent of that is told, and only if it is found.                        *)
AlongWith(x) ==
    \/ Parent(x) \in Changed
    \/ \E y \in Below[x] : new_directory(y)
    \/ \E y, z \in Tree \cup Away : IsStrictPrefix(z, x) /\ move_fs_entry(y, z)

(* What this program itself makes or moves is listed so at once, whatever  *)
(* the cache had read before.  So is what it removes, unless it is the     *)
(* second node of its directory and the first one is deleted as well.      *)
OwnChangesSeen ==
    [][\A x \in Changed : ShownRight(cache', disk', x) \/ ByOthers(x) \/ AlongWith(x)]_vars

(* load_job_conf is given a path that a look into the cache says exists.   *)
(* Only a directory that was moved, and is still found where it was, makes *)
(* it wait for ever for the end of a file that is not there.               *)
HangsOnlyAfterMove == hung => moved
==============================================================================
