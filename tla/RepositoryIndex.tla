--------------------------- MODULE RepositoryIndex ---------------------------
(***************************************************************************)
(* Indexing of a source repository: index_repository and the durable jobs, *)
(* snapshots and current pointer of SQLiteRepositoryIndexStore.            *)
(*                                                                         *)
(* A request probes the tree (metadata only), opens or resumes the job of  *)
(* that state, reads its files one by one, saves them in batches and, once *)
(* every candidate is saved and a second probe sees the same state,        *)
(* publishes the snapshot.  The tree is edited meanwhile, requests overlap *)
(* and the process may die between any two steps.                          *)
(*                                                                         *)
(* A state of the tree gives each file a version, Absent when there is no  *)
(* file.  An edit makes a version never seen before, as a new mtime_ns     *)
(* does, so an old state recurs only when added files are removed again.   *)
(* A job is keyed by its state, a snapshot by the state of its job.        *)
(***************************************************************************)
EXTENDS Naturals, FiniteSets

CONSTANTS
    Files,         \* paths, numbered in the order the index visits them
    Present,       \* the files that are there at first
    Runners,       \* callers of index_repository
    BatchSize,     \* limits.batch_size
    None,
    MaxEvents      \* bound on the edits of the tree and crashes of the process

ASSUME IndexAssumption ==
    /\ Files \subseteq Nat /\ IsFiniteSet(Files) /\ Present \subseteq Files
    /\ BatchSize \in Nat \ {0}
    /\ MaxEvents \in Nat

VARIABLES
    tree,          \* version of every file on disk
    jobs,          \* repository_index_jobs and their file rows, by state
    current,       \* repository_index_current
    run,           \* where each caller is
    shared,        \* history: states two callers have worked on at once
    events         \* edits and crashes so far

indexVars == <<tree, jobs, current, run, shared, events>>

Absent == 0

Versions == 0 .. MaxEvents + 1

States == [Files -> Versions]

NoFiles == [f \in Files |-> Absent]

Idle == [at |-> "idle", state |-> NoFiles, prev |-> None,
         todo |-> {}, batch |-> NoFiles]

IndexInit ==
    /\ tree = [f \in Files |-> IF f \in Present THEN 1 ELSE Absent]
    /\ jobs = [s \in {} |-> None]
    /\ current = None
    /\ run = [p \in Runners |-> Idle]
    /\ shared = {}
    /\ events = 0

Candidates(s) == {f \in Files : s[f] # Absent}

\* processed_paths: the files of the job that have a row.
Processed(s) == {f \in Files : jobs[s].rows[f] # Absent}

First(todo) == CHOOSE f \in todo : \A g \in todo : f <= g

GoTo(p, at) == run' = [run EXCEPT ![p].at = at]

Drop(p) == run' = [run EXCEPT ![p] = Idle]

--------------------------------------------------------------------------------
\* index_repository, transaction by transaction.

\* The metadata of the tree, and the snapshot whose rows may be reused.
Probe(p) ==
    /\ run[p].at = "idle"
    /\ run' = [run EXCEPT ![p] =
                [Idle EXCEPT !.at = "begin", !.state = tree, !.prev = current]]
    /\ UNCHANGED <<tree, jobs, current, shared, events>>

\* A slice is a nonempty prefix of the pending files in path order
\* (max_files_per_run); with nothing pending only the publication is left.
Select(p, pending) ==
    IF pending = {} THEN GoTo(p, "probe")
    ELSE \E last \in pending :
            run' = [run EXCEPT ![p].at = "next",
                               ![p].todo = {f \in pending : f <= last}]

\* Callers in the middle of the job of s.
Others(p, s) ==
    {q \in Runners \ {p} :
        run[q].state = s /\ run[q].at \in {"next", "read", "save", "probe", "publish", "fail"}}

\* begin_or_resume_job: a completed job is reused as it is, an unfinished one
\* keeps its rows and is running again, whoever else may be working on it.
BeginNew(p) ==
    LET s == run[p].state IN
    /\ run[p].at = "begin"
    /\ s \notin DOMAIN jobs
    /\ jobs' = [t \in DOMAIN jobs \cup {s} |->
                   IF t = s THEN [status |-> "running", rows |-> NoFiles] ELSE jobs[t]]
    /\ Select(p, Candidates(s))
    /\ UNCHANGED <<tree, current, shared, events>>

BeginResumed(p) ==
    LET s == run[p].state IN
    /\ run[p].at = "begin"
    /\ s \in DOMAIN jobs
    /\ jobs[s].status # "completed"
    /\ jobs' = [jobs EXCEPT ![s].status = "running"]
    /\ Select(p, Candidates(s) \ Processed(s))
    /\ shared' = IF Others(p, s) = {} THEN shared ELSE shared \cup {s}
    /\ UNCHANGED <<tree, current, events>>

BeginCompleted(p) ==
    LET s == run[p].state IN
    /\ run[p].at = "begin"
    /\ s \in DOMAIN jobs
    /\ jobs[s].status = "completed"
    /\ GoTo(p, "promote")
    /\ UNCHANGED <<tree, jobs, current, shared, events>>

\* The pointer is repaired to the snapshot of the reused job.  Planted bug:
\* the snapshot is reported and the pointer left where it is.
KeepPointer(s) == current' = current
MovePointer(s) == current' = s

Promote(p) ==
    /\ run[p].at = "promote"
    /\ MovePointer(run[p].state)
    /\ Drop(p)
    /\ UNCHANGED <<tree, jobs, shared, events>>

AfterFile(p, f, content) ==
    LET todo  == run[p].todo \ {f}
        batch == [run[p].batch EXCEPT ![f] = content]
        full  == Cardinality(Candidates(batch)) >= BatchSize
    IN  run' = [run EXCEPT ![p].todo = todo,
                           ![p].batch = batch,
                           ![p].at = IF full \/ todo = {} THEN "save" ELSE "next"]

\* A tracked file that git reports clean and whose metadata is that of the
\* previous snapshot is not read again.
Reuse(p) ==
    LET f == First(run[p].todo) IN
    /\ run[p].at = "next"
    /\ run[p].prev # None
    /\ run[p].prev[f] = run[p].state[f]
    /\ AfterFile(p, f, jobs[run[p].prev].rows[f])
    /\ UNCHANGED <<tree, jobs, current, shared, events>>

\* _read_candidate: first the metadata, then the bytes.
Stat(p) ==
    LET f == First(run[p].todo) IN
    /\ run[p].at = "next"
    /\ GoTo(p, IF tree[f] = run[p].state[f] THEN "read" ELSE "fail")
    /\ UNCHANGED <<tree, jobs, current, shared, events>>

Read(p) ==
    LET f == First(run[p].todo) IN
    /\ run[p].at = "read"
    /\ IF tree[f] = Absent THEN GoTo(p, "fail") ELSE AfterFile(p, f, tree[f])
    /\ UNCHANGED <<tree, jobs, current, shared, events>>

\* Planted bug: save_batch writes whatever the status of the job is.
WritableAlways(s) == TRUE
Writable(s) == jobs[s].status = "running"

Merged(rows, batch) ==
    [f \in Files |-> IF batch[f] # Absent THEN batch[f] ELSE rows[f]]

\* Planted bug: the end of the slice is the end of the job.
CountedAlways(s, rows) == TRUE
Counted(s, rows) == Candidates(s) \subseteq Candidates(rows)

\* save_batch; the slice ends here unless every candidate has its row.
SaveBatch(p) ==
    LET s    == run[p].state
        rows == Merged(jobs[s].rows, run[p].batch)
    IN
    /\ run[p].at = "save"
    /\ Writable(s)
    /\ jobs' = [jobs EXCEPT ![s].rows = rows]
    /\ CASE run[p].todo # {} ->
                run' = [run EXCEPT ![p].at = "next", ![p].batch = NoFiles]
         [] run[p].todo = {} /\ Counted(s, rows) ->
                run' = [run EXCEPT ![p].at = "probe", ![p].batch = NoFiles]
         [] OTHER -> Drop(p)
    /\ UNCHANGED <<tree, current, shared, events>>

SaveRefused(p) ==
    /\ run[p].at = "save"
    /\ ~Writable(run[p].state)
    /\ GoTo(p, "fail")
    /\ UNCHANGED <<tree, jobs, current, shared, events>>

\* The second probe.  Planted bug: publication without it.
SameAlways(s) == TRUE
SameState(s) == tree = s

ProbeAgain(p) ==
    /\ run[p].at = "probe"
    /\ GoTo(p, IF SameState(run[p].state) THEN "publish" ELSE "fail")
    /\ UNCHANGED <<tree, jobs, current, shared, events>>

\* finalize_job: one transaction completes the job and moves the pointer; a
\* job that another caller completed is returned and the pointer stays.
Publish(p) ==
    LET s == run[p].state IN
    /\ run[p].at = "publish"
    /\ jobs[s].status # "completed"
    /\ jobs' = [jobs EXCEPT ![s].status = "completed"]
    /\ current' = s
    /\ Drop(p)
    /\ UNCHANGED <<tree, shared, events>>

PublishedAlready(p) ==
    /\ run[p].at = "publish"
    /\ jobs[run[p].state].status = "completed"
    /\ Drop(p)
    /\ UNCHANGED <<tree, jobs, current, shared, events>>

\* mark_failed, and the error goes to the caller.  Planted bug: the job fails
\* whatever its status is.
FailsAlways(s) == TRUE
Fails(s) == jobs[s].status = "running"

MarkFailed(p) ==
    LET s == run[p].state IN
    /\ run[p].at = "fail"
    /\ IF Fails(s)
          THEN jobs' = [jobs EXCEPT ![s].status = "failed"]
          ELSE UNCHANGED jobs
    /\ Drop(p)
    /\ UNCHANGED <<tree, current, shared, events>>

--------------------------------------------------------------------------------
\* What happens around the callers.

Edit(f) ==
    /\ events < MaxEvents
    /\ events' = events + 1
    /\ \/ tree' = [tree EXCEPT ![f] = events + 2]
       \/ tree[f] # Absent /\ tree' = [tree EXCEPT ![f] = Absent]
    /\ UNCHANGED <<jobs, current, run, shared>>

\* The process dies: its callers are gone and their jobs stay "running".
Crash ==
    /\ events < MaxEvents
    /\ events' = events + 1
    /\ run' = [p \in Runners |-> Idle]
    /\ UNCHANGED <<tree, jobs, current, shared>>

\* apply_stale_job_disposition: with the service stopped, an operator fails the
\* jobs left running, all of them or none: each is of another state of the tree
\* and has saved nothing.
Stale == {s \in DOMAIN jobs : jobs[s].status = "running"}

DisposeStale ==
    /\ \A p \in Runners : run[p].at = "idle"
    /\ Stale # {}
    /\ \A s \in Stale : s # tree /\ Processed(s) = {}
    /\ jobs' = [s \in DOMAIN jobs |->
                   IF s \in Stale THEN [jobs[s] EXCEPT !.status = "failed"] ELSE jobs[s]]
    /\ UNCHANGED <<tree, current, run, shared, events>>

CallerStep(p) ==
    \/ Probe(p) \/ BeginNew(p) \/ BeginResumed(p) \/ BeginCompleted(p)
    \/ Promote(p) \/ Reuse(p) \/ Stat(p) \/ Read(p)
    \/ SaveBatch(p) \/ SaveRefused(p)
    \/ ProbeAgain(p) \/ Publish(p) \/ PublishedAlready(p) \/ MarkFailed(p)

IndexNext ==
    \/ \E p \in Runners : CallerStep(p)
    \/ \E f \in Files : Edit(f)
    \/ Crash
    \/ DisposeStale

IndexSpec == IndexInit /\ [][IndexNext]_indexVars

\* Callers keep coming (the watcher polls, a client continues its slices), each
\* goes on, and two callers do not refuse each other's batches for ever.
IndexFairSpec ==
    /\ IndexSpec
    /\ \A p \in Runners : WF_indexVars(CallerStep(p)) /\ SF_indexVars(SaveBatch(p))

--------------------------------------------------------------------------------
\* Properties of the index.

\* The durable state and every caller are well-formed: a job has a row only for
\* a candidate of its state, and a caller about to publish has a row for each.
IndexTypeOK ==
    /\ tree \in States
    /\ DOMAIN jobs \subseteq States
    /\ \A s \in DOMAIN jobs :
        /\ jobs[s] \in [status : {"running", "failed", "completed"}, rows : States]
        /\ Processed(s) \subseteq Candidates(s)
    /\ current \in DOMAIN jobs \cup {None}
    /\ \A p \in Runners :
        /\ run[p].todo \subseteq Candidates(run[p].state)
        /\ run[p].at \in {"next", "read"} => run[p].todo # {}
        /\ run[p].at \notin {"idle", "begin"} => run[p].state \in DOMAIN jobs
        /\ run[p].at \in {"probe", "publish"} =>
                Candidates(run[p].state) \subseteq Processed(run[p].state)
    /\ shared \subseteq DOMAIN jobs
    /\ events \in 0 .. MaxEvents

\* What is published is what was there: the current snapshot belongs to a
\* completed job, and the rows of a completed job hold, for every candidate, the
\* content of the version its state names, whatever was edited between the stat
\* and the read of a file, reused or resumed after a crash; two callers on one
\* job may get a later version into it, never an earlier one or a missing row.
SnapshotFaithful ==
    /\ current # None => jobs[current].status = "completed"
    /\ \A s \in DOMAIN jobs : jobs[s].status = "completed" =>
        /\ \A f \in Candidates(s) : jobs[s].rows[f] >= s[f]
        /\ s \notin shared => jobs[s].rows = s

\* A completed job is never written again: neither a caller still reading for it,
\* nor one that fails after another has completed it, touches it.
CompletedJobsImmutable ==
    [][\A s \in DOMAIN jobs :
        jobs[s].status = "completed" => s \in DOMAIN jobs' /\ jobs'[s] = jobs[s]]_indexVars

\* Once the tree is left alone and callers keep coming, the pointer ends at the
\* snapshot of the tree, also when a slow caller has moved it back meanwhile.
IndexCatchesUp == <>[](current = tree)

================================================================================
